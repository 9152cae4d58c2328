----------------------------- MODULE ProofFacts -----------------------------
(***************************************************************************)
(* What the proofs need of data: a set of natural numbers has a least      *)
(* member, induction over a set of them, a function defined by recursion   *)
(* to smaller numbers exists, and what inserting into a sequence and       *)
(* removing from it yield.                                                 *)
(***************************************************************************)
EXTENDS WellFoundedInduction, SequenceTheorems, Integers, SequencesExt, TLAPS

-----------------------------------------------------------------------------
(* Natural numbers *)

LEMMA LessIsWellFounded == IsWellFoundedOn({ss \in Nat \X Nat : ss[1] < ss[2]}, Nat)
BY NatLessThanWellFounded DEF OpToRel

\* A set of natural numbers has a least one.
LEMMA LeastNatural ==
    ASSUME NEW T, T \subseteq Nat, T # {}
    PROVE  \E n \in T : \A m \in T : n <= m
<1> DEFINE Less == {ss \in Nat \X Nat : ss[1] < ss[2]}
<1>1. PICK x \in T : \A y \in T : ~ (<<y, x>> \in Less)
    <2> HIDE DEF Less
    <2>1. IsWellFoundedOn(Less, Nat)
        BY LessIsWellFounded DEF Less
    <2>2. QED BY <2>1, WFMin
<1>2. ASSUME NEW y \in T PROVE x <= y
    <2>1. x \in Nat /\ y \in Nat /\ ~ (<<y, x>> \in Less)
        BY <1>1
    <2>2. <<y, x>> \in Nat \X Nat
        BY <2>1
    <2>3. ~ (y < x)
        BY <2>1, <2>2
    <2>4. QED BY <2>1, <2>3
<1>3. QED BY <1>2

\* What holds of a number if it holds of the smaller ones (those of a set) holds of all.
LEMMA SmallerFirst ==
    ASSUME NEW D, D \subseteq Nat, NEW S,
           ASSUME NEW n \in D, \A m \in D : m < n => m \in S PROVE n \in S
    PROVE  D \subseteq S
<1> DEFINE T == D \ S
<1>1. SUFFICES ASSUME T # {} PROVE FALSE
    OBVIOUS
<1>2. PICK n \in T : \A m \in T : n <= m
    <2>1. T \subseteq Nat
        OBVIOUS
    <2> HIDE DEF T
    <2>2. QED BY <1>1, <2>1, LeastNatural
<1>3. \A m \in D : m < n => m \in S
    <2> SUFFICES ASSUME NEW m \in D, m < n, m \notin S PROVE FALSE
        OBVIOUS
    <2>1. n <= m /\ m \in Nat /\ n \in Nat
        BY <1>2
    <2>2. QED BY <2>1
<1>4. QED BY <1>2, <1>3

\* Induction from one number to the next, up to a bound.
LEMMA OneMore ==
    ASSUME NEW k \in Nat, NEW S, 0 \in S, \A n \in Nat : n < k /\ n \in S => n + 1 \in S
    PROVE  0 .. k \subseteq S
<1>1. ASSUME NEW n \in 0 .. k, \A m \in 0 .. k : m < n => m \in S PROVE n \in S
    <2>1. CASE n = 0
        BY <2>1
    <2>2. CASE n # 0
        <3>1. n - 1 \in 0 .. k /\ n - 1 < n /\ n - 1 \in Nat /\ n - 1 < k /\ (n - 1) + 1 = n
            BY <2>2
        <3>2. n - 1 \in S
            BY <1>1, <3>1
        <3>3. QED BY <3>1, <3>2
    <2>3. QED BY <2>1, <2>2
<1>2. PICK D : D = 0 .. k
    OBVIOUS
<1>3. D \subseteq Nat /\ \A n \in D : (\A m \in D : m < n => m \in S) => n \in S
    BY <1>1, <1>2
<1>4. D \subseteq S
    BY <1>3, SmallerFirst
<1>5. QED BY <1>2, <1>4

\* A value that is replaced step by step is a function of the number of steps.
Iterates(f, k, V, v0, next) ==
    /\ f \in [0 .. k -> V] /\ f[0] = v0
    /\ \A i \in 1 .. k : f[i] = next[<<f[i - 1], i>>]

LEMMA IterationExists ==
    ASSUME NEW k \in Nat, NEW V, NEW v0 \in V, NEW next \in [V \X (1 .. k) -> V]
    PROVE  \E f : Iterates(f, k, V, v0, next)
<1> DEFINE Upto(f, n) == f \in [0 .. n -> V] /\ f[0] = v0
                         /\ \A i \in 1 .. n : f[i] = next[<<f[i - 1], i>>]
           S == {n \in Nat : n <= k => \E f : Upto(f, n)}
<1>1. 0 \in S
    <2>1. PICK f : f = [i \in 0 .. 0 |-> v0]
        OBVIOUS
    <2>2. Upto(f, 0)
        BY <2>1
    <2>3. QED BY <2>2
<1>2. ASSUME NEW n \in Nat, n < k, n \in S PROVE n + 1 \in S
    <2>1. PICK f : Upto(f, n)
        BY <1>2
    <2>2. PICK v \in V : v = next[<<f[n], n + 1>>]
        <3>1. f[n] \in V /\ n + 1 \in 1 .. k
            BY <1>2, <2>1
        <3>2. QED BY <3>1
    <2>3. PICK g : g = [i \in 0 .. n + 1 |-> IF i = n + 1 THEN v ELSE f[i]]
        OBVIOUS
    <2>4. g \in [0 .. n + 1 -> V] /\ g[0] = v0
        BY <2>1, <2>2, <2>3
    <2>5. ASSUME NEW i \in 1 .. n + 1 PROVE g[i] = next[<<g[i - 1], i>>]
        <3>1. i - 1 \in 0 .. n + 1 /\ i - 1 # n + 1 /\ g[i - 1] = f[i - 1]
            BY <2>3, <2>5
        <3>2. CASE i = n + 1
            <4>1. i - 1 = n
                BY <3>2
            <4>2. QED BY <2>2, <2>3, <3>1, <3>2, <4>1
        <3>3. CASE i # n + 1
            <4>1. i \in 1 .. n /\ g[i] = f[i]
                BY <2>3, <2>5, <3>3
            <4>2. QED BY <2>1, <3>1, <4>1
        <3>4. QED BY <3>2, <3>3
    <2>6. Upto(g, n + 1)
        BY <2>4, <2>5
    <2>7. QED BY <2>6
<1>3. 0 .. k \subseteq S
    <2> HIDE DEF S
    <2>1. QED BY <1>1, <1>2, OneMore
<1>4. k \in S
    <2> HIDE DEF S
    <2>1. k \in 0 .. k
        OBVIOUS
    <2>2. QED BY <1>3, <2>1
<1>5. PICK f : Upto(f, k)
    BY <1>4
<1>6. QED BY <1>5 DEF Iterates

-----------------------------------------------------------------------------
\* A recursion over numbers: on the members of stop it takes the value of first, on the
\* others it applies step to the value at the smaller number before.
Recursion(D, V, stop, first, step, before) ==
    /\ D \subseteq Nat
    /\ first \in [stop -> V] /\ step \in [V -> V]
    /\ \A n \in D \ stop : before[n] \in D /\ before[n] < n

Value(f, n, stop, first, step, before) == IF n \in stop THEN first[n] ELSE step[f[before[n]]]

UpTo(D, n) == {i \in D : i <= n}

Solves(f, n, D, V, stop, first, step, before) ==
    /\ f \in [UpTo(D, n) -> V]
    /\ \A i \in UpTo(D, n) : f[i] = Value(f, i, stop, first, step, before)

Follows(f, D, V, stop, first, step, before) ==
    f \in [D -> V] /\ \A n \in D : f[n] = Value(f, n, stop, first, step, before)

LEMMA SolutionsAgree ==
    ASSUME NEW D, NEW V, NEW stop, NEW first, NEW step, NEW before,
           Recursion(D, V, stop, first, step, before),
           NEW m \in Nat, NEW n \in Nat, NEW f, NEW g,
           Solves(f, m, D, V, stop, first, step, before), Solves(g, n, D, V, stop, first, step, before),
           NEW k \in D, k <= m, k <= n
    PROVE  f[k] = g[k]
<1> DEFINE S == {i \in D : i <= m /\ i <= n => f[i] = g[i]}
<1>1. D \subseteq Nat
    BY DEF Recursion
<1>2. ASSUME NEW i \in D, \A j \in D : j < i => j \in S PROVE i \in S
    <2> SUFFICES ASSUME i <= m, i <= n PROVE f[i] = g[i]
        OBVIOUS
    <2>1. /\ f[i] = Value(f, i, stop, first, step, before)
          /\ g[i] = Value(g, i, stop, first, step, before)
        BY DEF Solves, UpTo
    <2>2. CASE i \in stop
        BY <2>1, <2>2 DEF Value
    <2>3. CASE i \notin stop
        <3>1. PICK b \in D : b = before[i] /\ b < i
            BY <2>3 DEF Recursion
        <3>2. b \in S /\ b <= m /\ b <= n
            BY <1>1, <1>2, <3>1
        <3>3. f[b] = g[b]
            BY <3>2
        <3>4. QED BY <2>1, <2>3, <3>1, <3>3 DEF Value
    <2>4. QED BY <2>2, <2>3
<1>3. D \subseteq S
    <2> HIDE DEF S
    <2>1. QED BY <1>1, <1>2, SmallerFirst
<1>4. QED BY <1>3

LEMMA SolutionsExtend ==
    ASSUME NEW D, NEW V, NEW stop, NEW first, NEW step, NEW before,
           Recursion(D, V, stop, first, step, before), NEW m \in D,
           NEW Sol, \A k \in D : k < m => Solves(Sol[k], k, D, V, stop, first, step, before)
    PROVE  \E f : Solves(f, m, D, V, stop, first, step, before)
<1>1. D \subseteq Nat
    BY DEF Recursion
<1>2. \A k \in D : k < m => k \in UpTo(D, k) /\ Sol[k] \in [UpTo(D, k) -> V]
    BY <1>1 DEF Solves, UpTo
<1>3. PICK h : h = [k \in D |-> Sol[k][k]]
    OBVIOUS
<1>4. \A k \in D : k < m => h[k] \in V
    BY <1>2, <1>3
<1>5. ASSUME NEW i \in D, i <= m
      PROVE  Value(h, i, stop, first, step, before) \in V
    <2>1. CASE i \in stop
        BY <2>1 DEF Value, Recursion
    <2>2. CASE i \notin stop
        <3>1. PICK b \in D : b = before[i] /\ b < i
            BY <2>2 DEF Recursion
        <3>2. b < m
            BY <1>1, <1>5, <3>1
        <3>3. QED BY <1>4, <2>2, <3>1, <3>2 DEF Value, Recursion
    <2>3. QED BY <2>1, <2>2
<1>6. PICK v \in V : v = Value(h, m, stop, first, step, before)
    BY <1>1, <1>5
<1>7. PICK f : f = [i \in UpTo(D, m) |-> IF i = m THEN v ELSE h[i]]
    OBVIOUS
<1>8. f \in [UpTo(D, m) -> V]
    <2>1. \A i \in UpTo(D, m) : i # m => h[i] \in V
        BY <1>1, <1>4 DEF UpTo
    <2>2. QED BY <1>6, <1>7, <2>1
<1>9. ASSUME NEW i \in D, i < m PROVE h[i] = Value(h, i, stop, first, step, before)
    <2>1. Solves(Sol[i], i, D, V, stop, first, step, before) /\ i \in UpTo(D, i)
        BY <1>2, <1>9
    <2>2. h[i] = Value(Sol[i], i, stop, first, step, before)
        BY <1>3, <2>1 DEF Solves
    <2>3. CASE i \in stop
        BY <2>2, <2>3 DEF Value
    <2>4. CASE i \notin stop
        <3>1. PICK b \in D : b = before[i] /\ b < i
            BY <2>4 DEF Recursion
        <3>2. b < m /\ b <= i /\ b <= b /\ i \in Nat /\ b \in Nat
            BY <1>1, <1>9, <3>1
        <3>3. Solves(Sol[b], b, D, V, stop, first, step, before)
            BY <3>2
        <3>4. Sol[i][b] = Sol[b][b]
            BY <2>1, <3>2, <3>3, SolutionsAgree
        <3>5. QED BY <1>3, <2>2, <2>4, <3>1, <3>4 DEF Value
    <2>5. QED BY <2>3, <2>4
<1>10. ASSUME NEW i \in UpTo(D, m) PROVE f[i] = Value(f, i, stop, first, step, before)
    <2>1. i \in D /\ i <= m /\ (i = m \/ i < m)
        BY <1>1 DEF UpTo
    <2>2. f[i] = Value(h, i, stop, first, step, before)
        BY <1>6, <1>7, <1>9, <2>1
    <2>3. CASE i \in stop
        BY <2>2, <2>3 DEF Value
    <2>4. CASE i \notin stop
        <3>1. PICK b \in D : b = before[i] /\ b < i
            BY <2>1, <2>4 DEF Recursion
        <3>2. b \in UpTo(D, m) /\ b # m
            BY <1>1, <2>1, <3>1 DEF UpTo
        <3>3. f[b] = h[b]
            BY <1>7, <3>2
        <3>4. QED BY <2>2, <2>4, <3>1, <3>3 DEF Value
    <2>5. QED BY <2>3, <2>4
<1>11. QED BY <1>8, <1>10 DEF Solves

\* There is a function that follows the recursion ...
LEMMA RecursionExists ==
    ASSUME NEW D, NEW V, NEW stop, NEW first, NEW step, NEW before,
           Recursion(D, V, stop, first, step, before)
    PROVE  \E f : Follows(f, D, V, stop, first, step, before)
<1> DEFINE Sol == [n \in D |-> CHOOSE f : Solves(f, n, D, V, stop, first, step, before)]
           S == {n \in D : Solves(Sol[n], n, D, V, stop, first, step, before)}
<1>1. D \subseteq Nat
    BY DEF Recursion
<1>2. ASSUME NEW n \in D, \A m \in D : m < n => m \in S PROVE n \in S
    <2>1. \A m \in D : m < n => Solves(Sol[m], m, D, V, stop, first, step, before)
        BY <1>2
    <2>2. Sol[n] = CHOOSE f : Solves(f, n, D, V, stop, first, step, before)
        OBVIOUS
    <2> HIDE DEF Sol
    <2>3. \E f : Solves(f, n, D, V, stop, first, step, before)
        BY <2>1, SolutionsExtend
    <2>4. Solves(Sol[n], n, D, V, stop, first, step, before)
        BY <2>2, <2>3
    <2>5. QED BY <2>4
<1>3. D \subseteq S
    <2> HIDE DEF S
    <2>1. QED BY <1>1, <1>2, SmallerFirst
<1>4. \A n \in D : Solves(Sol[n], n, D, V, stop, first, step, before)
    BY <1>3
<1> HIDE DEF Sol, S
<1>5. PICK h : h = [n \in D |-> Sol[n][n]]
    OBVIOUS
<1>6. \A n \in D : n \in UpTo(D, n)
    BY <1>1 DEF UpTo
<1>7. h \in [D -> V]
    BY <1>4, <1>5, <1>6 DEF Solves
<1>8. ASSUME NEW n \in D PROVE h[n] = Value(h, n, stop, first, step, before)
    <2>1. h[n] = Value(Sol[n], n, stop, first, step, before)
        BY <1>4, <1>5, <1>6 DEF Solves
    <2>2. CASE n \in stop
        BY <2>1, <2>2 DEF Value
    <2>3. CASE n \notin stop
        <3>1. PICK b \in D : b = before[n] /\ b < n
            BY <2>3 DEF Recursion
        <3>2. b <= n /\ b <= b /\ n \in Nat /\ b \in Nat
            BY <1>1, <3>1
        <3>3. Sol[n][b] = Sol[b][b]
            BY <1>4, <3>2, SolutionsAgree
        <3>4. QED BY <1>5, <2>1, <2>3, <3>1, <3>3 DEF Value
    <2>4. QED BY <2>2, <2>3
<1>9. QED BY <1>7, <1>8 DEF Follows

\* What holds of a number when it holds of all larger ones, if the number is below a
\* bound, holds of every number.
LEMMA LargerFirst ==
    ASSUME NEW N \in Nat, NEW A, A \subseteq Nat, NEW S,
           ASSUME NEW p \in A, \A q \in A : p < q /\ p < N => q \in S PROVE p \in S
    PROVE  A \subseteq S
<1> DEFINE T == {n \in Nat : \E p \in A : p \notin S /\ N <= p + n}
<1>1. SUFFICES ASSUME NEW x \in A, x \notin S PROVE FALSE
    OBVIOUS
<1>2. T # {} /\ T \subseteq Nat
    <2>1. x \in Nat /\ N <= x + N
        BY <1>1
    <2>2. QED BY <1>1, <2>1
<1>3. PICK n \in T : \A m \in T : n <= m
    <2> HIDE DEF T
    <2>1. QED BY <1>2, LeastNatural
<1>4. PICK p \in A : p \notin S /\ N <= p + n
    OBVIOUS
<1>5. ASSUME NEW q \in A, p < q, p < N PROVE q \in S
    <2>1. SUFFICES ASSUME q \notin S PROVE FALSE
        OBVIOUS
    <2>2. n \in Nat /\ p \in Nat /\ q \in Nat
        OBVIOUS
    <2>3. n - 1 \in Nat /\ N <= q + (n - 1)
        BY <1>4, <1>5, <2>2
    <2>4. n - 1 \in T
        BY <2>1, <2>3
    <2>5. QED BY <1>3, <2>2, <2>4
<1>6. QED BY <1>1, <1>4, <1>5

\* There is a function that searches upward, to a bound.
SearchesUp(f, N, V, last, stop, first, after) ==
    f \in [Nat -> V] /\ \A p \in Nat : f[p] = IF N <= p THEN last ELSE IF p \in stop THEN first[p] ELSE f[after[p]]

LEMMA SearchExists ==
    ASSUME NEW N \in Nat, NEW V, NEW last \in V, NEW stop, NEW first \in [stop -> V],
           NEW after \in [Nat -> Nat], \A p \in Nat : p < after[p]
    PROVE  \E f : SearchesUp(f, N, V, last, stop, first, after)
<1> DEFINE D == 0 .. N
           ends == {k \in D : k = 0 \/ N - k \in stop}
           value == [k \in ends |-> IF k = 0 THEN last ELSE first[N - k]]
           before == [k \in D |-> IF N <= after[N - k] THEN 0 ELSE N - after[N - k]]
           same == [v \in V |-> v]
<1>1. value \in [ends -> V] /\ same \in [V -> V] /\ D \subseteq Nat
    OBVIOUS
<1>2. ASSUME NEW k \in D \ ends PROVE before[k] \in D /\ before[k] < k
    <2>1. k \in D /\ k \in Nat /\ k # 0 /\ k <= N /\ N - k \in Nat
        OBVIOUS
    <2>2. PICK a \in Nat : a = after[N - k] /\ N - k < a
        BY <2>1
    <2>3. before[k] = IF N <= a THEN 0 ELSE N - a
        BY <2>1, <2>2
    <2> HIDE DEF before
    <2>4. QED BY <2>1, <2>2, <2>3
<1> HIDE DEF ends, value, before, same, D
<1>3. Recursion(D, V, ends, value, same, before)
    BY <1>1, <1>2 DEF Recursion
<1>4. PICK h : Follows(h, D, V, ends, value, same, before)
    BY <1>3, RecursionExists
<1>5. PICK f : f = [p \in Nat |-> IF N <= p THEN last ELSE h[N - p]]
    OBVIOUS
<1>6. ASSUME NEW p \in Nat
      PROVE  f[p] \in V /\ f[p] = IF N <= p THEN last ELSE IF p \in stop THEN first[p] ELSE f[after[p]]
    <2>1. CASE N <= p
        BY <1>5, <2>1
    <2>2. CASE ~ (N <= p)
        <3>1. PICK k \in Nat : k = N - p /\ k # 0 /\ k <= N /\ N - k = p
            BY <2>2
        <3>2. k \in D /\ f[p] = h[k]
            BY <1>5, <2>2, <3>1 DEF D
        <3>3. h[k] \in V /\ h[k] = IF k \in ends THEN value[k] ELSE same[h[before[k]]]
            BY <1>4, <3>2 DEF Follows, Value
        <3>4. CASE p \in stop
            <4>1. k \in ends /\ value[k] = first[p]
                BY <3>1, <3>2, <3>4 DEF ends, value
            <4>2. QED BY <2>2, <3>2, <3>3, <3>4, <4>1
        <3>5. CASE p \notin stop
            <4>1. k \notin ends
                BY <3>1, <3>5 DEF ends
            <4>2. PICK b \in D : b = before[k] /\ b < k
                BY <1>2, <3>2, <4>1
            <4>3. h[b] \in V /\ f[p] = h[b]
                BY <1>4, <3>2, <3>3, <4>1, <4>2 DEF Follows, same
            <4>4. PICK a \in Nat : a = after[p] /\ p < a
                OBVIOUS
            <4>5. b = IF N <= a THEN 0 ELSE N - a
                BY <3>1, <3>2, <4>2, <4>4 DEF before
            <4>6. f[a] = h[b]
                <5>1. CASE N <= a
                    <6>1. 0 \in D /\ 0 \in ends /\ value[0] = last
                        BY DEF D, ends, value
                    <6>2. h[b] = last
                        BY <1>4, <4>5, <5>1, <6>1 DEF Follows, Value
                    <6>3. QED BY <1>5, <5>1, <6>2
                <5>2. CASE ~ (N <= a)
                    BY <1>5, <4>5, <5>2
                <5>3. QED BY <5>1, <5>2
            <4>7. QED BY <2>2, <3>2, <3>3, <3>5, <4>3, <4>4, <4>6
        <3>6. QED BY <3>4, <3>5
    <2>3. QED BY <2>1, <2>2
<1>7. f \in [Nat -> V]
    BY <1>5, <1>6
<1>8. QED BY <1>6, <1>7 DEF SearchesUp

LEMMA LeastIs == ASSUME NEW I, I \subseteq Nat, I # {} PROVE Min(I) \in I /\ \A m \in I : Min(I) <= m
<1>1. \E n \in I : \A m \in I : n <= m
    BY LeastNatural
<1>2. QED BY <1>1 DEF Min

-----------------------------------------------------------------------------
(* Sequences *)

\* A sequence without its ith element.
LEMMA RemoveAtIs ==
    ASSUME NEW S, NEW s \in Seq(S), NEW i \in 1 .. Len(s)
    PROVE  /\ RemoveAt(s, i) \in Seq(S) /\ Len(RemoveAt(s, i)) = Len(s) - 1
           /\ \A j \in 1 .. i - 1 : RemoveAt(s, i)[j] = s[j]
           /\ \A j \in i .. Len(s) - 1 : RemoveAt(s, i)[j] = s[j + 1]
<1> DEFINE a == SubSeq(s, 1, i - 1)
           z == SubSeq(s, i + 1, Len(s))
<1>1. Len(s) \in Nat /\ i \in Nat /\ 1 <= i /\ i <= Len(s)
    OBVIOUS
<1>2. a \in Seq(S) /\ Len(a) = i - 1 /\ \A j \in 1 .. i - 1 : a[j] = s[j]
    <2>1. \A m \in 1 .. i - 1 : m \in 1 .. Len(s)
        BY <1>1
    <2>2. a \in Seq(S)
        BY <1>1, <2>1, SubSeqProperties
    <2>3. Len(a) = i - 1 /\ \A j \in 1 .. i - 1 : a[j] = s[j]
        BY <1>1, SubSeqProperties
    <2>4. QED BY <2>2, <2>3
<1>3. z \in Seq(S) /\ Len(z) = Len(s) - i /\ \A j \in 1 .. Len(s) - i : z[j] = s[i + j]
    <2>1. \A m \in i + 1 .. Len(s) : m \in 1 .. Len(s)
        BY <1>1
    <2>2. z \in Seq(S)
        BY <1>1, <2>1, SubSeqProperties
    <2>3. Len(z) = Len(s) - i /\ \A j \in 1 .. Len(s) - i : z[j] = s[i + j]
        BY <1>1, SubSeqProperties
    <2>4. QED BY <2>2, <2>3
<1>4. RemoveAt(s, i) = a \o z
    BY DEF RemoveAt
<1> HIDE DEF a, z
<1>5. a \o z \in Seq(S) /\ Len(a \o z) = Len(a) + Len(z)
      /\ \A j \in 1 .. Len(a) + Len(z) : (a \o z)[j] = IF j <= Len(a) THEN a[j] ELSE z[j - Len(a)]
    BY <1>2, <1>3, ConcatProperties
<1>6. Len(a \o z) = Len(s) - 1
    BY <1>1, <1>2, <1>3, <1>5
<1>7. ASSUME NEW j \in 1 .. i - 1 PROVE (a \o z)[j] = s[j]
    <2>1. j \in 1 .. Len(a) + Len(z) /\ j <= Len(a)
        BY <1>1, <1>2, <1>3
    <2>2. QED BY <1>2, <1>5, <2>1
<1>8. ASSUME NEW j \in i .. Len(s) - 1 PROVE (a \o z)[j] = s[j + 1]
    <2>1. j \in 1 .. Len(a) + Len(z) /\ ~(j <= Len(a)) /\ j - Len(a) \in 1 .. Len(s) - i
          /\ i + (j - Len(a)) = j + 1
        BY <1>1, <1>2, <1>3
    <2>2. QED BY <1>3, <1>5, <2>1
<1>9. QED BY <1>4, <1>5, <1>6, <1>7, <1>8

\* A sequence with another element before its ith.
IsInserted(t, s, i, e) ==
    /\ Len(t) = Len(s) + 1 /\ t[i] = e
    /\ \A j \in 1 .. i - 1 : t[j] = s[j]
    /\ \A j \in i + 1 .. Len(s) + 1 : t[j] = s[j - 1]

LEMMA InsertAtIs ==
    ASSUME NEW S, NEW s \in Seq(S), NEW e \in S, NEW i \in 1 .. Len(s) + 1
    PROVE  InsertAt(s, i, e) \in Seq(S) /\ IsInserted(InsertAt(s, i, e), s, i, e)
<1> DEFINE a == SubSeq(s, 1, i - 1)
           b == a \o <<e>>
           z == SubSeq(s, i, Len(s))
<1>1. Len(s) \in Nat /\ i \in Nat /\ 1 <= i /\ i <= Len(s) + 1
    OBVIOUS
<1>2. a \in Seq(S) /\ Len(a) = i - 1 /\ \A j \in 1 .. i - 1 : a[j] = s[j]
    <2>1. \A m \in 1 .. i - 1 : m \in 1 .. Len(s)
        BY <1>1
    <2>2. a \in Seq(S)
        BY <1>1, <2>1, SubSeqProperties
    <2>3. Len(a) = i - 1 /\ \A j \in 1 .. i - 1 : a[j] = s[j]
        BY <1>1, SubSeqProperties
    <2>4. QED BY <2>2, <2>3
<1>3. z \in Seq(S) /\ Len(z) = Len(s) + 1 - i /\ \A j \in 1 .. Len(s) + 1 - i : z[j] = s[i - 1 + j]
    <2>1. \A m \in i .. Len(s) : m \in 1 .. Len(s)
        BY <1>1
    <2>2. z \in Seq(S)
        BY <1>1, <2>1, SubSeqProperties
    <2>3. Len(z) = IF i <= Len(s) THEN Len(s) - i + 1 ELSE 0
        BY <1>1, SubSeqProperties
    <2>4. \A j \in 1 .. Len(s) - i + 1 : z[j] = s[i + j - 1]
        BY <1>1, SubSeqProperties
    <2>5. QED BY <1>1, <2>2, <2>3, <2>4
<1>4. <<e>> \in Seq(S) /\ Len(<<e>>) = 1 /\ <<e>>[1] = e
    OBVIOUS
<1>5. InsertAt(s, i, e) = b \o z
    BY DEF InsertAt
<1>6. b \in Seq(S) /\ Len(b) = i /\ (\A j \in 1 .. i - 1 : b[j] = s[j]) /\ b[i] = e
    <2> HIDE DEF a
    <2>1. b \in Seq(S) /\ Len(b) = Len(a) + 1
          /\ \A j \in 1 .. Len(a) + 1 : b[j] = IF j <= Len(a) THEN a[j] ELSE <<e>>[j - Len(a)]
        BY <1>2, <1>4, ConcatProperties
    <2>2. QED BY <1>1, <1>2, <1>4, <2>1
<1> HIDE DEF a, b, z
<1>7. b \o z \in Seq(S) /\ Len(b \o z) = Len(b) + Len(z)
      /\ \A j \in 1 .. Len(b) + Len(z) : (b \o z)[j] = IF j <= Len(b) THEN b[j] ELSE z[j - Len(b)]
    BY <1>3, <1>6, ConcatProperties
<1>8. Len(b \o z) = Len(s) + 1
    BY <1>1, <1>3, <1>6, <1>7
<1>9. ASSUME NEW j \in 1 .. i - 1 PROVE (b \o z)[j] = s[j]
    <2>1. j \in 1 .. Len(b) + Len(z) /\ j <= Len(b)
        BY <1>1, <1>3, <1>6
    <2>2. QED BY <1>6, <1>7, <2>1
<1>10. (b \o z)[i] = e
    <2>1. i \in 1 .. Len(b) + Len(z) /\ i <= Len(b)
        BY <1>1, <1>3, <1>6
    <2>2. QED BY <1>6, <1>7, <2>1
<1>11. ASSUME NEW j \in i + 1 .. Len(s) + 1 PROVE (b \o z)[j] = s[j - 1]
    <2>1. j \in 1 .. Len(b) + Len(z) /\ ~(j <= Len(b)) /\ j - Len(b) \in 1 .. Len(s) + 1 - i
          /\ i - 1 + (j - Len(b)) = j - 1
        BY <1>1, <1>3, <1>6
    <2>2. QED BY <1>3, <1>7, <2>1
<1>12. QED BY <1>5, <1>7, <1>8, <1>9, <1>10, <1>11 DEF IsInserted
=============================================================================
