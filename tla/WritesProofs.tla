---------------------------- MODULE WritesProofs ----------------------------
(***************************************************************************)
(* What the processes write: through libgrace's printf and libc's buffer   *)
(* (Output), through xio's list of files and their sections (XIO), to a    *)
(* page they all share (Conditions), and in transactions to the mappings   *)
(* that are copied when they commit (XMemory).                             *)
(***************************************************************************)
EXTENDS Output, XIO, Conditions, XMemory, FiniteSetTheorems, SequenceTheorems, TLAPS

-----------------------------------------------------------------------------
\* Output.

\* A line, named by its place.
Lines == Seq(Nat)

Items(l) == {l[i] : i \in 1 .. Len(l)}

Sorted(l) == \A i, j \in 1 .. Len(l) : i < j => Precedes(l[i], l[j])

FirstsSorted(l) ==
    \A i, j \in 1 .. Len(l) : i < j /\ Precedes(l[j], l[i]) => \E k \in 1 .. i : l[k] = l[j]

LEMMA AppendLine ==
    ASSUME NEW p \in Lines, NEW n \in Nat
    PROVE  /\ Append(p, n) \in Lines /\ Len(Append(p, n)) = Len(p) + 1 /\ Len(p) \in Nat
           /\ Append(p, n)[Len(p) + 1] = n
           /\ \A i \in 1 .. Len(p) : Append(p, n)[i] = p[i]
BY AppendProperties DEF Lines

\* The order of the places is a strict one.
LEMMA PrecedesIrreflexive ==
    ASSUME NEW p \in Lines PROVE ~Precedes(p, p)
BY DEF Precedes, Lines

LEMMA PrecedesTransitive ==
    ASSUME NEW p \in Lines, NEW q \in Lines, NEW r \in Lines, Precedes(p, q), Precedes(q, r)
    PROVE  Precedes(p, r)
<1>1. PICK k \in 1 .. Len(p) : k <= Len(q) /\ p[k] < q[k] /\ \A l \in 1 .. k - 1 : p[l] = q[l]
    BY DEF Precedes
<1>2. PICK m \in 1 .. Len(q) : m <= Len(r) /\ q[m] < r[m] /\ \A l \in 1 .. m - 1 : q[l] = r[l]
    BY DEF Precedes
<1>0. Len(p) \in Nat /\ Len(q) \in Nat /\ Len(r) \in Nat /\ k \in Nat /\ m \in Nat
    BY DEF Lines
<1>3. CASE k < m
    <2>1. k <= Len(r) /\ k \in 1 .. m - 1 /\ p[k] < r[k]
        BY <1>0, <1>1, <1>2, <1>3
    <2>2. \A l \in 1 .. k - 1 : p[l] = r[l]
        BY <1>0, <1>1, <1>2, <1>3
    <2>3. QED BY <2>1, <2>2 DEF Precedes
<1>4. CASE k = m
    <2>1. p[k] \in Nat /\ q[k] \in Nat /\ r[k] \in Nat
        <3>1. \A s \in Lines : \A l \in 1 .. Len(s) : s[l] \in Nat
            BY DEF Lines
        <3>2. k \in 1 .. Len(p) /\ k \in 1 .. Len(q) /\ k \in 1 .. Len(r)
            BY <1>0, <1>1, <1>2, <1>4
        <3>3. QED BY <3>1, <3>2
    <2>2. p[k] < r[k] /\ k <= Len(r)
        BY <1>1, <1>2, <1>4, <2>1
    <2>3. \A l \in 1 .. k - 1 : p[l] = r[l]
        BY <1>1, <1>2, <1>4
    <2>4. QED BY <2>2, <2>3 DEF Precedes
<1>5. CASE m < k
    <2>1. m \in 1 .. k - 1 /\ m \in 1 .. Len(p) /\ m <= Len(r) /\ p[m] < r[m]
        BY <1>0, <1>1, <1>2, <1>5
    <2>2. \A l \in 1 .. m - 1 : p[l] = r[l]
        BY <1>0, <1>1, <1>2, <1>5
    <2>3. QED BY <2>1, <2>2 DEF Precedes
<1>6. QED BY <1>0, <1>3, <1>4, <1>5

LEMMA PrecedesAsymmetric ==
    ASSUME NEW p \in Lines, NEW q \in Lines, Precedes(p, q)
    PROVE  ~Precedes(q, p)
BY PrecedesTransitive, PrecedesIrreflexive

\* What comes after a place comes after all that comes before that, and what is
\* spawned at a place is where the place is.
LEMMA PrecedesExtends ==
    ASSUME NEW p \in Lines, NEW q \in Lines, NEW n \in Nat, Precedes(p, q)
    PROVE  Precedes(Append(p, n), q) /\ Precedes(p, Append(q, n))
<1>1. PICK k \in 1 .. Len(p) : k <= Len(q) /\ p[k] < q[k] /\ \A l \in 1 .. k - 1 : p[l] = q[l]
    BY DEF Precedes
<1>0. Len(p) \in Nat /\ Len(q) \in Nat /\ k \in Nat
    BY DEF Lines
<1>2. \A l \in 1 .. k : l \in 1 .. Len(p) /\ l \in 1 .. Len(q)
    BY <1>0, <1>1
<1>3. \A l \in 1 .. k : Append(p, n)[l] = p[l] /\ Append(q, n)[l] = q[l]
    BY <1>2, AppendLine
<1>4. k \in 1 .. Len(Append(p, n)) /\ k <= Len(Append(q, n))
    <2>1. Len(Append(p, n)) = Len(p) + 1 /\ Len(Append(q, n)) = Len(q) + 1
        BY AppendLine
    <2>2. QED BY <1>0, <1>1, <2>1
<1>5. k \in 1 .. k /\ \A l \in 1 .. k - 1 : l \in 1 .. k
    BY <1>0
<1>6. Precedes(Append(p, n), q)
    BY <1>1, <1>3, <1>4, <1>5 DEF Precedes
<1>7. Precedes(p, Append(q, n))
    BY <1>1, <1>3, <1>4, <1>5 DEF Precedes
<1>8. QED BY <1>6, <1>7

LEMMA PrecedesNext ==
    ASSUME NEW p \in Lines, NEW n \in Nat
    PROVE  Precedes(Append(p, n), Append(p, n + 1))
<1> DEFINE k == Len(p) + 1
<1>1. k \in 1 .. Len(Append(p, n)) /\ k <= Len(Append(p, n + 1))
    BY AppendLine
<1>2. Append(p, n)[k] < Append(p, n + 1)[k]
    BY AppendLine
<1>3. \A l \in 1 .. k - 1 : Append(p, n)[l] = Append(p, n + 1)[l]
    <2>1. k - 1 = Len(p)
        BY AppendLine
    <2>2. QED BY <2>1, AppendLine
<1> HIDE DEF k
<1>4. QED BY <1>1, <1>2, <1>3 DEF Precedes

LEMMA PrecedesStep ==
    ASSUME NEW p \in Lines, NEW q \in Lines, NEW n \in Nat, Precedes(p, Append(q, n))
    PROVE  Precedes(p, Append(q, n + 1))
BY AppendLine, PrecedesNext, PrecedesTransitive

LEMMA AppendLineInjective ==
    ASSUME NEW p \in Lines, NEW q \in Lines, NEW m \in Nat, NEW n \in Nat, Append(p, m) = Append(q, n)
    PROVE  p = q /\ m = n
BY AppendInjective DEF Lines

\* The items of sequences.
LEMMA ItemsOf ==
    ASSUME NEW a \in Seq(Lines), NEW b \in Seq(Lines), NEW x \in Lines
    PROVE  /\ Items(a \o b) = Items(a) \cup Items(b)
           /\ Items(Append(a, x)) = Items(a) \cup {x}
           /\ Items(<<>>) = {}
           /\ Items(a) \subseteq Lines
<1>0. Len(a) \in Nat /\ Len(b) \in Nat
    OBVIOUS
<1>1. Items(a \o b) = Items(a) \cup Items(b)
    <2>1. Len(a \o b) = Len(a) + Len(b)
        BY ConcatProperties
    <2>2. \A i \in 1 .. Len(a) + Len(b) : (a \o b)[i] = IF i <= Len(a) THEN a[i] ELSE b[i - Len(a)]
        BY ConcatProperties
    <2>3. ASSUME NEW y \in Items(a \o b) PROVE y \in Items(a) \cup Items(b)
        <3>1. PICK i \in 1 .. Len(a) + Len(b) : y = (a \o b)[i]
            BY <2>1 DEF Items
        <3>2. CASE i <= Len(a)
            <4>1. i \in 1 .. Len(a) /\ y = a[i]
                BY <1>0, <2>2, <3>1, <3>2
            <4>2. QED BY <4>1 DEF Items
        <3>3. CASE ~(i <= Len(a))
            <4>1. i - Len(a) \in 1 .. Len(b) /\ y = b[i - Len(a)]
                BY <1>0, <2>2, <3>1, <3>3
            <4>2. QED BY <4>1 DEF Items
        <3>4. QED BY <3>2, <3>3
    <2>4. ASSUME NEW y \in Items(a) PROVE y \in Items(a \o b)
        <3>1. PICK i \in 1 .. Len(a) : y = a[i]
            BY DEF Items
        <3>2. i \in 1 .. Len(a) + Len(b) /\ y = (a \o b)[i]
            BY <1>0, <2>2, <3>1
        <3>3. QED BY <2>1, <3>2 DEF Items
    <2>5. ASSUME NEW y \in Items(b) PROVE y \in Items(a \o b)
        <3>1. PICK i \in 1 .. Len(b) : y = b[i]
            BY DEF Items
        <3>2. i + Len(a) \in 1 .. Len(a) + Len(b) /\ y = (a \o b)[i + Len(a)]
            BY <1>0, <2>2, <3>1
        <3>3. QED BY <2>1, <3>2 DEF Items
    <2>6. QED BY <2>3, <2>4, <2>5
<1>2. Items(Append(a, x)) = Items(a) \cup {x}
    <2>1. Len(Append(a, x)) = Len(a) + 1 /\ Append(a, x)[Len(a) + 1] = x
          /\ \A i \in 1 .. Len(a) : Append(a, x)[i] = a[i]
        BY AppendProperties
    <2>2. \A i \in 1 .. Len(a) + 1 : i = Len(a) + 1 \/ i \in 1 .. Len(a)
        BY <1>0
    <2>3. \A i \in 1 .. Len(a) : i \in 1 .. Len(a) + 1
        BY <1>0
    <2>4. Len(a) + 1 \in 1 .. Len(a) + 1
        BY <1>0
    <2>5. QED BY <2>1, <2>2, <2>3, <2>4 DEF Items
<1>3. Items(<<>>) = {}
    BY DEF Items
<1>4. Items(a) \subseteq Lines
    BY DEF Items
<1>5. QED BY <1>1, <1>2, <1>3, <1>4

LEMMA SortedAppend ==
    ASSUME NEW a \in Seq(Lines), NEW x \in Lines, Sorted(a), \A y \in Items(a) : Precedes(y, x)
    PROVE  Sorted(Append(a, x))
<1>0. Len(a) \in Nat
    OBVIOUS
<1>1. Len(Append(a, x)) = Len(a) + 1 /\ Append(a, x)[Len(a) + 1] = x
      /\ \A i \in 1 .. Len(a) : Append(a, x)[i] = a[i]
    BY AppendProperties
<1> SUFFICES ASSUME NEW i \in 1 .. Len(a) + 1, NEW j \in 1 .. Len(a) + 1, i < j
             PROVE  Precedes(Append(a, x)[i], Append(a, x)[j])
    BY <1>1 DEF Sorted
<1>2. i \in 1 .. Len(a)
    BY <1>0
<1>3. CASE j = Len(a) + 1
    BY <1>1, <1>2, <1>3 DEF Items
<1>4. CASE j # Len(a) + 1
    <2>1. j \in 1 .. Len(a)
        BY <1>0, <1>4
    <2>2. QED BY <1>1, <1>2, <2>1 DEF Sorted
<1>5. QED BY <1>3, <1>4

LEMMA SortedConcat ==
    ASSUME NEW a \in Seq(Lines), NEW b \in Seq(Lines), Sorted(a), Sorted(b),
           \A x \in Items(a) : \A y \in Items(b) : Precedes(x, y)
    PROVE  Sorted(a \o b)
<1>0. Len(a) \in Nat /\ Len(b) \in Nat
    OBVIOUS
<1>1. Len(a \o b) = Len(a) + Len(b)
      /\ \A i \in 1 .. Len(a) + Len(b) : (a \o b)[i] = IF i <= Len(a) THEN a[i] ELSE b[i - Len(a)]
    BY ConcatProperties
<1> SUFFICES ASSUME NEW i \in 1 .. Len(a) + Len(b), NEW j \in 1 .. Len(a) + Len(b), i < j
             PROVE  Precedes((a \o b)[i], (a \o b)[j])
    BY <1>1 DEF Sorted
<1>2. CASE j <= Len(a)
    <2>1. i \in 1 .. Len(a) /\ j \in 1 .. Len(a) /\ (a \o b)[i] = a[i] /\ (a \o b)[j] = a[j]
        BY <1>0, <1>1, <1>2
    <2>2. QED BY <2>1 DEF Sorted
<1>3. CASE ~(j <= Len(a)) /\ i <= Len(a)
    <2>1. /\ i \in 1 .. Len(a) /\ j - Len(a) \in 1 .. Len(b)
          /\ (a \o b)[i] = a[i] /\ (a \o b)[j] = b[j - Len(a)]
        BY <1>0, <1>1, <1>3
    <2>2. QED BY <2>1 DEF Items
<1>4. CASE ~(i <= Len(a))
    <2>1. /\ i - Len(a) \in 1 .. Len(b) /\ j - Len(a) \in 1 .. Len(b) /\ i - Len(a) < j - Len(a)
          /\ (a \o b)[i] = b[i - Len(a)] /\ (a \o b)[j] = b[j - Len(a)]
        BY <1>0, <1>1, <1>4
    <2>2. QED BY <2>1 DEF Sorted
<1>5. QED BY <1>2, <1>3, <1>4

LEMMA FirstsSortedConcat ==
    ASSUME NEW a \in Seq(Lines), NEW b \in Seq(Lines), FirstsSorted(a), Sorted(b),
           \A x \in Items(a) : \A y \in Items(b) : y \in Items(a) \/ ~Precedes(y, x)
    PROVE  FirstsSorted(a \o b)
<1>0. Len(a) \in Nat /\ Len(b) \in Nat
    OBVIOUS
<1>1. Len(a \o b) = Len(a) + Len(b)
      /\ \A i \in 1 .. Len(a) + Len(b) : (a \o b)[i] = IF i <= Len(a) THEN a[i] ELSE b[i - Len(a)]
    BY ConcatProperties
<1>2. \A i \in 1 .. Len(a) : i \in 1 .. Len(a) + Len(b) /\ (a \o b)[i] = a[i]
    BY <1>0, <1>1
<1> SUFFICES ASSUME NEW i \in 1 .. Len(a) + Len(b), NEW j \in 1 .. Len(a) + Len(b), i < j,
                    Precedes((a \o b)[j], (a \o b)[i])
             PROVE  \E k \in 1 .. i : (a \o b)[k] = (a \o b)[j]
    BY <1>1 DEF FirstsSorted
<1>3. CASE ~(i <= Len(a))
    <2>1. /\ i - Len(a) \in 1 .. Len(b) /\ j - Len(a) \in 1 .. Len(b) /\ i - Len(a) < j - Len(a)
          /\ (a \o b)[i] = b[i - Len(a)] /\ (a \o b)[j] = b[j - Len(a)]
        BY <1>0, <1>1, <1>3
    <2>2. Precedes(b[i - Len(a)], b[j - Len(a)]) /\ b[i - Len(a)] \in Lines /\ b[j - Len(a)] \in Lines
        BY <2>1 DEF Sorted
    <2>3. QED BY <2>1, <2>2, PrecedesAsymmetric
<1>4. CASE i <= Len(a)
    <2>1. i \in 1 .. Len(a) /\ (a \o b)[i] = a[i]
        BY <1>0, <1>1, <1>4
    <2>2. (a \o b)[j] \in Items(a)
        <3>1. CASE j <= Len(a)
            BY <1>0, <1>1, <3>1 DEF Items
        <3>2. CASE ~(j <= Len(a))
            <4>1. j - Len(a) \in 1 .. Len(b) /\ (a \o b)[j] = b[j - Len(a)]
                BY <1>0, <1>1, <3>2
            <4>2. (a \o b)[j] \in Items(b) /\ a[i] \in Items(a)
                BY <2>1, <4>1 DEF Items
            <4>3. QED BY <2>1, <4>2
        <3>3. QED BY <3>1, <3>2
    <2>3. PICK m \in 1 .. Len(a) : a[m] = (a \o b)[j]
        BY <2>2 DEF Items
    <2>4. \E k \in 1 .. i : a[k] = a[m]
        <3>1. CASE m <= i
            <4>1. m \in 1 .. i
                BY <1>0, <3>1
            <4>2. QED BY <4>1
        <3>2. CASE ~(m <= i)
            <4>1. i < m /\ Precedes(a[m], a[i])
                BY <1>0, <2>1, <2>3, <3>2
            <4>2. QED BY <2>1, <4>1 DEF FirstsSorted
        <3>3. QED BY <3>1, <3>2
    <2>5. \A k \in 1 .. i : k \in 1 .. Len(a)
        BY <1>0, <2>1
    <2>6. QED BY <1>2, <2>3, <2>4, <2>5
<1>5. QED BY <1>3, <1>4

-----------------------------------------------------------------------------
\* The parts of the invariant are about a file W, buffers B, steps S, paths P,
\* and an order of which Bn are born, Fn are finished and E are earlier, so that
\* a step of the program can be taken apart: first what is flushed, then what is
\* printed, spawned or finished.
OutTypes(W, B, S, P, Bn, Fn, E) ==
    /\ W \in Seq(Lines)
    /\ B \in [OutThreads -> Seq(Lines)]
    /\ S \in [OutThreads -> Nat]
    /\ P \in [OutThreads -> Lines]
    /\ Bn \subseteq OutThreads /\ OutMain \in Bn /\ Fn \subseteq Bn
    /\ E \in [OutThreads -> SUBSET Bn]
    /\ \A t \in OutThreads \ Bn : S[t] = 0

FirstOf(t, Bn, Fn, E) == t \in Bn \ Fn /\ E[t] \subseteq Fn

OutOrdered(Bn, Fn, E) ==
    \A s, t \in Bn \ Fn : s # t => s \in E[t] \/ t \in E[s]

\* Whoever is earlier starts before what comes next.
EarlierPrecede(S, P, Bn, E) ==
    \A t \in Bn : \A s \in E[t] : Precedes(P[s], Append(P[t], S[t]))

BuffersSorted(B, S, P, Bn) ==
    \A t \in Bn : Sorted(B[t]) /\ \A y \in Items(B[t]) : Precedes(y, Append(P[t], S[t]))

WrittenBefore(W, S, P, Bn, Fn) ==
    \A t \in Bn \ Fn : \A x \in Items(W) : Precedes(x, Append(P[t], S[t]))

\* What a thread has in its buffer comes after everything that those earlier
\* than it may still print, or they have it in their buffers, too.
BufferedFurther(W, B, P, Bn, Fn, E) ==
    \A t \in Bn \ Fn : \A s \in E[t] \ Fn : \A y \in Items(B[t]) \ Items(W) :
        \/ Precedes(P[s], y)
        \/ Precedes(y, P[s]) /\ y \in Items(B[s])

\* What is in a buffer and not in the file comes after all that is in the file.
NothingOvertakes(W, B, Bn, Fn) ==
    \A t \in Bn \ Fn : \A y \in Items(B[t]) \ Items(W) : \A x \in Items(W) : ~Precedes(y, x)

OutGood(W, B, S, P, Bn, Fn, E) ==
    /\ OutOrdered(Bn, Fn, E) /\ EarlierPrecede(S, P, Bn, E)
    /\ BuffersSorted(B, S, P, Bn) /\ WrittenBefore(W, S, P, Bn, Fn)
    /\ BufferedFurther(W, B, P, Bn, Fn, E) /\ NothingOvertakes(W, B, Bn, Fn)
    /\ FirstsSorted(W)

LEMMA OutTypeParts ==
    ASSUME NEW W, NEW B, NEW S, NEW P, NEW Bn, NEW Fn, NEW E, OutTypes(W, B, S, P, Bn, Fn, E),
           NEW t \in OutThreads
    PROVE  /\ W \in Seq(Lines) /\ B[t] \in Seq(Lines) /\ S[t] \in Nat /\ S[t] + 1 \in Nat /\ P[t] \in Lines
           /\ Append(P[t], S[t]) \in Lines /\ Append(P[t], S[t] + 1) \in Lines
           /\ Items(W) \subseteq Lines /\ Items(B[t]) \subseteq Lines
           /\ E[t] \subseteq Bn
<1>1. W \in Seq(Lines) /\ B[t] \in Seq(Lines) /\ S[t] \in Nat /\ P[t] \in Lines /\ E[t] \subseteq Bn
    BY DEF OutTypes
<1>2. S[t] + 1 \in Nat
    BY <1>1
<1>3. QED BY <1>1, <1>2, AppendLine, ItemsOf

\* The first thread's buffer is flushed.
LEMMA FlushKeeps ==
    ASSUME NEW W, NEW B, NEW S, NEW P, NEW Bn, NEW Fn, NEW E,
           OutTypes(W, B, S, P, Bn, Fn, E), OutGood(W, B, S, P, Bn, Fn, E),
           NEW t \in OutThreads, FirstOf(t, Bn, Fn, E)
    PROVE  /\ OutTypes(W \o B[t], [B EXCEPT ![t] = <<>>], S, P, Bn, Fn, E)
           /\ OutGood(W \o B[t], [B EXCEPT ![t] = <<>>], S, P, Bn, Fn, E)
<1> DEFINE V == W \o B[t]
           C == [B EXCEPT ![t] = <<>>]
<1>a. t \in Bn \ Fn /\ E[t] \subseteq Fn
    BY DEF FirstOf
<1>b. /\ Bn \subseteq OutThreads /\ B \in [OutThreads -> Seq(Lines)] /\ <<>> \in Seq(Lines)
      /\ W \in Seq(Lines) /\ B[t] \in Seq(Lines)
    BY OutTypeParts DEF OutTypes
<1>1. C \in [OutThreads -> Seq(Lines)] /\ C[t] = <<>> /\ \A s \in OutThreads \ {t} : C[s] = B[s]
    BY <1>b
<1>2. V \in Seq(Lines) /\ Items(V) = Items(W) \cup Items(B[t]) /\ Items(C[t]) = {}
    <2>1. 0 \in Nat /\ <<>> \in Lines
        BY DEF Lines
    <2>2. QED BY <1>b, <1>1, <2>1, ItemsOf, ConcatProperties
<1> HIDE DEF V, C
<1>3. OutTypes(V, C, S, P, Bn, Fn, E)
    BY <1>1, <1>2 DEF OutTypes
<1>4. ASSUME NEW s \in Bn \ Fn, s # t
      PROVE  t \in E[s] /\ Precedes(Append(P[t], S[t]), Append(P[s], S[s]))
    <2>1. t \in E[s]
        BY <1>a, <1>4 DEF OutGood, OutOrdered
    <2>2. Precedes(P[t], Append(P[s], S[s]))
        BY <2>1 DEF OutGood, EarlierPrecede
    <2>3. QED BY <1>b, <2>1, <2>2, OutTypeParts, PrecedesExtends
<1>5. ASSUME NEW x \in Items(B[t]) PROVE Precedes(x, Append(P[t], S[t]))
    BY <1>a DEF OutGood, BuffersSorted
<1>6. BuffersSorted(C, S, P, Bn)
    <2>1. Sorted(<<>>)
        BY DEF Sorted
    <2>2. QED BY <1>b, <1>1, <1>2, <2>1 DEF OutGood, BuffersSorted
<1>7. WrittenBefore(V, S, P, Bn, Fn)
    <2> SUFFICES ASSUME NEW s \in Bn \ Fn, NEW x \in Items(V) PROVE Precedes(x, Append(P[s], S[s]))
        BY DEF WrittenBefore
    <2>1. CASE x \in Items(W)
        BY <2>1 DEF OutGood, WrittenBefore
    <2>2. CASE x \in Items(B[t]) /\ s = t
        BY <1>5, <2>2
    <2>3. CASE x \in Items(B[t]) /\ s # t
        <3>1. x \in Lines /\ Append(P[t], S[t]) \in Lines /\ Append(P[s], S[s]) \in Lines
            BY <1>b, <2>3, OutTypeParts
        <3>2. QED BY <1>4, <1>5, <2>3, <3>1, PrecedesTransitive
    <2>4. QED BY <1>2, <2>1, <2>2, <2>3
<1>8. BufferedFurther(V, C, P, Bn, Fn, E)
    <2> SUFFICES ASSUME NEW s \in Bn \ Fn, NEW r \in E[s] \ Fn, NEW y \in Items(C[s]) \ Items(V)
                 PROVE  Precedes(P[r], y) \/ (Precedes(y, P[r]) /\ y \in Items(C[r]))
        BY DEF BufferedFurther
    <2>1. s # t /\ y \in Items(B[s]) \ Items(W) /\ y \notin Items(B[t]) /\ r \in OutThreads
        BY <1>b, <1>1, <1>2, OutTypeParts
    <2>a. BufferedFurther(W, B, P, Bn, Fn, E)
        BY DEF OutGood
    <2>2. Precedes(P[r], y) \/ (Precedes(y, P[r]) /\ y \in Items(B[r]))
        BY <2>1, <2>a DEF BufferedFurther
    <2>3. QED BY <1>1, <2>1, <2>2
<1>9. NothingOvertakes(V, C, Bn, Fn)
    <2> SUFFICES ASSUME NEW s \in Bn \ Fn, NEW y \in Items(C[s]) \ Items(V), NEW x \in Items(V)
                 PROVE  ~Precedes(y, x)
        BY DEF NothingOvertakes
    <2>1. s # t /\ y \in Items(B[s]) \ Items(W) /\ y \notin Items(B[t])
        BY <1>b, <1>1, <1>2
    <2>2. CASE x \in Items(W)
        BY <2>1, <2>2 DEF OutGood, NothingOvertakes
    <2>3. CASE x \in Items(B[t])
        <3>1. t \in E[s] \ Fn
            BY <1>4, <1>a, <2>1
        <3>2. Precedes(P[t], y)
            BY <2>1, <3>1 DEF OutGood, BufferedFurther
        <3>3. x \in Lines /\ y \in Lines /\ P[t] \in Lines /\ S[t] \in Nat /\ Append(P[t], S[t]) \in Lines
            BY <1>b, <2>1, <2>3, OutTypeParts
        <3>4. Precedes(Append(P[t], S[t]), y)
            BY <3>2, <3>3, PrecedesExtends
        <3>5. Precedes(x, y)
            BY <1>5, <2>3, <3>3, <3>4, PrecedesTransitive
        <3>6. QED BY <3>3, <3>5, PrecedesAsymmetric
    <2>4. QED BY <1>2, <2>2, <2>3
<1>10. FirstsSorted(V)
    <2>1. Sorted(B[t]) /\ FirstsSorted(W)
        BY <1>a DEF OutGood, BuffersSorted
    <2>2. \A x \in Items(W) : \A y \in Items(B[t]) : y \in Items(W) \/ ~Precedes(y, x)
        BY <1>a DEF OutGood, NothingOvertakes
    <2>3. QED BY <1>b, <2>1, <2>2, FirstsSortedConcat DEF V
<1>11. OutGood(V, C, S, P, Bn, Fn, E)
    BY <1>6, <1>7, <1>8, <1>9, <1>10 DEF OutGood
<1>12. QED BY <1>3, <1>11 DEF V, C

\* A thread prints a line into its buffer.
LEMMA PrintKeeps ==
    ASSUME NEW W, NEW B, NEW S, NEW P, NEW Bn, NEW Fn, NEW E,
           OutTypes(W, B, S, P, Bn, Fn, E), OutGood(W, B, S, P, Bn, Fn, E),
           NEW t \in Bn \ Fn
    PROVE  /\ OutTypes(W, [B EXCEPT ![t] = Append(@, Append(P[t], S[t]))], [S EXCEPT ![t] = @ + 1], P, Bn, Fn, E)
           /\ OutGood(W, [B EXCEPT ![t] = Append(@, Append(P[t], S[t]))], [S EXCEPT ![t] = @ + 1], P, Bn, Fn, E)
<1> DEFINE place == Append(P[t], S[t])
           next == Append(P[t], S[t] + 1)
           C == [B EXCEPT ![t] = Append(@, place)]
           R == [S EXCEPT ![t] = @ + 1]
<1>a. t \in OutThreads /\ Bn \subseteq OutThreads /\ \A s \in Bn : E[s] \subseteq Bn
    BY OutTypeParts DEF OutTypes
<1>b. /\ place \in Lines /\ next \in Lines /\ P[t] \in Lines /\ S[t] \in Nat /\ B[t] \in Seq(Lines)
      /\ Items(B[t]) \subseteq Lines
    BY <1>a, OutTypeParts
<1>c. Precedes(place, next)
    BY <1>b, PrecedesNext
<1>1. /\ C \in [OutThreads -> Seq(Lines)] /\ C[t] = Append(B[t], place)
      /\ \A s \in OutThreads \ {t} : C[s] = B[s]
      /\ Items(C[t]) = Items(B[t]) \cup {place}
    <2> HIDE DEF place
    <2>1. Append(B[t], place) \in Seq(Lines)
        BY <1>b, AppendProperties
    <2>2. Items(Append(B[t], place)) = Items(B[t]) \cup {place}
        BY <1>b, ItemsOf
    <2>3. B \in [OutThreads -> Seq(Lines)]
        BY DEF OutTypes
    <2>4. QED BY <1>a, <2>1, <2>2, <2>3
<1>2. R \in [OutThreads -> Nat] /\ R[t] = S[t] + 1 /\ \A s \in OutThreads \ {t} : R[s] = S[s]
    BY <1>a DEF OutTypes
<1>3. Append(P[t], R[t]) = next
    BY <1>2
<1>4. \A s \in OutThreads \ {t} : Append(P[s], R[s]) = Append(P[s], S[s])
    BY <1>2
<1>d. \A p \in Lines : Precedes(p, place) => Precedes(p, next)
    <2> SUFFICES ASSUME NEW p \in Lines, Precedes(p, place) PROVE Precedes(p, next)
        OBVIOUS
    <2> QED BY <1>b, PrecedesStep
<1> HIDE DEF place, next, C, R
<1>5. OutTypes(W, C, R, P, Bn, Fn, E)
    BY <1>1, <1>2 DEF OutTypes
<1>6. EarlierPrecede(R, P, Bn, E)
    <2> SUFFICES ASSUME NEW s \in Bn, NEW r \in E[s] PROVE Precedes(P[r], Append(P[s], R[s]))
        BY DEF EarlierPrecede
    <2>1. Precedes(P[r], Append(P[s], S[s])) /\ P[r] \in Lines
        BY <1>a, OutTypeParts DEF OutGood, EarlierPrecede
    <2>2. CASE s = t
        BY <1>3, <1>d, <2>1, <2>2 DEF place
    <2>3. CASE s # t
        BY <1>a, <1>4, <2>1, <2>3
    <2>4. QED BY <2>2, <2>3
<1>7. BuffersSorted(C, R, P, Bn)
    <2> SUFFICES ASSUME NEW s \in Bn
                 PROVE  Sorted(C[s]) /\ \A y \in Items(C[s]) : Precedes(y, Append(P[s], R[s]))
        BY DEF BuffersSorted
    <2>1. Sorted(B[s]) /\ \A y \in Items(B[s]) : Precedes(y, Append(P[s], S[s]))
        BY DEF OutGood, BuffersSorted
    <2>2. CASE s = t
        <3>1. \A y \in Items(B[t]) : Precedes(y, place)
            BY <2>1, <2>2 DEF place
        <3>2. Sorted(C[t])
            BY <1>1, <1>b, <2>1, <2>2, <3>1, SortedAppend
        <3>3. \A y \in Items(C[t]) : Precedes(y, next)
            BY <1>1, <1>b, <1>c, <1>d, <3>1
        <3>4. QED BY <1>3, <2>2, <3>2, <3>3
    <2>3. CASE s # t
        BY <1>a, <1>1, <1>4, <2>1, <2>3
    <2>4. QED BY <2>2, <2>3
<1>8. WrittenBefore(W, R, P, Bn, Fn)
    <2> SUFFICES ASSUME NEW s \in Bn \ Fn, NEW x \in Items(W) PROVE Precedes(x, Append(P[s], R[s]))
        BY DEF WrittenBefore
    <2>1. Precedes(x, Append(P[s], S[s])) /\ x \in Lines
        BY <1>a, OutTypeParts DEF OutGood, WrittenBefore
    <2>2. CASE s = t
        BY <1>3, <1>d, <2>1, <2>2 DEF place
    <2>3. CASE s # t
        BY <1>a, <1>4, <2>1, <2>3
    <2>4. QED BY <2>2, <2>3
<1>9. BufferedFurther(W, C, P, Bn, Fn, E)
    <2> SUFFICES ASSUME NEW s \in Bn \ Fn, NEW r \in E[s] \ Fn, NEW y \in Items(C[s]) \ Items(W)
                 PROVE  Precedes(P[r], y) \/ (Precedes(y, P[r]) /\ y \in Items(C[r]))
        BY DEF BufferedFurther
    <2>0. r \in Bn
        BY <1>a
    <2>1. CASE y \in Items(B[s])
        <3>a. BufferedFurther(W, B, P, Bn, Fn, E)
            BY DEF OutGood
        <3>1. Precedes(P[r], y) \/ (Precedes(y, P[r]) /\ y \in Items(B[r]))
            BY <2>1, <3>a DEF BufferedFurther
        <3>2. Items(B[r]) \subseteq Items(C[r])
            BY <1>a, <1>1, <2>0
        <3>3. QED BY <3>1, <3>2
    <2>2. CASE y \notin Items(B[s])
        <3>1. s = t /\ y = place
            BY <1>a, <1>1, <2>2
        <3>2. EarlierPrecede(S, P, Bn, E)
            BY DEF OutGood
        <3>3. Precedes(P[r], Append(P[t], S[t]))
            BY <3>1, <3>2 DEF EarlierPrecede
        <3>4. QED BY <3>1, <3>3 DEF place
    <2>3. QED BY <2>1, <2>2
<1>10. NothingOvertakes(W, C, Bn, Fn)
    <2> SUFFICES ASSUME NEW s \in Bn \ Fn, NEW y \in Items(C[s]) \ Items(W), NEW x \in Items(W)
                 PROVE  ~Precedes(y, x)
        BY DEF NothingOvertakes
    <2>1. CASE y \in Items(B[s])
        BY <2>1 DEF OutGood, NothingOvertakes
    <2>2. CASE y \notin Items(B[s])
        <3>1. s = t /\ y = place
            BY <1>a, <1>1, <2>2
        <3>2. Precedes(x, place) /\ x \in Lines
            BY <1>a, <3>1, OutTypeParts DEF OutGood, WrittenBefore, place
        <3>3. QED BY <1>b, <3>1, <3>2, PrecedesAsymmetric
    <2>3. QED BY <2>1, <2>2
<1>11. OutGood(W, C, R, P, Bn, Fn, E)
    BY <1>6, <1>7, <1>8, <1>9, <1>10 DEF OutGood
<1>12. QED BY <1>5, <1>11 DEF C, R, place

\* What is earlier than whom when t has spawned c.
EarlierSpawned(E, t, c) ==
    [s \in OutThreads |->
        IF s = c THEN E[t] ELSE IF s = t \/ t \in E[s] THEN E[s] \cup {c} ELSE E[s]]

\* t spawns c, which starts with what t has in its buffer.
LEMMA SpawnKeeps ==
    ASSUME NEW W, NEW B, NEW S, NEW P, NEW Bn, NEW Fn, NEW E,
           OutTypes(W, B, S, P, Bn, Fn, E), OutGood(W, B, S, P, Bn, Fn, E),
           NEW t \in Bn \ Fn, NEW c \in OutThreads \ Bn,
           NEW C, C = [B EXCEPT ![c] = B[t]],
           NEW R, R = [S EXCEPT ![t] = @ + 1],
           NEW Q, Q = [P EXCEPT ![c] = Append(P[t], S[t])],
           NEW F, F = EarlierSpawned(E, t, c)
    PROVE  /\ OutTypes(W, C, R, Q, Bn \cup {c}, Fn, F)
           /\ OutGood(W, C, R, Q, Bn \cup {c}, Fn, F)
<1> DEFINE place == Append(P[t], S[t])
           next == Append(P[t], S[t] + 1)
           first == Append(place, 0)
<1>a. t \in OutThreads /\ Bn \subseteq OutThreads /\ (\A s \in OutThreads : E[s] \subseteq Bn) /\ Fn \subseteq Bn
      /\ c # t /\ S[c] = 0 /\ OutMain \in Bn
    BY OutTypeParts DEF OutTypes
<1>b. /\ place \in Lines /\ next \in Lines /\ first \in Lines /\ P[t] \in Lines /\ S[t] \in Nat /\ B[t] \in Seq(Lines)
      /\ Items(B[t]) \subseteq Lines
    <2>1. place \in Lines /\ next \in Lines /\ P[t] \in Lines /\ S[t] \in Nat /\ B[t] \in Seq(Lines)
          /\ Items(B[t]) \subseteq Lines
        BY <1>a, OutTypeParts
    <2>2. QED BY <2>1, AppendLine
<1>1. /\ C \in [OutThreads -> Seq(Lines)] /\ C[c] = B[t] /\ \A s \in Bn : C[s] = B[s]
    BY <1>a, <1>b DEF OutTypes
<1>2. /\ R \in [OutThreads -> Nat] /\ R[t] = S[t] + 1 /\ R[c] = 0 /\ \A s \in OutThreads \ {t} : R[s] = S[s]
    BY <1>a DEF OutTypes
<1>3. /\ Q \in [OutThreads -> Lines] /\ Q[c] = place /\ \A s \in Bn : Q[s] = P[s]
    BY <1>a, <1>b DEF OutTypes
<1>4. /\ F \in [OutThreads -> SUBSET (Bn \cup {c})] /\ F[c] = E[t]
      /\ \A s \in Bn : IF s = t \/ t \in E[s] THEN F[s] = E[s] \cup {c} ELSE F[s] = E[s]
    <2>1. F[c] = E[t] /\ \A s \in Bn : IF s = t \/ t \in E[s] THEN F[s] = E[s] \cup {c} ELSE F[s] = E[s]
        BY <1>a DEF EarlierSpawned
    <2>2. QED BY <1>a, <2>1 DEF EarlierSpawned
<1>4a. \A s \in Bn : \A r \in F[s] : r \in E[s] \/ (r = c /\ (s = t \/ t \in E[s]))
    BY <1>4
<1>5. Append(Q[t], R[t]) = next /\ Append(Q[c], R[c]) = first
      /\ \A s \in Bn \ {t} : Append(Q[s], R[s]) = Append(P[s], S[s])
    BY <1>a, <1>2, <1>3
<1>6. Precedes(place, next) /\ \A p \in Lines : Precedes(p, place) => Precedes(p, next) /\ Precedes(p, first)
    <2>1. Precedes(place, next)
        BY <1>b, PrecedesNext
    <2>2. ASSUME NEW p \in Lines, Precedes(p, place) PROVE Precedes(p, next) /\ Precedes(p, first)
        BY <1>b, <2>2, PrecedesStep, PrecedesExtends
    <2>3. QED BY <2>1, <2>2
<1> HIDE DEF place, next, first
<1>7. OutTypes(W, C, R, Q, Bn \cup {c}, Fn, F)
    BY <1>a, <1>1, <1>2, <1>3, <1>4 DEF OutTypes
<1>8. OutOrdered(Bn \cup {c}, Fn, F)
    <2> SUFFICES ASSUME NEW s \in (Bn \cup {c}) \ Fn, NEW r \in (Bn \cup {c}) \ Fn, s # r
                 PROVE  s \in F[r] \/ r \in F[s]
        BY DEF OutOrdered
    <2>0. OutOrdered(Bn, Fn, E)
        BY DEF OutGood
    <2>5. \A u, v \in Bn \ Fn : u # v => u \in E[v] \/ v \in E[u]
        BY <2>0 DEF OutOrdered
    <2>6. \A u \in Bn : E[u] \subseteq F[u] /\ (u = t \/ t \in E[u] => c \in F[u])
        BY <1>4
    <2>1. CASE s \in Bn /\ r \in Bn
        BY <2>5, <2>6, <2>1
    <2>2. CASE s = c
        BY <1>4, <2>5, <2>6, <2>2
    <2>3. CASE r = c
        BY <1>4, <2>5, <2>6, <2>3
    <2>4. QED BY <2>1, <2>2, <2>3
<1>9. EarlierPrecede(R, Q, Bn \cup {c}, F)
    <2> SUFFICES ASSUME NEW s \in Bn \cup {c}, NEW r \in F[s] PROVE Precedes(Q[r], Append(Q[s], R[s]))
        BY DEF EarlierPrecede
    <2>0. \A u \in Bn : \A v \in E[u] : Precedes(P[v], Append(P[u], S[u])) /\ v \in Bn /\ P[v] \in Lines
        BY <1>a, OutTypeParts DEF OutGood, EarlierPrecede
    <2>1. CASE s = c
        <3>1. r \in E[t] /\ Precedes(P[r], place) /\ Q[r] = P[r] /\ P[r] \in Lines
            BY <1>3, <1>4, <2>0, <2>1 DEF place
        <3>2. QED BY <1>5, <1>6, <2>1, <3>1
    <2>2. CASE s \in Bn /\ r \in E[s]
        <3>1. Precedes(P[r], Append(P[s], S[s])) /\ Q[r] = P[r] /\ P[r] \in Lines
            BY <1>3, <2>0, <2>2
        <3>2. CASE s = t
            BY <1>5, <1>6, <3>1, <3>2 DEF place
        <3>3. CASE s # t
            BY <1>5, <2>2, <3>1, <3>3
        <3>4. QED BY <3>2, <3>3
    <2>3. CASE s \in Bn /\ r \notin E[s]
        <3>1. r = c /\ Q[r] = place /\ (s = t \/ t \in E[s])
            BY <1>3, <1>4a, <2>3
        <3>2. CASE s = t
            BY <1>5, <1>6, <3>1, <3>2
        <3>3. CASE s # t
            <4>1. Precedes(P[t], Append(P[s], S[s])) /\ Append(P[s], S[s]) \in Lines
                BY <1>a, <2>0, <2>3, <3>1, <3>3, OutTypeParts
            <4>2. Precedes(place, Append(P[s], S[s]))
                BY <1>b, <4>1, PrecedesExtends DEF place
            <4>3. QED BY <1>5, <2>3, <3>1, <3>3, <4>2
        <3>4. QED BY <3>2, <3>3
    <2>4. QED BY <2>1, <2>2, <2>3
<1>10. BuffersSorted(C, R, Q, Bn \cup {c})
    <2> SUFFICES ASSUME NEW s \in Bn \cup {c}
                 PROVE  Sorted(C[s]) /\ \A y \in Items(C[s]) : Precedes(y, Append(Q[s], R[s]))
        BY DEF BuffersSorted
    <2>0. \A u \in Bn : Sorted(B[u]) /\ \A y \in Items(B[u]) : Precedes(y, Append(P[u], S[u]))
        BY DEF OutGood, BuffersSorted
    <2>1. Sorted(B[t]) /\ \A y \in Items(B[t]) : Precedes(y, next) /\ Precedes(y, first)
        BY <1>b, <1>6, <2>0 DEF place
    <2>2. CASE s = c
        BY <1>1, <1>5, <2>1, <2>2
    <2>3. CASE s = t
        BY <1>1, <1>5, <2>1, <2>3
    <2>4. CASE s \in Bn \ {t}
        BY <1>1, <1>5, <2>0, <2>4
    <2>5. QED BY <2>2, <2>3, <2>4
<1>11. WrittenBefore(W, R, Q, Bn \cup {c}, Fn)
    <2> SUFFICES ASSUME NEW s \in (Bn \cup {c}) \ Fn, NEW x \in Items(W) PROVE Precedes(x, Append(Q[s], R[s]))
        BY DEF WrittenBefore
    <2>0. x \in Lines /\ \A u \in Bn \ Fn : Precedes(x, Append(P[u], S[u]))
        BY <1>a, OutTypeParts DEF OutGood, WrittenBefore
    <2>1. Precedes(x, next) /\ Precedes(x, first)
        BY <1>6, <2>0 DEF place
    <2>2. CASE s = c
        BY <1>5, <2>1, <2>2
    <2>3. CASE s = t
        BY <1>5, <2>1, <2>3
    <2>4. CASE s \in Bn \ {t}
        BY <1>5, <2>0, <2>4
    <2>5. QED BY <2>2, <2>3, <2>4
<1>12. BufferedFurther(W, C, Q, Bn \cup {c}, Fn, F)
    <2> SUFFICES ASSUME NEW s \in (Bn \cup {c}) \ Fn, NEW r \in F[s] \ Fn, NEW y \in Items(C[s]) \ Items(W)
                 PROVE  Precedes(Q[r], y) \/ (Precedes(y, Q[r]) /\ y \in Items(C[r]))
        BY DEF BufferedFurther
    <2>0. BufferedFurther(W, B, P, Bn, Fn, E)
        BY DEF OutGood
    <2>1. CASE s = c
        <3>1. r \in E[t] \ Fn /\ r \in Bn /\ y \in Items(B[t]) \ Items(W)
            BY <1>a, <1>1, <1>4, <2>1
        <3>2. Precedes(P[r], y) \/ (Precedes(y, P[r]) /\ y \in Items(B[r]))
            BY <2>0, <3>1 DEF BufferedFurther
        <3>3. QED BY <1>1, <1>3, <3>1, <3>2
    <2>2. CASE s \in Bn /\ r \in E[s]
        <3>1. r \in E[s] \ Fn /\ r \in Bn /\ y \in Items(B[s]) \ Items(W) /\ s \in Bn \ Fn
            BY <1>a, <1>1, <2>2
        <3>2. Precedes(P[r], y) \/ (Precedes(y, P[r]) /\ y \in Items(B[r]))
            BY <2>0, <3>1 DEF BufferedFurther
        <3>3. QED BY <1>1, <1>3, <3>1, <3>2
    <2>3. CASE s \in Bn /\ r \notin E[s]
        <3>1. r = c /\ Q[r] = place /\ (s = t \/ t \in E[s]) /\ C[r] = B[t] /\ s \in Bn \ Fn
              /\ y \in Items(B[s]) \ Items(W)
            BY <1>1, <1>3, <1>4a, <2>3
        <3>2. CASE s = t
            <4>1. Precedes(y, place)
                BY <3>1, <3>2 DEF OutGood, BuffersSorted, place
            <4>2. QED BY <3>1, <3>2, <4>1
        <3>3. CASE s # t
            <4>1. t \in E[s] \ Fn
                BY <3>1, <3>3
            <4>2. Precedes(P[t], y) \/ (Precedes(y, P[t]) /\ y \in Items(B[t]))
                BY <2>0, <3>1, <4>1 DEF BufferedFurther
            <4>3. y \in Lines
                BY <1>a, <3>1, OutTypeParts
            <4>4. (Precedes(P[t], y) => Precedes(place, y)) /\ (Precedes(y, P[t]) => Precedes(y, place))
                BY <1>b, <4>3, PrecedesExtends DEF place
            <4>5. QED BY <3>1, <4>2, <4>4
        <3>4. QED BY <3>2, <3>3
    <2>4. QED BY <2>1, <2>2, <2>3
<1>13. NothingOvertakes(W, C, Bn \cup {c}, Fn)
    <2> SUFFICES ASSUME NEW s \in (Bn \cup {c}) \ Fn, NEW y \in Items(C[s]) \ Items(W), NEW x \in Items(W)
                 PROVE  ~Precedes(y, x)
        BY DEF NothingOvertakes
    <2>1. \E u \in Bn \ Fn : y \in Items(B[u]) \ Items(W)
        BY <1>1
    <2>2. NothingOvertakes(W, B, Bn, Fn)
        BY DEF OutGood
    <2>3. QED BY <2>1, <2>2 DEF NothingOvertakes
<1>14. QED BY <1>7, <1>8, <1>9, <1>10, <1>11, <1>12, <1>13 DEF OutGood

\* The first thread ends, and what is in its buffer is gone.
LEMMA FinishKeeps ==
    ASSUME NEW W, NEW B, NEW S, NEW P, NEW Bn, NEW Fn, NEW E,
           OutTypes(W, B, S, P, Bn, Fn, E), OutGood(W, B, S, P, Bn, Fn, E),
           NEW t \in Bn \ Fn, NEW C, C = [B EXCEPT ![t] = <<>>]
    PROVE  /\ OutTypes(W, C, S, P, Bn, Fn \cup {t}, E)
           /\ OutGood(W, C, S, P, Bn, Fn \cup {t}, E)
<1>a. t \in OutThreads /\ Bn \subseteq OutThreads /\ <<>> \in Seq(Lines) /\ \A s \in OutThreads : E[s] \subseteq Bn
    BY OutTypeParts DEF OutTypes
<1>1. /\ C \in [OutThreads -> Seq(Lines)] /\ C[t] = <<>> /\ \A s \in OutThreads \ {t} : C[s] = B[s]
    BY <1>a DEF OutTypes
<1>2. \A s \in Bn \ (Fn \cup {t}) : s \in Bn \ Fn /\ C[s] = B[s]
    BY <1>a, <1>1
<1>3. OutTypes(W, C, S, P, Bn, Fn \cup {t}, E)
    BY <1>1 DEF OutTypes
<1>4. BuffersSorted(C, S, P, Bn)
    <2>1. Sorted(<<>>) /\ Items(<<>>) = {}
        BY DEF Sorted, Items
    <2>2. QED BY <1>a, <1>1, <2>1 DEF OutGood, BuffersSorted
<1>5. BufferedFurther(W, C, P, Bn, Fn \cup {t}, E)
    <2>0. BufferedFurther(W, B, P, Bn, Fn, E)
        BY DEF OutGood
    <2>1. \A s \in Bn \ (Fn \cup {t}) : \A r \in E[s] \ (Fn \cup {t}) : r \in E[s] \ Fn /\ C[r] = B[r]
        BY <1>a, <1>1
    <2>2. QED BY <1>2, <2>0, <2>1 DEF BufferedFurther
<1>6. OutOrdered(Bn, Fn \cup {t}, E) /\ EarlierPrecede(S, P, Bn, E)
    BY DEF OutGood, OutOrdered
<1>7. WrittenBefore(W, S, P, Bn, Fn \cup {t}) /\ FirstsSorted(W)
    BY DEF OutGood, WrittenBefore
<1>8. NothingOvertakes(W, C, Bn, Fn \cup {t})
    BY <1>2 DEF OutGood, NothingOvertakes
<1>9. QED BY <1>3, <1>4, <1>5, <1>6, <1>7, <1>8 DEF OutGood

-----------------------------------------------------------------------------
\* A buffer with b lines, of a thread d deep that has made s steps when n threads
\* are born, has no more than this thread and those it descends from can have
\* printed.
Fits(b, d, s, n) == b <= d * OutMaxSteps + s /\ s <= OutMaxSteps /\ d + 1 <= n

BuffersSmall(B, S, P, Bn) ==
    \A t \in Bn : Fits(Len(B[t]), Len(P[t]), S[t], Cardinality(Bn))

LEMMA FitsMoves ==
    ASSUME NEW b \in Nat, NEW d \in Nat, NEW s \in Nat, NEW n \in Nat, Fits(b, d, s, n)
    PROVE  /\ Fits(0, d, s, n) /\ Fits(b, d, s, n + 1)
           /\ s < OutMaxSteps => /\ Fits(b + 1, d, s + 1, n) /\ Fits(b, d, s + 1, n + 1)
                                 /\ Fits(b, d + 1, 0, n + 1)
           /\ \A m \in Nat : n <= m => b <= OutMaxSteps * m
<1>1. OutMaxSteps \in Nat
    BY OutBoundsAssumption
<1>2. PICK k \in Nat : k = OutMaxSteps
    BY <1>1
<1>3. PICK e \in Nat : e = d * k
    OBVIOUS
<1>4. b <= e + s /\ s <= k /\ d + 1 <= n
    BY <1>2, <1>3 DEF Fits
<1>5. Fits(0, d, s, n) /\ Fits(b, d, s, n + 1)
    <2>1. 0 <= e + s /\ d + 1 <= n + 1
        BY <1>4
    <2>2. QED BY <1>2, <1>3, <1>4, <2>1 DEF Fits
<1>6. ASSUME s < k PROVE Fits(b + 1, d, s + 1, n) /\ Fits(b, d, s + 1, n + 1) /\ Fits(b, d + 1, 0, n + 1)
    <2>1. b + 1 <= e + (s + 1) /\ b <= e + (s + 1) /\ s + 1 <= k /\ d + 1 <= n + 1
        BY <1>4, <1>6
    <2>2. (d + 1) * k = e + k
        BY <1>3
    <2>3. b <= (e + k) + 0 /\ d + 1 + 1 <= n + 1 /\ 0 <= k
        BY <1>4
    <2>4. QED BY <1>2, <1>3, <1>4, <2>1, <2>2, <2>3 DEF Fits
<1>7. ASSUME NEW m \in Nat, n <= m PROVE b <= k * m
    <2>1. (d + 1) * k = e + k
        BY <1>3
    <2>2. PICK j \in Nat : m = d + 1 + j
        <3>1. m - (d + 1) \in Nat /\ m = d + 1 + (m - (d + 1))
            BY <1>4, <1>7
        <3>2. QED BY <3>1
    <2>3. k * m = e + k + j * k
        BY <1>3, <2>2
    <2>4. PICK i \in Nat : i = j * k
        OBVIOUS
    <2>5. QED BY <1>4, <2>3, <2>4
<1>8. QED BY <1>2, <1>5, <1>6, <1>7

LEMMA OutCardinalities ==
    ASSUME NEW Bn \in SUBSET OutThreads
    PROVE  /\ Cardinality(Bn) \in Nat /\ Cardinality(OutThreads) \in Nat
           /\ Cardinality(Bn) <= Cardinality(OutThreads)
           /\ \A c \in OutThreads \ Bn : Cardinality(Bn \cup {c}) = Cardinality(Bn) + 1
<1>1. IsFiniteSet(OutThreads) /\ IsFiniteSet(Bn)
    BY OutThreadsAssumption, FS_Subset
<1>2. QED BY <1>1, FS_CardinalityType, FS_Subset, FS_AddElement

\* The numbers BuffersSmall is about.
LEMMA OutLengths ==
    ASSUME NEW W, NEW B, NEW S, NEW P, NEW Bn, NEW Fn, NEW E,
           OutTypes(W, B, S, P, Bn, Fn, E), NEW t \in Bn
    PROVE  /\ t \in OutThreads /\ Bn \in SUBSET OutThreads
           /\ Len(B[t]) \in Nat /\ Len(P[t]) \in Nat /\ S[t] \in Nat /\ Cardinality(Bn) \in Nat
           /\ Len(<<>>) = 0
           /\ \A x \in Lines : Len(Append(B[t], x)) = Len(B[t]) + 1
           /\ \A n \in Nat : Len(Append(P[t], n)) = Len(P[t]) + 1
<1>1. t \in OutThreads /\ Bn \in SUBSET OutThreads
    BY DEF OutTypes
<1>2. B[t] \in Seq(Lines) /\ P[t] \in Lines /\ P[t] \in Seq(Nat) /\ S[t] \in Nat
    BY <1>1, OutTypeParts DEF Lines
<1>3. Len(B[t]) \in Nat /\ Len(P[t]) \in Nat
    BY <1>2, LenProperties
<1>4. \A x \in Lines : Len(Append(B[t], x)) = Len(B[t]) + 1
    BY <1>2, AppendProperties
<1>5. \A n \in Nat : Len(Append(P[t], n)) = Len(P[t]) + 1
    BY <1>2, AppendLine
<1>6. Len(<<>>) = 0
    OBVIOUS
<1>7. QED BY <1>1, <1>2, <1>3, <1>4, <1>5, <1>6, OutCardinalities

LEMMA BufferFits ==
    ASSUME NEW W, NEW B, NEW S, NEW P, NEW Bn, NEW Fn, NEW E,
           OutTypes(W, B, S, P, Bn, Fn, E), BuffersSmall(B, S, P, Bn), NEW t \in Bn
    PROVE  Len(B[t]) \in Nat /\ Len(B[t]) <= OutMaxSteps * Cardinality(OutThreads)
<1>1. Fits(Len(B[t]), Len(P[t]), S[t], Cardinality(Bn))
    BY DEF BuffersSmall
<1>2. /\ Len(B[t]) \in Nat /\ Len(P[t]) \in Nat /\ S[t] \in Nat /\ Cardinality(Bn) \in Nat
      /\ Cardinality(OutThreads) \in Nat /\ Cardinality(Bn) <= Cardinality(OutThreads)
    BY OutLengths, OutCardinalities
<1>3. QED BY <1>1, <1>2, FitsMoves

LEMMA SmallerBuffers ==
    ASSUME NEW W, NEW B, NEW S, NEW P, NEW Bn, NEW Fn, NEW E,
           OutTypes(W, B, S, P, Bn, Fn, E), BuffersSmall(B, S, P, Bn), NEW t \in Bn
    PROVE  BuffersSmall([B EXCEPT ![t] = <<>>], S, P, Bn)
<1> DEFINE C == [B EXCEPT ![t] = <<>>]
<1>1. B \in [OutThreads -> Seq(Lines)] /\ Bn \subseteq OutThreads /\ t \in OutThreads
    BY DEF OutTypes
<1>2. C[t] = <<>> /\ \A s \in Bn \ {t} : C[s] = B[s]
    BY <1>1
<1>3. Fits(Len(<<>>), Len(P[t]), S[t], Cardinality(Bn))
    BY OutLengths, FitsMoves DEF BuffersSmall
<1> HIDE DEF C
<1>4. BuffersSmall(C, S, P, Bn)
    BY <1>2, <1>3 DEF BuffersSmall
<1>5. QED BY <1>4 DEF C

LEMMA PrintStaysSmall ==
    ASSUME NEW W, NEW B, NEW S, NEW P, NEW Bn, NEW Fn, NEW E,
           OutTypes(W, B, S, P, Bn, Fn, E), BuffersSmall(B, S, P, Bn), NEW t \in Bn, S[t] < OutMaxSteps,
           NEW C, C = [B EXCEPT ![t] = Append(@, Append(P[t], S[t]))],
           NEW R, R = [S EXCEPT ![t] = @ + 1]
    PROVE  BuffersSmall(C, R, P, Bn)
<1>1. B \in [OutThreads -> Seq(Lines)] /\ S \in [OutThreads -> Nat] /\ Bn \subseteq OutThreads /\ t \in OutThreads
    BY DEF OutTypes
<1>2. C[t] = Append(B[t], Append(P[t], S[t])) /\ \A s \in Bn \ {t} : C[s] = B[s]
    BY <1>1
<1>3. R[t] = S[t] + 1 /\ \A s \in Bn \ {t} : R[s] = S[s]
    BY <1>1
<1>4. Append(P[t], S[t]) \in Lines
    BY <1>1, OutTypeParts
<1>5. Len(C[t]) = Len(B[t]) + 1
    BY <1>2, <1>4, OutLengths
<1>6. Fits(Len(B[t]) + 1, Len(P[t]), S[t] + 1, Cardinality(Bn))
    BY OutLengths, FitsMoves DEF BuffersSmall
<1>7. QED BY <1>2, <1>3, <1>5, <1>6 DEF BuffersSmall

LEMMA SpawnStaysSmall ==
    ASSUME NEW W, NEW B, NEW S, NEW P, NEW Bn, NEW Fn, NEW E,
           OutTypes(W, B, S, P, Bn, Fn, E), BuffersSmall(B, S, P, Bn), NEW t \in Bn, S[t] < OutMaxSteps,
           NEW c \in OutThreads \ Bn,
           NEW C, C = [B EXCEPT ![c] = B[t]],
           NEW R, R = [S EXCEPT ![t] = @ + 1],
           NEW Q, Q = [P EXCEPT ![c] = Append(P[t], S[t])]
    PROVE  BuffersSmall(C, R, Q, Bn \cup {c})
<1>1. /\ B \in [OutThreads -> Seq(Lines)] /\ S \in [OutThreads -> Nat] /\ P \in [OutThreads -> Lines]
      /\ Bn \in SUBSET OutThreads /\ t \in OutThreads /\ c # t /\ S[c] = 0
    BY DEF OutTypes
<1>2. /\ C[c] = B[t] /\ R[c] = 0 /\ Q[c] = Append(P[t], S[t]) /\ R[t] = S[t] + 1
      /\ \A s \in Bn : C[s] = B[s] /\ Q[s] = P[s]
      /\ \A s \in Bn \ {t} : R[s] = S[s]
    BY <1>1
<1>3. Cardinality(Bn \cup {c}) = Cardinality(Bn) + 1
    BY <1>1, OutCardinalities
<1>4. Len(Q[c]) = Len(P[t]) + 1
    BY <1>2, OutLengths
<1>5. /\ Fits(Len(B[t]), Len(P[t]) + 1, 0, Cardinality(Bn) + 1)
      /\ Fits(Len(B[t]), Len(P[t]), S[t] + 1, Cardinality(Bn) + 1)
    BY OutLengths, FitsMoves DEF BuffersSmall
<1>6. ASSUME NEW s \in Bn PROVE Fits(Len(B[s]), Len(P[s]), S[s], Cardinality(Bn) + 1)
    BY OutLengths, FitsMoves DEF BuffersSmall
<1>7. QED BY <1>2, <1>3, <1>4, <1>5, <1>6 DEF BuffersSmall

-----------------------------------------------------------------------------
\* Where a thread starts is a place its parent has passed, and no other's.
OutPaths(S, P, Bn) ==
    /\ \A t, u \in Bn : \A n \in Nat : P[u] = Append(P[t], n) => n < S[t]
    /\ \A t, u \in Bn : P[t] = P[u] => t = u
    /\ \A u \in Bn : \/ u = OutMain /\ P[u] = <<>>
                     \/ u # OutMain /\ \E v \in Bn, n \in Nat : P[u] = Append(P[v], n)

IsPrinted(y, S, P, Bn) ==
    /\ \E t \in Bn : \E n \in 0 .. S[t] - 1 : y = Append(P[t], n)
    /\ \A t \in Bn \ {OutMain} : y # P[t]

IsThere(y, W, B, Bn) == y \in Items(W) \/ \E u \in Bn : y \in Items(B[u])

\* If every transaction touches something, only the first thread has something
\* in its buffer, and that is next.
OutTouching(W, B, S, P, Bn, Fn, E) ==
    /\ \A t \in Bn : B[t] # <<>> => FirstOf(t, Bn, Fn, E)
    /\ Sorted(W)
    /\ \A t \in Bn : \A x \in Items(W) : \A y \in Items(B[t]) : Precedes(x, y)
    /\ \A y : IsThere(y, W, B, Bn) <=> IsPrinted(y, S, P, Bn)

LEMMA FlushKeepsTouching ==
    ASSUME NEW W, NEW B, NEW S, NEW P, NEW Bn, NEW Fn, NEW E,
           OutTypes(W, B, S, P, Bn, Fn, E), OutGood(W, B, S, P, Bn, Fn, E),
           OutTouching(W, B, S, P, Bn, Fn, E),
           NEW t \in OutThreads, FirstOf(t, Bn, Fn, E),
           NEW V, V = W \o B[t], NEW C, C = [B EXCEPT ![t] = <<>>]
    PROVE  OutTouching(V, C, S, P, Bn, Fn, E) /\ \A u \in Bn : C[u] = <<>>
<1>a. t \in Bn \ Fn /\ E[t] \subseteq Fn
    BY DEF FirstOf
<1>1. W \in Seq(Lines) /\ B[t] \in Seq(Lines) /\ B \in [OutThreads -> Seq(Lines)] /\ Bn \subseteq OutThreads
    BY OutTypeParts DEF OutTypes
<1>2. Items(<<>>) = {} /\ Items(V) = Items(W) \cup Items(B[t])
    <2>1. <<>> \in Lines
        BY DEF Lines
    <2>2. QED BY <1>1, <2>1, ItemsOf
<1>3. C[t] = <<>> /\ \A u \in Bn \ {t} : C[u] = B[u]
    BY <1>1
<1>4. ASSUME NEW u \in Bn \ {t} PROVE B[u] = <<>>
    <2>1. SUFFICES ASSUME B[u] # <<>> PROVE FALSE
        OBVIOUS
    <2>2. u \in Bn \ Fn /\ E[u] \subseteq Fn
        BY <2>1 DEF OutTouching, FirstOf
    <2>3. t \in E[u] \/ u \in E[t]
        BY <1>a, <2>2 DEF OutGood, OutOrdered
    <2>4. QED BY <1>a, <2>2, <2>3
<1>5. \A u \in Bn : C[u] = <<>>
    BY <1>3, <1>4
<1>6. Sorted(V)
    <2>1. Sorted(B[t]) /\ Sorted(W)
        BY <1>a DEF OutGood, BuffersSorted, OutTouching
    <2>2. \A x \in Items(W) : \A y \in Items(B[t]) : Precedes(x, y)
        BY <1>a DEF OutTouching
    <2>3. QED BY <1>1, <2>1, <2>2, SortedConcat
<1>7. \A y : IsThere(y, V, C, Bn) <=> IsThere(y, W, B, Bn)
    BY <1>a, <1>2, <1>4, <1>5 DEF IsThere
<1>8. QED BY <1>2, <1>5, <1>6, <1>7 DEF OutTouching

\* The buffers and the steps after t has printed.
BufferPrinted(B, S, P, t) == [B EXCEPT ![t] = Append(@, Append(P[t], S[t]))]
Stepped(S, t) == [S EXCEPT ![t] = @ + 1]

LEMMA PrintKeepsTouching ==
    ASSUME NEW W, NEW B, NEW S, NEW P, NEW Bn, NEW Fn, NEW E,
           OutTypes(W, B, S, P, Bn, Fn, E), OutGood(W, B, S, P, Bn, Fn, E),
           OutTouching(W, B, S, P, Bn, Fn, E), OutPaths(S, P, Bn),
           NEW t \in OutThreads, FirstOf(t, Bn, Fn, E),
           NEW C, C = BufferPrinted(B, S, P, t), NEW R, R = Stepped(S, t)
    PROVE  OutTouching(W, C, R, P, Bn, Fn, E) /\ OutPaths(R, P, Bn)
<1> DEFINE place == Append(P[t], S[t])
<1>a. t \in Bn \ Fn /\ E[t] \subseteq Fn
    BY DEF FirstOf
<1>1. /\ B[t] \in Seq(Lines) /\ B \in [OutThreads -> Seq(Lines)] /\ Bn \subseteq OutThreads
      /\ S \in [OutThreads -> Nat] /\ place \in Lines
    BY OutTypeParts DEF OutTypes
<1>2. C[t] = Append(B[t], place) /\ \A u \in Bn \ {t} : C[u] = B[u]
    BY <1>1 DEF BufferPrinted, Stepped
<1>3. R[t] = S[t] + 1 /\ (\A u \in Bn \ {t} : R[u] = S[u]) /\ S[t] \in Nat
    BY <1>1 DEF BufferPrinted, Stepped
<1>4. OutPaths(R, P, Bn)
    <2>1. \A u, v \in Bn : \A n \in Nat : P[u] = Append(P[v], n) => n < R[v]
        <3> SUFFICES ASSUME NEW u \in Bn, NEW v \in Bn, NEW n \in Nat, P[u] = Append(P[v], n) PROVE n < R[v]
            OBVIOUS
        <3>1. n < S[v]
            BY DEF OutPaths
        <3>2. CASE v = t
            BY <1>3, <3>1, <3>2
        <3>3. CASE v # t
            BY <1>3, <3>1, <3>3
        <3>4. QED BY <3>2, <3>3
    <2>2. QED BY <2>1 DEF OutPaths
<1> HIDE DEF place
<1>5. Items(C[t]) = Items(B[t]) \cup {place}
    BY <1>1, <1>2, ItemsOf
<1>6. \A x \in Items(W) : Precedes(x, place)
    BY <1>a DEF OutGood, WrittenBefore, place
<1>7. \A u \in Bn : \A x \in Items(W) : \A y \in Items(C[u]) : Precedes(x, y)
    <2>1. \A u \in Bn : \A y \in Items(C[u]) : y \in Items(B[u]) \/ y = place
        BY <1>2, <1>5
    <2>2. \A u \in Bn : \A x \in Items(W) : \A y \in Items(B[u]) : Precedes(x, y)
        BY DEF OutTouching
    <2>3. QED BY <1>6, <2>1, <2>2
<1>8. ASSUME NEW y PROVE IsPrinted(y, R, P, Bn) <=> IsPrinted(y, S, P, Bn) \/ y = place
    <2>1. \A n \in 0 .. R[t] - 1 : n \in 0 .. S[t] - 1 \/ n = S[t]
        BY <1>3
    <2>2. \A u \in Bn : P[u] # place
        BY <1>3, <1>a DEF OutPaths, place
    <2>3. \A u \in Bn : 0 .. S[u] - 1 \subseteq 0 .. R[u] - 1
        <3> SUFFICES ASSUME NEW u \in Bn PROVE 0 .. S[u] - 1 \subseteq 0 .. R[u] - 1
            OBVIOUS
        <3>1. CASE u = t
            BY <1>3, <3>1
        <3>2. CASE u # t
            BY <1>3, <3>2
        <3>3. QED BY <3>1, <3>2
    <2>4. S[t] \in 0 .. R[t] - 1
        BY <1>3
    <2>5. ASSUME IsPrinted(y, R, P, Bn), y # place PROVE IsPrinted(y, S, P, Bn)
        <3>1. PICK u \in Bn : \E n \in 0 .. R[u] - 1 : y = Append(P[u], n)
            BY <2>5 DEF IsPrinted
        <3>2. PICK n \in 0 .. R[u] - 1 : y = Append(P[u], n)
            BY <3>1
        <3>3. n \in 0 .. S[u] - 1
            BY <1>3, <2>1, <2>5, <3>2 DEF place
        <3>4. QED BY <2>5, <3>2, <3>3 DEF IsPrinted
    <2>6. ASSUME IsPrinted(y, S, P, Bn) PROVE IsPrinted(y, R, P, Bn)
        <3>1. PICK u \in Bn : \E n \in 0 .. S[u] - 1 : y = Append(P[u], n)
            BY <2>6 DEF IsPrinted
        <3>2. \E n \in 0 .. R[u] - 1 : y = Append(P[u], n)
            BY <2>3, <3>1
        <3>3. QED BY <2>6, <3>2 DEF IsPrinted
    <2>7. IsPrinted(place, R, P, Bn)
        BY <1>a, <2>2, <2>4 DEF IsPrinted, place
    <2>8. QED BY <2>5, <2>6, <2>7
<1>9. ASSUME NEW y PROVE IsThere(y, W, C, Bn) <=> IsThere(y, W, B, Bn) \/ y = place
    <2>1. \A u \in Bn : y \in Items(C[u]) <=> y \in Items(B[u]) \/ (u = t /\ y = place)
        BY <1>2, <1>5
    <2>2. QED BY <1>a, <2>1 DEF IsThere
<1>10. \A y : IsThere(y, W, C, Bn) <=> IsPrinted(y, R, P, Bn)
    BY <1>8, <1>9 DEF OutTouching
<1>11. \A u \in Bn : C[u] # <<>> => FirstOf(u, Bn, Fn, E)
    BY <1>2 DEF OutTouching
<1>12. OutTouching(W, C, R, P, Bn, Fn, E)
    BY <1>7, <1>10, <1>11 DEF OutTouching
<1>13. QED BY <1>4, <1>12

LEMMA SpawnKeepsTouching ==
    ASSUME NEW W, NEW B, NEW S, NEW P, NEW Bn, NEW Fn, NEW E,
           OutTypes(W, B, S, P, Bn, Fn, E),
           OutTouching(W, B, S, P, Bn, Fn, E), OutPaths(S, P, Bn),
           NEW t \in Bn \ Fn, B[t] = <<>>, NEW c \in OutThreads \ Bn,
           NEW C, C = [B EXCEPT ![c] = B[t]],
           NEW R, R = [S EXCEPT ![t] = @ + 1],
           NEW Q, Q = [P EXCEPT ![c] = Append(P[t], S[t])],
           NEW F, F = EarlierSpawned(E, t, c)
    PROVE  OutTouching(W, C, R, Q, Bn \cup {c}, Fn, F) /\ OutPaths(R, Q, Bn \cup {c})
<1>1. /\ B \in [OutThreads -> Seq(Lines)] /\ S \in [OutThreads -> Nat] /\ P \in [OutThreads -> Lines]
      /\ Bn \subseteq OutThreads /\ t \in OutThreads /\ c # t /\ c # OutMain /\ S[c] = 0 /\ Fn \subseteq Bn
    BY DEF OutTypes
<1>0. PICK place \in Lines : place = Append(P[t], S[t])
    BY <1>1, AppendLine
<1>2. /\ C[c] = <<>> /\ R[c] = 0 /\ Q[c] = place /\ R[t] = S[t] + 1 /\ S[t] \in Nat
      /\ \A s \in Bn : C[s] = B[s] /\ Q[s] = P[s] /\ P[s] \in Lines
      /\ \A s \in Bn \ {t} : R[s] = S[s]
    BY <1>0, <1>1
<1>3. place \in Lines /\ P[t] \in Lines
    BY <1>1
<1>4. \A v \in Bn : \A n \in Nat : place = Append(P[v], n) => v = t /\ n = S[t]
    <2> SUFFICES ASSUME NEW v \in Bn, NEW n \in Nat, place = Append(P[v], n) PROVE v = t /\ n = S[t]
        OBVIOUS
    <2>0. PICK p \in Lines, q \in Lines, k \in Nat : p = P[v] /\ q = P[t] /\ k = S[t]
        BY <1>2, <1>3
    <2>1. P[v] = P[t] /\ n = S[t]
        <3>1. Append(p, n) = Append(q, k)
            BY <1>0, <2>0
        <3>2. p = q /\ n = k
            BY <3>1, AppendLineInjective
        <3>3. QED BY <2>0, <3>2
    <2>2. QED BY <2>1 DEF OutPaths
<1>5. \A u \in Bn : P[u] # place
    <2> SUFFICES ASSUME NEW u \in Bn, P[u] = place PROVE FALSE
        OBVIOUS
    <2>1. P[u] = Append(P[t], S[t]) /\ S[t] \in Nat
        BY <1>0, <1>2
    <2>2. S[t] < S[t]
        BY <2>1 DEF OutPaths
    <2>3. QED BY <2>1, <2>2
<1>6. OutPaths(R, Q, Bn \cup {c})
    <2>1. ASSUME NEW v \in Bn \cup {c}, NEW u \in Bn \cup {c}, NEW n \in Nat, Q[u] = Append(Q[v], n)
          PROVE  n < R[v]
        <3>1. CASE v \in Bn /\ u \in Bn
            <4>1. n < S[v] /\ S[v] \in Nat
                BY <1>1, <1>2, <2>1, <3>1 DEF OutPaths
            <4>2. CASE v = t
                BY <1>2, <4>1, <4>2
            <4>3. CASE v # t
                BY <1>2, <3>1, <4>1, <4>3
            <4>4. QED BY <4>2, <4>3
        <3>2. CASE v \in Bn /\ u = c
            <4>1. v = t /\ n = S[t]
                BY <1>2, <1>4, <2>1, <3>2
            <4>2. QED BY <1>2, <4>1
        <3>3. CASE v = c /\ u \in Bn
            <4>1. P[u] = Append(place, n)
                BY <1>2, <2>1, <3>3
            <4>2. P[u] # <<>>
                <5>1. Len(Append(place, n)) = Len(place) + 1 /\ Len(place) \in Nat
                    BY <1>3, AppendLine
                <5>2. Len(<<>>) # Len(Append(place, n))
                    BY <5>1
                <5>3. QED BY <4>1, <5>2
            <4>3. PICK w \in Bn, m \in Nat : P[u] = Append(P[w], m)
                BY <3>3, <4>2 DEF OutPaths
            <4>4. P[w] = place
                <5>1. PICK p \in Lines : p = P[w]
                    BY <1>2
                <5>2. Append(p, m) = Append(place, n)
                    BY <4>1, <4>3, <5>1
                <5>3. QED BY <5>1, <5>2, AppendLineInjective
            <4>5. QED BY <1>5, <4>4
        <3>4. CASE v = c /\ u = c
            <4>1. place = Append(place, n)
                BY <1>2, <2>1, <3>4
            <4>2. Len(place) = Len(place) + 1 /\ Len(place) \in Nat
                BY <1>3, <4>1, AppendLine
            <4>3. QED BY <4>2
        <3>5. QED BY <3>1, <3>2, <3>3, <3>4
    <2>2. \A v, u \in Bn \cup {c} : Q[v] = Q[u] => v = u
        <3>1. \A v, u \in Bn : P[v] = P[u] => v = u
            BY DEF OutPaths
        <3> SUFFICES ASSUME NEW v \in Bn \cup {c}, NEW u \in Bn \cup {c}, Q[v] = Q[u] PROVE v = u
            OBVIOUS
        <3>2. CASE v \in Bn /\ u \in Bn
            BY <1>2, <3>1, <3>2
        <3>3. CASE v \in Bn /\ u = c
            BY <1>2, <1>5, <3>3
        <3>4. CASE v = c /\ u \in Bn
            BY <1>2, <1>5, <3>4
        <3>5. QED BY <3>2, <3>3, <3>4
    <2>3. \A u \in Bn \cup {c} : \/ u = OutMain /\ Q[u] = <<>>
                                 \/ u # OutMain /\ \E v \in Bn \cup {c}, n \in Nat : Q[u] = Append(Q[v], n)
        <3> SUFFICES ASSUME NEW u \in Bn \cup {c}
                     PROVE  \/ u = OutMain /\ Q[u] = <<>>
                            \/ u # OutMain /\ \E v \in Bn \cup {c}, n \in Nat : Q[u] = Append(Q[v], n)
            OBVIOUS
        <3>1. CASE u = c
            BY <1>1, <1>2, <3>1
        <3>2. CASE u \in Bn
            <4>1. CASE u = OutMain /\ P[u] = <<>>
                BY <1>2, <3>2, <4>1
            <4>2. CASE u # OutMain /\ \E v \in Bn, n \in Nat : P[u] = Append(P[v], n)
                <5>1. PICK v \in Bn, n \in Nat : P[u] = Append(P[v], n)
                    BY <4>2
                <5>2. Q[u] = Append(Q[v], n)
                    BY <1>2, <3>2, <5>1
                <5>3. QED BY <4>2, <5>2
            <4>3. QED BY <3>2, <4>1, <4>2 DEF OutPaths
        <3>3. QED BY <3>1, <3>2
    <2>4. QED BY <2>1, <2>2, <2>3 DEF OutPaths
<1>7. \A u \in Bn : B[u] # <<>> => u # t /\ u \in Bn \ Fn /\ t \notin E[u] /\ F[u] = E[u] /\ F[u] \subseteq Fn
    <2> SUFFICES ASSUME NEW u \in Bn, B[u] # <<>>
                 PROVE  u # t /\ u \in Bn \ Fn /\ t \notin E[u] /\ F[u] = E[u] /\ F[u] \subseteq Fn
        OBVIOUS
    <2>1. u # t /\ u \in Bn \ Fn /\ E[u] \subseteq Fn
        BY DEF OutTouching, FirstOf
    <2>2. t \notin E[u] /\ u # c /\ u \in OutThreads
        BY <1>1, <2>1
    <2>3. QED BY <2>1, <2>2 DEF EarlierSpawned
<1>8. \A u \in Bn \cup {c} : C[u] # <<>> => FirstOf(u, Bn \cup {c}, Fn, F)
    BY <1>2, <1>7 DEF FirstOf
<1>9. Items(<<>>) = {}
    BY DEF Items
<1>10. \A u \in Bn \cup {c} : \A x \in Items(W) : \A y \in Items(C[u]) : Precedes(x, y)
    BY <1>2, <1>9 DEF OutTouching
<1>11. ASSUME NEW y PROVE IsThere(y, W, C, Bn \cup {c}) <=> IsThere(y, W, B, Bn)
    BY <1>2, <1>9 DEF IsThere
<1>12. ASSUME NEW y PROVE IsPrinted(y, R, Q, Bn \cup {c}) <=> IsPrinted(y, S, P, Bn)
    <2>1. \A u \in Bn : S[u] \in Nat /\ P[u] = Q[u]
        BY <1>1, <1>2
    <2>2. ASSUME IsPrinted(y, R, Q, Bn \cup {c}) PROVE IsPrinted(y, S, P, Bn)
        <3>1. PICK u \in Bn \cup {c} : \E n \in 0 .. R[u] - 1 : y = Append(Q[u], n)
            BY <2>2 DEF IsPrinted
        <3>2. PICK n \in 0 .. R[u] - 1 : y = Append(Q[u], n)
            BY <3>1
        <3>3. y # place /\ \A v \in Bn \ {OutMain} : y # P[v]
            BY <1>1, <1>2, <2>2 DEF IsPrinted
        <3>4. u # c
            BY <1>2, <3>2
        <3>5. n \in 0 .. S[u] - 1
            <4>1. CASE u = t
                <5>1. n # S[t]
                    BY <1>0, <1>2, <3>2, <3>3, <4>1
                <5>2. QED BY <1>2, <3>2, <4>1, <5>1
            <4>2. CASE u # t
                BY <1>2, <3>2, <3>4, <4>2
            <4>3. QED BY <4>1, <4>2
        <3>6. QED BY <1>2, <3>2, <3>3, <3>4, <3>5 DEF IsPrinted
    <2>3. ASSUME IsPrinted(y, S, P, Bn) PROVE IsPrinted(y, R, Q, Bn \cup {c})
        <3>1. PICK u \in Bn : \E n \in 0 .. S[u] - 1 : y = Append(P[u], n)
            BY <2>3 DEF IsPrinted
        <3>2. PICK n \in 0 .. S[u] - 1 : y = Append(P[u], n)
            BY <3>1
        <3>3. n \in Nat /\ n \in 0 .. R[u] - 1
            <4>1. CASE u = t
                BY <1>2, <3>2, <4>1
            <4>2. CASE u # t
                BY <1>2, <2>1, <3>2, <4>2
            <4>3. QED BY <4>1, <4>2
        <3>4. y # place
            <4>1. SUFFICES ASSUME y = place PROVE FALSE
                OBVIOUS
            <4>2. u = t /\ n = S[t]
                BY <1>4, <3>2, <3>3, <4>1
            <4>3. QED BY <1>2, <3>2, <4>2
        <3>5. QED BY <1>2, <2>3, <3>2, <3>3, <3>4 DEF IsPrinted
    <2>4. QED BY <2>2, <2>3
<1>13. \A y : IsThere(y, W, C, Bn \cup {c}) <=> IsPrinted(y, R, Q, Bn \cup {c})
    BY <1>11, <1>12 DEF OutTouching
<1>14. OutTouching(W, C, R, Q, Bn \cup {c}, Fn, F)
    BY <1>8, <1>10, <1>13 DEF OutTouching
<1>15. QED BY <1>6, <1>14

LEMMA FinishKeepsTouching ==
    ASSUME NEW W, NEW B, NEW S, NEW P, NEW Bn, NEW Fn, NEW E,
           OutTouching(W, B, S, P, Bn, Fn, E), NEW t \in Bn \ Fn, B[t] = <<>>
    PROVE  OutTouching(W, B, S, P, Bn, Fn \cup {t}, E)
<1>1. \A u \in Bn : B[u] # <<>> => FirstOf(u, Bn, Fn \cup {t}, E)
    BY DEF OutTouching, FirstOf
<1>2. QED BY <1>1 DEF OutTouching

-----------------------------------------------------------------------------
\* Nothing is written before its turn: every transaction touches something, or
\* the buffer holds all there is.
Calm == ~mayOptimize \/ outCapacity >= OutMaxSteps * Cardinality(OutThreads)

OutAll(W, B, S, P, Bn, Fn, E) ==
    /\ OutTypes(W, B, S, P, Bn, Fn, E)
    /\ BuffersSmall(B, S, P, Bn)
    /\ Calm => OutGood(W, B, S, P, Bn, Fn, E)
    /\ ~mayOptimize => OutTouching(W, B, S, P, Bn, Fn, E) /\ OutPaths(S, P, Bn)

\* The invariant.
OutInv ==
    /\ outCapacity \in Nat /\ mayOptimize \in BOOLEAN
    /\ OutAll(written, outBuffer, outStep, outPath, outBorn, outFinished, outEarlier)

LEMMA FlushTypes ==
    ASSUME NEW W, NEW B, NEW S, NEW P, NEW Bn, NEW Fn, NEW E,
           OutTypes(W, B, S, P, Bn, Fn, E), NEW t \in Bn
    PROVE  OutTypes(W \o B[t], [B EXCEPT ![t] = <<>>], S, P, Bn, Fn, E)
<1>1. W \in Seq(Lines) /\ B[t] \in Seq(Lines) /\ B \in [OutThreads -> Seq(Lines)] /\ <<>> \in Seq(Lines)
    BY OutTypeParts DEF OutTypes
<1>2. W \o B[t] \in Seq(Lines) /\ [B EXCEPT ![t] = <<>>] \in [OutThreads -> Seq(Lines)]
    BY <1>1, ConcatProperties
<1>3. QED BY <1>2 DEF OutTypes

LEMMA FlushKeepsAll ==
    ASSUME NEW W, NEW B, NEW S, NEW P, NEW Bn, NEW Fn, NEW E,
           OutAll(W, B, S, P, Bn, Fn, E), NEW t \in Bn, Calm => FirstOf(t, Bn, Fn, E),
           NEW V, V = W \o B[t], NEW C, C = [B EXCEPT ![t] = <<>>]
    PROVE  OutAll(V, C, S, P, Bn, Fn, E)
<1>1. OutTypes(W, B, S, P, Bn, Fn, E) /\ BuffersSmall(B, S, P, Bn) /\ t \in OutThreads
    BY DEF OutAll, OutTypes
<1>2. OutTypes(V, C, S, P, Bn, Fn, E) /\ BuffersSmall(C, S, P, Bn)
    BY <1>1, FlushTypes, SmallerBuffers
<1>3. ASSUME Calm PROVE OutGood(V, C, S, P, Bn, Fn, E)
    BY <1>1, <1>3, FlushKeeps DEF OutAll
<1>4. ASSUME ~mayOptimize PROVE OutTouching(V, C, S, P, Bn, Fn, E) /\ OutPaths(S, P, Bn)
    <2>1. Calm
        BY <1>4 DEF Calm
    <2>2. QED BY <1>1, <1>4, <2>1, FlushKeepsTouching DEF OutAll
<1>5. QED BY <1>2, <1>3, <1>4 DEF OutAll

LEMMA PrintTypes ==
    ASSUME NEW W, NEW B, NEW S, NEW P, NEW Bn, NEW Fn, NEW E,
           OutTypes(W, B, S, P, Bn, Fn, E), NEW t \in Bn
    PROVE  OutTypes(W, [B EXCEPT ![t] = Append(@, Append(P[t], S[t]))], [S EXCEPT ![t] = @ + 1], P, Bn, Fn, E)
<1>1. /\ B[t] \in Seq(Lines) /\ Append(P[t], S[t]) \in Lines /\ S[t] + 1 \in Nat
      /\ B \in [OutThreads -> Seq(Lines)] /\ S \in [OutThreads -> Nat] /\ t \in OutThreads
    BY OutTypeParts DEF OutTypes
<1>2. Append(B[t], Append(P[t], S[t])) \in Seq(Lines)
    BY <1>1, AppendProperties
<1>3. /\ [B EXCEPT ![t] = Append(@, Append(P[t], S[t]))] \in [OutThreads -> Seq(Lines)]
      /\ [S EXCEPT ![t] = @ + 1] \in [OutThreads -> Nat]
      /\ \A u \in OutThreads \ Bn : [S EXCEPT ![t] = @ + 1][u] = S[u]
    BY <1>1, <1>2
<1>4. QED BY <1>3 DEF OutTypes

LEMMA PrintKeepsAll ==
    ASSUME NEW W, NEW B, NEW S, NEW P, NEW Bn, NEW Fn, NEW E,
           OutAll(W, B, S, P, Bn, Fn, E), NEW t \in Bn \ Fn, S[t] < OutMaxSteps,
           ~mayOptimize => FirstOf(t, Bn, Fn, E),
           NEW C, C = [B EXCEPT ![t] = Append(@, Append(P[t], S[t]))],
           NEW R, R = [S EXCEPT ![t] = @ + 1]
    PROVE  OutAll(W, C, R, P, Bn, Fn, E)
<1>1. OutTypes(W, B, S, P, Bn, Fn, E) /\ BuffersSmall(B, S, P, Bn) /\ t \in OutThreads
    BY DEF OutAll, OutTypes
<1>2. OutTypes(W, C, R, P, Bn, Fn, E) /\ BuffersSmall(C, R, P, Bn)
    BY <1>1, PrintTypes, PrintStaysSmall
<1>3. ASSUME Calm PROVE OutGood(W, C, R, P, Bn, Fn, E)
    BY <1>1, <1>3, PrintKeeps DEF OutAll
<1>4. ASSUME ~mayOptimize PROVE OutTouching(W, C, R, P, Bn, Fn, E) /\ OutPaths(R, P, Bn)
    <2>1. Calm
        BY <1>4 DEF Calm
    <2>2. OutGood(W, B, S, P, Bn, Fn, E) /\ OutTouching(W, B, S, P, Bn, Fn, E) /\ OutPaths(S, P, Bn)
          /\ FirstOf(t, Bn, Fn, E)
        BY <1>4, <2>1 DEF OutAll
    <2>3. C = BufferPrinted(B, S, P, t) /\ R = Stepped(S, t)
        BY DEF BufferPrinted, Stepped
    <2>4. QED BY ONLY <1>1, <2>2, <2>3, PrintKeepsTouching
<1>5. QED BY <1>2, <1>3, <1>4 DEF OutAll

LEMMA SpawnTypes ==
    ASSUME NEW W, NEW B, NEW S, NEW P, NEW Bn, NEW Fn, NEW E,
           OutTypes(W, B, S, P, Bn, Fn, E), NEW t \in Bn \ Fn, NEW c \in OutThreads \ Bn,
           NEW C, C = [B EXCEPT ![c] = B[t]],
           NEW R, R = [S EXCEPT ![t] = @ + 1],
           NEW Q, Q = [P EXCEPT ![c] = Append(P[t], S[t])],
           NEW F, F = EarlierSpawned(E, t, c)
    PROVE  OutTypes(W, C, R, Q, Bn \cup {c}, Fn, F)
<1>1. /\ B[t] \in Seq(Lines) /\ Append(P[t], S[t]) \in Lines /\ S[t] + 1 \in Nat
      /\ B \in [OutThreads -> Seq(Lines)] /\ S \in [OutThreads -> Nat] /\ P \in [OutThreads -> Lines]
      /\ t \in OutThreads /\ c # t /\ \A s \in OutThreads : E[s] \subseteq Bn
    BY OutTypeParts DEF OutTypes
<1>2. C \in [OutThreads -> Seq(Lines)] /\ R \in [OutThreads -> Nat] /\ Q \in [OutThreads -> Lines]
    BY <1>1
<1>3. \A s \in OutThreads \ (Bn \cup {c}) : R[s] = S[s]
    BY <1>1
<1>4. F \in [OutThreads -> SUBSET (Bn \cup {c})]
    BY <1>1 DEF EarlierSpawned
<1>5. QED BY <1>2, <1>3, <1>4 DEF OutTypes

LEMMA SpawnKeepsAll ==
    ASSUME NEW W, NEW B, NEW S, NEW P, NEW Bn, NEW Fn, NEW E,
           OutAll(W, B, S, P, Bn, Fn, E), NEW t \in Bn \ Fn, S[t] < OutMaxSteps,
           ~mayOptimize => B[t] = <<>>, NEW c \in OutThreads \ Bn,
           NEW C, C = [B EXCEPT ![c] = B[t]],
           NEW R, R = [S EXCEPT ![t] = @ + 1],
           NEW Q, Q = [P EXCEPT ![c] = Append(P[t], S[t])],
           NEW F, F = EarlierSpawned(E, t, c)
    PROVE  OutAll(W, C, R, Q, Bn \cup {c}, Fn, F)
<1>1. OutTypes(W, B, S, P, Bn, Fn, E) /\ BuffersSmall(B, S, P, Bn)
    BY DEF OutAll
<1>2. OutTypes(W, C, R, Q, Bn \cup {c}, Fn, F)
    BY <1>1, SpawnTypes
<1>2a. BuffersSmall(C, R, Q, Bn \cup {c})
    BY <1>1, SpawnStaysSmall
<1>3. ASSUME Calm PROVE OutGood(W, C, R, Q, Bn \cup {c}, Fn, F)
    <2>1. OutGood(W, B, S, P, Bn, Fn, E)
        BY <1>3 DEF OutAll
    <2>2. QED BY <1>1, <2>1, SpawnKeeps
<1>4. ASSUME ~mayOptimize PROVE OutTouching(W, C, R, Q, Bn \cup {c}, Fn, F) /\ OutPaths(R, Q, Bn \cup {c})
    <2>1. OutTouching(W, B, S, P, Bn, Fn, E) /\ OutPaths(S, P, Bn) /\ B[t] = <<>>
        BY <1>4 DEF OutAll
    <2>2. QED BY <1>1, <2>1, SpawnKeepsTouching
<1>5. QED BY <1>2, <1>2a, <1>3, <1>4 DEF OutAll

LEMMA FinishKeepsAll ==
    ASSUME NEW W, NEW B, NEW S, NEW P, NEW Bn, NEW Fn, NEW E,
           OutAll(W, B, S, P, Bn, Fn, E), NEW t \in Bn \ Fn, ~mayOptimize => B[t] = <<>>,
           NEW C, C = [B EXCEPT ![t] = <<>>]
    PROVE  OutAll(W, C, S, P, Bn, Fn \cup {t}, E)
<1>1. OutTypes(W, B, S, P, Bn, Fn, E) /\ BuffersSmall(B, S, P, Bn)
    BY DEF OutAll
<1>2. OutTypes(W, C, S, P, Bn, Fn \cup {t}, E)
    <2>1. C \in [OutThreads -> Seq(Lines)]
        BY <1>1 DEF OutTypes
    <2>2. QED BY <1>1, <2>1 DEF OutTypes
<1>3. BuffersSmall(C, S, P, Bn)
    BY <1>1, SmallerBuffers
<1>4. ASSUME Calm PROVE OutGood(W, C, S, P, Bn, Fn \cup {t}, E)
    BY <1>1, <1>4, FinishKeeps DEF OutAll
<1>5. ASSUME ~mayOptimize PROVE OutTouching(W, C, S, P, Bn, Fn \cup {t}, E) /\ OutPaths(S, P, Bn)
    <2>1. OutTouching(W, B, S, P, Bn, Fn, E) /\ OutPaths(S, P, Bn) /\ B[t] = <<>>
        BY <1>5 DEF OutAll
    <2>2. C = B
        BY <1>1, <2>1 DEF OutTypes
    <2>3. QED BY <2>1, <2>2, FinishKeepsTouching
<1>6. QED BY <1>2, <1>3, <1>4, <1>5 DEF OutAll

-----------------------------------------------------------------------------
OutHolds == OutAll(written, outBuffer, outStep, outPath, outBorn, outFinished, outEarlier)

\* A step begins with a flush, if the transaction touched something.
LEMMA EndsKeep ==
    ASSUME OutInv, NEW t \in outBorn \ outFinished, NEW touched \in BOOLEAN, CanEnd(t, touched),
           NEW V, V = Flushed(t, touched), NEW C, C = [outBuffer EXCEPT ![t] = Kept(t, touched)]
    PROVE  /\ OutAll(V, C, outStep, outPath, outBorn, outFinished, outEarlier)
           /\ C[t] = Kept(t, touched) /\ C[t] \in Seq(Lines) /\ t \in OutThreads
           /\ touched => FirstOf(t, outBorn, outFinished, outEarlier) /\ C[t] = <<>>
           /\ ~mayOptimize => touched
<1>1. OutHolds /\ mayOptimize \in BOOLEAN
    BY DEF OutInv, OutHolds
<1>2. /\ outBuffer \in [OutThreads -> Seq(Lines)] /\ outBuffer[t] \in Seq(Lines)
      /\ <<>> \in Seq(Lines) /\ t \in OutThreads
    BY <1>1 DEF OutHolds, OutAll, OutTypes
<1>3. C[t] = Kept(t, touched) /\ C[t] \in Seq(Lines)
    BY <1>2 DEF Kept
<1>4. touched => FirstOf(t, outBorn, outFinished, outEarlier) /\ C[t] = <<>>
    BY <1>3 DEF CanEnd, Order!First, FirstOf, Kept
<1>5. ~mayOptimize => touched
    BY DEF CanEnd
<1>6. CASE touched
    <2>1. V = written \o outBuffer[t] /\ C = [outBuffer EXCEPT ![t] = <<>>]
        BY <1>6 DEF Flushed, Kept
    <2>2. OutAll(V, C, outStep, outPath, outBorn, outFinished, outEarlier)
        BY <1>1, <1>4, <1>6, <2>1, FlushKeepsAll DEF OutHolds
    <2>3. QED BY <1>2, <1>3, <1>4, <1>5, <2>2
<1>7. CASE ~touched
    <2>1. V = written /\ C = outBuffer
        BY <1>2, <1>7 DEF Flushed, Kept
    <2>2. QED BY <1>1, <1>2, <1>3, <1>4, <1>5, <2>1 DEF OutHolds
<1>8. QED BY <1>6, <1>7

LEMMA PrintfKeeps ==
    ASSUME OutInv, NEW t \in OutThreads, NEW touched \in BOOLEAN, Printf(t, touched)
    PROVE  OutInv'
<1> DEFINE V == Flushed(t, touched)
           C == [outBuffer EXCEPT ![t] = Kept(t, touched)]
           place == Append(outPath[t], outStep[t])
           D == [C EXCEPT ![t] = Append(@, place)]
           R == [outStep EXCEPT ![t] = @ + 1]
<1>1. /\ t \in outBorn \ outFinished /\ outStep[t] < OutMaxSteps /\ outStep' = R
      /\ UNCHANGED <<outBorn, outFinished, outEarlier, outCapacity, mayOptimize, outPath>>
    BY DEF Printf, Steps, outSetting
<1>2. /\ OutAll(V, C, outStep, outPath, outBorn, outFinished, outEarlier)
      /\ C[t] = Kept(t, touched) /\ C[t] \in Seq(Lines)
      /\ touched => FirstOf(t, outBorn, outFinished, outEarlier) /\ C[t] = <<>>
      /\ ~mayOptimize => touched
    BY <1>1, EndsKeep DEF Printf
<1> HIDE DEF V, C
<1>3. OutAll(V, D, R, outPath, outBorn, outFinished, outEarlier)
    BY <1>1, <1>2, PrintKeepsAll
<1>4. outBuffer \in [OutThreads -> Seq(Lines)] /\ C \in [OutThreads -> Seq(Lines)]
    BY <1>2 DEF OutInv, OutAll, OutTypes
<1>5. D[t] = Append(Kept(t, touched), place)
    BY <1>2, <1>4
<1> HIDE DEF R, place
<1>6. CASE Len(D[t]) > outCapacity
    <2>1. written' = V \o D[t] /\ outBuffer' = [outBuffer EXCEPT ![t] = <<>>]
        BY <1>5, <1>6 DEF Printf, V, Place, place
    <2>2. outBuffer' = [D EXCEPT ![t] = <<>>]
        BY <1>4, <2>1 DEF C
    <2>3. Calm => FirstOf(t, outBorn, outFinished, outEarlier)
        <3>1. CASE ~mayOptimize
            BY <1>2, <3>1
        <3>2. CASE outCapacity >= OutMaxSteps * Cardinality(OutThreads)
            <4>1. Len(D[t]) \in Nat /\ Len(D[t]) <= OutMaxSteps * Cardinality(OutThreads)
                BY <1>1, <1>3, BufferFits DEF OutAll
            <4>2. OutMaxSteps * Cardinality(OutThreads) \in Nat /\ outCapacity \in Nat
                <5>1. OutMaxSteps \in Nat /\ Cardinality(OutThreads) \in Nat
                    BY OutBoundsAssumption, OutThreadsAssumption, FS_CardinalityType
                <5>2. QED BY <5>1 DEF OutInv
            <4>3. QED BY <1>6, <3>2, <4>1, <4>2
        <3>3. QED BY <3>1, <3>2 DEF Calm
    <2>4. t \in outBorn
        BY <1>1
    <2> HIDE DEF D
    <2>5. OutAll(written', outBuffer', R, outPath, outBorn, outFinished, outEarlier)
        BY <1>3, <2>1, <2>2, <2>3, <2>4, FlushKeepsAll
    <2>6. QED BY <1>1, <2>5 DEF OutInv, OutAll, Calm
<1>7. CASE ~(Len(D[t]) > outCapacity)
    <2>1. written' = V /\ outBuffer' = [outBuffer EXCEPT ![t] = D[t]]
        BY <1>5, <1>7 DEF Printf, V, Place, place
    <2>2. outBuffer' = D
        BY <1>4, <2>1 DEF C
    <2>3. QED BY <1>1, <1>3, <2>1, <2>2 DEF OutInv, OutAll, Calm
<1>8. QED BY <1>6, <1>7

LEMMA OutPunctuateKeeps ==
    ASSUME OutInv, NEW t \in OutThreads, NEW touched \in BOOLEAN, OutPunctuate(t, touched)
    PROVE  OutInv'
<1>1. OutAll(written', outBuffer', outStep, outPath, outBorn, outFinished, outEarlier)
    BY EndsKeep DEF OutPunctuate
<1>2. QED BY <1>1 DEF OutPunctuate, OutInv, OutAll, Calm, outSetting

LEMMA OutSpawnKeeps ==
    ASSUME OutInv, NEW t \in OutThreads, NEW c \in OutThreads, NEW touched \in BOOLEAN, OutSpawn(t, c, touched)
    PROVE  OutInv'
<1> DEFINE V == Flushed(t, touched)
           C == [outBuffer EXCEPT ![t] = Kept(t, touched)]
<1>1. /\ t \in outBorn \ outFinished /\ outStep[t] < OutMaxSteps /\ CanEnd(t, touched)
      /\ c \in OutThreads \ outBorn
      /\ outStep' = [outStep EXCEPT ![t] = @ + 1]
      /\ outPath' = [outPath EXCEPT ![c] = Append(outPath[t], outStep[t])]
      /\ outBorn' = outBorn \cup {c} /\ outFinished' = outFinished
      /\ outEarlier' = EarlierSpawned(outEarlier, t, c)
      /\ UNCHANGED <<outCapacity, mayOptimize>>
    BY DEF OutSpawn, Steps, outSetting, Order!Spawn, EarlierSpawned, Place
<1>2. /\ OutAll(V, C, outStep, outPath, outBorn, outFinished, outEarlier)
      /\ C[t] = Kept(t, touched)
      /\ touched => C[t] = <<>>
      /\ ~mayOptimize => touched
    BY <1>1, EndsKeep
<1>3. written' = V /\ outBuffer' = [C EXCEPT ![c] = C[t]]
    <2>1. /\ written' = V
          /\ outBuffer' = [outBuffer EXCEPT ![t] = Kept(t, touched), ![c] = Kept(t, touched)]
        BY DEF OutSpawn
    <2>2. outBuffer \in [OutThreads -> Seq(Lines)]
        BY DEF OutInv, OutAll, OutTypes
    <2>3. QED BY <1>2, <2>1, <2>2
<1> HIDE DEF V, C
<1>4. ~mayOptimize => C[t] = <<>>
    BY <1>2
<1>5. OutAll(written', outBuffer', outStep', outPath', outBorn \cup {c}, outFinished, outEarlier')
    BY <1>1, <1>2, <1>3, <1>4, SpawnKeepsAll
<1>6. QED BY <1>1, <1>5 DEF OutInv, OutAll, Calm

LEMMA OutReturnKeeps ==
    ASSUME OutInv, NEW t \in OutThreads, NEW touched \in BOOLEAN, OutReturn(t, touched)
    PROVE  OutInv'
<1> DEFINE V == Flushed(t, touched)
           C == [outBuffer EXCEPT ![t] = Kept(t, touched)]
<1>1. /\ t \in outBorn \ outFinished /\ CanEnd(t, touched) /\ outFinished' = outFinished \cup {t}
      /\ UNCHANGED <<outBorn, outEarlier, outCapacity, mayOptimize, outStep, outPath>>
    BY DEF OutReturn, outSetting, Order!Finish, Order!First
<1>2. /\ OutAll(V, C, outStep, outPath, outBorn, outFinished, outEarlier)
      /\ touched => C[t] = <<>>
      /\ ~mayOptimize => touched
    BY <1>1, EndsKeep
<1>3. written' = V /\ outBuffer' = [C EXCEPT ![t] = <<>>]
    <2>1. written' = V /\ outBuffer' = [outBuffer EXCEPT ![t] = <<>>]
        BY DEF OutReturn
    <2>2. outBuffer \in [OutThreads -> Seq(Lines)]
        BY DEF OutInv, OutAll, OutTypes
    <2>3. QED BY <2>1, <2>2
<1> HIDE DEF V, C
<1>4. OutAll(written', outBuffer', outStep, outPath, outBorn, outFinished \cup {t}, outEarlier)
    BY <1>1, <1>2, <1>3, FinishKeepsAll
<1>5. QED BY <1>1, <1>4 DEF OutInv, OutAll, Calm

LEMMA OutFinalizeKeeps ==
    ASSUME OutInv, OutFinalize
    PROVE  OutInv'
<1> DEFINE V == written \o outBuffer[OutMain]
           C == [outBuffer EXCEPT ![OutMain] = <<>>]
<1>1. /\ OutMain \in outBorn \ outFinished /\ outFinished' = outFinished \cup {OutMain}
      /\ FirstOf(OutMain, outBorn, outFinished, outEarlier)
      /\ written' = V /\ outBuffer' = C
      /\ UNCHANGED <<outBorn, outEarlier, outCapacity, mayOptimize, outStep, outPath>>
    BY DEF OutFinalize, outSetting, Order!Finish, Order!First, FirstOf
<1>2. outBuffer \in [OutThreads -> Seq(Lines)]
    BY DEF OutInv, OutAll, OutTypes
<1>3. C[OutMain] = <<>> /\ C = [C EXCEPT ![OutMain] = <<>>]
    BY <1>2, OutThreadsAssumption
<1>4. OutAll(V, C, outStep, outPath, outBorn, outFinished, outEarlier)
    BY <1>1, FlushKeepsAll DEF OutInv
<1> HIDE DEF V, C
<1>5. OutAll(V, C, outStep, outPath, outBorn, outFinished \cup {OutMain}, outEarlier)
    BY <1>1, <1>3, <1>4, FinishKeepsAll
<1>6. QED BY <1>1, <1>5 DEF OutInv, OutAll, Calm

LEMMA OutInitGood == OutInit => OutInv
<1> SUFFICES ASSUME OutInit PROVE OutInv
    OBVIOUS
<1>1. /\ outBorn = {OutMain} /\ outFinished = {} /\ outEarlier = [t \in OutThreads |-> {}]
      /\ outBuffer = [t \in OutThreads |-> <<>>] /\ written = <<>>
      /\ outStep = [t \in OutThreads |-> 0] /\ outPath = [t \in OutThreads |-> <<>>]
    BY DEF OutInit, Order!Init
<1>2. OutMain \in OutThreads /\ <<>> \in Lines /\ <<>> \in Seq(Lines) /\ Items(<<>>) = {} /\ Sorted(<<>>)
      /\ FirstsSorted(<<>>) /\ 0 \in Nat
    BY OutThreadsAssumption DEF Lines, Items, Sorted, FirstsSorted
<1>3. outCapacity \in Nat /\ mayOptimize \in BOOLEAN
    BY OutBoundsAssumption DEF OutInit
<1>4. OutTypes(written, outBuffer, outStep, outPath, outBorn, outFinished, outEarlier)
    BY <1>1, <1>2 DEF OutTypes
<1>5. BuffersSmall(outBuffer, outStep, outPath, outBorn)
    <2>1. Fits(0, 0, 0, 1)
        <3>1. 0 * OutMaxSteps + 0 = 0 /\ 0 <= OutMaxSteps
            BY OutBoundsAssumption
        <3>2. QED BY <3>1 DEF Fits
    <2>2. Cardinality({OutMain}) = 1
        BY FS_Singleton
    <2>3. Len(<<>>) = 0
        OBVIOUS
    <2>4. \A t \in outBorn : outBuffer[t] = <<>> /\ outPath[t] = <<>> /\ outStep[t] = 0
        BY <1>1, <1>2
    <2>5. QED BY <1>1, <2>1, <2>2, <2>3, <2>4 DEF BuffersSmall
<1>6. OutGood(written, outBuffer, outStep, outPath, outBorn, outFinished, outEarlier)
    BY <1>1, <1>2 DEF OutGood, OutOrdered, EarlierPrecede, BuffersSorted, WrittenBefore,
        BufferedFurther, NothingOvertakes
<1>7. OutPaths(outStep, outPath, outBorn)
    <2>1. \A n \in Nat : Append(<<>>, n) # <<>>
        <3> SUFFICES ASSUME NEW n \in Nat PROVE Append(<<>>, n) # <<>>
            OBVIOUS
        <3>1. Len(Append(<<>>, n)) # Len(<<>>)
            BY <1>2, AppendLine
        <3>2. QED BY <3>1
    <2>2. QED BY <1>1, <1>2, <2>1 DEF OutPaths
<1>8. OutTouching(written, outBuffer, outStep, outPath, outBorn, outFinished, outEarlier)
    <2>1. \A y : ~IsThere(y, written, outBuffer, outBorn)
        BY <1>1, <1>2 DEF IsThere
    <2>2. \A y : ~IsPrinted(y, outStep, outPath, outBorn)
        BY <1>1, <1>2 DEF IsPrinted
    <2>3. QED BY <1>1, <1>2, <2>1, <2>2 DEF OutTouching
<1>9. QED BY <1>3, <1>4, <1>5, <1>6, <1>7, <1>8 DEF OutInv, OutAll

LEMMA OutStepsGood == OutInv /\ [OutNext]_outVars => OutInv'
<1> SUFFICES ASSUME OutInv, [OutNext]_outVars PROVE OutInv'
    OBVIOUS
<1>1. CASE UNCHANGED outVars
    BY <1>1 DEF outVars, outSetting, OutInv, OutAll, Calm
<1>2. CASE OutNext
    BY <1>2, PrintfKeeps, OutPunctuateKeeps, OutSpawnKeeps, OutReturnKeeps, OutFinalizeKeeps DEF OutNext
<1>3. QED BY <1>1, <1>2

\* With a buffer large enough, the first copies of the lines reach the file in
\* sequential order, for any number of threads and of steps.
THEOREM LinesReachTheFileInOrder == OutSpec => []FirstWritesInOrder
<1>1. OutInv => FirstWritesInOrder
    <2> SUFFICES ASSUME OutInv, outCapacity >= OutMaxSteps * Cardinality(OutThreads)
                 PROVE  \A i, j \in 1 .. Len(written) :
                            i < j /\ Precedes(written[j], written[i]) =>
                                \E k \in 1 .. i : written[k] = written[j]
        BY DEF FirstWritesInOrder
    <2>1. FirstsSorted(written)
        BY DEF OutInv, OutAll, OutGood, Calm
    <2>2. QED BY <2>1 DEF FirstsSorted
<1>2. QED BY <1>1, OutInitGood, OutStepsGood, PTL DEF OutSpec

\* If every transaction touches something, the file is, in the end, what a
\* sequential run writes.
THEOREM TouchingProgramsPrintSequentially == OutSpec => []TouchingOutputIsSequential
<1>1. OutInv => TouchingOutputIsSequential
    <2> SUFFICES ASSUME OutInv, ~mayOptimize, outFinished = outBorn
                 PROVE  /\ \A i, j \in 1 .. Len(written) : i < j => Precedes(written[i], written[j])
                        /\ {written[i] : i \in 1 .. Len(written)} = Printed
        BY DEF TouchingOutputIsSequential, OutputIsSequential
    <2>1. OutTouching(written, outBuffer, outStep, outPath, outBorn, outFinished, outEarlier)
        BY DEF OutInv, OutAll
    <2>2. \A i, j \in 1 .. Len(written) : i < j => Precedes(written[i], written[j])
        BY <2>1 DEF OutTouching, Sorted
    <2>3. \A t \in outBorn : outBuffer[t] = <<>>
        BY <2>1 DEF OutTouching, FirstOf
    <2>4. \A y : y \in Items(written) <=> IsPrinted(y, outStep, outPath, outBorn)
        <3>1. Items(<<>>) = {}
            BY DEF Items
        <3>2. \A y : IsThere(y, written, outBuffer, outBorn) <=> y \in Items(written)
            BY <2>3, <3>1 DEF IsThere
        <3>3. QED BY <2>1, <3>2 DEF OutTouching
    <2>5. \A y : y \in Printed <=> IsPrinted(y, outStep, outPath, outBorn)
        <3> SUFFICES ASSUME NEW y PROVE y \in Printed <=> IsPrinted(y, outStep, outPath, outBorn)
            OBVIOUS
        <3> DEFINE All == UNION {{Append(outPath[t], n) : n \in 0 .. outStep[t] - 1} : t \in outBorn}
                   FirstLines == {outPath[t] : t \in outBorn \ {OutMain}}
        <3>1. y \in Printed <=> y \in All /\ y \notin FirstLines
            BY DEF Printed
        <3>2. y \in All <=> \E t \in outBorn : \E n \in 0 .. outStep[t] - 1 : y = Append(outPath[t], n)
            OBVIOUS
        <3>3. y \notin FirstLines <=> \A t \in outBorn \ {OutMain} : y # outPath[t]
            OBVIOUS
        <3> HIDE DEF All, FirstLines
        <3>4. QED BY <3>1, <3>2, <3>3 DEF IsPrinted
    <2>6. Items(written) = Printed
        BY <2>4, <2>5
    <2>7. QED BY <2>2, <2>6 DEF Items
<1>2. QED BY <1>1, OutInitGood, OutStepsGood, PTL DEF OutSpec

-----------------------------------------------------------------------------
\* XIO.

IoFiles == [fd : IoFds, sects : Seq(Nat), closed : BOOLEAN]

IoTypes ==
    /\ ioBorn \subseteq IoProcs /\ ioFinished \subseteq IoProcs
    /\ ioEarlier \in [IoProcs -> SUBSET IoProcs]
    /\ kernelFds \in [IoProcs -> SUBSET IoFds]
    /\ filelist \in [IoProcs -> Seq(IoFiles)]
    /\ disk \in [IoFds -> Seq(Nat)]
    /\ calls \in [IoFds -> Nat]

\* Of two processes that are alive, one runs to its end before the other goes on.
IoOrdered ==
    \A p, q \in ioBorn \ ioFinished : p # q => p \in ioEarlier[q] \/ q \in ioEarlier[p]

\* A process has one entry for a file, and has the file open.
ListsGood ==
    \A p \in IoProcs : \A i \in 1 .. Len(filelist[p]) :
        /\ filelist[p][i].fd \in kernelFds[p]
        /\ \A j \in 1 .. Len(filelist[p]) : filelist[p][j].fd = filelist[p][i].fd => j = i

\* The process that has something to write is the first in order.
PendingFirst ==
    \A p \in IoProcs : \A i \in 1 .. Len(filelist[p]) :
        filelist[p][i].sects # <<>> => IoOrder!First(p)

\* A file has what was written to it first, what is still to be written goes on
\* where the file ends, and nothing else is missing.
DiskInOrder == \A f \in IoFds : \A n \in 1 .. Len(disk[f]) : disk[f][n] = n

PendingGoesOn ==
    \A p \in IoProcs : \A i \in 1 .. Len(filelist[p]) :
        filelist[p][i].sects # <<>> =>
            /\ calls[filelist[p][i].fd] = Len(disk[filelist[p][i].fd]) + Len(filelist[p][i].sects)
            /\ \A n \in 1 .. Len(filelist[p][i].sects) :
                  filelist[p][i].sects[n] = Len(disk[filelist[p][i].fd]) + n

NothingMissing ==
    \A f \in IoFds :
        \/ Len(disk[f]) = calls[f]
        \/ \E p \in IoProcs : \E i \in 1 .. Len(filelist[p]) :
              filelist[p][i].fd = f /\ filelist[p][i].sects # <<>>

FilesGrow == DiskInOrder /\ PendingGoesOn /\ NothingMissing

IoInv ==
    /\ IoTypes /\ IoOrdered
    /\ ~ioLost => ListsGood /\ (~ioMayOptimize => PendingFirst /\ FilesGrow)

LEMMA IoInitInv == IoInit => IoInv
<1> SUFFICES ASSUME IoInit PROVE IoInv
    OBVIOUS
<1> USE IoAssumption DEF IoInit
<1>1. IoTypes
    <2>1. ioBorn \subseteq IoProcs /\ ioFinished \subseteq IoProcs /\ ioEarlier \in [IoProcs -> SUBSET IoProcs]
        BY DEF IoOrder!Init
    <2>2. <<>> \in Seq(IoFiles) /\ <<>> \in Seq(Nat)
        OBVIOUS
    <2>3. QED BY <2>1, <2>2 DEF IoTypes
<1>2. IoOrdered
    BY DEF IoOrder!Init, IoOrdered
<1>3. 1 .. Len(<<>>) = {} /\ Len(<<>>) = 0
    OBVIOUS
<1>4. /\ \A p \in IoProcs : 1 .. Len(filelist[p]) = {}
      /\ \A f \in IoFds : 1 .. Len(disk[f]) = {} /\ Len(disk[f]) = calls[f]
    BY <1>3
<1>5. ListsGood /\ PendingFirst /\ FilesGrow
    BY <1>4 DEF ListsGood, PendingFirst, FilesGrow, DiskInOrder, PendingGoesOn, NothingMissing
<1>6. QED BY <1>1, <1>2, <1>5 DEF IoInv

\* Only one process is the first.
LEMMA IoOneFirst ==
    ASSUME IoOrdered, NEW p \in IoProcs, NEW q \in IoProcs, IoOrder!First(p), IoOrder!First(q)
    PROVE  p = q
BY DEF IoOrdered, IoOrder!First

LEMMA IoFileParts ==
    ASSUME IoTypes, NEW p \in IoProcs, NEW i \in 1 .. Len(filelist[p])
    PROVE  /\ filelist[p] \in Seq(IoFiles) /\ filelist[p][i] \in IoFiles
           /\ filelist[p][i].fd \in IoFds /\ filelist[p][i].sects \in Seq(Nat) /\ filelist[p][i].closed \in BOOLEAN
<1>1. filelist[p] \in Seq(IoFiles)
    BY DEF IoTypes
<1>2. filelist[p][i] \in IoFiles
    BY <1>1
<1>3. QED BY <1>1, <1>2 DEF IoFiles

\* A file is added to the list of p, which has it open.
LEMMA ListAddStep ==
    ASSUME IoInv, ~ioLost, NEW p \in IoProcs, NEW f \in IoFds,
           ListAdd(p, NewFile(f)), Entry(p, f) = {},
           kernelFds' \in [IoProcs -> SUBSET IoFds],
           \A q \in IoProcs : kernelFds[q] \subseteq kernelFds'[q], f \in kernelFds'[p],
           UNCHANGED <<ioOrder, disk, ioLost, calls>>
    PROVE  IoInv'
<1> DEFINE n == Len(filelist[p]) + 1
<1>a. IoTypes /\ IoOrdered /\ ListsGood
    BY DEF IoInv
<1>0. NewFile(f) \in IoFiles /\ NewFile(f).fd = f /\ NewFile(f).sects = <<>> /\ filelist[p] \in Seq(IoFiles)
    <2>1. <<>> \in Seq(Nat)
        OBVIOUS
    <2>2. NewFile(f) \in IoFiles /\ NewFile(f).fd = f /\ NewFile(f).sects = <<>>
        BY <2>1 DEF NewFile, IoFiles
    <2>3. QED BY <1>a, <2>2 DEF IoTypes
<1>1. /\ filelist' \in [IoProcs -> Seq(IoFiles)]
      /\ filelist'[p] = Append(filelist[p], NewFile(f))
      /\ \A q \in IoProcs \ {p} : filelist'[q] = filelist[q]
    BY <1>a, <1>0 DEF ListAdd, IoTypes
<1>2. /\ Len(filelist'[p]) = n /\ n \in Nat /\ filelist'[p][n] = NewFile(f)
      /\ \A i \in 1 .. Len(filelist'[p]) :
            i = n \/ (i \in 1 .. Len(filelist[p]) /\ filelist'[p][i] = filelist[p][i])
      /\ \A i \in 1 .. Len(filelist[p]) : i \in 1 .. Len(filelist'[p]) /\ filelist'[p][i] = filelist[p][i]
    BY <1>0, <1>1
<1>3. \A i \in 1 .. Len(filelist[p]) : filelist[p][i].fd # f
    BY DEF Entry
<1> HIDE DEF n
<1>4. IoTypes' /\ IoOrdered'
    BY <1>a, <1>1 DEF IoTypes, ioOrder, IoOrdered
<1>5. ListsGood'
    <2> SUFFICES ASSUME NEW q \in IoProcs, NEW i \in 1 .. Len(filelist'[q])
                 PROVE  /\ filelist'[q][i].fd \in kernelFds'[q]
                        /\ \A j \in 1 .. Len(filelist'[q]) : filelist'[q][j].fd = filelist'[q][i].fd => j = i
        BY DEF ListsGood
    <2>1. CASE q # p
        BY <1>a, <1>1, <2>1 DEF ListsGood
    <2>2. CASE q = p
        <3>1. \A j \in 1 .. Len(filelist[p]) :
                 /\ filelist[p][j].fd \in kernelFds[p]
                 /\ \A k \in 1 .. Len(filelist[p]) : filelist[p][k].fd = filelist[p][j].fd => k = j
            BY <1>a DEF ListsGood
        <3>2. kernelFds[p] \subseteq kernelFds'[p] /\ f \in kernelFds'[p]
            OBVIOUS
        <3>3. filelist'[p][n].fd = f
            BY <1>0, <1>2
        <3>4. filelist'[q][i].fd \in kernelFds'[q]
            BY <1>2, <2>2, <3>1, <3>2, <3>3
        <3>5. ASSUME NEW j \in 1 .. Len(filelist'[q]), filelist'[q][j].fd = filelist'[q][i].fd
              PROVE  j = i
            BY <1>2, <1>3, <2>2, <3>1, <3>3, <3>5
        <3>6. QED BY <3>4, <3>5
    <2>3. QED BY <2>1, <2>2
<1>6. \A q \in IoProcs : \A i \in 1 .. Len(filelist'[q]) :
          filelist'[q][i].sects # <<>> => i \in 1 .. Len(filelist[q]) /\ filelist'[q][i] = filelist[q][i]
    BY <1>0, <1>1, <1>2
<1>7. \A q \in IoProcs : \A i \in 1 .. Len(filelist[q]) :
          i \in 1 .. Len(filelist'[q]) /\ filelist'[q][i] = filelist[q][i]
    BY <1>1, <1>2
<1>8. ASSUME ~ioMayOptimize PROVE PendingFirst' /\ FilesGrow'
    <2>1. PendingFirst /\ FilesGrow
        BY <1>8 DEF IoInv
    <2>2. PendingFirst'
        BY <2>1, <1>6 DEF PendingFirst, IoOrder!First, ioOrder
    <2>3. FilesGrow'
        <3>1. DiskInOrder'
            BY <2>1 DEF FilesGrow, DiskInOrder
        <3>2. PendingGoesOn'
            <4> SUFFICES ASSUME NEW q \in IoProcs, NEW i \in 1 .. Len(filelist'[q]), filelist'[q][i].sects # <<>>
                         PROVE  /\ calls'[filelist'[q][i].fd]
                                     = Len(disk'[filelist'[q][i].fd]) + Len(filelist'[q][i].sects)
                                /\ \A k \in 1 .. Len(filelist'[q][i].sects) :
                                      filelist'[q][i].sects[k] = Len(disk'[filelist'[q][i].fd]) + k
                BY DEF PendingGoesOn
            <4>1. /\ i \in 1 .. Len(filelist[q]) /\ filelist[q][i].sects # <<>>
                  /\ filelist'[q][i] = filelist[q][i]
                BY <1>6
            <4>2. disk' = disk /\ calls' = calls
                OBVIOUS
            <4>3. /\ calls[filelist[q][i].fd] = Len(disk[filelist[q][i].fd]) + Len(filelist[q][i].sects)
                  /\ \A k \in 1 .. Len(filelist[q][i].sects) :
                        filelist[q][i].sects[k] = Len(disk[filelist[q][i].fd]) + k
                BY <2>1, <4>1 DEF FilesGrow, PendingGoesOn
            <4>4. QED BY <4>1, <4>2, <4>3
        <3>3. NothingMissing'
            <4> SUFFICES ASSUME NEW g \in IoFds, Len(disk[g]) # calls[g]
                         PROVE  \E q \in IoProcs : \E i \in 1 .. Len(filelist'[q]) :
                                    filelist'[q][i].fd = g /\ filelist'[q][i].sects # <<>>
                BY DEF NothingMissing
            <4>1. PICK q \in IoProcs : \E i \in 1 .. Len(filelist[q]) :
                      filelist[q][i].fd = g /\ filelist[q][i].sects # <<>>
                BY <2>1 DEF FilesGrow, NothingMissing
            <4>2. PICK i \in 1 .. Len(filelist[q]) : filelist[q][i].fd = g /\ filelist[q][i].sects # <<>>
                BY <4>1
            <4>3. QED BY <1>7, <4>2
        <3>4. QED BY <3>1, <3>2, <3>3 DEF FilesGrow
    <2>4. QED BY <2>2, <2>3
<1>9. QED BY <1>4, <1>5, <1>8 DEF IoInv, ioOrder

LEMMA IoOpenSteps ==
    ASSUME IoInv, NEW p \in IoProcs, NEW f \in IoFds, NEW made \in BOOLEAN,
           IoOpen(p, f) \/ IoCreat(p, f) \/ IoConnect(p, f, made)
    PROVE  IoInv'
<1>0. ~ioLost /\ IoTypes /\ IoOrdered /\ ListsGood /\ Entry(p, f) = {}
    BY DEF IoOpen, IoCreat, IoConnect, Irrevocable, IoInv, RemoteOpen
<1>1. ASSUME RemoteOpen(p, f)
      PROVE  /\ kernelFds' \in [IoProcs -> SUBSET IoFds] /\ f \in kernelFds'[p]
             /\ \A q \in IoProcs : kernelFds[q] \subseteq kernelFds'[q]
    BY <1>0, <1>1 DEF RemoteOpen, IoTypes
<1>2. ASSUME filelist' = filelist, kernelFds' \in [IoProcs -> SUBSET IoFds],
             \A q \in IoProcs : kernelFds[q] \subseteq kernelFds'[q],
             UNCHANGED <<ioOrder, disk, ioLost, calls>>
      PROVE  IoInv'
    <2>1. IoTypes' /\ IoOrdered'
        BY <1>0, <1>2 DEF IoTypes, IoOrdered, ioOrder
    <2>2. ListsGood'
        BY <1>0, <1>2 DEF ListsGood
    <2>3. ~ioMayOptimize => PendingFirst' /\ FilesGrow'
        <3>1. ASSUME PendingFirst PROVE PendingFirst'
            BY <1>2, <3>1 DEF PendingFirst, IoOrder!First, ioOrder
        <3>2. ASSUME FilesGrow PROVE FilesGrow'
            <4>1. filelist' = filelist /\ disk' = disk /\ calls' = calls
                BY <1>2
            <4>2. DiskInOrder'
                BY <3>2, <4>1 DEF FilesGrow, DiskInOrder
            <4>3. PendingGoesOn'
                BY <3>2, <4>1 DEF FilesGrow, PendingGoesOn
            <4>4. NothingMissing'
                BY <3>2, <4>1 DEF FilesGrow, NothingMissing
            <4>5. QED BY <4>2, <4>3, <4>4 DEF FilesGrow
        <3>3. QED BY <1>0, <1>2, <3>1, <3>2 DEF IoInv, ioOrder
    <2>4. QED BY <1>2, <2>1, <2>2, <2>3 DEF IoInv, ioOrder
<1>3. CASE IoOpen(p, f)
    BY <1>0, <1>1, <1>3, ListAddStep DEF IoOpen
<1>4. CASE IoCreat(p, f)
    BY <1>1, <1>2, <1>4 DEF IoCreat
<1>5. CASE IoConnect(p, f, made)
    <2>1. f \in kernelFds[p] /\ UNCHANGED <<ioOrder, kernelFds, disk, ioLost, calls>>
        BY <1>5 DEF IoConnect
    <2>2. kernelFds' \in [IoProcs -> SUBSET IoFds]
        BY <1>0, <2>1 DEF IoTypes
    <2>3. CASE made
        BY <1>0, <1>5, <2>1, <2>2, <2>3, ListAddStep DEF IoConnect
    <2>4. CASE ~made
        BY <1>2, <1>5, <2>1, <2>2, <2>4 DEF IoConnect
    <2>5. QED BY <2>3, <2>4
<1>6. QED BY <1>3, <1>4, <1>5

\* A sequence with another element in one place.
LEMMA ReplaceAt ==
    ASSUME NEW S, NEW l \in Seq(S), NEW i \in 1 .. Len(l), NEW x \in S
    PROVE  /\ [l EXCEPT ![i] = x] \in Seq(S) /\ Len([l EXCEPT ![i] = x]) = Len(l)
           /\ [l EXCEPT ![i] = x][i] = x
           /\ \A j \in 1 .. Len(l) : j # i => [l EXCEPT ![i] = x][j] = l[j]
OBVIOUS

\* The parts of a file's entry.
LEMMA IoNewEntry ==
    ASSUME NEW file \in IoFiles, NEW s \in Seq(Nat)
    PROVE  /\ [file EXCEPT !.sects = s] \in IoFiles
           /\ [file EXCEPT !.sects = s].fd = file.fd
           /\ [file EXCEPT !.sects = s].sects = s
           /\ [file EXCEPT !.closed = TRUE] \in IoFiles
           /\ [file EXCEPT !.closed = TRUE].fd = file.fd
           /\ [file EXCEPT !.closed = TRUE].sects = file.sects
BY DEF IoFiles

LEMMA IoWriteStep ==
    ASSUME IoInv, NEW p \in IoProcs, NEW f \in IoFds, IoWrite(p, f)
    PROVE  IoInv'
<1>a. ~ioLost /\ IoTypes /\ IoOrdered /\ ListsGood /\ IoOrder!First(p)
    BY DEF IoWrite, Irrevocable, IoInv
<1>b. PICK i \in Entry(p, f) : filelist' = [filelist EXCEPT ![p][i].sects = Append(@, calls[f] + 1)]
    BY DEF IoWrite
<1>c. calls' = [calls EXCEPT ![f] = @ + 1] /\ UNCHANGED <<ioOrder, kernelFds, disk, ioLost>>
    BY DEF IoWrite
<1> DEFINE old == filelist[p][i].sects
           new == Append(old, calls[f] + 1)
           file == [filelist[p][i] EXCEPT !.sects = new]
<1>1. /\ i \in 1 .. Len(filelist[p]) /\ filelist[p][i].fd = f /\ calls[f] \in Nat /\ old \in Seq(Nat)
      /\ filelist[p][i] \in IoFiles
    <2>1. i \in 1 .. Len(filelist[p]) /\ filelist[p][i].fd = f
        BY DEF Entry
    <2>2. QED BY <1>a, <2>1, IoFileParts DEF IoTypes
<1>2. new \in Seq(Nat) /\ Len(new) = Len(old) + 1 /\ new # <<>> /\ Len(old) \in Nat
      /\ new[Len(old) + 1] = calls[f] + 1 /\ \A n \in 1 .. Len(old) : new[n] = old[n]
    <2>1. PICK o \in Seq(Nat), k \in Nat : o = old /\ k = calls[f] + 1
        BY <1>1
    <2>2. PICK a : a = Append(o, k)
        OBVIOUS
    <2>3. a \in Seq(Nat) /\ Len(a) = Len(o) + 1 /\ Len(o) \in Nat
          /\ a[Len(o) + 1] = k /\ \A n \in 1 .. Len(o) : a[n] = o[n]
        BY <2>2
    <2>4. a # <<>>
        BY <2>3
    <2>5. QED BY <2>1, <2>2, <2>3, <2>4
<1>3. file \in IoFiles /\ file.fd = f /\ file.sects = new
    BY <1>1, <1>2, IoNewEntry
<1> DEFINE l == [filelist[p] EXCEPT ![i] = file]
<1>4. filelist' = [filelist EXCEPT ![p] = l]
    BY <1>b
<1>4a. /\ l \in Seq(IoFiles) /\ Len(l) = Len(filelist[p]) /\ l[i] = file
       /\ \A j \in 1 .. Len(filelist[p]) : j # i => l[j] = filelist[p][j]
    <2> HIDE DEF file
    <2>1. filelist[p] \in Seq(IoFiles)
        BY <1>a, <1>1, IoFileParts
    <2>2. QED BY <1>1, <1>3, <2>1, ReplaceAt
<1> HIDE DEF file, new, old, l
<1>5. /\ filelist' \in [IoProcs -> Seq(IoFiles)]
      /\ \A q \in IoProcs \ {p} : filelist'[q] = filelist[q]
      /\ Len(filelist'[p]) = Len(filelist[p]) /\ filelist'[p][i] = file
      /\ \A j \in 1 .. Len(filelist[p]) : j # i => filelist'[p][j] = filelist[p][j]
    <2>1. filelist \in [IoProcs -> Seq(IoFiles)]
        BY <1>a DEF IoTypes
    <2>2. filelist'[p] = l /\ filelist' \in [IoProcs -> Seq(IoFiles)]
          /\ \A q \in IoProcs \ {p} : filelist'[q] = filelist[q]
        BY <1>4, <1>4a, <2>1
    <2>3. QED BY <1>4a, <2>2
<1>6. IoTypes' /\ IoOrdered'
    BY <1>a, <1>c, <1>1, <1>5 DEF IoTypes, IoOrdered, ioOrder
<1>7. \A q \in IoProcs : /\ Len(filelist'[q]) = Len(filelist[q])
                         /\ \A j \in 1 .. Len(filelist[q]) : filelist'[q][j].fd = filelist[q][j].fd
    BY <1>1, <1>3, <1>5
<1>8. ListsGood'
    BY <1>a, <1>c, <1>7 DEF ListsGood
<1>9. ASSUME ~ioMayOptimize PROVE PendingFirst' /\ FilesGrow'
    <2>1. PendingFirst /\ DiskInOrder /\ PendingGoesOn /\ NothingMissing
        BY <1>a, <1>9 DEF IoInv, FilesGrow
    <2>2. PendingFirst'
        <3> SUFFICES ASSUME NEW q \in IoProcs, NEW j \in 1 .. Len(filelist'[q]), filelist'[q][j].sects # <<>>
                     PROVE  IoOrder!First(q)
            BY <1>c DEF PendingFirst, IoOrder!First, ioOrder
        <3>1. CASE q = p
            BY <1>a, <3>1
        <3>2. CASE q # p
            BY <2>1, <1>5, <3>2 DEF PendingFirst
        <3>3. QED BY <3>1, <3>2
    <2>3. \A q \in IoProcs : \A j \in 1 .. Len(filelist[q]) :
              filelist[q][j].sects # <<>> /\ filelist[q][j].fd = f => q = p /\ j = i
        <3>1. ASSUME NEW q \in IoProcs, NEW j \in 1 .. Len(filelist[q]),
                     filelist[q][j].sects # <<>>, filelist[q][j].fd = f
              PROVE  q = p /\ j = i
            <4>1. q = p
                BY <1>a, <2>1, <3>1, IoOneFirst DEF PendingFirst
            <4>2. QED BY <1>a, <1>1, <3>1, <4>1 DEF ListsGood
        <3>2. QED BY <3>1
    <2>4. calls[f] = Len(disk[f]) + Len(old) /\ Len(disk[f]) \in Nat
        <3>1. Len(disk[f]) \in Nat
            BY <1>a DEF IoTypes
        <3>2. CASE old = <<>>
            <4>1. Len(old) = 0
                BY <3>2
            <4>2. Len(disk[f]) = calls[f]
                BY <2>1, <2>3, <3>2 DEF NothingMissing, old
            <4>3. QED BY <3>1, <4>1, <4>2
        <3>3. CASE old # <<>>
            BY <1>1, <2>1, <3>1, <3>3 DEF PendingGoesOn, old
        <3>4. QED BY <3>2, <3>3
    <2>5. \A n \in 1 .. Len(new) : new[n] = Len(disk[f]) + n
        <3> SUFFICES ASSUME NEW n \in 1 .. Len(new) PROVE new[n] = Len(disk[f]) + n
            OBVIOUS
        <3>1. CASE n = Len(old) + 1
            <4>1. new[n] = calls[f] + 1
                BY <1>2, <3>1
            <4>2. Len(old) \in Nat
                BY <1>2
            <4>3. PICK d \in Nat : d = Len(disk[f])
                BY <2>4
            <4>4. calls[f] = d + Len(old)
                BY <2>4, <4>3
            <4>5. new[n] = d + n
                BY <3>1, <4>1, <4>2, <4>4
            <4>6. QED BY <4>3, <4>5
        <3>2. CASE n # Len(old) + 1
            <4>1. n \in 1 .. Len(old)
                BY <1>2, <3>2
            <4>2. old # <<>>
                BY <4>1
            <4>3. old[n] = Len(disk[f]) + n
                BY <1>1, <2>1, <4>1, <4>2 DEF PendingGoesOn, old
            <4>4. QED BY <1>2, <4>1, <4>3
        <3>3. QED BY <3>1, <3>2
    <2>6. calls'[f] = calls[f] + 1 /\ \A g \in IoFds \ {f} : calls'[g] = calls[g]
        BY <1>a, <1>c DEF IoTypes
    <2>7. DiskInOrder'
        BY <1>c, <2>1 DEF DiskInOrder
    <2>8. PendingGoesOn'
        <3> SUFFICES ASSUME NEW q \in IoProcs, NEW j \in 1 .. Len(filelist'[q]), filelist'[q][j].sects # <<>>
                     PROVE  /\ calls'[filelist'[q][j].fd] = Len(disk[filelist'[q][j].fd]) + Len(filelist'[q][j].sects)
                            /\ \A n \in 1 .. Len(filelist'[q][j].sects) :
                                  filelist'[q][j].sects[n] = Len(disk[filelist'[q][j].fd]) + n
            BY <1>c DEF PendingGoesOn
        <3>1. CASE q = p /\ j = i
            <4>1. calls'[f] = Len(disk[f]) + Len(new)
                <5>1. Len(new) = Len(old) + 1 /\ Len(old) \in Nat
                    BY <1>2
                <5>2. calls'[f] = calls[f] + 1 /\ calls[f] \in Nat
                    BY <1>1, <2>6
                <5>3. PICK d \in Nat : d = Len(disk[f])
                    BY <2>4
                <5>4. calls[f] = d + Len(old)
                    BY <2>4, <5>3
                <5>5. calls'[f] = d + Len(new)
                    BY <5>1, <5>2, <5>4
                <5>6. QED BY <5>3, <5>5
            <4>2. QED BY <1>3, <1>5, <2>5, <3>1, <4>1
        <3>2. CASE ~(q = p /\ j = i)
            <4>1. j \in 1 .. Len(filelist[q]) /\ filelist'[q][j] = filelist[q][j]
                BY <1>5, <1>7, <3>2
            <4>2. filelist[q][j].fd # f /\ filelist[q][j].fd \in IoFds
                BY <1>a, <2>3, <3>2, <4>1, IoFileParts
            <4>3. filelist[q][j].sects # <<>> /\ calls'[filelist[q][j].fd] = calls[filelist[q][j].fd]
                BY <2>6, <4>1, <4>2
            <4>4. /\ calls[filelist[q][j].fd] = Len(disk[filelist[q][j].fd]) + Len(filelist[q][j].sects)
                  /\ \A n \in 1 .. Len(filelist[q][j].sects) :
                        filelist[q][j].sects[n] = Len(disk[filelist[q][j].fd]) + n
                BY <2>1, <4>1, <4>3 DEF PendingGoesOn
            <4>5. QED BY <4>1, <4>3, <4>4
        <3>3. QED BY <3>1, <3>2
    <2>9. NothingMissing'
        <3> SUFFICES ASSUME NEW g \in IoFds, Len(disk[g]) # calls'[g]
                     PROVE  \E q \in IoProcs : \E j \in 1 .. Len(filelist'[q]) :
                                filelist'[q][j].fd = g /\ filelist'[q][j].sects # <<>>
            BY <1>c DEF NothingMissing
        <3>1. CASE g = f
            BY <1>1, <1>2, <1>3, <1>5, <3>1
        <3>2. CASE g # f
            <4>1. PICK q \in IoProcs : \E j \in 1 .. Len(filelist[q]) :
                      filelist[q][j].fd = g /\ filelist[q][j].sects # <<>>
                BY <2>1, <2>6, <3>2 DEF NothingMissing
            <4>2. PICK j \in 1 .. Len(filelist[q]) : filelist[q][j].fd = g /\ filelist[q][j].sects # <<>>
                BY <4>1
            <4>3. ~(q = p /\ j = i)
                BY <1>1, <3>2, <4>2
            <4>4. j \in 1 .. Len(filelist'[q]) /\ filelist'[q][j] = filelist[q][j]
                BY <1>5, <1>7, <4>3
            <4>5. QED BY <4>2, <4>4
        <3>3. QED BY <3>1, <3>2
    <2>10. QED BY <2>2, <2>7, <2>8, <2>9 DEF FilesGrow
<1>10. QED BY <1>6, <1>8, <1>9, <1>c DEF IoInv, ioOrder

LEMMA IoCloseStep ==
    ASSUME IoInv, NEW p \in IoProcs, NEW f \in IoFds, IoClose(p, f)
    PROVE  IoInv'
<1>a. ~ioLost /\ IoTypes /\ IoOrdered /\ ListsGood
    BY DEF IoClose, Irrevocable, IoInv
<1>b. PICK i \in Entry(p, f) : filelist' = [filelist EXCEPT ![p][i].closed = TRUE]
    BY DEF IoClose
<1>c. UNCHANGED <<ioOrder, kernelFds, disk, ioLost, calls>>
    BY DEF IoClose
<1> DEFINE file == [filelist[p][i] EXCEPT !.closed = TRUE]
           l == [filelist[p] EXCEPT ![i] = file]
<1>1. i \in 1 .. Len(filelist[p]) /\ filelist[p][i] \in IoFiles /\ filelist[p] \in Seq(IoFiles)
    <2>1. i \in 1 .. Len(filelist[p])
        BY DEF Entry
    <2>2. QED BY <1>a, <2>1, IoFileParts
<1>2. file \in IoFiles /\ file.fd = filelist[p][i].fd /\ file.sects = filelist[p][i].sects
    <2>1. <<>> \in Seq(Nat)
        OBVIOUS
    <2>2. QED BY <1>1, <2>1, IoNewEntry
<1>3. filelist' = [filelist EXCEPT ![p] = l]
    BY <1>b
<1> HIDE DEF file
<1>4. /\ l \in Seq(IoFiles) /\ Len(l) = Len(filelist[p]) /\ l[i] = file
      /\ \A j \in 1 .. Len(filelist[p]) : j # i => l[j] = filelist[p][j]
    BY <1>1, <1>2, ReplaceAt
<1> HIDE DEF l
<1>5. /\ filelist'[p] = l /\ filelist' \in [IoProcs -> Seq(IoFiles)]
      /\ \A q \in IoProcs \ {p} : filelist'[q] = filelist[q]
    <2>1. filelist \in [IoProcs -> Seq(IoFiles)]
        BY <1>a DEF IoTypes
    <2>2. QED BY <1>3, <1>4, <2>1
<1>6. \A q \in IoProcs : /\ Len(filelist'[q]) = Len(filelist[q])
                         /\ \A j \in 1 .. Len(filelist[q]) : /\ filelist'[q][j].fd = filelist[q][j].fd
                                                             /\ filelist'[q][j].sects = filelist[q][j].sects
    BY <1>1, <1>2, <1>4, <1>5
<1>7. IoTypes' /\ IoOrdered' /\ ListsGood'
    <2>1. IoTypes' /\ IoOrdered'
        BY <1>a, <1>c, <1>5 DEF IoTypes, IoOrdered, ioOrder
    <2>2. QED BY <1>a, <1>c, <1>6, <2>1 DEF ListsGood
<1>8. ASSUME ~ioMayOptimize PROVE PendingFirst' /\ FilesGrow'
    <2>1. PendingFirst /\ DiskInOrder /\ PendingGoesOn /\ NothingMissing
        BY <1>a, <1>8 DEF IoInv, FilesGrow
    <2>2. PendingFirst'
        BY <1>c, <1>6, <2>1 DEF PendingFirst, IoOrder!First, ioOrder
    <2>3. DiskInOrder'
        BY <1>c, <2>1 DEF DiskInOrder
    <2>4. PendingGoesOn'
        <3> SUFFICES ASSUME NEW q \in IoProcs, NEW j \in 1 .. Len(filelist'[q]), filelist'[q][j].sects # <<>>
                     PROVE  /\ calls'[filelist'[q][j].fd] = Len(disk'[filelist'[q][j].fd]) + Len(filelist'[q][j].sects)
                            /\ \A n \in 1 .. Len(filelist'[q][j].sects) :
                                  filelist'[q][j].sects[n] = Len(disk'[filelist'[q][j].fd]) + n
            BY DEF PendingGoesOn
        <3>1. /\ j \in 1 .. Len(filelist[q]) /\ filelist[q][j].sects # <<>>
              /\ filelist'[q][j].fd = filelist[q][j].fd /\ filelist'[q][j].sects = filelist[q][j].sects
            BY <1>6
        <3>2. /\ calls[filelist[q][j].fd] = Len(disk[filelist[q][j].fd]) + Len(filelist[q][j].sects)
              /\ \A n \in 1 .. Len(filelist[q][j].sects) :
                    filelist[q][j].sects[n] = Len(disk[filelist[q][j].fd]) + n
            BY <2>1, <3>1 DEF PendingGoesOn
        <3>3. disk' = disk /\ calls' = calls
            BY <1>c
        <3>4. QED BY <3>1, <3>2, <3>3
    <2>5. NothingMissing'
        BY <1>c, <1>6, <2>1 DEF NothingMissing
    <2>6. QED BY <2>2, <2>3, <2>4, <2>5 DEF FilesGrow
<1>9. QED BY <1>c, <1>7, <1>8 DEF IoInv, ioOrder

\* A list without its last file, if that is closed.
LEMMA WithoutClosedFiles ==
    ASSUME NEW l \in Seq(IoFiles)
    PROVE  /\ WithoutClosed(l) \in Seq(IoFiles)
           /\ \A i \in 1 .. Len(WithoutClosed(l)) :
                 /\ i \in 1 .. Len(l)
                 /\ WithoutClosed(l)[i].sects = <<>> /\ WithoutClosed(l)[i].fd = l[i].fd
                 /\ i = Len(l) => ~l[i].closed
<1> DEFINE n == IF l # <<>> /\ l[Len(l)].closed THEN Len(l) - 1 ELSE Len(l)
<1>1. n \in Nat /\ n <= Len(l) /\ Len(l) \in Nat /\ (n = Len(l) => l = <<>> \/ ~l[Len(l)].closed)
    BY DEF IoFiles
<1>2. \A i \in 1 .. n : i \in 1 .. Len(l) /\ l[i] \in IoFiles
    BY <1>1
<1>3. \A i \in 1 .. n : /\ Written(l[i]) \in IoFiles
                        /\ Written(l[i]).sects = <<>> /\ Written(l[i]).fd = l[i].fd
    <2>1. <<>> \in Seq(Nat)
        OBVIOUS
    <2>2. QED BY <1>2, <2>1, IoNewEntry DEF Written
<1>4. WithoutClosed(l) = [i \in 1 .. n |-> Written(l[i])]
    BY DEF WithoutClosed
<1> HIDE DEF n
<1>5. WithoutClosed(l) \in Seq(IoFiles) /\ Len(WithoutClosed(l)) = n
    BY <1>1, <1>3, <1>4
<1>6. QED BY <1>1, <1>2, <1>3, <1>4, <1>5

\* p's files are written and closed, and afterwards nobody has anything to write.
LEMMA CommitIOStep ==
    ASSUME IoInv, ~ioLost, NEW p \in IoProcs, CommitIO(p), IoOrder!First(p),
           UNCHANGED <<ioBorn, ioEarlier, ioMayOptimize, calls>>
    PROVE  /\ filelist' \in [IoProcs -> Seq(IoFiles)] /\ kernelFds' \in [IoProcs -> SUBSET IoFds]
           /\ disk' \in [IoFds -> Seq(Nat)]
           /\ ~ioLost' => ListsGood'
           /\ ~ioLost' /\ ~ioMayOptimize =>
                 /\ \A q \in IoProcs : \A i \in 1 .. Len(filelist'[q]) : filelist'[q][i].sects = <<>>
                 /\ DiskInOrder' /\ \A f \in IoFds : Len(disk'[f]) = calls[f]
<1>a. IoTypes /\ IoOrdered /\ ListsGood
    BY DEF IoInv
<1>1. /\ filelist' \in [IoProcs -> Seq(IoFiles)]
      /\ filelist'[p] = WithoutClosed(filelist[p])
      /\ \A q \in IoProcs \ {p} : filelist'[q] = filelist[q]
      /\ filelist[p] \in Seq(IoFiles)
    <2>1. filelist[p] \in Seq(IoFiles) /\ filelist' = [filelist EXCEPT ![p] = WithoutClosed(filelist[p])]
        BY <1>a DEF IoTypes, CommitIO
    <2>2. WithoutClosed(filelist[p]) \in Seq(IoFiles)
        BY <2>1, WithoutClosedFiles
    <2>3. QED BY <1>a, <2>1, <2>2 DEF IoTypes
<1>2. \A i \in 1 .. Len(filelist'[p]) :
         /\ i \in 1 .. Len(filelist[p])
         /\ filelist'[p][i].sects = <<>> /\ filelist'[p][i].fd = filelist[p][i].fd
         /\ i = Len(filelist[p]) => ~filelist[p][i].closed
    BY <1>1, WithoutClosedFiles
<1>3. /\ kernelFds' = [kernelFds EXCEPT ![p] = @ \ {filelist[p][i].fd : i \in Closed(p)}]
      /\ kernelFds' \in [IoProcs -> SUBSET IoFds]
    BY <1>a DEF CommitIO, RemoteClose, IoTypes
<1>4. ASSUME NEW f \in IoFds, NEW i \in Entry(p, f)
      PROVE  /\ \A j \in Entry(p, f) : j = i
             /\ i \in 1 .. Len(filelist[p]) /\ filelist[p][i].fd = f /\ filelist[p][i].sects \in Seq(Nat)
    <2>1. i \in 1 .. Len(filelist[p]) /\ filelist[p][i].fd = f
        BY DEF Entry
    <2>2. filelist[p][i].sects \in Seq(Nat)
        BY <1>a, <2>1, IoFileParts
    <2>3. QED BY <1>a, <2>1, <2>2 DEF Entry, ListsGood
<1>5. ASSUME NEW f \in IoFds
      PROVE  /\ disk[f] \in Seq(Nat)
             /\ \/ /\ \A i \in Entry(p, f) : filelist[p][i].sects = <<>>
                   /\ disk'[f] = disk[f]
                \/ \E i \in Entry(p, f) :
                      filelist[p][i].sects # <<>> /\ disk'[f] = Append(disk[f], Head(filelist[p][i].sects))
    <2>1. disk'[f] = FirstSections(p)[f] /\ disk[f] \in Seq(Nat)
        BY <1>a DEF CommitIO, FirstSections, IoTypes
    <2>2. CASE \A i \in Entry(p, f) : filelist[p][i].sects = <<>>
        BY <2>1, <2>2 DEF FirstSections
    <2>3. ASSUME NEW i \in Entry(p, f), filelist[p][i].sects # <<>>
          PROVE  disk'[f] = Append(disk[f], Head(filelist[p][i].sects))
        <3>1. (CHOOSE j \in Entry(p, f) : TRUE) = i
            BY <1>4
        <3>2. QED BY <2>1, <2>3, <3>1 DEF FirstSections, RemoteWrite
    <2>4. QED BY <2>1, <2>2, <2>3
<1>6. disk' \in [IoFds -> Seq(Nat)]
    <2>1. disk' = [f \in IoFds |-> disk'[f]]
        BY DEF CommitIO, FirstSections
    <2>2. ASSUME NEW f \in IoFds PROVE disk'[f] \in Seq(Nat)
        <3>1. ASSUME NEW i \in Entry(p, f), filelist[p][i].sects # <<>>,
                     disk'[f] = Append(disk[f], Head(filelist[p][i].sects))
              PROVE  disk'[f] \in Seq(Nat)
            <4>1. Head(filelist[p][i].sects) \in Nat
                BY <1>4, <3>1
            <4>2. QED BY <1>5, <3>1, <4>1
        <3>2. QED BY <1>5, <3>1
    <2>3. QED BY <2>1, <2>2
<1>7. ASSUME ~ioLost' PROVE ListsGood'
    <2>1. \A i \in Closed(p) : i = Len(filelist[p]) /\ i \in 1 .. Len(filelist[p])
        BY <1>7 DEF CommitIO, FilesErased, Closed
    <2> SUFFICES ASSUME NEW q \in IoProcs, NEW i \in 1 .. Len(filelist'[q])
                 PROVE  /\ filelist'[q][i].fd \in kernelFds'[q]
                        /\ \A j \in 1 .. Len(filelist'[q]) : filelist'[q][j].fd = filelist'[q][i].fd => j = i
        BY DEF ListsGood
    <2>2. CASE q # p
        BY <1>a, <1>1, <1>3, <2>2 DEF ListsGood, IoTypes
    <2>3. CASE q = p
        <3>1. i \in 1 .. Len(filelist[p]) /\ filelist'[p][i].fd = filelist[p][i].fd /\ i \notin Closed(p)
            BY <1>2, <2>1, <2>3 DEF Closed
        <3>2. \A j \in Closed(p) : filelist[p][j].fd # filelist[p][i].fd
            BY <1>a, <2>1, <3>1 DEF ListsGood
        <3>3. filelist[p][i].fd \in kernelFds[p]
            BY <1>a, <3>1 DEF ListsGood
        <3>4. filelist'[p][i].fd \in kernelFds'[p]
            BY <1>a, <1>3, <3>1, <3>2, <3>3 DEF IoTypes
        <3>5. ASSUME NEW j \in 1 .. Len(filelist'[p]), filelist'[p][j].fd = filelist'[p][i].fd
              PROVE  j = i
            BY <1>a, <1>2, <3>1, <3>5 DEF ListsGood
        <3>6. QED BY <2>3, <3>4, <3>5
    <2>4. QED BY <2>2, <2>3
<1>8. ASSUME ~ioLost', ~ioMayOptimize
      PROVE  /\ \A q \in IoProcs : \A i \in 1 .. Len(filelist'[q]) : filelist'[q][i].sects = <<>>
             /\ DiskInOrder' /\ \A f \in IoFds : Len(disk'[f]) = calls[f]
    <2>1. PendingFirst /\ DiskInOrder /\ PendingGoesOn /\ NothingMissing
        BY <1>8 DEF IoInv, FilesGrow
    <2>2. \A q \in IoProcs \ {p} : \A i \in 1 .. Len(filelist[q]) : filelist[q][i].sects = <<>>
        BY <1>a, <2>1, IoOneFirst DEF PendingFirst
    <2>3. \A q \in IoProcs : \A i \in 1 .. Len(filelist'[q]) : filelist'[q][i].sects = <<>>
        BY <1>1, <1>2, <2>2
    <2>4. \A i \in 1 .. Len(filelist[p]) : ~(Len(filelist[p][i].sects) > 1)
        BY <1>8 DEF CommitIO, SectionsErased
    <2>5. ASSUME NEW f \in IoFds
          PROVE  Len(disk'[f]) = calls[f] /\ \A n \in 1 .. Len(disk'[f]) : disk'[f][n] = n
        <3>1. PICK d \in Nat : d = Len(disk[f])
            BY <1>5
        <3>2. CASE /\ \A i \in Entry(p, f) : filelist[p][i].sects = <<>>
                   /\ disk'[f] = disk[f]
            <4>1. \A q \in IoProcs : \A i \in 1 .. Len(filelist[q]) :
                      filelist[q][i].fd = f => filelist[q][i].sects = <<>>
                BY <2>2, <3>2 DEF Entry
            <4>2. Len(disk[f]) = calls[f]
                BY <2>1, <4>1 DEF NothingMissing
            <4>3. QED BY <2>1, <3>2, <4>2 DEF DiskInOrder
        <3>3. ASSUME NEW i \in Entry(p, f), filelist[p][i].sects # <<>>,
                     disk'[f] = Append(disk[f], Head(filelist[p][i].sects))
              PROVE  Len(disk'[f]) = calls[f] /\ \A n \in 1 .. Len(disk'[f]) : disk'[f][n] = n
            <4>1. i \in 1 .. Len(filelist[p]) /\ filelist[p][i].fd = f /\ filelist[p][i].sects \in Seq(Nat)
                BY <1>4
            <4> DEFINE sects == filelist[p][i].sects
            <4>2. sects \in Seq(Nat) /\ Len(sects) = 1 /\ Head(sects) = sects[1]
                <5>1. sects \in Seq(Nat) /\ sects # <<>> /\ ~(Len(sects) > 1)
                    BY <2>4, <3>3, <4>1
                <5> HIDE DEF sects
                <5>2. PICK k \in Nat : k = Len(sects)
                    BY <5>1
                <5>3. k # 0 /\ ~(k > 1)
                    BY <5>1, <5>2, EmptySeq
                <5>4. k = 1
                    BY <5>3
                <5>5. Head(sects) = sects[1]
                    BY <5>1
                <5>6. QED BY <5>1, <5>2, <5>4, <5>5
            <4>3. calls[f] = Len(disk[f]) + Len(sects) /\ \A n \in 1 .. Len(sects) : sects[n] = Len(disk[f]) + n
                BY <2>1, <3>3, <4>1 DEF PendingGoesOn
            <4> HIDE DEF sects
            <4>4. calls[f] = d + 1 /\ Head(sects) = d + 1
                BY <3>1, <4>2, <4>3
            <4>5. disk'[f] = Append(disk[f], d + 1)
                BY <3>3, <4>4 DEF sects
            <4>6. /\ Len(disk'[f]) = d + 1 /\ disk'[f][d + 1] = d + 1
                  /\ \A n \in 1 .. d : disk'[f][n] = disk[f][n]
                BY <1>5, <3>1, <4>5
            <4>7. \A n \in 1 .. d : disk[f][n] = n
                BY <2>1, <3>1 DEF DiskInOrder
            <4>8. \A n \in 1 .. d + 1 : n = d + 1 \/ n \in 1 .. d
                OBVIOUS
            <4>9. QED BY <4>4, <4>6, <4>7, <4>8
        <3>4. QED BY <1>5, <3>2, <3>3
    <2>6. DiskInOrder'
        BY <2>5 DEF DiskInOrder
    <2>7. QED BY <2>3, <2>5, <2>6
<1>9. QED BY <1>1, <1>3, <1>6, <1>7, <1>8

LEMMA IoInvAfterCommit ==
    ASSUME IoTypes', IoOrdered', ~ioLost' => ListsGood',
           ~ioLost' /\ ~ioMayOptimize' =>
              /\ \A q \in IoProcs : \A i \in 1 .. Len(filelist'[q]) : filelist'[q][i].sects = <<>>
              /\ DiskInOrder' /\ \A f \in IoFds : Len(disk'[f]) = calls'[f]
    PROVE  IoInv'
<1> SUFFICES ASSUME ~ioLost', ~ioMayOptimize' PROVE PendingFirst' /\ FilesGrow'
    BY DEF IoInv
<1>1. PendingFirst' /\ PendingGoesOn'
    BY DEF PendingFirst, PendingGoesOn
<1>2. NothingMissing'
    BY DEF NothingMissing
<1>3. QED BY <1>1, <1>2 DEF FilesGrow

\* A process ends a transaction, or reads.
LEMMA IoEndSteps ==
    ASSUME IoInv, NEW p \in IoProcs, NEW touched \in BOOLEAN,
           IoRead(p) \/ IoPunctuate(p, touched) \/ IoExit(p, touched)
    PROVE  IoInv'
<1>a. ~ioLost /\ IoTypes /\ IoOrdered /\ ListsGood
    BY DEF IoRead, IoPunctuate, IoExit, IoEnd, Irrevocable, IoInv
<1>b. UNCHANGED <<ioBorn, ioEarlier, ioMayOptimize, calls>>
    BY DEF IoRead, IoPunctuate, IoExit, IoOrder!Finish, ioOrder
<1>c. ioFinished \subseteq ioFinished' /\ ioFinished' \subseteq IoProcs
    BY <1>a DEF IoRead, IoPunctuate, IoExit, IoOrder!Finish, ioOrder, IoTypes
<1>1. IoOrdered'
    BY <1>a, <1>b, <1>c DEF IoOrdered
<1>2. CASE IoOrder!First(p) /\ CommitIO(p)
    <2>1. IoTypes'
        BY <1>a, <1>b, <1>c, <1>2, CommitIOStep DEF IoTypes
    <2>2. ~ioLost' => ListsGood'
        BY <1>a, <1>b, <1>2, CommitIOStep
    <2>3. ~ioLost' /\ ~ioMayOptimize' =>
              /\ \A q \in IoProcs : \A i \in 1 .. Len(filelist'[q]) : filelist'[q][i].sects = <<>>
              /\ DiskInOrder' /\ \A f \in IoFds : Len(disk'[f]) = calls'[f]
        BY <1>a, <1>b, <1>2, CommitIOStep
    <2>4. QED BY <1>1, <2>1, <2>2, <2>3, IoInvAfterCommit
<1>3. CASE ioMayOptimize /\ UNCHANGED <<kernelFds, filelist, disk, ioLost>>
    <2>1. IoTypes'
        BY <1>a, <1>b, <1>c, <1>3 DEF IoTypes
    <2>2. ListsGood'
        BY <1>a, <1>3 DEF ListsGood
    <2>3. QED BY <1>b, <1>1, <1>3, <2>1, <2>2 DEF IoInv
<1>4. QED BY <1>2, <1>3 DEF IoRead, IoPunctuate, IoExit, IoEnd, Irrevocable

LEMMA IoForkStep ==
    ASSUME IoInv, NEW p \in IoProcs, NEW c \in IoProcs, IoFork(p, c)
    PROVE  IoInv'
<1>a. ~ioLost /\ IoTypes /\ IoOrdered /\ ListsGood
    BY DEF IoFork, IoInv
<1>b. UNCHANGED <<ioMayOptimize, disk, ioLost, calls>>
    BY DEF IoFork
<1>1. /\ p \in ioBorn \ ioFinished /\ c \notin ioBorn /\ p # c
      /\ ioBorn' = ioBorn \cup {c} /\ ioFinished' = ioFinished
      /\ ioEarlier' = [s \in IoProcs |->
                          IF s = c THEN ioEarlier[p]
                          ELSE IF s = p \/ p \in ioEarlier[s] THEN ioEarlier[s] \cup {c} ELSE ioEarlier[s]]
    BY DEF IoFork, IoOrder!Spawn
<1>2. /\ filelist' \in [IoProcs -> Seq(IoFiles)] /\ kernelFds' \in [IoProcs -> SUBSET IoFds]
      /\ filelist'[c] = filelist[p] /\ kernelFds'[c] = kernelFds[p]
      /\ \A q \in IoProcs \ {c} : filelist'[q] = filelist[q] /\ kernelFds'[q] = kernelFds[q]
    BY <1>a DEF IoFork, IoTypes
<1>3. IoTypes'
    <2>1. ioBorn' \subseteq IoProcs /\ ioEarlier' \in [IoProcs -> SUBSET IoProcs]
        BY <1>a, <1>1 DEF IoTypes
    <2>2. QED BY <1>a, <1>b, <1>1, <1>2, <2>1 DEF IoTypes
<1>4. IoOrdered'
    <2> SUFFICES ASSUME NEW s \in ioBorn' \ ioFinished', NEW t \in ioBorn' \ ioFinished', s # t
                 PROVE  s \in ioEarlier'[t] \/ t \in ioEarlier'[s]
        BY DEF IoOrdered
    <2>1. s \in IoProcs /\ t \in IoProcs
        BY <1>a, <1>1 DEF IoTypes
    <2>2. CASE s # c /\ t # c
        BY <1>a, <1>1, <2>1, <2>2 DEF IoOrdered
    <2>3. CASE s = c
        BY <1>a, <1>1, <2>1, <2>3 DEF IoOrdered
    <2>4. CASE t = c
        BY <1>a, <1>1, <2>1, <2>4 DEF IoOrdered
    <2>5. QED BY <2>2, <2>3, <2>4
<1>5. ListsGood'
    <2> SUFFICES ASSUME NEW q \in IoProcs, NEW i \in 1 .. Len(filelist'[q])
                 PROVE  /\ filelist'[q][i].fd \in kernelFds'[q]
                        /\ \A j \in 1 .. Len(filelist'[q]) : filelist'[q][j].fd = filelist'[q][i].fd => j = i
        BY DEF ListsGood
    <2>1. CASE q = c
        BY <1>a, <1>2, <2>1 DEF ListsGood
    <2>2. CASE q # c
        BY <1>a, <1>2, <2>2 DEF ListsGood
    <2>3. QED BY <2>1, <2>2
<1>6. ASSUME ~ioMayOptimize PROVE PendingFirst' /\ FilesGrow'
    <2>1. PendingFirst /\ DiskInOrder /\ PendingGoesOn /\ NothingMissing
        BY <1>a, <1>6 DEF IoInv, FilesGrow
    <2>2. \A i \in 1 .. Len(filelist[p]) : filelist[p][i].sects = <<>>
        BY <1>6 DEF IoFork
    <2>3. ASSUME NEW q \in IoProcs, NEW i \in 1 .. Len(filelist[q]), filelist[q][i].sects # <<>>
          PROVE  q # p /\ q # c /\ filelist'[q] = filelist[q] /\ IoOrder!First(q) /\ IoOrder!First(q)'
        <3>1. q # p /\ IoOrder!First(q)
            BY <2>1, <2>2, <2>3 DEF PendingFirst
        <3>2. q # c /\ p \notin ioEarlier[q]
            BY <1>1, <3>1 DEF IoOrder!First
        <3>3. IoOrder!First(q)'
            BY <1>1, <3>1, <3>2 DEF IoOrder!First
        <3>4. QED BY <1>2, <3>1, <3>2, <3>3
    <2>4. ASSUME NEW q \in IoProcs, NEW i \in 1 .. Len(filelist'[q]), filelist'[q][i].sects # <<>>
          PROVE  /\ i \in 1 .. Len(filelist[q]) /\ filelist[q][i].sects # <<>>
                 /\ filelist'[q] = filelist[q] /\ IoOrder!First(q)'
        BY <1>2, <2>2, <2>3, <2>4
    <2>5. PendingFirst'
        BY <2>4 DEF PendingFirst
    <2>6. DiskInOrder'
        BY <1>b, <2>1 DEF DiskInOrder
    <2>7. PendingGoesOn'
        <3> SUFFICES ASSUME NEW q \in IoProcs, NEW j \in 1 .. Len(filelist'[q]), filelist'[q][j].sects # <<>>
                     PROVE  /\ calls'[filelist'[q][j].fd] = Len(disk'[filelist'[q][j].fd]) + Len(filelist'[q][j].sects)
                            /\ \A n \in 1 .. Len(filelist'[q][j].sects) :
                                  filelist'[q][j].sects[n] = Len(disk'[filelist'[q][j].fd]) + n
            BY DEF PendingGoesOn
        <3>1. j \in 1 .. Len(filelist[q]) /\ filelist[q][j].sects # <<>> /\ filelist'[q][j] = filelist[q][j]
            BY <2>4
        <3>2. /\ calls[filelist[q][j].fd] = Len(disk[filelist[q][j].fd]) + Len(filelist[q][j].sects)
              /\ \A n \in 1 .. Len(filelist[q][j].sects) :
                    filelist[q][j].sects[n] = Len(disk[filelist[q][j].fd]) + n
            BY <2>1, <3>1 DEF PendingGoesOn
        <3>3. disk' = disk /\ calls' = calls
            BY <1>b
        <3>4. QED BY <3>1, <3>2, <3>3
    <2>8. NothingMissing'
        <3> SUFFICES ASSUME NEW g \in IoFds, Len(disk[g]) # calls[g]
                     PROVE  \E q \in IoProcs : \E i \in 1 .. Len(filelist'[q]) :
                                filelist'[q][i].fd = g /\ filelist'[q][i].sects # <<>>
            BY <1>b DEF NothingMissing
        <3>1. PICK q \in IoProcs : \E i \in 1 .. Len(filelist[q]) :
                  filelist[q][i].fd = g /\ filelist[q][i].sects # <<>>
            BY <2>1 DEF NothingMissing
        <3>2. QED BY <2>3, <3>1
    <2>9. QED BY <2>5, <2>6, <2>7, <2>8 DEF FilesGrow
<1>7. QED BY <1>b, <1>3, <1>4, <1>5, <1>6 DEF IoInv

LEMMA IoInvInductive == ASSUME IoInv, [IoNext]_ioVars PROVE IoInv'
<1>1. ASSUME NEW p \in IoProcs, NEW f \in IoFds, IoSeekUnknown(p, f) PROVE IoInv'
    <2>1. ioLost' = TRUE /\ UNCHANGED <<ioBorn, ioFinished, ioEarlier, kernelFds, filelist, disk, calls>>
        BY <1>1 DEF IoSeekUnknown, ioOrder
    <2>2. QED BY <2>1 DEF IoInv, IoTypes, IoOrdered
<1>2. ASSUME UNCHANGED ioVars PROVE IoInv'
    <2>1. UNCHANGED <<ioBorn, ioFinished, ioEarlier, ioMayOptimize, kernelFds, filelist, disk, ioLost, calls>>
        BY <1>2 DEF ioVars, ioOrder
    <2>2. IoTypes' /\ IoOrdered'
        BY <2>1 DEF IoInv, IoTypes, IoOrdered
    <2>3. ListsGood => ListsGood'
        BY <2>1 DEF ListsGood
    <2>4. PendingFirst => PendingFirst'
        BY <2>1 DEF PendingFirst, IoOrder!First
    <2>5. DiskInOrder => DiskInOrder'
        BY <2>1 DEF DiskInOrder
    <2>6. PendingGoesOn => PendingGoesOn'
        BY <2>1 DEF PendingGoesOn
    <2>7. NothingMissing => NothingMissing'
        BY <2>1 DEF NothingMissing
    <2>8. QED BY <2>1, <2>2, <2>3, <2>4, <2>5, <2>6, <2>7 DEF IoInv, FilesGrow
<1>3. ASSUME IoNext PROVE IoInv'
    <2>1. PICK p \in IoProcs :
              \/ IoRead(p)
              \/ \E f \in IoFds : \/ IoOpen(p, f) \/ IoCreat(p, f) \/ IoWrite(p, f) \/ IoClose(p, f)
                                  \/ IoSeekUnknown(p, f)
              \/ \E f \in IoSockets, made \in BOOLEAN : IoConnect(p, f, made)
              \/ \E touched \in BOOLEAN : IoPunctuate(p, touched) \/ IoExit(p, touched)
              \/ \E c \in IoProcs : IoFork(p, c)
        BY <1>3 DEF IoNext
    <2>2. CASE IoRead(p)
        BY <2>2, IoEndSteps
    <2>3. ASSUME NEW f \in IoFds, IoOpen(p, f) \/ IoCreat(p, f) PROVE IoInv'
        BY <2>3, IoOpenSteps
    <2>4. ASSUME NEW f \in IoFds, IoWrite(p, f) PROVE IoInv'
        BY <2>4, IoWriteStep
    <2>5. ASSUME NEW f \in IoFds, IoClose(p, f) PROVE IoInv'
        BY <2>5, IoCloseStep
    <2>6. ASSUME NEW f \in IoSockets, NEW made \in BOOLEAN, IoConnect(p, f, made) PROVE IoInv'
        BY <2>6, IoOpenSteps, IoAssumption
    <2>7. ASSUME NEW touched \in BOOLEAN, IoPunctuate(p, touched) \/ IoExit(p, touched) PROVE IoInv'
        BY <2>7, IoEndSteps
    <2>8. ASSUME NEW c \in IoProcs, IoFork(p, c) PROVE IoInv'
        BY <2>8, IoForkStep
    <2>9. QED BY <1>1, <2>1, <2>2, <2>3, <2>4, <2>5, <2>6, <2>7, <2>8
<1>4. QED BY <1>2, <1>3

\* As long as no erased iterator is used, a process has the files of its list
\* open; and if every transaction touches something, a file gets what was written
\* to it, once and in order, by whichever processes, and all of it in the end
\* (xio::write, commit, close; xrun::atomicEnd; xthread::spawn).
THEOREM WritesReachTheirFile == IoSpec => []WritesReachTheFile
<1>1. IoInv => WritesReachTheFile
    <2> SUFFICES ASSUME IoInv, ~ioLost PROVE WritesReachTheFile
        BY DEF WritesReachTheFile
    <2>1. \A p \in IoProcs : \A i \in 1 .. Len(filelist[p]) : filelist[p][i].fd \in kernelFds[p]
        BY DEF IoInv, ListsGood
    <2>2. ASSUME ~ioMayOptimize, NEW f \in IoFds
          PROVE  /\ \A n \in 1 .. Len(disk[f]) : disk[f][n] = n
                 /\ ioFinished = ioBorn => Len(disk[f]) = calls[f]
        <3>1. DiskInOrder /\ NothingMissing /\ PendingFirst
            BY <2>2 DEF IoInv, FilesGrow
        <3>2. ASSUME ioFinished = ioBorn PROVE Len(disk[f]) = calls[f]
            BY <3>1, <3>2 DEF NothingMissing, PendingFirst, IoOrder!First
        <3>3. QED BY <3>1, <3>2 DEF DiskInOrder
    <2>3. QED BY <2>1, <2>2 DEF WritesReachTheFile
<1>2. IoInv /\ [IoNext]_ioVars => IoInv'
    BY IoInvInductive
<1>3. QED BY <1>1, <1>2, IoInitInv, PTL DEF IoSpec

-----------------------------------------------------------------------------
\* Conditions.  Why gracewait and gracesignal need no atomic test-and-clear, for any
\* number of threads, signals and waits: whoever is inside one of them is the first
\* thread in order, and there is one first thread.

USE CvMainAssumption, CvBoundsAssumption

CvTypes ==
    /\ cvBorn \subseteq CvThreads
    /\ cvEarlier \in [CvThreads -> SUBSET CvThreads]
    /\ cvMayOptimize \in BOOLEAN /\ flag \in BOOLEAN
    /\ cvPc \in [CvThreads -> {"run", "signal", "test", "reset"}]
    /\ signals \in Nat /\ waits \in Nat

CvTotalOrder == \A s, t \in cvBorn : s = t \/ s \in cvEarlier[t] \/ t \in cvEarlier[s]

\* Whoever is inside gracesignal or gracewait is first in order.
InsideIsFirst == \A t \in CvThreads : cvPc[t] # "run" => CvOrder!First(t)

\* A flag that is set, and a wait that has seen it, still have a signal to use.
SignalsLeft ==
    /\ waits <= signals
    /\ flag \/ (\E t \in CvThreads : cvPc[t] = "reset") => waits < signals

CvInv == CvTypes /\ (~cvMayOptimize => CvTotalOrder /\ InsideIsFirst /\ SignalsLeft)

-----------------------------------------------------------------------------
LEMMA OneIsFirst ==
    ASSUME CvTypes, CvTotalOrder, NEW s \in CvThreads, NEW t \in CvThreads,
           CvOrder!First(s), CvOrder!First(t)
    PROVE  s = t
BY DEF CvTypes, CvTotalOrder, CvOrder!First

LEMMA CvInitInv == CvInit => CvInv
<1> SUFFICES ASSUME CvInit PROVE CvInv
    OBVIOUS
<1>1. CvTypes /\ CvTotalOrder
    BY DEF CvInit, CvOrder!Init, CvTypes, CvTotalOrder
<1>2. InsideIsFirst /\ SignalsLeft
    BY DEF CvInit, InsideIsFirst, SignalsLeft
<1>3. QED BY <1>1, <1>2 DEF CvInv

LEMMA CvTypesKept ==
    ASSUME CvTypes, NEW t \in CvThreads,
           \/ SignalEnters(t) \/ SignalSets(t) \/ WaitEnters(t) \/ WaitPasses(t) \/ WaitClears(t)
           \/ CvFinish(t) \/ \E c \in CvThreads : CvSpawn(t, c)
    PROVE  CvTypes' /\ cvMayOptimize' = cvMayOptimize
<1>1. CASE \/ SignalEnters(t) \/ SignalSets(t) \/ WaitEnters(t) \/ WaitPasses(t) \/ WaitClears(t)
           \/ CvFinish(t)
    <2>1. /\ UNCHANGED <<cvBorn, cvEarlier, cvMayOptimize>>
          /\ \/ cvPc' = cvPc
             \/ \E p \in {"run", "signal", "test", "reset"} : cvPc' = [cvPc EXCEPT ![t] = p]
        BY <1>1 DEF cvOrder, At, SignalEnters, SignalSets, WaitEnters, WaitPasses, WaitClears, CvFinish,
                    CvOrder!Finish
    <2>2. flag' \in {flag, TRUE, FALSE} /\ signals' \in {signals, signals + 1}
          /\ waits' \in {waits, waits + 1}
        BY <1>1 DEF SignalEnters, SignalSets, WaitEnters, WaitPasses, WaitClears, CvFinish
    <2>3. cvPc' \in [CvThreads -> {"run", "signal", "test", "reset"}]
        BY <2>1 DEF CvTypes
    <2>4. flag' \in BOOLEAN
        BY <2>2 DEF CvTypes
    <2>5. signals' \in Nat /\ waits' \in Nat
        BY <2>2 DEF CvTypes
    <2>6. /\ cvBorn' \subseteq CvThreads
          /\ cvEarlier' \in [CvThreads -> SUBSET CvThreads]
          /\ cvMayOptimize' \in BOOLEAN
        BY <2>1 DEF CvTypes
    <2>7. QED BY <2>1, <2>3, <2>4, <2>5, <2>6 DEF CvTypes
<1>2. ASSUME NEW c \in CvThreads, CvSpawn(t, c)
      PROVE  CvTypes' /\ cvMayOptimize' = cvMayOptimize
    <2>1. cvEarlier' \in [CvThreads -> SUBSET CvThreads]
        BY <1>2 DEF CvSpawn, CvOrder!Spawn, CvTypes
    <2>2. QED BY <1>2, <2>1 DEF CvSpawn, CvOrder!Spawn, CvTypes
<1>3. QED BY <1>1, <1>2

\* The steps of gracesignal and gracewait leave the order alone.
LEMMA FlagStep ==
    ASSUME CvInv, ~cvMayOptimize, NEW t \in CvThreads,
           SignalEnters(t) \/ SignalSets(t) \/ WaitEnters(t) \/ WaitPasses(t) \/ WaitClears(t)
    PROVE  CvTotalOrder' /\ InsideIsFirst' /\ SignalsLeft'
<1> USE DEF CvInv, CvTypes
<1>1. UNCHANGED cvOrder
    BY DEF SignalEnters, SignalSets, WaitEnters, WaitPasses, WaitClears, cvOrder
<1>2. CvTotalOrder'
    BY <1>1 DEF cvOrder, CvTotalOrder
<1>3. CvOrder!First(t) /\ \A s \in CvThreads : CvOrder!First(s) => s = t
    <2>1. CvOrder!First(t)
        BY DEF SignalEnters, SignalSets, WaitEnters, WaitPasses, WaitClears, At, Punctuated,
               InsideIsFirst
    <2>2. QED BY <2>1, OneIsFirst
<1>4. \A s \in CvThreads \ {t} : cvPc[s] = "run" /\ cvPc'[s] = "run"
    BY <1>3 DEF InsideIsFirst, SignalEnters, SignalSets, WaitEnters, WaitPasses, WaitClears, At
<1>5. InsideIsFirst'
    BY <1>1, <1>3, <1>4 DEF InsideIsFirst, cvOrder, CvOrder!First
<1>6. SignalsLeft'
    <2>1. CASE SignalEnters(t) \/ WaitEnters(t)
        BY <2>1, <1>4 DEF SignalEnters, WaitEnters, At, SignalsLeft
    <2>2. CASE SignalSets(t)
        BY <2>2 DEF SignalSets, SignalsLeft
    <2>3. CASE WaitPasses(t)
        BY <2>3 DEF WaitPasses, SignalsLeft
    <2>4. CASE WaitClears(t)
        BY <2>4, <1>4 DEF WaitClears, At, SignalsLeft
    <2>5. QED BY <2>1, <2>2, <2>3, <2>4
<1>7. QED BY <1>2, <1>5, <1>6

\* Threads come after the one that is first, and end before it never.
LEMMA OrderStep ==
    ASSUME CvInv, ~cvMayOptimize, NEW t \in CvThreads,
           CvFinish(t) \/ \E c \in CvThreads : CvSpawn(t, c)
    PROVE  CvTotalOrder' /\ InsideIsFirst' /\ SignalsLeft'
<1> USE DEF CvInv, CvTypes
<1>1. SignalsLeft'
    BY DEF CvFinish, CvSpawn, SignalsLeft
<1>2. CASE CvFinish(t)
    <2>1. cvPc[t] = "run" /\ UNCHANGED <<cvBorn, cvEarlier, cvPc>> /\ cvFinished' = cvFinished \cup {t}
        BY <1>2 DEF CvFinish, CvOrder!Finish
    <2>2. CvTotalOrder' /\ InsideIsFirst'
        BY <2>1 DEF CvTotalOrder, InsideIsFirst, CvOrder!First
    <2>3. QED BY <1>1, <2>2
<1>3. ASSUME NEW c \in CvThreads, CvSpawn(t, c)
      PROVE  CvTotalOrder' /\ InsideIsFirst'
    <2>1. /\ cvPc' = cvPc /\ cvFinished' = cvFinished
          /\ t \in cvBorn \ cvFinished /\ c \in CvThreads \ cvBorn /\ cvBorn' = cvBorn \cup {c}
          /\ cvEarlier'[c] = cvEarlier[t] /\ cvEarlier'[t] = cvEarlier[t] \cup {c}
          /\ \A s \in CvThreads \ {c, t} :
                cvEarlier'[s] = IF t \in cvEarlier[s] THEN cvEarlier[s] \cup {c} ELSE cvEarlier[s]
        BY <1>3 DEF CvSpawn, CvOrder!Spawn
    <2>2. CvTotalOrder'
        <3> SUFFICES ASSUME NEW s \in cvBorn', NEW u \in cvBorn', s # u PROVE s \in cvEarlier'[u] \/ u \in cvEarlier'[s]
            BY DEF CvTotalOrder
        <3>0. \A v \in cvBorn : /\ v \in CvThreads /\ v # c
                                 /\ \A w \in cvBorn : v \in cvEarlier[w] => v \in cvEarlier'[w]
            BY <2>1
        <3>1. CASE s \in cvBorn /\ u \in cvBorn
            BY <3>0, <3>1 DEF CvTotalOrder
        <3>2. ASSUME NEW v \in cvBorn PROVE v \in cvEarlier'[c] \/ c \in cvEarlier'[v]
            <4>1. CASE v = t
                BY <2>1, <4>1
            <4>2. CASE v # t
                <5>1. v \in cvEarlier[t] \/ t \in cvEarlier[v]
                    BY <2>1, <4>2 DEF CvTotalOrder
                <5>2. QED BY <2>1, <3>0, <4>2, <5>1
            <4>3. QED BY <4>1, <4>2
        <3>3. QED BY <2>1, <3>1, <3>2
    <2>3. cvPc[t] = "run"
        BY <1>3 DEF CvSpawn
    <2>4. InsideIsFirst'
        BY <2>1, <2>3 DEF InsideIsFirst, CvOrder!First
    <2>5. QED BY <2>2, <2>4
<1>4. QED BY <1>1, <1>2, <1>3

\* No signal ends two waits: gracewait tests and clears the flag in two steps
\* that no transaction protects, but only the first thread in order is ever
\* between them.
THEOREM SignalsAreNotShared == CvSpec => []OneWaitPerSignal
<1>1. CvInit => CvInv
    BY CvInitInv
<1>2. CvInv /\ [CvNext]_cvVars => CvInv'
    <2>1. CASE UNCHANGED cvVars
        BY <2>1 DEF cvVars, cvOrder, CvInv, CvTypes, CvTotalOrder, InsideIsFirst, SignalsLeft,
                    CvOrder!First
    <2>2. CASE CvNext
        BY <2>2, CvTypesKept, FlagStep, OrderStep DEF CvNext, CvInv
    <2>3. QED BY <2>1, <2>2
<1>3. CvInv => OneWaitPerSignal
    BY DEF CvInv, SignalsLeft, OneWaitPerSignal
<1>4. QED BY <1>1, <1>2, <1>3, PTL DEF CvSpec

-----------------------------------------------------------------------------
\* XMemory, for every number of processes and pages, every division of the pages
\* into heap and globals, and every bound.

USE BoundAssumption

-----------------------------------------------------------------------------
(* Typing *)

\* What a store leaves on a page is a content.
LEMMA StoredContent == \A c \in Content : Stored(c) \in Content
BY DEF Stored, Content, Torn

LEMMA InitTyped == Init => TypeOK
BY DEF Init, TypeOK, NoValues, NoFrame, Torn, Content

\* What the transaction has used stays a set of contents.
LEMMA UseTyped ==
    ASSUME TypeOK, NEW p \in Procs, NEW pg \in Pages, Use(p, pg)
    PROVE  /\ saw' \in [Procs -> [Pages -> SUBSET Content]]
           /\ blind' \in [Procs -> [Pages -> SUBSET Content]]
<1>1. CASE pg \in read[p]
    <2> DEFINE S == saw[p][pg] \cup {persistent[pg]}
    <2>1. S \in SUBSET Content
        BY DEF TypeOK
    <2>2. saw' = [saw EXCEPT ![p][pg] = S]
        BY <1>1 DEF Use
    <2> HIDE DEF S
    <2>3. saw' \in [Procs -> [Pages -> SUBSET Content]]
        BY <2>1, <2>2 DEF TypeOK
    <2>4. QED BY <1>1, <2>3 DEF TypeOK, Use
<1>2. CASE pg \notin read[p]
    <2> DEFINE S == blind[p][pg] \cup {persistent[pg]}
    <2>1. S \in SUBSET Content
        BY DEF TypeOK
    <2>2. blind' = [blind EXCEPT ![p][pg] = S]
        BY <1>2 DEF Use
    <2> HIDE DEF S
    <2>3. blind' \in [Procs -> [Pages -> SUBSET Content]]
        BY <2>1, <2>2 DEF TypeOK
    <2>4. QED BY <1>2, <2>3 DEF TypeOK, Use
<1>3. QED BY <1>1, <1>2

\* The steps of the program keep the types.
LEMMA ProgramTyped ==
    ASSUME TypeOK, NEW p \in Procs, Program(p)
    PROVE  TypeOK'
<1> USE DEF TypeOK, shared, locks, ctl, access, mapping, sets, used
<1>1. CASE Begin(p)
    BY <1>1 DEF Begin, Goto, EmptySets, ForgetUses, NoValues
<1>2. CASE EndNop(p)
    BY <1>2 DEF EndNop, Goto, UpdateAll, ForgetUses, NoValues
<1>3. CASE EndTx(p)
    BY <1>3 DEF EndTx, Goto
<1>4. CASE EnsureIrrevocable(p)
    BY <1>4 DEF EnsureIrrevocable, Goto
<1>5. ASSUME NEW pg \in Pages, Load(p, pg)
      PROVE  TypeOK'
    <2>1. persistent[pg] \in Content
        OBVIOUS
    <2>2. QED BY <1>5, <2>1, UseTyped DEF Load, AccessDone
<1>6. ASSUME NEW pg \in Pages, Store(p, pg)
      PROVE  TypeOK'
    <2>1. Stored(persistent[pg]) \in Content
        BY StoredContent
    <2>2. QED BY <1>6, <2>1, UseTyped DEF Store, AccessDone
<1>7. ASSUME NEW k \in {"load", "store"}, NEW pg \in Pages, TrapFirst(p, k, pg)
      PROVE  TypeOK'
    BY <1>7 DEF TrapFirst, RecordRead, Restart
<1>8. ASSUME NEW k \in {"load", "store"}, NEW pg \in Pages, TrapAgain(p, k, pg)
      PROVE  TypeOK'
    BY <1>8 DEF TrapAgain, RecordWrite, Restart
<1>9. QED BY <1>1, <1>2, <1>3, <1>4, <1>5, <1>6, <1>7, <1>8 DEF Program

\* So do the steps of tryToCommit, isConsistent and abort.
LEMMA RuntimeTyped ==
    ASSUME TypeOK, NEW p \in Procs, Runtime(p)
    PROVE  TypeOK'
<1> USE DEF TypeOK, shared, locks, ctl, access, mapping, sets, used
<1>1. CASE LockHeap(p)
    BY <1>1 DEF LockHeap, Goto
<1>2. CASE LockGlobals(p)
    BY <1>2 DEF LockGlobals, Goto
<1>3. CASE Validate(p)
    BY <1>3 DEF Validate, Consistent
<1>4. ASSUME NEW pg \in Pages, CopyStart(p, pg)
      PROVE  TypeOK'
    BY <1>4 DEF CopyStart, Goto, Content
<1>5. CASE CopyEnd(p)
    <2>1. addr[p] \in Pages => Visible(p, addr[p]) \in Content
        BY DEF Visible
    <2>2. persistent' \in [Pages -> Content]
        BY <1>5, <2>1 DEF CopyEnd
    <2>3. updates' \in [Pages -> Nat]
        <3>1. addr[p] \in Pages => updates[addr[p]] + 1 \in Nat
            OBVIOUS
        <3>2. QED BY <1>5, <3>1 DEF CopyEnd
    <2>4. QED BY <1>5, <2>2, <2>3 DEF CopyEnd, Goto
<1>6. CASE BumpVersion(p)
    <2>1. versions' \in [Pages -> Nat]
        <3>1. addr[p] \in Pages => localVersions[p][addr[p]] + 1 \in Nat
            OBVIOUS
        <3>2. QED BY <1>6, <3>1 DEF BumpVersion
    <2>2. QED BY <1>6, <2>1 DEF BumpVersion, Goto
<1>7. CASE DropPages(p)
    BY <1>7 DEF DropPages, Goto, UpdatePages
<1>8. CASE UnlockHeap(p)
    BY <1>8 DEF UnlockHeap, Goto
<1>9. CASE UnlockGlobals(p)
    <2>1. NoValues \in [Pages -> SUBSET Content]
        BY DEF NoValues
    <2>2. CASE ok[p] /\ goal[p] # "commit"
        BY <1>9, <2>2 DEF UnlockGlobals
    <2>3. CASE ~(ok[p] /\ goal[p] # "commit")
        <3>1. ForgetUses(p) /\ \E to \in {"abort", "outside"} : pc' = [pc EXCEPT ![p] = to]
            BY <1>9, <2>3 DEF UnlockGlobals
        <3>2. /\ saw' \in [Procs -> [Pages -> SUBSET Content]]
              /\ blind' \in [Procs -> [Pages -> SUBSET Content]]
            BY <2>1, <3>1 DEF ForgetUses
        <3>3. QED BY <1>9, <3>1, <3>2 DEF UnlockGlobals
    <2>4. QED BY <2>2, <2>3
<1>10. CASE Abort(p)
    BY <1>10 DEF Abort, Goto, UpdateAll, EmptySets
<1>11. QED BY <1>1, <1>2, <1>3, <1>4, <1>5, <1>6, <1>7, <1>8, <1>9, <1>10 DEF Runtime

\* Every variable keeps its type, in every state of every behaviour.
THEOREM Typing == Spec => []TypeOK
<1>1. TypeOK /\ [Next]_vars => TypeOK'
    <2>1. CASE Next
        BY <2>1, ProgramTyped, RuntimeTyped DEF Next
    <2>2. CASE UNCHANGED vars
        BY <2>2 DEF vars, shared, locks, ctl, access, mapping, sets, used, TypeOK
    <2>3. QED BY <2>1, <2>2
<1>2. QED BY InitTyped, <1>1, PTL DEF Spec

-----------------------------------------------------------------------------
(* The inductive invariant, one process at a time *)

\* The part of RecordedVersionsVouch that is about p.
Vouched(p) ==
    \A pg \in read[p] :
        versions[pg] = localVersions[p][pg] /\ ~BeingCommitted(pg)
            => saw[p][pg] \subseteq {persistent[pg]}

ProcInv(p) ==
    /\ LockHeld(p)
    /\ PendingAccess(p)
    /\ Recorded(p)
    /\ Copies(p)
    /\ CommitPlan(p)
    /\ Vouched(p)

LEMMA IInvByProcess ==
    IInv <=> TypeOK /\ VersionsCountUpdates /\ \A p \in Procs : ProcInv(p)
BY DEF IInv, ProcInv, Vouched, RecordedVersionsVouch

\* Nothing that belongs to q changes, and q keeps the lock if it has it.
Same(q) ==
    /\ pc'[q] = pc[q] /\ goal'[q] = goal[q] /\ todo'[q] = todo[q]
    /\ prot'[q] = prot[q] /\ frame'[q] = frame[q]
    /\ localVersions'[q] = localVersions[q]
    /\ seen'[q] = seen[q] /\ read'[q] = read[q] /\ dirtied'[q] = dirtied[q]
    /\ kind'[q] = kind[q] /\ addr'[q] = addr[q]
    /\ saw'[q] = saw[q]
    /\ globalsLock = q => globalsLock' = q

\* A step of p that neither changes nor starts to change a committed page.
Private(p) ==
    /\ UNCHANGED shared
    /\ pc[p] \notin {"copying", "bump"} /\ pc'[p] \notin {"copying", "bump"}
    /\ \A q \in Procs \ {p} : Same(q)

\* After such a step the same pages are being committed.
LEMMA PrivateCommitted ==
    ASSUME NEW p \in Procs, Private(p)
    PROVE  \A pg \in Pages : BeingCommitted(pg)' <=> BeingCommitted(pg)
BY DEF Private, Same, BeingCommitted

LEMMA PrivateVersions ==
    ASSUME NEW p \in Procs, Private(p), VersionsCountUpdates
    PROVE  VersionsCountUpdates'
BY PrivateCommitted DEF Private, VersionsCountUpdates, shared

\* A private step of p disturbs no other process.
LEMMA PrivateOthers ==
    ASSUME NEW p \in Procs, Private(p), TypeOK, NEW q \in Procs \ {p}, ProcInv(q)
    PROVE  ProcInv(q)'
<1> USE DEF Private, Same, shared
<1>1. LockHeld(q)'
    BY DEF ProcInv, LockHeld, InsideLock
<1>2. PendingAccess(q)'
    BY DEF ProcInv, PendingAccess
<1>3. Recorded(q)'
    BY DEF ProcInv, Recorded
<1>4. Copies(q)'
    <2>1. dirtied[q] \in SUBSET Pages /\ seen[q] \in SUBSET Pages
        BY DEF TypeOK
    <2>2. MayCommit(q)' <=> MayCommit(q)
        BY DEF MayCommit
    <2>3. QED BY <2>1, <2>2, PrivateCommitted DEF ProcInv, Copies
<1>5. CommitPlan(q)'
    BY DEF ProcInv, CommitPlan, Committing
<1>6. Vouched(q)'
    BY PrivateCommitted DEF ProcInv, Vouched, TypeOK
<1>7. QED BY <1>1, <1>2, <1>3, <1>4, <1>5, <1>6 DEF ProcInv

\* So a private step keeps the invariant if it keeps the part about p.
LEMMA PrivateStep ==
    ASSUME IInv, TypeOK', NEW p \in Procs, Private(p), ProcInv(p)'
    PROVE  IInv'
<1>1. TypeOK /\ VersionsCountUpdates /\ \A q \in Procs : ProcInv(q)
    BY IInvByProcess
<1>2. \A q \in Procs : ProcInv(q)'
    BY <1>1, PrivateOthers
<1>3. VersionsCountUpdates'
    BY <1>1, PrivateVersions
<1>4. IInv' <=> TypeOK' /\ VersionsCountUpdates' /\ \A q \in Procs : ProcInv(q)'
    BY DEF IInv, ProcInv, Vouched, RecordedVersionsVouch
<1>5. QED BY <1>2, <1>3, <1>4

-----------------------------------------------------------------------------
(* Private steps: the program *)

\* The parts of the invariant one starts from, for one process.
LEMMA Facts ==
    ASSUME IInv, NEW p \in Procs
    PROVE  TypeOK /\ ProcInv(p)
BY IInvByProcess

\* A transaction begins with empty sets.
LEMMA BeginKeeps ==
    ASSUME IInv, NEW p \in Procs, Begin(p)
    PROVE  Private(p) /\ ProcInv(p)'
<1> USE Facts DEF Begin, Goto, EmptySets, ForgetUses, shared, locks, access, mapping
<1>1. Private(p)
    BY DEF Private, Same, TypeOK
<1>2. LockHeld(p)' /\ PendingAccess(p)' /\ CommitPlan(p)'
    BY DEF LockHeld, PendingAccess, CommitPlan, Committing, InsideLock, TypeOK
<1>3. Recorded(p)'
    BY DEF Recorded, NoValues, TypeOK
<1>4. Copies(p)' /\ Vouched(p)'
    BY DEF Copies, Vouched, TypeOK
<1>5. QED BY <1>1, <1>2, <1>3, <1>4 DEF ProcInv

\* A transaction that recorded nothing ends.
LEMMA EndNopKeeps ==
    ASSUME IInv, NEW p \in Procs, EndNop(p)
    PROVE  Private(p) /\ ProcInv(p)'
<1> USE Facts DEF EndNop, Goto, UpdateAll, ForgetUses, shared, locks, access, sets
<1>1. Private(p)
    BY DEF Private, Same, TypeOK
<1>2. LockHeld(p)' /\ PendingAccess(p)' /\ CommitPlan(p)'
    BY DEF LockHeld, PendingAccess, CommitPlan, Committing, InsideLock, TypeOK
<1>3. Recorded(p)'
    BY DEF ProcInv, Recorded, NoValues, TypeOK
<1>4. Copies(p)' /\ Vouched(p)'
    BY DEF Copies, Vouched, MayCommit, TypeOK
<1>5. QED BY <1>1, <1>2, <1>3, <1>4 DEF ProcInv

\* What the steps of xrun and xmemory leave alone that only change pc[p], goal[p]
\* or a lock.
LEMMA ControlKeeps ==
    ASSUME IInv, NEW p \in Procs, Private(p), LockHeld(p)',
           PendingAccess(p)', CommitPlan(p)', pc'[p] # "abort",
           MayCommit(p)' => MayCommit(p),
           UNCHANGED <<shared, access, mapping, localVersions, sets, saw>>
    PROVE  ProcInv(p)'
<1> USE Facts DEF shared, access, mapping, sets
<1>1. Recorded(p)'
    BY DEF ProcInv, Recorded
<1>2. Copies(p)'
    BY PrivateCommitted DEF ProcInv, Copies, TypeOK
<1>3. Vouched(p)'
    BY PrivateCommitted DEF ProcInv, Vouched, TypeOK
<1>4. QED BY <1>1, <1>2, <1>3 DEF ProcInv

\* A transaction sets out to commit, or to check that it can.
LEMMA EndTxKeeps ==
    ASSUME IInv, NEW p \in Procs, EndTx(p) \/ EnsureIrrevocable(p)
    PROVE  Private(p) /\ ProcInv(p)'
<1> USE Facts DEF EndTx, EnsureIrrevocable, Goto, shared, locks, access, mapping, sets, used
<1>1. Private(p)
    BY DEF Private, Same, TypeOK
<1>2. LockHeld(p)' /\ PendingAccess(p)' /\ CommitPlan(p)' /\ pc'[p] # "abort"
    BY DEF LockHeld, PendingAccess, CommitPlan, Committing, InsideLock, TypeOK
<1>3. MayCommit(p)
    BY DEF MayCommit
<1>4. QED BY <1>1, <1>2, <1>3, ControlKeeps

\* The access a process executes is on a page it has no copy of, and is the
\* pending one if there is one.
LEMMA ExecutesFacts ==
    ASSUME IInv, NEW p \in Procs, NEW k \in {"load", "store"}, NEW pg \in Pages,
           Executes(p, k, pg)
    PROVE  /\ pc[p] \in {"run", "outside"}
           /\ frame[p][pg] = NoFrame
           /\ kind[p] # "none" => kind[p] = k /\ addr[p] = pg
BY Facts DEF Executes, Starts, ProcInv, PendingAccess

\* The first trap of a page records the version it has now.
LEMMA TrapFirstKeeps ==
    ASSUME IInv, NEW p \in Procs, NEW k \in {"load", "store"}, NEW pg \in Pages,
           TrapFirst(p, k, pg)
    PROVE  Private(p) /\ ProcInv(p)'
<1> USE Facts DEF TrapFirst, RecordRead, Restart, shared, locks, ctl, used
<1>0. /\ pc[p] \in {"run", "outside"}
      /\ frame[p][pg] = NoFrame
      /\ kind[p] # "none" => kind[p] = k /\ addr[p] = pg
    BY ExecutesFacts
<1>1. Private(p)
    <2>1. ASSUME NEW q \in Procs \ {p}
          PROVE  Same(q)
        BY DEF Same, TypeOK
    <2>2. QED BY <1>0, <2>1 DEF Private
<1>2. LockHeld(p)' /\ CommitPlan(p)'
    BY <1>0 DEF LockHeld, CommitPlan, Committing, InsideLock, TypeOK
<1>3. PendingAccess(p)'
    BY <1>0 DEF PendingAccess, TypeOK
<1>4. pg \notin read[p]
    BY DEF ProcInv, Recorded
<1>5. Recorded(p)'
    <2>1. seen'[p] = seen[p] \cup {pg} /\ read'[p] = read[p] \cup {pg}
        BY DEF TypeOK
    <2>2. \A x \in read'[p] : localVersions'[p][x] <= versions'[x]
        BY <2>1 DEF ProcInv, Recorded, TypeOK
    <2>3. QED BY <1>0, <2>1, <2>2 DEF ProcInv, Recorded
<1>6. Copies(p)'
    <2>1. ASSUME MayCommit(p)', NEW x \in seen'[p]
          PROVE  prot'[p][x] # "none"
        BY <2>1 DEF ProcInv, Copies, MayCommit, TypeOK
    <2>2. ASSUME MayCommit(p)', NEW x \in dirtied'[p]
          PROVE  /\ frame'[p][x] = NoFrame => kind'[p] = "store" /\ addr'[p] = x
                 /\ frame'[p][x] # NoFrame /\ versions'[x] = localVersions'[p][x] /\ ~BeingCommitted(x)'
                        => frame'[p][x] = versions'[x] + 1
        <3>1. MayCommit(p) /\ x \in dirtied[p] /\ x # pg /\ x \in Pages
            BY <1>4, <2>2 DEF ProcInv, Recorded, MayCommit, TypeOK
        <3>2. localVersions'[p][x] = localVersions[p][x]
            BY <3>1 DEF TypeOK
        <3>3. frame[p][x] # NoFrame
            BY <1>0, <3>1 DEF ProcInv, Copies
        <3>4. QED BY <1>1, <3>1, <3>2, <3>3, PrivateCommitted DEF ProcInv, Copies
    <2>3. QED BY <2>1, <2>2 DEF Copies
<1>7. Vouched(p)'
    <2>1. ASSUME NEW x \in read'[p], x # pg
          PROVE  x \in read[p] /\ x \in Pages /\ localVersions'[p][x] = localVersions[p][x]
        BY <2>1 DEF TypeOK
    <2>2. saw[p][pg] = {}
        BY <1>4 DEF ProcInv, Recorded
    <2>3. QED BY <1>1, <2>1, <2>2, PrivateCommitted DEF ProcInv, Vouched
<1>8. QED BY <1>1, <1>2, <1>3, <1>5, <1>6, <1>7 DEF ProcInv

\* The second trap marks the page dirty.  In a transaction only a store traps
\* twice.
LEMMA TrapAgainKeeps ==
    ASSUME IInv, NEW p \in Procs, NEW k \in {"load", "store"}, NEW pg \in Pages,
           TrapAgain(p, k, pg)
    PROVE  Private(p) /\ ProcInv(p)'
<1> USE Facts DEF TrapAgain, RecordWrite, Restart, shared, locks, ctl, used
<1>0. /\ pc[p] \in {"run", "outside"}
      /\ frame[p][pg] = NoFrame
      /\ kind[p] # "none" => kind[p] = k /\ addr[p] = pg
    BY ExecutesFacts
<1>1. Private(p)
    <2>1. ASSUME NEW q \in Procs \ {p}
          PROVE  Same(q)
        BY DEF Same, TypeOK
    <2>2. QED BY <1>0, <2>1 DEF Private
<1>2. LockHeld(p)' /\ CommitPlan(p)'
    BY <1>0 DEF LockHeld, CommitPlan, Committing, InsideLock, TypeOK
<1>3. PendingAccess(p)'
    BY <1>0 DEF PendingAccess, TypeOK
<1>4. Recorded(p)'
    <2>1. read'[p] = read[p] \cup {pg} /\ dirtied'[p] = dirtied[p] \cup {pg}
        BY DEF TypeOK
    <2>2. pg \in read[p]
        BY DEF ProcInv, Recorded
    <2>3. read'[p] = read[p]
        BY <2>1, <2>2
    <2>4. QED BY <1>0, <2>1, <2>2, <2>3 DEF ProcInv, Recorded
<1>5. Copies(p)'
    <2>1. MayCommit(p) => k = "store"
        BY DEF ProcInv, Copies, Permitted, TypeOK
    <2>2. ASSUME MayCommit(p)', NEW x \in seen'[p]
          PROVE  prot'[p][x] # "none"
        BY <2>2 DEF ProcInv, Copies, MayCommit, TypeOK
    <2>3. ASSUME MayCommit(p)', NEW x \in dirtied'[p]
          PROVE  /\ frame'[p][x] = NoFrame => kind'[p] = "store" /\ addr'[p] = x
                 /\ frame'[p][x] # NoFrame /\ versions'[x] = localVersions'[p][x] /\ ~BeingCommitted(x)'
                        => frame'[p][x] = versions'[x] + 1
        <3>1. MayCommit(p) /\ kind'[p] = "store" /\ addr'[p] = pg
            BY <2>1, <2>3 DEF MayCommit, TypeOK
        <3>2. CASE x = pg
            BY <1>0, <3>1, <3>2
        <3>3. CASE x # pg
            <4>1. x \in dirtied[p] /\ x \in Pages
                BY <3>3, <2>3 DEF TypeOK
            <4>2. frame[p][x] # NoFrame
                BY <3>1, <3>3, <4>1, <1>0 DEF ProcInv, Copies
            <4>3. QED BY <1>1, <3>1, <4>1, <4>2, PrivateCommitted DEF ProcInv, Copies
        <3>4. QED BY <3>2, <3>3
    <2>4. QED BY <2>2, <2>3 DEF Copies
<1>6. Vouched(p)'
    BY <1>1, PrivateCommitted DEF ProcInv, Vouched, Recorded, TypeOK
<1>7. QED BY <1>1, <1>2, <1>3, <1>4, <1>5, <1>6 DEF ProcInv

\* What a load or a store does to what the transaction used of each page it
\* recorded.
LEMMA UseSaw ==
    ASSUME TypeOK, NEW p \in Procs, NEW pg \in Pages, Use(p, pg)
    PROVE  /\ \A q \in Procs \ {p} : saw'[q] = saw[q]
           /\ \A x \in Pages : saw'[p][x] =
                IF x = pg /\ pg \in read[p] THEN saw[p][x] \cup {persistent[x]} ELSE saw[p][x]
<1>1. CASE pg \in read[p]
    <2> DEFINE S == saw[p][pg] \cup {persistent[pg]}
    <2>1. saw' = [saw EXCEPT ![p][pg] = S]
        BY <1>1 DEF Use
    <2> HIDE DEF S
    <2>2. /\ \A q \in Procs \ {p} : saw'[q] = saw[q]
          /\ \A x \in Pages : saw'[p][x] = IF x = pg THEN S ELSE saw[p][x]
        BY <2>1 DEF TypeOK
    <2>3. QED BY <1>1, <2>2 DEF S
<1>2. CASE pg \notin read[p]
    BY <1>2 DEF Use
<1>3. QED BY <1>1, <1>2

\* A load uses the committed contents.
LEMMA LoadKeeps ==
    ASSUME IInv, NEW p \in Procs, NEW pg \in Pages, Load(p, pg)
    PROVE  Private(p) /\ ProcInv(p)'
<1> USE Facts DEF Load, AccessDone, shared, locks, ctl, mapping, sets
<1>0. /\ pc[p] \in {"run", "outside"}
      /\ frame[p][pg] = NoFrame
      /\ kind[p] # "none" => kind[p] = "load" /\ addr[p] = pg
    BY ExecutesFacts
<1>1. Private(p)
    <2>1. ASSUME NEW q \in Procs \ {p}
          PROVE  Same(q)
        BY UseSaw DEF Same, TypeOK
    <2>2. QED BY <1>0, <2>1 DEF Private
<1>2. LockHeld(p)' /\ CommitPlan(p)' /\ PendingAccess(p)'
    BY <1>0 DEF LockHeld, CommitPlan, Committing, InsideLock, PendingAccess, TypeOK
<1>3. Recorded(p)'
    <2>1. \A x \in Pages : x \notin read[p] => saw[p][x] = {}
        BY DEF ProcInv, Recorded
    <2>2. \A x \in Pages : x \notin read[p] => saw'[p][x] = saw[p][x]
        BY UseSaw
    <2>3. QED BY <1>0, <2>1, <2>2 DEF ProcInv, Recorded
<1>4. Copies(p)'
    <2>1. MayCommit(p)' <=> MayCommit(p)
        BY DEF MayCommit
    <2>2. \A x \in dirtied[p] : MayCommit(p) => frame[p][x] # NoFrame
        BY <1>0 DEF ProcInv, Copies
    <2>3. QED BY <1>1, <2>1, <2>2, PrivateCommitted DEF ProcInv, Copies, TypeOK
<1>5. Vouched(p)'
    <2>1. ASSUME NEW x \in read[p], versions[x] = localVersions[p][x], ~BeingCommitted(x)
          PROVE  saw'[p][x] \subseteq {persistent[x]}
        <3>1. x \in Pages /\ saw[p][x] \subseteq {persistent[x]}
            BY <2>1 DEF ProcInv, Vouched, TypeOK
        <3>2. saw'[p][x] \subseteq saw[p][x] \cup {persistent[x]}
            BY <3>1, UseSaw
        <3>3. QED BY <3>1, <3>2
    <2>2. QED BY <1>1, <2>1, PrivateCommitted DEF Vouched, TypeOK
<1>6. QED BY <1>1, <1>2, <1>3, <1>4, <1>5 DEF ProcInv

\* A store copies the committed contents, one update ahead.
LEMMA StoreKeeps ==
    ASSUME IInv, NEW p \in Procs, NEW pg \in Pages, Store(p, pg)
    PROVE  Private(p) /\ ProcInv(p)'
<1> USE Facts DEF Store, AccessDone, shared, locks, ctl, sets
<1>0. /\ pc[p] \in {"run", "outside"}
      /\ frame[p][pg] = NoFrame
      /\ kind[p] # "none" => kind[p] = "store" /\ addr[p] = pg
    BY ExecutesFacts
<1>1. Private(p)
    <2>1. ASSUME NEW q \in Procs \ {p}
          PROVE  Same(q)
        BY UseSaw DEF Same, TypeOK
    <2>2. QED BY <1>0, <2>1 DEF Private
<1>2. LockHeld(p)' /\ CommitPlan(p)' /\ PendingAccess(p)'
    BY <1>0 DEF LockHeld, CommitPlan, Committing, InsideLock, PendingAccess, TypeOK
<1>3. Recorded(p)'
    <2>1. \A x \in Pages : x \notin read[p] => saw[p][x] = {}
        BY DEF ProcInv, Recorded
    <2>2. \A x \in Pages : x \notin read[p] => saw'[p][x] = saw[p][x]
        BY UseSaw
    <2>3. QED BY <1>0, <2>1, <2>2 DEF ProcInv, Recorded
<1>4. Copies(p)'
    <2>1. ASSUME MayCommit(p), NEW x \in dirtied[p]
          PROVE  /\ frame'[p][x] # NoFrame
                 /\ versions[x] = localVersions[p][x] /\ ~BeingCommitted(x)
                        => frame'[p][x] = versions[x] + 1
        <3>1. x \in Pages /\ versions[x] \in Nat /\ persistent[x] \in Content
            BY DEF TypeOK
        <3>2. CASE x = pg
            <4>1. frame'[p][x] = Stored(persistent[x])
                BY <3>1, <3>2 DEF TypeOK
            <4>2. ~BeingCommitted(x) => persistent[x] = versions[x]
                BY <3>1 DEF IInv, VersionsCountUpdates
            <4>3. QED BY <3>1, <4>1, <4>2 DEF Stored, Content, Torn, NoFrame
        <3>3. CASE x # pg
            <4>1. frame'[p][x] = frame[p][x]
                BY <3>1, <3>3 DEF TypeOK
            <4>2. QED BY <1>0, <2>1, <3>3, <4>1 DEF ProcInv, Copies
        <3>4. QED BY <3>2, <3>3
    <2>2. MayCommit(p)' <=> MayCommit(p)
        BY DEF MayCommit
    <2>3. QED BY <1>1, <2>1, <2>2, PrivateCommitted DEF ProcInv, Copies, TypeOK
<1>5. Vouched(p)'
    <2>1. ASSUME NEW x \in read[p], versions[x] = localVersions[p][x], ~BeingCommitted(x)
          PROVE  saw'[p][x] \subseteq {persistent[x]}
        <3>1. x \in Pages /\ saw[p][x] \subseteq {persistent[x]}
            BY <2>1 DEF ProcInv, Vouched, TypeOK
        <3>2. saw'[p][x] \subseteq saw[p][x] \cup {persistent[x]}
            BY <3>1, UseSaw
        <3>3. QED BY <3>1, <3>2
    <2>2. QED BY <1>1, <2>1, PrivateCommitted DEF Vouched, TypeOK
<1>6. QED BY <1>1, <1>2, <1>3, <1>4, <1>5 DEF ProcInv

-----------------------------------------------------------------------------
(* Private steps: locking, validation, roll-back *)

\* The locks exclude: nobody else is between its two locks, and ...
LEMMA OneInside ==
    ASSUME IInv, NEW p \in Procs, InsideLock(p)
    PROVE  \A q \in Procs \ {p} : ~InsideLock(q)
BY DEF IInv, LockHeld

\* ... no page is being committed unless by the process inside.
LEMMA NothingBeingCommitted ==
    ASSUME IInv, NEW p \in Procs, InsideLock(p), pc[p] \notin {"copying", "bump"}
    PROVE  \A pg \in Pages : ~BeingCommitted(pg)
BY OneInside DEF BeingCommitted, InsideLock

LEMMA LockHeapKeeps ==
    ASSUME IInv, NEW p \in Procs, LockHeap(p)
    PROVE  Private(p) /\ ProcInv(p)'
<1> USE Facts DEF LockHeap, Goto, shared, access, mapping, sets, used
<1>1. Private(p)
    BY DEF Private, Same, TypeOK
<1>2. LockHeld(p)' /\ PendingAccess(p)' /\ CommitPlan(p)' /\ pc'[p] # "abort"
    BY DEF ProcInv, LockHeld, PendingAccess, CommitPlan, Committing, InsideLock, TypeOK
<1>3. MayCommit(p)
    BY DEF MayCommit
<1>4. QED BY <1>1, <1>2, <1>3, ControlKeeps

LEMMA LockGlobalsKeeps ==
    ASSUME IInv, NEW p \in Procs, LockGlobals(p)
    PROVE  Private(p) /\ ProcInv(p)'
<1> USE Facts DEF LockGlobals, Goto, shared, access, mapping, sets, used
<1>1. Private(p)
    BY NoProcAssumption DEF Private, Same, TypeOK
<1>2. LockHeld(p)' /\ PendingAccess(p)' /\ CommitPlan(p)' /\ pc'[p] # "abort"
    BY DEF ProcInv, LockHeld, PendingAccess, CommitPlan, Committing, InsideLock, TypeOK
<1>3. MayCommit(p)
    BY DEF MayCommit
<1>4. QED BY <1>1, <1>2, <1>3, ControlKeeps

\* If the versions agree, every page to be written is ready: its copy is one
\* update ahead of a committed page nobody else can touch.
LEMMA ValidateKeeps ==
    ASSUME IInv, NEW p \in Procs, Validate(p)
    PROVE  Private(p) /\ ProcInv(p)'
<1> USE Facts DEF Validate, shared, locks, access, mapping, sets, used
<1>1. Private(p)
    BY DEF Private, Same, TypeOK
<1>2. LockHeld(p)' /\ PendingAccess(p)' /\ pc'[p] # "abort"
    <2>1. pc'[p] \in {"copy", "unlockHeap"}
        BY DEF TypeOK
    <2>2. QED BY <2>1 DEF ProcInv, LockHeld, PendingAccess, InsideLock
<1>3. MayCommit(p)
    BY DEF MayCommit
<1>4. CommitPlan(p)'
    <2>1. CASE Consistent(p) /\ goal[p] = "commit"
        <3>1. pc'[p] = "copy" /\ todo'[p] = dirtied[p]
            BY <2>1 DEF TypeOK
        <3>2. ASSUME NEW pg \in dirtied[p]
              PROVE  versions[pg] = localVersions[p][pg] /\ frame[p][pg] = versions[pg] + 1
            <4>1. pg \in Pages /\ pg \in read[p] /\ kind[p] = "none"
                BY DEF ProcInv, Recorded, PendingAccess, TypeOK
            <4>2. versions[pg] = localVersions[p][pg]
                BY <2>1, <4>1 DEF Consistent
            <4>3. ~BeingCommitted(pg)
                BY <4>1, NothingBeingCommitted DEF InsideLock
            <4>4. QED BY <1>3, <4>1, <4>2, <4>3 DEF ProcInv, Copies
        <3>3. QED BY <2>1, <3>1, <3>2 DEF CommitPlan
    <2>2. CASE ~(Consistent(p) /\ goal[p] = "commit")
        BY <2>2 DEF CommitPlan, Committing, TypeOK
    <2>3. QED BY <2>1, <2>2
<1>5. QED BY <1>1, <1>2, <1>3, <1>4, ControlKeeps

LEMMA DropPagesKeeps ==
    ASSUME IInv, NEW p \in Procs, DropPages(p)
    PROVE  Private(p) /\ ProcInv(p)'
<1> USE Facts DEF DropPages, Goto, UpdatePages, shared, locks, access, sets, used
<1>1. Private(p)
    BY DEF Private, Same, TypeOK
<1>2. LockHeld(p)' /\ PendingAccess(p)' /\ CommitPlan(p)'
    BY DEF ProcInv, LockHeld, PendingAccess, CommitPlan, Committing, InsideLock, TypeOK
<1>3. Recorded(p)'
    BY DEF ProcInv, Recorded, TypeOK
<1>4. Copies(p)'
    BY DEF ProcInv, Copies, MayCommit, CommitPlan, Committing, TypeOK
<1>5. Vouched(p)'
    BY <1>1, PrivateCommitted DEF ProcInv, Vouched, TypeOK
<1>6. QED BY <1>1, <1>2, <1>3, <1>4, <1>5 DEF ProcInv

LEMMA UnlockHeapKeeps ==
    ASSUME IInv, NEW p \in Procs, UnlockHeap(p)
    PROVE  Private(p) /\ ProcInv(p)'
<1> USE Facts DEF UnlockHeap, Goto, shared, access, mapping, sets, used
<1>1. Private(p)
    BY DEF Private, Same, TypeOK
<1>2. LockHeld(p)' /\ PendingAccess(p)' /\ CommitPlan(p)' /\ pc'[p] # "abort"
    BY DEF ProcInv, LockHeld, PendingAccess, CommitPlan, Committing, InsideLock, TypeOK
<1>3. MayCommit(p)' => MayCommit(p)
    BY DEF MayCommit, TypeOK
<1>4. QED BY <1>1, <1>2, <1>3, ControlKeeps

\* The transaction is over, or rolled back, or goes on after a check.
LEMMA UnlockGlobalsKeeps ==
    ASSUME IInv, NEW p \in Procs, UnlockGlobals(p)
    PROVE  Private(p) /\ ProcInv(p)'
<1> USE Facts DEF UnlockGlobals, shared, access, mapping, sets
<1>1. \/ pc'[p] \in {"abort", "outside"} /\ ForgetUses(p)
      \/ pc'[p] = "run" /\ goal[p] # "commit" /\ UNCHANGED used
    <2>1. \A to : pc' = [pc EXCEPT ![p] = to] => pc'[p] = to
        BY DEF TypeOK
    <2>2. CASE ~ok[p]
        BY <2>1, <2>2
    <2>3. CASE ok[p] /\ goal[p] = "commit"
        BY <2>1, <2>3
    <2>4. CASE ok[p] /\ goal[p] # "commit"
        BY <2>1, <2>4
    <2>5. QED BY <2>2, <2>3, <2>4
<1>2. Private(p)
    <2>1. ASSUME NEW q \in Procs \ {p}
          PROVE  Same(q)
        <3>1. globalsLock # q
            BY NoProcAssumption DEF ProcInv, LockHeld, InsideLock
        <3>2. saw'[q] = saw[q]
            BY <1>1 DEF ForgetUses, used, TypeOK
        <3>3. pc'[q] = pc[q]
            BY DEF TypeOK
        <3>4. QED BY <3>1, <3>2, <3>3 DEF Same
    <2>2. QED BY <1>1, <2>1 DEF Private
<1>3. LockHeld(p)' /\ PendingAccess(p)' /\ CommitPlan(p)'
    BY <1>1 DEF ProcInv, LockHeld, PendingAccess, CommitPlan, Committing, InsideLock
<1>4. CASE pc'[p] = "run"
    <2>1. UNCHANGED saw /\ MayCommit(p)
        BY <1>1, <1>4 DEF used, MayCommit, TypeOK
    <2>2. QED BY <1>2, <1>3, <1>4, <2>1, ControlKeeps
<1>5. CASE pc'[p] \in {"abort", "outside"}
    <2>1. saw'[p] = NoValues
        BY <1>1, <1>5 DEF ForgetUses, TypeOK
    <2>2. Recorded(p)'
        BY <2>1 DEF ProcInv, Recorded, NoValues
    <2>3. Copies(p)'
        BY <1>5 DEF Copies, MayCommit
    <2>4. Vouched(p)'
        BY <2>1 DEF Vouched, NoValues, TypeOK
    <2>5. QED BY <1>2, <1>3, <2>2, <2>3, <2>4 DEF ProcInv
<1>6. QED BY <1>1, <1>4, <1>5

\* After a roll-back the process is as after Begin, with a fresh mapping.
LEMMA AbortKeeps ==
    ASSUME IInv, NEW p \in Procs, Abort(p)
    PROVE  Private(p) /\ ProcInv(p)'
<1> USE Facts DEF Abort, Goto, EmptySets, UpdateAll, shared, locks, access, used
<1>1. Private(p)
    BY DEF Private, Same, TypeOK
<1>2. LockHeld(p)' /\ PendingAccess(p)' /\ CommitPlan(p)'
    BY DEF ProcInv, LockHeld, PendingAccess, CommitPlan, Committing, InsideLock, TypeOK
<1>3. Recorded(p)'
    BY DEF ProcInv, Recorded, NoValues, TypeOK
<1>4. Copies(p)' /\ Vouched(p)'
    BY DEF Copies, Vouched, TypeOK
<1>5. QED BY <1>1, <1>2, <1>3, <1>4 DEF ProcInv

-----------------------------------------------------------------------------
(* The steps of a commit that change the committed pages *)

\* A step of p from one place of a commit to another that leaves the private
\* state of everybody alone, except where p is and which page it writes.
Publishing(p) ==
    /\ Committing(p) /\ Committing(p)'
    /\ \A q \in Procs \ {p} : Same(q)
    /\ UNCHANGED <<globalsLock, goal, prot, frame, localVersions, seen, read, dirtied, kind, saw>>

\* Before and after it, the page being committed is p's.
LEMMA PublishingCommitted ==
    ASSUME IInv, NEW p \in Procs, Publishing(p)
    PROVE  \A x \in Pages :
            /\ BeingCommitted(x) <=> pc[p] \in {"copying", "bump"} /\ addr[p] = x
            /\ BeingCommitted(x)' <=> pc'[p] \in {"copying", "bump"} /\ addr'[p] = x
<1>1. \A q \in Procs \ {p} : ~InsideLock(q)
    BY OneInside DEF Publishing, Committing, InsideLock
<1>2. \A q \in Procs \ {p} : pc[q] \notin {"copying", "bump"} /\ pc'[q] \notin {"copying", "bump"}
    BY <1>1 DEF Publishing, Same, InsideLock
<1>3. QED BY <1>2 DEF BeingCommitted

\* The versions of pages never decrease, and a page that is not being
\* committed after the step is as it was or has a version nobody recorded.
Publishes(p) ==
    \A x \in Pages :
        /\ versions[x] <= versions'[x]
        /\ ~BeingCommitted(x)' =>
            \/ ~BeingCommitted(x) /\ versions'[x] = versions[x] /\ persistent'[x] = persistent[x]
            \/ versions'[x] = versions[x] + 1

\* Then the step disturbs nobody's transaction, p's plan excepted.
LEMMA PublishingOthers ==
    ASSUME IInv, TypeOK', NEW p \in Procs, Publishing(p), Publishes(p), NEW q \in Procs,
           q = p => CommitPlan(p)'
    PROVE  ProcInv(q)'
<1> USE Facts
<1>1. /\ prot'[q] = prot[q] /\ frame'[q] = frame[q] /\ localVersions'[q] = localVersions[q]
      /\ seen'[q] = seen[q] /\ read'[q] = read[q] /\ dirtied'[q] = dirtied[q]
      /\ kind'[q] = kind[q] /\ saw'[q] = saw[q] /\ goal'[q] = goal[q]
    BY DEF Publishing
<1>2. q # p => pc'[q] = pc[q] /\ addr'[q] = addr[q] /\ ~InsideLock(q)
    BY OneInside DEF Publishing, Same, Committing, InsideLock
<1>3. q = p => Committing(p) /\ Committing(p)'
    BY DEF Publishing
<1>4. \A x \in Pages : /\ versions[x] \in Nat /\ versions'[x] \in Nat
                       /\ localVersions[q][x] \in Nat
    BY DEF TypeOK
<1>5. LockHeld(q)'
    BY <1>2, <1>3 DEF ProcInv, LockHeld, InsideLock, Committing, Publishing
<1>6. q = p => kind[q] = "none"
    BY <1>3 DEF ProcInv, PendingAccess, Committing
<1>7. PendingAccess(q)'
    BY <1>1, <1>2, <1>6 DEF ProcInv, PendingAccess
<1>8. Recorded(q)'
    <2>1. \A x \in read[q] : localVersions[q][x] <= versions'[x]
        BY <1>4 DEF ProcInv, Recorded, Publishes, TypeOK
    <2>2. pc'[q] = "abort" => pc[q] = "abort"
        BY <1>2, <1>3 DEF Committing
    <2>3. QED BY <1>1, <2>1, <2>2 DEF ProcInv, Recorded
<1>9. Copies(q)'
    <2>1. MayCommit(q)' => MayCommit(q)
        BY <1>1, <1>2, <1>3 DEF MayCommit, Committing
    <2>2. ASSUME MayCommit(q), NEW x \in dirtied[q]
          PROVE  /\ frame[q][x] = NoFrame => kind[q] = "store" /\ addr'[q] = x
                 /\ frame[q][x] # NoFrame /\ versions'[x] = localVersions[q][x] /\ ~BeingCommitted(x)'
                        => frame[q][x] = versions'[x] + 1
        <3>1. x \in Pages /\ localVersions[q][x] <= versions[x]
            BY DEF ProcInv, Recorded, TypeOK
        <3>2. frame[q][x] = NoFrame => kind[q] = "store" /\ addr'[q] = x
            BY <1>2, <1>6, <2>2 DEF ProcInv, Copies
        <3>3. versions'[x] = localVersions[q][x] /\ ~BeingCommitted(x)'
                => ~BeingCommitted(x) /\ versions'[x] = versions[x]
            BY <1>4, <3>1 DEF Publishes
        <3>4. QED BY <2>2, <3>2, <3>3 DEF ProcInv, Copies
    <2>3. QED BY <1>1, <2>1, <2>2 DEF ProcInv, Copies
<1>10. CommitPlan(q)'
    BY <1>2 DEF CommitPlan, Committing, InsideLock
<1>11. Vouched(q)'
    <2>1. ASSUME NEW x \in read[q], versions'[x] = localVersions[q][x], ~BeingCommitted(x)'
          PROVE  saw[q][x] \subseteq {persistent'[x]}
        <3>1. x \in Pages /\ localVersions[q][x] <= versions[x]
            BY DEF ProcInv, Recorded, TypeOK
        <3>2. ~BeingCommitted(x) /\ versions'[x] = versions[x] /\ persistent'[x] = persistent[x]
            BY <1>4, <2>1, <3>1 DEF Publishes
        <3>3. QED BY <2>1, <3>2 DEF ProcInv, Vouched
    <2>2. QED BY <1>1, <2>1 DEF Vouched
<1>12. QED BY <1>5, <1>7, <1>8, <1>9, <1>10, <1>11 DEF ProcInv

\* So such a step keeps the invariant if it keeps the plan and the count.
LEMMA PublishingStep ==
    ASSUME IInv, TypeOK', NEW p \in Procs, Publishing(p), Publishes(p),
           CommitPlan(p)', VersionsCountUpdates'
    PROVE  IInv'
<1>1. \A q \in Procs : ProcInv(q)'
    BY PublishingOthers
<1>2. IInv' <=> TypeOK' /\ VersionsCountUpdates' /\ \A q \in Procs : ProcInv(q)'
    BY DEF IInv, ProcInv, Vouched, RecordedVersionsVouch
<1>3. QED BY <1>1, <1>2

\* The memcpy of a page begins.
LEMMA CopyStartKeeps ==
    ASSUME IInv, TypeOK', NEW p \in Procs, NEW pg \in Pages, CopyStart(p, pg)
    PROVE  IInv'
<1> USE Facts DEF CopyStart, Goto, locks, mapping, sets, used
<1>1. pc[p] = "copy" /\ pc'[p] = "copying" /\ addr'[p] = pg
    BY DEF TypeOK
<1>2. Publishing(p)
    <2>1. \A q \in Procs \ {p} : Same(q)
        BY DEF Same, TypeOK
    <2>2. QED BY <1>1, <2>1 DEF Publishing, Committing
<1>3. \A x \in Pages : ~BeingCommitted(x) /\ (BeingCommitted(x)' <=> x = pg)
    BY <1>1, <1>2, PublishingCommitted
<1>4. \A x \in Pages : x # pg => persistent'[x] = persistent[x]
    BY DEF TypeOK
<1>5. Publishes(p)
    BY <1>3, <1>4 DEF Publishes, TypeOK
<1>6. CommitPlan(p)'
    <2>1. updates[pg] = versions[pg]
        BY <1>3 DEF IInv, VersionsCountUpdates
    <2>2. QED BY <1>1, <2>1 DEF ProcInv, CommitPlan, Committing
<1>7. VersionsCountUpdates'
    BY <1>3, <1>4 DEF IInv, VersionsCountUpdates
<1>8. QED BY <1>2, <1>5, <1>6, <1>7, PublishingStep

\* It ends: the committed page is the copy, one update ahead of its version.
LEMMA CopyEndKeeps ==
    ASSUME IInv, TypeOK', NEW p \in Procs, CopyEnd(p)
    PROVE  IInv'
<1> USE Facts DEF CopyEnd, Goto, locks, access, mapping, sets, used
<1>1. pc[p] = "copying" /\ pc'[p] = "bump" /\ todo'[p] = todo[p] \ {addr[p]}
    BY DEF TypeOK
<1>2. /\ addr[p] \in todo[p] /\ addr[p] \in Pages
      /\ versions[addr[p]] = localVersions[p][addr[p]]
      /\ frame[p][addr[p]] = versions[addr[p]] + 1
      /\ updates[addr[p]] = versions[addr[p]]
    BY <1>1 DEF ProcInv, CommitPlan, Committing, TypeOK
<1>3. Publishing(p)
    <2>1. \A q \in Procs \ {p} : Same(q)
        BY DEF Same, TypeOK
    <2>2. QED BY <1>1, <2>1 DEF Publishing, Committing
<1>4. \A x \in Pages : (BeingCommitted(x) <=> x = addr[p]) /\ (BeingCommitted(x)' <=> x = addr[p])
    BY <1>1, <1>3, PublishingCommitted
<1>5. \A x \in Pages :
        updates'[x] = IF x = addr[p] THEN updates[x] + 1 ELSE updates[x]
    BY DEF TypeOK
<1>6. \A x \in Pages : x # addr[p] => persistent'[x] = persistent[x]
    BY DEF TypeOK
<1>7. persistent'[addr[p]] = versions[addr[p]] + 1
    <2>1. versions[addr[p]] \in Nat
        BY <1>2 DEF TypeOK
    <2>2. Visible(p, addr[p]) = versions[addr[p]] + 1
        BY <1>2, <2>1 DEF Visible, NoFrame
    <2>3. QED BY <1>2, <2>2 DEF TypeOK
<1>8. Publishes(p)
    BY <1>4, <1>6 DEF Publishes, TypeOK
<1>9. CommitPlan(p)'
    BY <1>1, <1>2, <1>5, <1>7 DEF ProcInv, CommitPlan, Committing
<1>10. VersionsCountUpdates'
    BY <1>4, <1>5, <1>6 DEF IInv, VersionsCountUpdates
<1>11. QED BY <1>3, <1>8, <1>9, <1>10, PublishingStep

\* The version follows.
LEMMA BumpVersionKeeps ==
    ASSUME IInv, TypeOK', NEW p \in Procs, BumpVersion(p)
    PROVE  IInv'
<1> USE Facts DEF BumpVersion, Goto, locks, mapping, sets, used
<1>1. pc[p] = "bump" /\ pc'[p] = "copy"
    BY DEF TypeOK
<1>2. /\ addr[p] \in Pages \ todo[p]
      /\ versions[addr[p]] = localVersions[p][addr[p]]
      /\ persistent[addr[p]] = versions[addr[p]] + 1
      /\ updates[addr[p]] = versions[addr[p]] + 1
    BY <1>1 DEF ProcInv, CommitPlan, Committing
<1>3. Publishing(p)
    <2>1. \A q \in Procs \ {p} : Same(q)
        BY DEF Same, TypeOK
    <2>2. QED BY <1>1, <2>1 DEF Publishing, Committing
<1>4. \A x \in Pages : (BeingCommitted(x) <=> x = addr[p]) /\ ~BeingCommitted(x)'
    BY <1>1, <1>3, PublishingCommitted
<1>5. \A x \in Pages : versions'[x] = IF x = addr[p] THEN versions[x] + 1 ELSE versions[x]
    BY <1>2 DEF TypeOK
<1>6. Publishes(p)
    BY <1>4, <1>5 DEF Publishes, TypeOK
<1>7. CommitPlan(p)'
    BY <1>1, <1>2, <1>5 DEF ProcInv, CommitPlan, Committing, TypeOK
<1>8. VersionsCountUpdates'
    BY <1>2, <1>4, <1>5 DEF IInv, VersionsCountUpdates
<1>9. QED BY <1>3, <1>6, <1>7, <1>8, PublishingStep

-----------------------------------------------------------------------------
(* The theorems *)

LEMMA InitIInv == Init => IInv
<1> SUFFICES ASSUME Init
             PROVE  IInv
    OBVIOUS
<1>1. TypeOK
    BY InitTyped
<1>2. ASSUME NEW p \in Procs
      PROVE  ProcInv(p)
    <2>1. /\ pc[p] = "run" /\ kind[p] = "none"
          /\ seen[p] = {} /\ read[p] = {} /\ dirtied[p] = {} /\ saw[p] = NoValues
        BY DEF Init
    <2>2. LockHeld(p) /\ PendingAccess(p) /\ CommitPlan(p)
        BY <2>1 DEF LockHeld, InsideLock, PendingAccess, CommitPlan, Committing
    <2>3. Recorded(p) /\ Copies(p) /\ Vouched(p)
        BY <2>1 DEF Recorded, Copies, Vouched, NoValues
    <2>4. QED BY <2>2, <2>3 DEF ProcInv
<1>3. VersionsCountUpdates
    BY DEF Init, VersionsCountUpdates
<1>4. QED BY <1>1, <1>2, <1>3, IInvByProcess

LEMMA ProgramKeeps ==
    ASSUME IInv, NEW p \in Procs, Program(p)
    PROVE  IInv'
<1>1. TypeOK'
    BY ProgramTyped DEF IInv
<1>2. Private(p) /\ ProcInv(p)'
    <2>1. CASE Begin(p)
        BY <2>1, BeginKeeps
    <2>2. CASE EndNop(p)
        BY <2>2, EndNopKeeps
    <2>3. CASE EndTx(p) \/ EnsureIrrevocable(p)
        BY <2>3, EndTxKeeps
    <2>4. ASSUME NEW pg \in Pages, Load(p, pg) \/ Store(p, pg)
          PROVE  Private(p) /\ ProcInv(p)'
        BY <2>4, LoadKeeps, StoreKeeps
    <2>5. ASSUME NEW k \in {"load", "store"}, NEW pg \in Pages,
                 TrapFirst(p, k, pg) \/ TrapAgain(p, k, pg)
          PROVE  Private(p) /\ ProcInv(p)'
        BY <2>5, TrapFirstKeeps, TrapAgainKeeps
    <2>6. QED BY <2>1, <2>2, <2>3, <2>4, <2>5 DEF Program
<1>3. QED BY <1>1, <1>2, PrivateStep

LEMMA RuntimeKeeps ==
    ASSUME IInv, NEW p \in Procs, Runtime(p)
    PROVE  IInv'
<1>1. TypeOK'
    BY RuntimeTyped DEF IInv
<1>2. CASE LockHeap(p)
    BY <1>1, <1>2, LockHeapKeeps, PrivateStep
<1>3. CASE LockGlobals(p)
    BY <1>1, <1>3, LockGlobalsKeeps, PrivateStep
<1>4. CASE Validate(p)
    BY <1>1, <1>4, ValidateKeeps, PrivateStep
<1>5. ASSUME NEW pg \in Pages, CopyStart(p, pg)
      PROVE  IInv'
    BY <1>1, <1>5, CopyStartKeeps
<1>6. CASE CopyEnd(p)
    BY <1>1, <1>6, CopyEndKeeps
<1>7. CASE BumpVersion(p)
    BY <1>1, <1>7, BumpVersionKeeps
<1>8. CASE DropPages(p)
    BY <1>1, <1>8, DropPagesKeeps, PrivateStep
<1>9. CASE UnlockHeap(p)
    BY <1>1, <1>9, UnlockHeapKeeps, PrivateStep
<1>10. CASE UnlockGlobals(p)
    BY <1>1, <1>10, UnlockGlobalsKeeps, PrivateStep
<1>11. CASE Abort(p)
    BY <1>1, <1>11, AbortKeeps, PrivateStep
<1>12. QED BY <1>2, <1>3, <1>4, <1>5, <1>6, <1>7, <1>8, <1>9, <1>10, <1>11 DEF Runtime

\* The discipline of xpersist's locks, of the handler's records and of the
\* private copies holds in every state.
THEOREM Invariance == Spec => []IInv
<1>1. IInv /\ [Next]_vars => IInv'
    <2>1. ASSUME IInv, Next
          PROVE  IInv'
        BY <2>1, ProgramKeeps, RuntimeKeeps DEF Next
    <2>2. ASSUME IInv, UNCHANGED vars
          PROVE  IInv'
        <3> USE <2>2 DEF vars, shared, locks, ctl, access, mapping, sets, used
        <3>1. TypeOK'
            BY DEF IInv, TypeOK
        <3>2. \A pg \in Pages : BeingCommitted(pg)' <=> BeingCommitted(pg)
            BY DEF BeingCommitted
        <3>3. VersionsCountUpdates'
            BY <3>2 DEF IInv, VersionsCountUpdates
        <3>4. ASSUME NEW p \in Procs
              PROVE  ProcInv(p)'
            <4>1. TypeOK /\ ProcInv(p)
                BY Facts
            <4>2. LockHeld(p)' /\ PendingAccess(p)' /\ Recorded(p)' /\ CommitPlan(p)'
                BY <4>1 DEF ProcInv, LockHeld, InsideLock, PendingAccess, Recorded,
                    CommitPlan, Committing
            <4>3. Copies(p)'
                BY <3>2, <4>1 DEF ProcInv, Copies, MayCommit, TypeOK
            <4>4. Vouched(p)'
                BY <3>2, <4>1 DEF ProcInv, Vouched, TypeOK
            <4>5. QED BY <4>2, <4>3, <4>4 DEF ProcInv
        <3>5. QED BY <3>1, <3>3, <3>4 DEF IInv, ProcInv, Vouched, RecordedVersionsVouch
    <2>3. QED BY <2>1, <2>2
<1>2. QED BY InitIInv, <1>1, PTL DEF Spec

\* commit() loses, repeats and tears no update, whatever the processes, the
\* pages and the accesses: a page's contents and its version agree with the
\* number of commits that have written it.
THEOREM UpdatesCounted == Spec => []VersionsCountUpdates
<1>1. IInv => VersionsCountUpdates
    BY DEF IInv
<1>2. QED BY <1>1, Invariance, PTL

\* A version recorded at the first trap that is still current vouches for all
\* that was read since, restarted accesses and half-copied pages included.
THEOREM VersionsVouch == Spec => []RecordedVersionsVouch
<1>1. IInv => RecordedVersionsVouch
    BY DEF IInv
<1>2. QED BY <1>1, Invariance, PTL
-----------------------------------------------------------------------------
(* That XMemory implements Transactions, as far as the accesses that trapped are
   concerned, and that private copies are tracked if nothing is touched between
   transactions *)

USE NoProcAssumption

-----------------------------------------------------------------------------
(* What else is true of a process *)

\* Who holds the heap's lock, and where a check has succeeded or pages are left
\* to be written.
LockDiscipline(p) ==
    /\ pc[p] \in {"lockGlobals", "validate", "copy", "copying", "bump", "unlockHeap"} => heapLock = p
    /\ ok[p] => pc[p] \in {"copy", "copying", "bump", "unlockHeap", "unlockGlobals"}
    /\ Committing(p) => ok[p]
    /\ todo[p] # {} => Committing(p)

\* A step of p leaves the state of the others alone.
LEMMA OthersSame ==
    ASSUME IInv, NEW p \in Procs, Program(p) \/ Runtime(p), NEW q \in Procs \ {p}
    PROVE  Same(q) /\ ok'[q] = ok[q]
<1> USE Facts
<1>1. Same(q)
    <2>1. CASE Begin(p) \/ EndNop(p) \/ EndTx(p) \/ EnsureIrrevocable(p) \/ LockHeap(p) \/ LockGlobals(p)
               \/ Validate(p) \/ DropPages(p) \/ UnlockHeap(p) \/ UnlockGlobals(p) \/ Abort(p)
        BY <2>1, BeginKeeps, EndNopKeeps, EndTxKeeps, LockHeapKeeps, LockGlobalsKeeps, ValidateKeeps,
           DropPagesKeeps, UnlockHeapKeeps, UnlockGlobalsKeeps, AbortKeeps DEF Private
    <2>2. ASSUME NEW pg \in Pages, Load(p, pg) \/ Store(p, pg)
          PROVE  Same(q)
        BY <2>2, LoadKeeps, StoreKeeps DEF Private
    <2>3. ASSUME NEW k \in {"load", "store"}, NEW pg \in Pages, TrapFirst(p, k, pg) \/ TrapAgain(p, k, pg)
          PROVE  Same(q)
        BY <2>3, TrapFirstKeeps, TrapAgainKeeps DEF Private
    <2>4. ASSUME NEW pg \in Pages, CopyStart(p, pg)
          PROVE  Same(q)
        BY <2>4 DEF CopyStart, Goto, locks, mapping, sets, used, Same, TypeOK
    <2>5. CASE CopyEnd(p)
        BY <2>5 DEF CopyEnd, Goto, locks, access, mapping, sets, used, Same, TypeOK
    <2>6. CASE BumpVersion(p)
        BY <2>6 DEF BumpVersion, Goto, locks, mapping, sets, used, Same, TypeOK
    <2>7. QED BY <2>1, <2>2, <2>3, <2>4, <2>5, <2>6 DEF Program, Runtime
<1>2. ok'[q] = ok[q]
    <2>1. CASE Program(p)
        BY <2>1 DEF Program, Begin, EndNop, EndTx, EnsureIrrevocable, Load, Store, TrapFirst, TrapAgain, ctl
    <2>2. CASE Validate(p)
        BY <2>2 DEF Validate, TypeOK
    <2>3. CASE UnlockGlobals(p)
        BY <2>3 DEF UnlockGlobals, TypeOK
    <2>4. CASE Runtime(p) /\ ~Validate(p) /\ ~UnlockGlobals(p)
        BY <2>4 DEF Runtime, LockHeap, LockGlobals, CopyStart, CopyEnd, BumpVersion, DropPages, UnlockHeap,
                    Abort
    <2>5. QED BY <2>1, <2>2, <2>3, <2>4
<1>3. QED BY <1>1, <1>2

-----------------------------------------------------------------------------
(* LockDiscipline is kept *)

\* By a step of p itself.
LEMMA DisciplineOwn ==
    ASSUME IInv, NEW p \in Procs, LockDiscipline(p), Program(p) \/ Runtime(p)
    PROVE  LockDiscipline(p)'
<1> USE Facts DEF LockDiscipline, Committing, TypeOK
<1>1. CASE Program(p)
    <2>1. pc[p] \in {"run", "outside"} /\ pc'[p] \in {"run", "outside", "lockHeap"} /\ ok' = ok /\ todo' = todo
        <3>1. CASE Begin(p) \/ EndNop(p) \/ EndTx(p) \/ EnsureIrrevocable(p)
            BY <3>1 DEF Begin, EndNop, EndTx, EnsureIrrevocable, Goto
        <3>2. ASSUME NEW k \in {"load", "store"}, NEW pg \in Pages, Executes(p, k, pg), UNCHANGED ctl
              PROVE  pc[p] \in {"run", "outside"} /\ pc'[p] = pc[p] /\ ok' = ok /\ todo' = todo
            BY <3>2, ExecutesFacts DEF ctl
        <3>3. QED BY <1>1, <3>1, <3>2 DEF Program, Load, Store, TrapFirst, TrapAgain
    <2>2. QED BY <2>1
<1>2. CASE LockHeap(p) \/ LockGlobals(p)
    BY <1>2 DEF LockHeap, LockGlobals, Goto
<1>3. CASE Validate(p)
    <2>1. heapLock' = heapLock /\ pc[p] = "validate"
        BY <1>3 DEF Validate, locks
    <2>2. CASE Consistent(p) /\ goal[p] = "commit"
        BY <1>3, <2>1, <2>2 DEF Validate
    <2>3. CASE ~(Consistent(p) /\ goal[p] = "commit")
        BY <1>3, <2>1, <2>3 DEF Validate
    <2>4. QED BY <2>2, <2>3
<1>4. ASSUME NEW pg \in Pages, CopyStart(p, pg)
      PROVE  LockDiscipline(p)'
    BY <1>4 DEF CopyStart, Goto, locks
<1>5. CASE CopyEnd(p) \/ BumpVersion(p) \/ DropPages(p)
    BY <1>5 DEF CopyEnd, BumpVersion, DropPages, Goto, locks
<1>6. CASE UnlockHeap(p) \/ Abort(p)
    BY <1>6 DEF UnlockHeap, Abort, Goto, locks
<1>7. CASE UnlockGlobals(p)
    <2>1. pc'[p] \in {"abort", "outside", "run"}
        BY <1>7 DEF UnlockGlobals
    <2>2. QED BY <1>7, <2>1 DEF UnlockGlobals
<1>8. QED BY <1>1, <1>2, <1>3, <1>4, <1>5, <1>6, <1>7 DEF Runtime

\* By a step of another process, which takes the heap's lock from nobody.
LEMMA DisciplineOther ==
    ASSUME IInv, NEW p \in Procs, LockDiscipline(p), Program(p) \/ Runtime(p),
           NEW q \in Procs \ {p}, LockDiscipline(q)
    PROVE  LockDiscipline(q)'
<1>1. Same(q) /\ ok'[q] = ok[q]
    BY OthersSame
<1>2. heapLock = q => heapLock' = q
    <2>1. CASE LockHeap(p)
        BY <2>1 DEF LockHeap
    <2>2. CASE UnlockHeap(p)
        BY <2>2 DEF UnlockHeap, Goto, LockDiscipline
    <2>3. CASE ~LockHeap(p) /\ ~UnlockHeap(p)
        BY <2>3 DEF Program, Runtime, Begin, EndNop, EndTx, EnsureIrrevocable, Load, Store, TrapFirst,
                    TrapAgain, LockGlobals, Validate, CopyStart, CopyEnd, BumpVersion, DropPages,
                    UnlockGlobals, Abort, locks
    <2>4. QED BY <2>1, <2>2, <2>3
<1>3. QED BY <1>1, <1>2 DEF LockDiscipline, Committing, Same

LEMMA NextDiscipline ==
    ASSUME IInv, \A p \in Procs : LockDiscipline(p), [Next]_vars
    PROVE  \A p \in Procs : LockDiscipline(p)'
<1>1. CASE UNCHANGED vars
    BY <1>1 DEF LockDiscipline, Committing, vars, shared, locks, ctl
<1>2. ASSUME NEW p \in Procs, Program(p) \/ Runtime(p)
      PROVE  \A q \in Procs : LockDiscipline(q)'
    BY <1>2, DisciplineOwn, DisciplineOther
<1>3. QED BY <1>1, <1>2 DEF Next

LEMMA Disciplined == Spec => [](IInv /\ \A p \in Procs : LockDiscipline(p))
<1> DEFINE LD == \A p \in Procs : LockDiscipline(p)
<1>1. Init => LD
    BY DEF Init, LockDiscipline, Committing
<1>2. IInv /\ LD /\ [Next]_vars => LD'
    BY NextDiscipline
<1>3. QED BY <1>1, <1>2, Invariance, PTL DEF Spec

-----------------------------------------------------------------------------
(* What Transactions sees of a step *)

\* Nothing of the other processes changes.
LEMMA OthersMapped ==
    ASSUME IInv, NEW p \in Procs, Program(p) \/ Runtime(p), NEW q \in Procs \ {p}
    PROVE  RecordedReads'[q] = RecordedReads[q] /\ PrivateWrites'[q] = PrivateWrites[q]
<1>1. Same(q) /\ ok'[q] = ok[q]
    BY OthersSame
<1>2. InTx(q)' <=> InTx(q)
    BY <1>1 DEF InTx, Same
<1>3. QED BY <1>1, <1>2 DEF RecordedReads, PrivateWrites, Same

\* A function that differs in one place.
LEMMA DiffersAt ==
    ASSUME NEW S, NEW x \in S, NEW v, NEW f, NEW g, f = [s \in S |-> f[s]], g = [s \in S |-> g[s]],
           g[x] = v, \A s \in S \ {x} : g[s] = f[s]
    PROVE  g = [f EXCEPT ![x] = v]
OBVIOUS

\* A transaction that is over, either way, has observed and written nothing.
LEMMA IsOver ==
    ASSUME IInv, NEW p \in Procs, Program(p) \/ Runtime(p), ~InTx(p)'
    PROVE  /\ RecordedReads' = [RecordedReads EXCEPT ![p] = Tx!NoReads]
           /\ PrivateWrites' = [PrivateWrites EXCEPT ![p] = Tx!NoWrites]
<1>1. RecordedReads'[p] = Tx!NoReads /\ PrivateWrites'[p] = Tx!NoWrites
    BY DEF RecordedReads, PrivateWrites, NoValues, NoFrame, Tx!NoReads, Tx!NoWrites, Tx!NoFrame
<1>2. /\ RecordedReads = [q \in Procs |-> RecordedReads[q]]
      /\ RecordedReads' = [q \in Procs |-> RecordedReads'[q]]
    BY DEF RecordedReads
<1>3. /\ PrivateWrites = [q \in Procs |-> PrivateWrites[q]]
      /\ PrivateWrites' = [q \in Procs |-> PrivateWrites'[q]]
    BY DEF PrivateWrites
<1>4. QED BY <1>1, <1>2, <1>3, OthersMapped, DiffersAt

\* A step that does not change the committed pages goes on with p's transaction
\* or drops it.
LEMMA NotACommit ==
    ASSUME IInv, NEW p \in Procs, Program(p) \/ Runtime(p), Committed' = Committed,
           InTx(p) /\ InTx(p)' => \A pg \in Pages : saw[p][pg] \subseteq saw'[p][pg]
    PROVE  Tx!Execute(p) \/ Tx!Abort(p)
<1>1. \A q \in Procs \ {p} : RecordedReads'[q] = RecordedReads[q] /\ PrivateWrites'[q] = PrivateWrites[q]
    BY OthersMapped
<1>2. CASE InTx(p)'
    <2>1. \A pg \in Pages : RecordedReads[p][pg] \subseteq RecordedReads'[p][pg]
        BY <1>2 DEF RecordedReads, NoValues
    <2>2. QED BY <1>1, <2>1 DEF Tx!Execute, Tx!OthersUnchanged
<1>3. CASE ~InTx(p)'
    BY <1>3, IsOver DEF Tx!Abort
<1>4. QED BY <1>2, <1>3

\* The committed pages stay the same if p has none to write.
LEMMA CommittedStays ==
    ASSUME IInv, NEW p \in Procs, Program(p) \/ Runtime(p), todo[p] = {}, UNCHANGED <<persistent, todo>>,
           heapLock' = heapLock \/ {heapLock, heapLock'} \subseteq {p, NoProc}
    PROVE  Committed' = Committed
<1>1. \A q \in Procs \ {p} : frame'[q] = frame[q]
    BY OthersSame DEF Same
<1>2. ASSUME NEW pg \in Pages
      PROVE  Committed'[pg] = Committed[pg]
    <2>1. CASE heapLock' = heapLock /\ heapLock \in Procs \ {p}
        BY <1>1, <2>1 DEF Committed
    <2>2. CASE {heapLock, heapLock'} \subseteq {p} \cup {x \in {heapLock, heapLock'} : x \notin Procs}
        BY <2>2 DEF Committed
    <2>3. QED BY <2>1, <2>2
<1>3. QED BY <1>2 DEF Committed

-----------------------------------------------------------------------------
(* Every step *)

\* The steps in which p writes no committed page and does not decide to.
LEMMA OtherRefines ==
    ASSUME IInv, NEW p \in Procs, LockDiscipline(p), Program(p) \/ Runtime(p),
           ~(Validate(p) \/ CopyEnd(p) \/ BumpVersion(p) \/ \E pg \in Pages : CopyStart(p, pg))
    PROVE  Tx!Execute(p) \/ Tx!Abort(p)
<1> USE Facts
<1>1. CASE Program(p)
    <2>1. pc[p] \in {"run", "outside"} /\ UNCHANGED <<persistent, heapLock, todo>>
        <3>1. CASE Begin(p) \/ EndNop(p) \/ EndTx(p) \/ EnsureIrrevocable(p)
            BY <3>1 DEF Begin, EndNop, EndTx, EnsureIrrevocable, Goto, shared, locks
        <3>2. ASSUME NEW k \in {"load", "store"}, NEW pg \in Pages, Executes(p, k, pg),
                     UNCHANGED <<shared, locks, ctl>>
              PROVE  pc[p] \in {"run", "outside"} /\ UNCHANGED <<persistent, heapLock, todo>>
            BY <3>2, ExecutesFacts DEF shared, locks, ctl
        <3>3. QED BY <1>1, <3>1, <3>2 DEF Program, Load, Store, TrapFirst, TrapAgain
    <2>2. Committed' = Committed
        BY <2>1, CommittedStays DEF LockDiscipline, Committing
    <2>3. InTx(p) /\ InTx(p)' => \A pg \in Pages : saw[p][pg] \subseteq saw'[p][pg]
        <3>1. CASE Begin(p) \/ EndNop(p)
            BY <3>1 DEF Begin, EndNop, Goto, InTx, TypeOK
        <3>2. CASE EndTx(p) \/ EnsureIrrevocable(p)
            BY <3>2 DEF EndTx, EnsureIrrevocable, used
        <3>3. ASSUME NEW x \in Pages, Load(p, x) \/ Store(p, x)
              PROVE  \A pg \in Pages : saw[p][pg] \subseteq saw'[p][pg]
            BY <3>3, UseSaw DEF Load, Store
        <3>4. ASSUME NEW k \in {"load", "store"}, NEW x \in Pages, TrapFirst(p, k, x) \/ TrapAgain(p, k, x)
              PROVE  saw' = saw
            BY <3>4 DEF TrapFirst, TrapAgain, used
        <3>5. QED BY <1>1, <3>1, <3>2, <3>3, <3>4 DEF Program
    <2>4. QED BY <2>2, <2>3, NotACommit
<1>2. CASE LockHeap(p) \/ LockGlobals(p) \/ DropPages(p) \/ UnlockHeap(p) \/ UnlockGlobals(p) \/ Abort(p)
    <2>1. todo[p] = {} /\ UNCHANGED <<persistent, todo>>
        BY <1>2 DEF LockHeap, LockGlobals, DropPages, UnlockHeap, UnlockGlobals, Abort, Goto, LockDiscipline,
                    Committing, shared
    <2>2. heapLock' = heapLock \/ {heapLock, heapLock'} \subseteq {p, NoProc}
        BY <1>2 DEF LockHeap, LockGlobals, DropPages, UnlockHeap, UnlockGlobals, Abort, Goto, LockDiscipline,
                    locks
    <2>3. Committed' = Committed
        BY <1>2, <2>1, <2>2, CommittedStays
    <2>4. saw' = saw \/ ~InTx(p)'
        <3>1. CASE UnlockGlobals(p)
            <4>1. saw' = saw \/ pc'[p] \in {"abort", "outside"}
                BY <3>1 DEF UnlockGlobals, used, TypeOK
            <4>2. QED BY <4>1 DEF InTx
        <3>2. CASE ~UnlockGlobals(p)
            BY <1>2, <3>2 DEF LockHeap, LockGlobals, DropPages, UnlockHeap, Abort, used
        <3>3. QED BY <3>1, <3>2
    <2>5. QED BY <1>2, <2>3, <2>4, NotACommit
<1>3. QED BY <1>1, <1>2 DEF Runtime

\* The version check is where a commit takes effect.
LEMMA ValidateRefines ==
    ASSUME IInv, NEW p \in Procs, LockDiscipline(p), Validate(p)
    PROVE  Tx!Execute(p) \/ Tx!Commit(p) \/ Tx!Abort(p)
<1> USE Facts
<1>1. /\ pc[p] = "validate" /\ ok[p] = FALSE /\ todo[p] = {} /\ heapLock = p
      /\ UNCHANGED <<persistent, versions, heapLock, goal, frame, read, dirtied, saw>>
    BY DEF Validate, LockDiscipline, Committing, TypeOK, shared, locks, mapping, sets, used
<1>2. CASE ~(Consistent(p) /\ goal[p] = "commit")
    <2>1. UNCHANGED todo
        BY <1>2 DEF Validate
    <2>2. Committed' = Committed
        BY <1>1, <2>1, CommittedStays DEF Runtime
    <2>3. QED BY <1>1, <2>2, NotACommit DEF Runtime
<1>3. CASE Consistent(p) /\ goal[p] = "commit"
    <2>1. /\ ok'[p] = TRUE /\ goal'[p] = "commit" /\ pc'[p] = "copy"
          /\ todo'[p] = dirtied[p]
        BY <1>1, <1>3 DEF Validate, TypeOK
    <2>2. InTx(p) /\ ~InTx(p)'
        BY <1>1, <2>1 DEF InTx
    <2>3. \A pg \in Pages : Committed[pg] = persistent[pg]
        BY <1>1 DEF Committed
    <2>4. Tx!Current(p)
        <3>1. ASSUME NEW pg \in Pages
              PROVE  saw[p][pg] \subseteq {persistent[pg]}
            <4>1. CASE pg \in read[p]
                <5>1. versions[pg] = localVersions[p][pg]
                    BY <1>3, <4>1 DEF Consistent
                <5>2. ~BeingCommitted(pg)
                    BY <1>1, NothingBeingCommitted DEF InsideLock
                <5>3. QED BY <4>1, <5>1, <5>2 DEF ProcInv, Vouched
            <4>2. CASE pg \notin read[p]
                BY <4>2 DEF ProcInv, Recorded
            <4>3. QED BY <4>1, <4>2
        <3>2. QED BY <2>2, <2>3, <3>1 DEF Tx!Current, RecordedReads
    <2>5. Committed' = [pg \in Pages |-> IF PrivateWrites[p][pg] = Tx!NoFrame THEN Committed[pg]
                                         ELSE PrivateWrites[p][pg]]
        <3>1. ASSUME NEW pg \in Pages
              PROVE  Committed'[pg] = IF PrivateWrites[p][pg] = Tx!NoFrame THEN Committed[pg]
                                      ELSE PrivateWrites[p][pg]
            <4>1. CASE pg \in dirtied[p]
                <5>1. frame[p][pg] = versions[pg] + 1
                    BY <1>1, <2>1, <4>1, ValidateKeeps DEF ProcInv, CommitPlan, Committing
                <5>2. frame[p][pg] # NoFrame
                    BY <5>1 DEF TypeOK, NoFrame
                <5>3. PrivateWrites[p][pg] = frame[p][pg]
                    BY <2>2, <4>1 DEF PrivateWrites
                <5>4. Committed'[pg] = frame[p][pg]
                    BY <1>1, <2>1, <4>1 DEF Committed
                <5>5. QED BY <5>2, <5>3, <5>4 DEF Tx!NoFrame, NoFrame
            <4>2. CASE pg \notin dirtied[p]
                <5>1. PrivateWrites[p][pg] = NoFrame
                    BY <4>2 DEF PrivateWrites
                <5>2. Committed'[pg] = persistent[pg]
                    BY <1>1, <2>1, <4>2 DEF Committed
                <5>3. QED BY <2>3, <5>1, <5>2 DEF Tx!NoFrame, NoFrame
            <4>3. QED BY <4>1, <4>2
        <3>2. QED BY <3>1 DEF Committed
    <2>6. /\ RecordedReads' = [RecordedReads EXCEPT ![p] = Tx!NoReads]
          /\ PrivateWrites' = [PrivateWrites EXCEPT ![p] = Tx!NoWrites]
        BY <2>2, IsOver DEF Runtime
    <2>7. QED BY <2>4, <2>5, <2>6 DEF Tx!Commit
<1>4. QED BY <1>2, <1>3

\* What the copying of the pages does is no longer seen.
LEMMA CopyRefines ==
    ASSUME IInv, NEW p \in Procs, LockDiscipline(p),
           CopyEnd(p) \/ BumpVersion(p) \/ \E pg \in Pages : CopyStart(p, pg)
    PROVE  Tx!Execute(p) \/ Tx!Abort(p)
<1> USE Facts
<1>1. heapLock = p /\ Committing(p) /\ UNCHANGED <<heapLock, frame, saw>>
    BY DEF CopyStart, CopyEnd, BumpVersion, Goto, LockDiscipline, Committing, locks, mapping, used
<1>2. \A pg \in Pages : Committed'[pg] = Committed[pg]
    <2>1. ASSUME NEW x \in Pages, CopyStart(p, x), NEW pg \in Pages
          PROVE  Committed'[pg] = Committed[pg]
        BY <1>1, <2>1 DEF CopyStart, Committed, TypeOK
    <2>2. ASSUME CopyEnd(p), NEW pg \in Pages
          PROVE  Committed'[pg] = Committed[pg]
        <3>1. pc[p] = "copying"
            BY <2>2 DEF CopyEnd, Goto
        <3>2. addr[p] \in todo[p] /\ frame[p][addr[p]] = versions[addr[p]] + 1 /\ addr[p] \in Pages
            BY <3>1 DEF ProcInv, CommitPlan, Committing, TypeOK
        <3>3. Visible(p, addr[p]) = frame[p][addr[p]]
            BY <3>2 DEF Visible, NoFrame, TypeOK
        <3>4. todo'[p] = todo[p] \ {addr[p]} /\ persistent' = [persistent EXCEPT ![addr[p]] = frame[p][addr[p]]]
            BY <2>2, <3>3 DEF CopyEnd, TypeOK
        <3>5. QED BY <1>1, <3>2, <3>4 DEF Committed, TypeOK
    <2>3. ASSUME BumpVersion(p), NEW pg \in Pages
          PROVE  Committed'[pg] = Committed[pg]
        BY <1>1, <2>3 DEF BumpVersion, Committed
    <2>4. QED BY <2>1, <2>2, <2>3
<1>3. Committed' = Committed
    BY <1>2 DEF Committed
<1>4. QED BY <1>1, <1>3, NotACommit DEF Runtime

LEMMA StepRefines ==
    ASSUME IInv, \A p \in Procs : LockDiscipline(p), [Next]_vars
    PROVE  [Tx!Next]_(Tx!vars)
<1>1. CASE UNCHANGED vars
    BY <1>1 DEF vars, shared, locks, ctl, access, mapping, sets, used, Tx!vars, Committed, RecordedReads,
                PrivateWrites, InTx
<1>2. ASSUME NEW p \in Procs, Program(p) \/ Runtime(p)
      PROVE  Tx!Execute(p) \/ Tx!Commit(p) \/ Tx!Abort(p)
    <2>1. CASE Validate(p)
        BY <2>1, ValidateRefines
    <2>2. CASE CopyEnd(p) \/ BumpVersion(p) \/ \E pg \in Pages : CopyStart(p, pg)
        BY <2>2, CopyRefines
    <2>3. CASE ~(Validate(p) \/ CopyEnd(p) \/ BumpVersion(p) \/ \E pg \in Pages : CopyStart(p, pg))
        BY <1>2, <2>3, OtherRefines
    <2>4. QED BY <2>1, <2>2, <2>3
<1>3. QED BY <1>1, <1>2 DEF Next, Tx!Next

\* Grace's memory implements the transactions of Transactions: what a committing
\* transaction used of the pages it recorded is the committed state, and its
\* writes appear all at once (xmemory::tryToCommit, xpersist::commit and the
\* SEGV handler).
THEOREM Refinement == Spec => RecordedAccessesSerialise
<1> DEFINE LD == \A p \in Procs : LockDiscipline(p)
<1>1. Init => Tx!Init
    BY DEF Init, Tx!Init, Committed, RecordedReads, PrivateWrites, NoValues, NoFrame, Tx!NoReads, Tx!NoWrites,
           Tx!NoFrame
<1>2. IInv /\ LD /\ [Next]_vars => [Tx!Next]_(Tx!vars)
    BY StepRefines
<1>3. QED BY <1>1, <1>2, Disciplined, PTL DEF Spec, RecordedAccessesSerialise, Tx!Spec

-----------------------------------------------------------------------------
(* Private copies *)

\* A transaction that is committed has no copies left, and no page to store to
\* without a trap, and neither has a process between two transactions.
Over(p) == pc[p] = "outside" \/ (pc[p] \in {"unlockHeap", "unlockGlobals"} /\ ok[p] /\ goal[p] = "commit")

CopyDiscipline(p) ==
    /\ \A pg \in Pages : prot[p][pg] = "write" \/ frame[p][pg] # NoFrame => pg \in dirtied[p]
    /\ Over(p) => kind[p] = "none" /\ \A pg \in Pages : prot[p][pg] # "write" /\ frame[p][pg] = NoFrame

\* Nothing is stored to a page outside a transaction, and inside only after the
\* second trap.
LEMMA CopiesOwn ==
    ASSUME OutsidePages = {}, IInv, NEW p \in Procs, LockDiscipline(p), CopyDiscipline(p),
           Program(p) \/ Runtime(p)
    PROVE  CopyDiscipline(p)'
<1> USE Facts DEF CopyDiscipline, Over, TypeOK
<1>1. CASE Begin(p)
    BY <1>1 DEF Begin, Goto, EmptySets, access, mapping
<1>2. CASE EndNop(p)
    <2>1. kind'[p] = "none" /\ prot'[p] = [pg \in Pages |-> "none"] /\ frame'[p] = [pg \in Pages |-> NoFrame]
        BY <1>2 DEF EndNop, UpdateAll, access
    <2>2. QED BY <2>1
<1>3. CASE EndTx(p) \/ EnsureIrrevocable(p) \/ LockHeap(p) \/ LockGlobals(p) \/ UnlockHeap(p)
    BY <1>3 DEF EndTx, EnsureIrrevocable, LockHeap, LockGlobals, UnlockHeap, Goto, access, mapping, sets
<1>4. ASSUME NEW k \in {"load", "store"}, NEW pg \in Pages, Executes(p, k, pg)
      PROVE  pc[p] = "run" /\ ~Over(p)
    <2>1. pc[p] = "run"
        BY <1>4, ExecutesFacts DEF Executes, Starts
    <2>2. QED BY <2>1
<1>5. ASSUME NEW pg \in Pages, Load(p, pg)
      PROVE  CopyDiscipline(p)'
    BY <1>4, <1>5 DEF Load, ctl, mapping, sets
<1>6. ASSUME NEW pg \in Pages, Store(p, pg)
      PROVE  CopyDiscipline(p)'
    <2>1. pc[p] = "run" /\ pc' = pc /\ prot' = prot /\ dirtied' = dirtied
        BY <1>4, <1>6 DEF Store, ctl, sets
    <2>2. pg \in dirtied[p]
        BY <1>6 DEF Store, Permitted
    <2>3. \A x \in Pages \ {pg} : frame'[p][x] = frame[p][x]
        BY <1>6 DEF Store
    <2>4. QED BY <2>1, <2>2, <2>3
<1>7. ASSUME NEW k \in {"load", "store"}, NEW pg \in Pages, TrapFirst(p, k, pg)
      PROVE  CopyDiscipline(p)'
    BY <1>4, <1>7 DEF TrapFirst, ctl
<1>8. ASSUME NEW k \in {"load", "store"}, NEW pg \in Pages, TrapAgain(p, k, pg)
      PROVE  CopyDiscipline(p)'
    BY <1>4, <1>8 DEF TrapAgain, RecordWrite, ctl
<1>9. CASE Validate(p)
    <2>1. pc[p] = "validate" /\ UNCHANGED <<prot, frame, dirtied, kind, goal>>
        BY <1>9 DEF Validate, access, mapping, sets
    <2>2. ~Over(p)'
        BY <1>9, <2>1 DEF Validate
    <2>3. QED BY <2>1, <2>2
<1>10. ASSUME NEW pg \in Pages, CopyStart(p, pg)
       PROVE  CopyDiscipline(p)'
    BY <1>10 DEF CopyStart, Goto, mapping, sets
<1>11. CASE CopyEnd(p) \/ BumpVersion(p)
    BY <1>11 DEF CopyEnd, BumpVersion, Goto, mapping, sets
<1>12. CASE DropPages(p)
    <2>1. \A pg \in Pages : prot'[p][pg] # "write" /\ frame'[p][pg] = NoFrame
        BY <1>12 DEF DropPages, UpdatePages
    <2>2. kind'[p] = "none"
        BY <1>12 DEF DropPages, Goto, access, ProcInv, PendingAccess
    <2>3. QED BY <2>1, <2>2
<1>13. CASE UnlockGlobals(p)
    <2>1. UNCHANGED <<prot, frame, dirtied, kind>> /\ pc[p] = "unlockGlobals"
        BY <1>13 DEF UnlockGlobals, access, mapping, sets
    <2>2. Over(p)' => Over(p)
        BY <1>13 DEF UnlockGlobals
    <2>3. QED BY <2>1, <2>2
<1>14. CASE Abort(p)
    <2>1. pc'[p] = "run" /\ prot'[p] = [pg \in Pages |-> "none"] /\ frame'[p] = [pg \in Pages |-> NoFrame]
        BY <1>14 DEF Abort, Goto, UpdateAll
    <2>2. QED BY <2>1
<1>15. QED
    BY <1>1, <1>2, <1>3, <1>5, <1>6, <1>7, <1>8, <1>9, <1>10, <1>11, <1>12, <1>13, <1>14
       DEF Program, Runtime

LEMMA NextCopies ==
    ASSUME OutsidePages = {}, IInv, \A p \in Procs : LockDiscipline(p) /\ CopyDiscipline(p), [Next]_vars
    PROVE  \A p \in Procs : CopyDiscipline(p)'
<1>1. CASE UNCHANGED vars
    BY <1>1 DEF CopyDiscipline, Over, vars, ctl, access, mapping, sets
<1>2. ASSUME NEW p \in Procs, Program(p) \/ Runtime(p), NEW q \in Procs
      PROVE  CopyDiscipline(q)'
    <2>1. CASE q = p
        BY <1>2, <2>1, CopiesOwn
    <2>2. CASE q # p
        <3>1. Same(q) /\ ok'[q] = ok[q]
            BY <1>2, <2>2, OthersSame
        <3>2. QED BY <3>1 DEF Same, CopyDiscipline, Over
    <2>3. QED BY <2>1, <2>2
<1>3. QED BY <1>1, <1>2 DEF Next

\* If a program touches nothing between atomicEnd and atomicBegin, every private
\* copy of a page belongs to a transaction that knows the page is dirty.
THEOREM CopiesAreTracked ==
    ASSUME OutsidePages = {}
    PROVE  Spec => []PrivateCopiesTracked
<1> DEFINE LD == \A p \in Procs : LockDiscipline(p)
           CD == \A p \in Procs : CopyDiscipline(p)
<1>1. Init => CD
    <2>1. SUFFICES ASSUME Init, NEW p \in Procs
                   PROVE  CopyDiscipline(p)
        OBVIOUS
    <2>2. /\ pc[p] = "run" /\ prot[p] = [pg \in Pages |-> "none"]
          /\ frame[p] = [pg \in Pages |-> NoFrame]
        BY <2>1 DEF Init
    <2>3. QED BY <2>2 DEF CopyDiscipline, Over
<1>2. IInv /\ LD /\ CD /\ [Next]_vars => CD'
    BY NextCopies
<1>3. CD => PrivateCopiesTracked
    BY DEF CopyDiscipline, PrivateCopiesTracked
<1>4. QED BY <1>1, <1>2, <1>3, Disciplined, PTL DEF Spec
=============================================================================
