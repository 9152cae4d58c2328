--------------------------- MODULE GraceHeapProofs ---------------------------
(***************************************************************************)
(* The heap of one process (GraceHeap): Kingsley's size classes hold the   *)
(* sizes they are for; what malloc gives out lies in a block of its own;   *)
(* and as long as no object that was moved to a page boundary has been     *)
(* freed into a class above its own, and no header has been written before *)
(* its block, no object of the program meets another.  Below the heap: the *)
(* bytes of sbrk, as dlmalloc emulates it on Windows and as the Heap       *)
(* Layers have it, are committed (WinSbrk); and the bit strings that       *)
(* allocators of the Heap Layers search are searched exactly (BitString).  *)
(***************************************************************************)
EXTENDS ProofFacts, GraceHeap, WinSbrk, BitString

-----------------------------------------------------------------------------
\* Kingsley's classes: 1 << n doubles, and a class is large enough for its sizes.
LEMMA ShiftedIs == Shifted \in [Nat -> Nat] /\ \A n \in Nat : Shifted[n] = IF n = 0 THEN 1 ELSE 2 * Shifted[n - 1]
<1> DEFINE next == [x \in Nat |-> 2 * x]
           before == [n \in Nat |-> IF n = 0 THEN 0 ELSE n - 1]
           first == [n \in {0} |-> 1]
<1>1. PICK F : Follows(F, Nat, Nat, {0}, first, next, before)
    <2>1. Recursion(Nat, Nat, {0}, first, next, before)
        BY DEF Recursion
    <2> HIDE DEF next, before, first
    <2>2. QED BY <2>1, RecursionExists
<1>2. F = [n \in Nat |-> IF n = 0 THEN 1 ELSE 2 * F[n - 1]]
    <2>1. ASSUME NEW n \in Nat PROVE F[n] = IF n = 0 THEN 1 ELSE 2 * F[n - 1]
        <3>1. n # 0 => F[n - 1] \in Nat /\ before[n] = n - 1
            BY <1>1 DEF Follows
        <3>2. F[n] = IF n = 0 THEN 1 ELSE next[F[before[n]]]
            BY <1>1 DEF Follows, Value
        <3>3. QED BY <3>1, <3>2
    <2>2. QED BY <1>1, <2>1 DEF Follows
<1>3. Shifted = [n \in Nat |-> IF n = 0 THEN 1 ELSE 2 * Shifted[n - 1]]
    BY <1>2 DEF Shifted
<1> HIDE DEF next, before, first
<1> DEFINE T == {n \in Nat : Shifted[n] \notin Nat}
<1>4. T = {}
    <2>1. SUFFICES ASSUME T # {} PROVE FALSE
        OBVIOUS
    <2>2. T \subseteq Nat
        OBVIOUS
    <2>3. PICK m \in T : \A j \in T : m <= j
        <3> HIDE DEF T
        <3>1. QED BY <2>1, <2>2, LeastNatural
    <2>4. m \in Nat /\ Shifted[m] = IF m = 0 THEN 1 ELSE 2 * Shifted[m - 1]
        BY <1>3, <2>2
    <2>5. m # 0 /\ m - 1 \in Nat
        BY <2>3, <2>4
    <2>6. m - 1 \notin T
        <3>1. SUFFICES ASSUME m - 1 \in T PROVE FALSE
            OBVIOUS
        <3>2. m <= m - 1
            BY <2>3, <3>1
        <3>3. QED BY <2>4, <3>2
    <2>7. Shifted[m - 1] \in Nat
        BY <2>5, <2>6
    <2>8. QED BY <2>3, <2>4, <2>5, <2>7
<1>5. \A n \in Nat : Shifted[n] = IF n = 0 THEN 1 ELSE 2 * Shifted[n - 1]
    BY <1>3
<1>6. QED BY <1>3, <1>4, <1>5

LEMMA ShiftsIs == Shifts \in [Nat -> Nat] /\ \A n \in Nat : Shifts[n] = IF n <= 7 THEN 5 ELSE Shifts[n \div 2] + 1
<1> DEFINE next == [x \in Nat |-> x + 1]
           before == [n \in Nat |-> n \div 2]
           first == [n \in 0 .. 7 |-> 5]
<1>1. PICK F : Follows(F, Nat, Nat, 0 .. 7, first, next, before)
    <2>1. Recursion(Nat, Nat, 0 .. 7, first, next, before)
        BY DEF Recursion
    <2> HIDE DEF next, before, first
    <2>2. QED BY <2>1, RecursionExists
<1>2. F = [n \in Nat |-> IF n <= 7 THEN 5 ELSE F[n \div 2] + 1]
    <2>1. ASSUME NEW n \in Nat PROVE F[n] = IF n <= 7 THEN 5 ELSE F[n \div 2] + 1
        <3>1. n \div 2 \in Nat /\ before[n] = n \div 2 /\ F[n \div 2] \in Nat
            BY <1>1 DEF Follows
        <3>2. F[n] = IF n <= 7 THEN 5 ELSE next[F[before[n]]]
            BY <1>1 DEF Follows, Value
        <3>3. QED BY <3>1, <3>2
    <2>2. QED BY <1>1, <2>1 DEF Follows
<1>3. Shifts = [n \in Nat |-> IF n <= 7 THEN 5 ELSE Shifts[n \div 2] + 1]
    BY <1>2 DEF Shifts
<1> HIDE DEF next, before, first
<1> DEFINE T == {n \in Nat : Shifts[n] \notin Nat}
<1>4. T = {}
    <2>1. SUFFICES ASSUME T # {} PROVE FALSE
        OBVIOUS
    <2>2. T \subseteq Nat
        OBVIOUS
    <2>3. PICK m \in T : \A j \in T : m <= j
        <3> HIDE DEF T
        <3>1. QED BY <2>1, <2>2, LeastNatural
    <2>4. m \in Nat /\ Shifts[m] = IF m <= 7 THEN 5 ELSE Shifts[m \div 2] + 1
        BY <1>3, <2>2
    <2>5. m > 7 /\ m \div 2 \in Nat /\ m \div 2 < m
        BY <2>3, <2>4
    <2>6. m \div 2 \notin T
        <3>1. SUFFICES ASSUME m \div 2 \in T PROVE FALSE
            OBVIOUS
        <3>2. m <= m \div 2
            BY <2>3, <3>1
        <3>3. QED BY <2>4, <2>5, <3>2
    <2>7. Shifts[m \div 2] \in Nat
        BY <2>5, <2>6
    <2>8. QED BY <2>3, <2>4, <2>5, <2>7
<1>5. \A n \in Nat : Shifts[n] = IF n <= 7 THEN 5 ELSE Shifts[n \div 2] + 1
    BY <1>3
<1>6. QED BY <1>3, <1>4, <1>5

LEMMA ClassesDouble ==
    ASSUME NEW c \in Nat
    PROVE  Class2Size(c) \in Nat /\ Class2Size(c + 1) = 2 * Class2Size(c)
<1>1. c + 3 \in Nat /\ (c + 1) + 3 \in Nat /\ ((c + 1) + 3) - 1 = c + 3 /\ (c + 1) + 3 # 0
    OBVIOUS
<1>2. QED BY <1>1, ShiftedIs DEF Class2Size

LEMMA SmallClasses ==
    /\ Class2Size(0) = 8 /\ Class2Size(1) = 16 /\ Class2Size(2) = 32 /\ Class2Size(3) = 64
    /\ Class2Size(4) = 128 /\ Class2Size(5) = 256
<1>1. Shifted[0] = 1 /\ Shifted[1] = 2 * Shifted[0] /\ Shifted[2] = 2 * Shifted[1] /\ Shifted[3] = 2 * Shifted[2]
    <2>1. 0 \in Nat /\ 1 \in Nat /\ 2 \in Nat /\ 3 \in Nat /\ 1 - 1 = 0 /\ 2 - 1 = 1 /\ 3 - 1 = 2
        OBVIOUS
    <2>2. QED BY <2>1, ShiftedIs
<1>2. Class2Size(0) = 8
    BY <1>1 DEF Class2Size
<1>3. Class2Size(1) = 2 * Class2Size(0)
    <2>1. 0 \in Nat /\ 0 + 1 = 1
        OBVIOUS
    <2>2. QED BY <2>1, ClassesDouble
<1>4. Class2Size(2) = 2 * Class2Size(1)
    <2>1. 1 \in Nat /\ 1 + 1 = 2
        OBVIOUS
    <2>2. QED BY <2>1, ClassesDouble
<1>5. Class2Size(3) = 2 * Class2Size(2)
    <2>1. 2 \in Nat /\ 2 + 1 = 3
        OBVIOUS
    <2>2. QED BY <2>1, ClassesDouble
<1>6. Class2Size(4) = 2 * Class2Size(3)
    <2>1. 3 \in Nat /\ 3 + 1 = 4
        OBVIOUS
    <2>2. QED BY <2>1, ClassesDouble
<1>7. Class2Size(5) = 2 * Class2Size(4)
    <2>1. 4 \in Nat /\ 4 + 1 = 5
        OBVIOUS
    <2>2. QED BY <2>1, ClassesDouble
<1>8. QED BY <1>2, <1>3, <1>4, <1>5, <1>6, <1>7

\* Larger classes hold more.
LEMMA ClassesGrow ==
    ASSUME NEW c \in Nat, NEW d \in Nat, c < d
    PROVE  Class2Size(c) < Class2Size(d) /\ Class2Size(c) >= 8
<1> DEFINE T == {e \in Nat : c < e /\ ~ (Class2Size(c) < Class2Size(e))}
           U == {e \in Nat : ~ (Class2Size(e) >= 8)}
<1>1. U = {}
    <2>1. SUFFICES ASSUME U # {} PROVE FALSE
        OBVIOUS
    <2>2. U \subseteq Nat
        OBVIOUS
    <2>3. PICK m \in U : \A j \in U : m <= j
        <3> HIDE DEF U
        <3>1. QED BY <2>1, <2>2, LeastNatural
    <2>4. m # 0 /\ m - 1 \in Nat /\ (m - 1) + 1 = m
        BY SmallClasses
    <2>5. m - 1 \notin U
        <3>1. SUFFICES ASSUME m - 1 \in U PROVE FALSE
            OBVIOUS
        <3>2. m <= m - 1
            BY <2>3, <3>1
        <3>3. QED BY <2>2, <3>2
    <2>6. Class2Size(m - 1) >= 8 /\ Class2Size(m - 1) \in Nat /\ Class2Size(m) = 2 * Class2Size(m - 1)
        BY <2>4, <2>5, ClassesDouble
    <2>7. Class2Size(m) >= 8
        BY <2>6
    <2>8. QED BY <2>3, <2>7
<1>2. \A e \in Nat : Class2Size(e) >= 8 /\ Class2Size(e) \in Nat
    BY <1>1, ClassesDouble
<1> HIDE DEF U
<1>3. T = {}
    <2>1. SUFFICES ASSUME T # {} PROVE FALSE
        OBVIOUS
    <2>2. T \subseteq Nat
        OBVIOUS
    <2>3. PICK m \in T : \A j \in T : m <= j
        <3> HIDE DEF T
        <3>1. QED BY <2>1, <2>2, LeastNatural
    <2>4. m \in Nat /\ m # 0 /\ m - 1 \in Nat /\ (m - 1) + 1 = m /\ c < m /\ ~ (Class2Size(c) < Class2Size(m))
        OBVIOUS
    <2>5. PICK k \in Nat : k = m - 1
        BY <2>4
    <2>6. Class2Size(m) = 2 * Class2Size(k) /\ Class2Size(k) \in Nat /\ Class2Size(k) >= 8
        BY <1>2, <2>4, <2>5, ClassesDouble
    <2>7. k # c
        BY <2>4, <2>6
    <2>8. k \notin T
        <3>1. SUFFICES ASSUME k \in T PROVE FALSE
            OBVIOUS
        <3>2. m <= k
            BY <2>3, <3>1
        <3>3. QED BY <2>4, <2>5, <3>2
    <2>9. Class2Size(c) < Class2Size(k)
        BY <2>4, <2>5, <2>7, <2>8
    <2>10. Class2Size(c) < Class2Size(m)
        BY <1>2, <2>6, <2>9
    <2>11. QED BY <2>4, <2>10
<1>4. QED BY <1>2, <1>3

LEMMA ShiftsFit ==
    ASSUME NEW n \in Nat
    PROVE  Shifts[n] \in Nat /\ Class2Size(Shifts[n]) >= 32 * (n + 1)
<1> DEFINE T == {m \in Nat : ~ (Class2Size(Shifts[m]) >= 32 * (m + 1))}
<1>1. T = {}
    <2>1. SUFFICES ASSUME T # {} PROVE FALSE
        OBVIOUS
    <2>2. T \subseteq Nat
        OBVIOUS
    <2>3. PICK m \in T : \A j \in T : m <= j
        <3> HIDE DEF T
        <3>1. QED BY <2>1, <2>2, LeastNatural
    <2>4. m \in Nat /\ ~ (Class2Size(Shifts[m]) >= 32 * (m + 1))
        OBVIOUS
    <2>5. m > 7
        <3>1. SUFFICES ASSUME m <= 7 PROVE FALSE
            BY <2>4
        <3>2. Shifts[m] = 5
            BY <2>4, <3>1, ShiftsIs
        <3>3. QED BY <2>4, <3>1, <3>2, SmallClasses
    <2>6. PICK k \in Nat : k = m \div 2 /\ k < m /\ m + 1 <= 2 * (k + 1)
        BY <2>4, <2>5
    <2>7. Shifts[m] = Shifts[k] + 1 /\ Shifts[k] \in Nat
        <3>1. ~ (m <= 7)
            BY <2>4, <2>5
        <3>2. QED BY <2>4, <2>6, <3>1, ShiftsIs
    <2>8. k \notin T
        <3>1. SUFFICES ASSUME k \in T PROVE FALSE
            OBVIOUS
        <3>2. m <= k
            BY <2>3, <3>1
        <3>3. QED BY <2>4, <2>6, <3>2
    <2>9. Class2Size(Shifts[k]) >= 32 * (k + 1)
        BY <2>8
    <2>10. Class2Size(Shifts[m]) = 2 * Class2Size(Shifts[k]) /\ Class2Size(Shifts[k]) \in Nat
        BY <2>7, ClassesDouble
    <2>11. QED BY <2>4, <2>6, <2>9, <2>10
<1>2. QED BY <1>1, ShiftsIs

LEMMA SmallClassFits ==
    ASSUME NEW i \in 1 .. 16
    PROVE  SmallClass[i] \in Nat /\ Class2Size(SmallClass[i]) >= 8 * i
<1>1. /\ SmallClass[1] = 0 /\ SmallClass[2] = 1 /\ SmallClass[3] = 2 /\ SmallClass[4] = 2
      /\ SmallClass[5] = 3 /\ SmallClass[6] = 3 /\ SmallClass[7] = 3 /\ SmallClass[8] = 3
      /\ SmallClass[9] = 4 /\ SmallClass[10] = 4 /\ SmallClass[11] = 4 /\ SmallClass[12] = 4
      /\ SmallClass[13] = 4 /\ SmallClass[14] = 4 /\ SmallClass[15] = 4 /\ SmallClass[16] = 4
    BY DEF SmallClass
<1>2. CASE i \in 1 .. 4
    BY <1>1, <1>2, SmallClasses
<1>3. CASE i \in 5 .. 8
    BY <1>1, <1>3, SmallClasses
<1>4. CASE i \in 9 .. 16
    BY <1>1, <1>4, SmallClasses
<1>5. QED BY <1>2, <1>3, <1>4

\* The assertion of size2Class: an object of the class holds what was asked for.
THEOREM ClassHoldsItsSizes ==
    \A n \in Nat : Size2Class(n) \in Nat /\ Class2Size(Size2Class(n)) >= n
<1> SUFFICES ASSUME NEW n \in Nat PROVE Size2Class(n) \in Nat /\ Class2Size(Size2Class(n)) >= n
    OBVIOUS
<1>1. PICK sz \in Nat : sz = (IF n < 8 THEN 8 ELSE n) /\ sz >= n /\ sz >= 8
    OBVIOUS
<1>2. CASE sz <= 128
    <2>1. PICK i \in 1 .. 16 : i = ((sz - 1) \div 8) + 1 /\ 8 * i >= sz
        BY <1>1, <1>2
    <2>2. Size2Class(n) = SmallClass[i]
        BY <1>1, <1>2, <2>1 DEF Size2Class
    <2>3. SmallClass[i] \in Nat /\ Class2Size(SmallClass[i]) >= 8 * i /\ Class2Size(SmallClass[i]) \in Nat
        BY SmallClassFits, ClassesDouble
    <2>4. Class2Size(SmallClass[i]) >= n
        BY <1>1, <2>1, <2>3
    <2>5. QED BY <2>2, <2>3, <2>4
<1>3. CASE ~ (sz <= 128)
    <2>1. PICK m \in Nat : m = (sz - 1) \div 32 /\ 32 * (m + 1) >= sz
        BY <1>1, <1>3
    <2>2. Size2Class(n) = Shifts[m]
        BY <1>1, <1>3, <2>1 DEF Size2Class
    <2>3. Shifts[m] \in Nat /\ Class2Size(Shifts[m]) >= 32 * (m + 1) /\ Class2Size(Shifts[m]) \in Nat
        BY ShiftsFit, ClassesDouble
    <2>4. Class2Size(Shifts[m]) >= n
        BY <1>1, <2>1, <2>3
    <2>5. QED BY <2>2, <2>3, <2>4
<1>4. QED BY <1>2, <1>3
-----------------------------------------------------------------------------
LEMMA RoundupIs ==
    ASSUME NEW n \in Nat, NEW k \in Nat \ {0}
    PROVE  Roundup(n, k) \in Nat /\ n <= Roundup(n, k) /\ Roundup(n, k) < n + k
<1>1. PICK a \in Nat : a = n + k - 1
    OBVIOUS
<1>2. k * (a \div k) <= a /\ a < k * (a \div k) + k /\ a \div k \in Nat
    OBVIOUS
<1>3. PICK q \in Nat : q = a \div k
    BY <1>2
<1>4. PICK r \in Nat : r = k * q /\ r = q * k
    OBVIOUS
<1>5. Roundup(n, k) = r
    BY <1>1, <1>3, <1>4 DEF Roundup
<1>6. r <= a /\ a < r + k
    BY <1>2, <1>3, <1>4
<1>7. QED BY <1>1, <1>5, <1>6

-----------------------------------------------------------------------------
\* Where things are: arenas' headers, blocks and what is left of an arena.
PartialNat == UNION {[D -> Nat] : D \in SUBSET Nat}
BlockEnd(size, begin, p) == begin[p] + size[p] + HeaderSize
Apart(a, b, c, d) == b <= c \/ d <= a

Placed(pos, space, left, arenas, size, begin) ==
    /\ DOMAIN size = DOMAIN begin
    /\ HpBase <= pos /\ pos <= HpEnd /\ space + left <= pos
    /\ left > 0 => space >= HpBase
    /\ \A p \in DOMAIN begin :
            /\ HpBase <= begin[p] /\ BlockEnd(size, begin, p) <= pos
            /\ begin[p] <= p /\ p < BlockEnd(size, begin, p) /\ size[p] >= 8
            /\ Apart(begin[p], BlockEnd(size, begin, p), space, space + left)
    /\ \A p, q \in DOMAIN begin :
            p # q => Apart(begin[p], BlockEnd(size, begin, p), begin[q], BlockEnd(size, begin, q))
    /\ \A p \in DOMAIN begin : \A a \in arenas :
            Apart(begin[p], BlockEnd(size, begin, p), a, a + ArenaSize)
    /\ \A a \in arenas : a + ArenaSize <= pos /\ Apart(a, a + ArenaSize, space, space + left)

\* Nothing is at from .. to - 1.
Outside(pos, space, left, arenas, size, begin, from, to) ==
    /\ HpBase <= from /\ to <= pos
    /\ \A p \in DOMAIN begin : Apart(begin[p], BlockEnd(size, begin, p), from, to)
    /\ \A a \in arenas : Apart(a, a + ArenaSize, from, to)
    /\ Apart(space, space + left, from, to)

LEMMA PartialTyped ==
    ASSUME NEW f \in PartialNat, NEW p \in DOMAIN f
    PROVE  p \in Nat /\ f[p] \in Nat
BY DEF PartialNat

LEMMA HpNumbers == HpBase \in Nat \ {0} /\ HpEnd \in Nat /\ HpPage \in Nat \ {0} /\ HpChunk \in Nat
BY HpAssumption

LEMMA BlocksTyped ==
    ASSUME NEW size \in PartialNat, NEW begin \in PartialNat, DOMAIN size = DOMAIN begin, NEW p \in DOMAIN begin
    PROVE  p \in Nat /\ begin[p] \in Nat /\ size[p] \in Nat /\ BlockEnd(size, begin, p) \in Nat
BY PartialTyped DEF BlockEnd, HeaderSize

\* ZoneHeap takes the beginning of what is left ...
LEMMA CutsFree ==
    ASSUME NEW pos \in Nat, NEW space \in Nat, NEW left \in Nat, NEW arenas \in SUBSET Nat,
           NEW size \in PartialNat, NEW begin \in PartialNat,
           Placed(pos, space, left, arenas, size, begin), NEW sz \in Nat \ {0}, sz <= left
    PROVE  /\ Placed(pos, space + sz, left - sz, arenas, size, begin)
           /\ Outside(pos, space + sz, left - sz, arenas, size, begin, space, space + sz)
           /\ space # 0
<1> USE HpNumbers, BlocksTyped
<1>1. DOMAIN size = DOMAIN begin /\ left - sz \in Nat /\ space >= HpBase
    BY DEF Placed
<1>2. ASSUME NEW a \in Nat, NEW b \in Nat, Apart(a, b, space, space + left)
      PROVE  Apart(a, b, space + sz, space + sz + (left - sz)) /\ Apart(a, b, space, space + sz)
    BY <1>2 DEF Apart
<1>3. \A a \in arenas : a \in Nat /\ a + ArenaSize \in Nat
    BY DEF ArenaSize
<1>4. \A p \in DOMAIN begin : /\ Apart(begin[p], BlockEnd(size, begin, p), space + sz, space + sz + (left - sz))
                              /\ Apart(begin[p], BlockEnd(size, begin, p), space, space + sz)
    BY <1>1, <1>2 DEF Placed
<1>5. \A a \in arenas : /\ Apart(a, a + ArenaSize, space + sz, space + sz + (left - sz))
                        /\ Apart(a, a + ArenaSize, space, space + sz)
    BY <1>2, <1>3 DEF Placed
<1>6. Placed(pos, space + sz, left - sz, arenas, size, begin)
    BY <1>1, <1>4, <1>5 DEF Placed
<1>7. Outside(pos, space + sz, left - sz, arenas, size, begin, space, space + sz)
    <2>1. Apart(space + sz, space + sz + (left - sz), space, space + sz)
        BY <1>1 DEF Apart
    <2>2. space + sz <= pos
        BY DEF Placed
    <2>3. QED BY <1>1, <1>4, <1>5, <2>1, <2>2 DEF Outside
<1>8. QED BY <1>1, <1>6, <1>7

\* ... or of a new arena, behind its header ...
LEMMA NewArena ==
    ASSUME NEW pos \in Nat, NEW space \in Nat, NEW left \in Nat, NEW arenas \in SUBSET Nat,
           NEW size \in PartialNat, NEW begin \in PartialNat,
           Placed(pos, space, left, arenas, size, begin),
           NEW sz \in Nat \ {0}, NEW whole \in Nat, NEW got \in Nat,
           sz <= whole, ArenaSize + whole <= got, pos + got <= HpEnd
    PROVE  /\ Placed(pos + got, pos + ArenaSize + sz, whole - sz, arenas \cup {pos}, size, begin)
           /\ Outside(pos + got, pos + ArenaSize + sz, whole - sz, arenas \cup {pos}, size, begin,
                      pos + ArenaSize, pos + ArenaSize + sz)
<1> USE HpNumbers, BlocksTyped DEF ArenaSize
<1>1. DOMAIN size = DOMAIN begin /\ whole - sz \in Nat /\ pos >= HpBase
    BY DEF Placed
<1>2. \A p \in DOMAIN begin :
            /\ BlockEnd(size, begin, p) <= pos /\ begin[p] \in Nat /\ BlockEnd(size, begin, p) \in Nat
            /\ Apart(begin[p], BlockEnd(size, begin, p), pos, pos + 16)
            /\ Apart(begin[p], BlockEnd(size, begin, p), pos + 16, pos + 16 + sz)
            /\ Apart(begin[p], BlockEnd(size, begin, p), pos + 16 + sz, pos + 16 + sz + (whole - sz))
    <2> SUFFICES ASSUME NEW p \in DOMAIN begin
                 PROVE  /\ BlockEnd(size, begin, p) <= pos /\ begin[p] \in Nat /\ BlockEnd(size, begin, p) \in Nat
                        /\ Apart(begin[p], BlockEnd(size, begin, p), pos, pos + 16)
                        /\ Apart(begin[p], BlockEnd(size, begin, p), pos + 16, pos + 16 + sz)
                        /\ Apart(begin[p], BlockEnd(size, begin, p), pos + 16 + sz, pos + 16 + sz + (whole - sz))
        OBVIOUS
    <2>1. BlockEnd(size, begin, p) <= pos /\ begin[p] \in Nat /\ BlockEnd(size, begin, p) \in Nat
        BY <1>1 DEF Placed
    <2>2. QED BY <2>1 DEF Apart
<1>3. \A a \in arenas \cup {pos} :
            /\ a + 16 <= pos + got /\ a \in Nat
            /\ Apart(a, a + 16, pos + 16, pos + 16 + sz)
            /\ Apart(a, a + 16, pos + 16 + sz, pos + 16 + sz + (whole - sz))
    <2>1. \A a \in arenas : a \in Nat /\ a + 16 <= pos
        BY DEF Placed
    <2>2. QED BY <2>1 DEF Apart
<1>4. /\ HpBase <= pos + got /\ pos + got <= HpEnd /\ pos + 16 + sz + (whole - sz) <= pos + got
      /\ pos + 16 + sz >= HpBase /\ HpBase <= pos + 16 /\ pos + 16 + sz <= pos + got
    BY <1>1
<1>5. Placed(pos + got, pos + 16 + sz, whole - sz, arenas \cup {pos}, size, begin)
    <2>1. \A p \in DOMAIN begin :
            /\ HpBase <= begin[p] /\ BlockEnd(size, begin, p) <= pos + got
            /\ begin[p] <= p /\ p < BlockEnd(size, begin, p) /\ size[p] >= 8
        <3> SUFFICES ASSUME NEW p \in DOMAIN begin
                     PROVE  /\ HpBase <= begin[p] /\ BlockEnd(size, begin, p) <= pos + got
                            /\ begin[p] <= p /\ p < BlockEnd(size, begin, p) /\ size[p] >= 8
            OBVIOUS
        <3>1. BlockEnd(size, begin, p) <= pos + got
            BY <1>2
        <3>2. QED BY <3>1 DEF Placed
    <2>2. \A p, q \in DOMAIN begin :
            p # q => Apart(begin[p], BlockEnd(size, begin, p), begin[q], BlockEnd(size, begin, q))
        BY DEF Placed
    <2>3. \A p \in DOMAIN begin : \A a \in arenas \cup {pos} :
            Apart(begin[p], BlockEnd(size, begin, p), a, a + 16)
        BY <1>2 DEF Placed
    <2>4. QED BY <1>1, <1>2, <1>3, <1>4, <2>1, <2>2, <2>3 DEF Placed
<1>6. Outside(pos + got, pos + 16 + sz, whole - sz, arenas \cup {pos}, size, begin, pos + 16, pos + 16 + sz)
    <2>1. Apart(pos + 16 + sz, pos + 16 + sz + (whole - sz), pos + 16, pos + 16 + sz)
        BY <1>1 DEF Apart
    <2>2. QED BY <1>2, <1>3, <1>4, <2>1 DEF Outside
<1>7. QED BY <1>5, <1>6

\* ... or gives up what is left.
LEMMA LeftIsGivenUp ==
    ASSUME NEW pos \in Nat, NEW space \in Nat, NEW left \in Nat, NEW arenas \in SUBSET Nat,
           NEW size \in PartialNat, NEW begin \in PartialNat,
           Placed(pos, space, left, arenas, size, begin)
    PROVE  Placed(pos, space, 0, arenas, size, begin)
<1> USE HpNumbers, BlocksTyped
<1>1. DOMAIN size = DOMAIN begin
    BY DEF Placed
<1>2. ASSUME NEW a \in Nat, NEW b \in Nat, Apart(a, b, space, space + left)
      PROVE  Apart(a, b, space, space + 0)
    BY <1>2 DEF Apart
<1>3. \A a \in arenas : Apart(a, a + ArenaSize, space, space + 0)
    BY <1>2 DEF ArenaSize, Placed
<1>4. \A p \in DOMAIN begin : Apart(begin[p], BlockEnd(size, begin, p), space, space + 0)
    BY <1>1, <1>2 DEF Placed
<1>5. QED BY <1>1, <1>3, <1>4 DEF Placed

\* An object in memory where nothing was is a new one.
LEMMA NewBlock ==
    ASSUME NEW pos \in Nat, NEW space \in Nat, NEW left \in Nat, NEW arenas \in SUBSET Nat,
           NEW size \in PartialNat, NEW begin \in PartialNat,
           Placed(pos, space, left, arenas, size, begin),
           NEW from \in Nat, NEW to \in Nat, Outside(pos, space, left, arenas, size, begin, from, to),
           NEW p \in Nat, NEW s \in Nat, s >= 8, from + s + HeaderSize <= to, from <= p, p < from + s + HeaderSize
    PROVE  /\ p \notin DOMAIN begin /\ p # 0
           /\ Placed(pos, space, left, arenas, HeaderWritten(size, p, s), HeaderWritten(begin, p, from))
<1> USE HpNumbers
<1>1. DOMAIN size = DOMAIN begin
    BY DEF Placed
<1>2. p \notin DOMAIN begin
    <2>1. SUFFICES ASSUME p \in DOMAIN begin PROVE FALSE
        OBVIOUS
    <2>2. begin[p] <= p /\ p < BlockEnd(size, begin, p) /\ begin[p] \in Nat /\ BlockEnd(size, begin, p) \in Nat
        BY <1>1, <2>1, BlocksTyped DEF Placed
    <2>3. Apart(begin[p], BlockEnd(size, begin, p), from, to)
        BY <2>1 DEF Outside
    <2>4. QED BY <2>2, <2>3 DEF Apart, HeaderSize
<1> DEFINE S == HeaderWritten(size, p, s)
           B == HeaderWritten(begin, p, from)
<1>3. /\ DOMAIN S = DOMAIN begin \cup {p} /\ DOMAIN B = DOMAIN begin \cup {p} /\ S[p] = s /\ B[p] = from
      /\ \A q \in DOMAIN begin : S[q] = size[q] /\ B[q] = begin[q]
    BY <1>1, <1>2 DEF HeaderWritten
<1> HIDE DEF S, B
<1>4. /\ BlockEnd(S, B, p) = from + s + HeaderSize
      /\ \A q \in DOMAIN begin : BlockEnd(S, B, q) = BlockEnd(size, begin, q)
    BY <1>3 DEF BlockEnd
<1>5. PICK e \in Nat : e = from + s + HeaderSize /\ e <= to /\ p < e /\ HpBase <= from /\ to <= pos
    BY DEF HeaderSize, Outside
<1>6. ASSUME NEW a \in Nat, NEW b \in Nat, Apart(a, b, from, to)
      PROVE  Apart(a, b, from, e) /\ Apart(from, e, a, b)
    BY <1>5, <1>6 DEF Apart
<1>7. \A q \in DOMAIN begin : /\ Apart(begin[q], BlockEnd(size, begin, q), from, e)
                              /\ Apart(from, e, begin[q], BlockEnd(size, begin, q))
    BY <1>1, <1>6, BlocksTyped DEF Outside
<1>8. \A a \in arenas : Apart(from, e, a, a + ArenaSize)
    <2>1. \A a \in arenas : a \in Nat /\ a + ArenaSize \in Nat
        BY DEF ArenaSize
    <2>2. QED BY <1>6, <2>1 DEF Outside
<1>9. Apart(from, e, space, space + left)
    BY <1>6 DEF Outside
<1>10. \A q \in DOMAIN B :
            /\ HpBase <= B[q] /\ BlockEnd(S, B, q) <= pos
            /\ B[q] <= q /\ q < BlockEnd(S, B, q) /\ S[q] >= 8
            /\ Apart(B[q], BlockEnd(S, B, q), space, space + left)
    <2>1. \A q \in DOMAIN begin :
            /\ HpBase <= B[q] /\ BlockEnd(S, B, q) <= pos
            /\ B[q] <= q /\ q < BlockEnd(S, B, q) /\ S[q] >= 8
            /\ Apart(B[q], BlockEnd(S, B, q), space, space + left)
        BY <1>3, <1>4 DEF Placed
    <2>2. QED BY <1>3, <1>4, <1>5, <1>9, <2>1
<1>11. \A q, r \in DOMAIN B : q # r => Apart(B[q], BlockEnd(S, B, q), B[r], BlockEnd(S, B, r))
    <2>1. \A q, r \in DOMAIN begin : q # r => Apart(B[q], BlockEnd(S, B, q), B[r], BlockEnd(S, B, r))
        BY <1>3, <1>4 DEF Placed
    <2>2. QED BY <1>3, <1>4, <1>5, <1>7, <2>1
<1>12. \A q \in DOMAIN B : \A a \in arenas : Apart(B[q], BlockEnd(S, B, q), a, a + ArenaSize)
    <2>1. \A q \in DOMAIN begin : \A a \in arenas : Apart(B[q], BlockEnd(S, B, q), a, a + ArenaSize)
        BY <1>3, <1>4 DEF Placed
    <2>2. QED BY <1>3, <1>4, <1>5, <1>8, <2>1
<1>13. Placed(pos, space, left, arenas, S, B)
    BY <1>3, <1>10, <1>11, <1>12 DEF Placed
<1>14. QED BY <1>2, <1>5, <1>13 DEF S, B

-----------------------------------------------------------------------------
\* The layers.
HeapRecords ==
    [position : Nat, space : Nat, left : Nat, arenas : SUBSET Nat,
     size : PartialNat, begin : PartialNat, bins : [HpClasses -> Seq(Nat)]]

Layout(h) == h \in HeapRecords /\ Placed(h.position, h.space, h.left, h.arenas, h.size, h.begin)

IsOutside(h, from, to) == Outside(h.position, h.space, h.left, h.arenas, h.size, h.begin, from, to)

\* What the layers below NewSourceHeap leave alone.
SameObjects(h, g) == g.size = h.size /\ g.begin = h.begin /\ g.bins = h.bins

LEMMA RecordFields ==
    ASSUME NEW h \in HeapRecords
    PROVE  /\ h.position \in Nat /\ h.space \in Nat /\ h.left \in Nat /\ h.arenas \in SUBSET Nat
           /\ h.size \in PartialNat /\ h.begin \in PartialNat /\ h.bins \in [HpClasses -> Seq(Nat)]
BY DEF HeapRecords

LEMMA BumpGives ==
    ASSUME NEW h \in HeapRecords, NEW n \in Nat
    PROVE  \/ BumpMalloc(h, n) = [heap |-> h, ptr |-> NULL]
           \/ \E got \in Nat : /\ got >= n /\ h.position + got <= HpEnd
                               /\ BumpMalloc(h, n) = [heap |-> [h EXCEPT !.position = h.position + got], ptr |-> h.position]
<1>1. PICK m \in Nat : m = (IF n < 8 THEN 8 ELSE n) /\ m >= n
    OBVIOUS
<1>2. PICK got \in Nat : got = Roundup(m, 8) /\ got >= n
    <2>1. 8 \in Nat \ {0}
        OBVIOUS
    <2>2. Roundup(m, 8) \in Nat /\ m <= Roundup(m, 8)
        BY <2>1, RoundupIs
    <2>3. QED BY <1>1, <2>2
<1>3. BumpMalloc(h, n) = IF h.position + got > HpEnd THEN [heap |-> h, ptr |-> NULL]
                         ELSE [heap |-> [h EXCEPT !.position = h.position + got], ptr |-> h.position]
    BY <1>1, <1>2 DEF BumpMalloc
<1>4. CASE h.position + got > HpEnd
    BY <1>3, <1>4
<1>5. CASE ~ (h.position + got > HpEnd)
    <2>1. h.position + got <= HpEnd
        BY <1>5, HpNumbers, RecordFields
    <2>2. QED BY <1>2, <1>3, <1>5, <2>1
<1>6. QED BY <1>4, <1>5

ZoneResult(h, n, z) ==
    /\ Layout(z.heap) /\ SameObjects(h, z.heap) /\ z.ptr \in Nat
    /\ z.ptr # NULL => \E sz \in Nat : sz >= n /\ IsOutside(z.heap, z.ptr, z.ptr + sz)

LEMMA SlowMallocGives ==
    ASSUME NEW h, Layout(h), NEW sz \in Nat \ {0}
    PROVE  ZoneResult(h, sz, SlowMalloc(h, sz))
<1>0. /\ h \in HeapRecords /\ h.position \in Nat /\ h.space \in Nat /\ h.left \in Nat /\ h.arenas \in SUBSET Nat
      /\ h.size \in PartialNat /\ h.begin \in PartialNat /\ h.bins \in [HpClasses -> Seq(Nat)]
      /\ Placed(h.position, h.space, h.left, h.arenas, h.size, h.begin)
    BY RecordFields DEF Layout
<1>1. PICK whole \in Nat : whole = (IF HpChunk < sz THEN sz ELSE HpChunk) /\ sz <= whole
    BY HpNumbers
<1>2. PICK n \in Nat : n = ArenaSize + whole
    BY DEF ArenaSize
<1>3. PICK b : b = BumpMalloc(h, n)
    OBVIOUS
<1>4. PICK z : z = SlowMalloc(h, sz)
    OBVIOUS
<1>5. z = IF b.ptr = NULL THEN [heap |-> [b.heap EXCEPT !.left = 0], ptr |-> NULL]
          ELSE [heap |-> [b.heap EXCEPT !.space = b.ptr + ArenaSize + sz, !.left = whole - sz,
                                        !.arenas = b.heap.arenas \cup {b.ptr}],
                ptr  |-> b.ptr + ArenaSize]
    BY <1>1, <1>2, <1>3, <1>4 DEF SlowMalloc
<1>6. CASE b = [heap |-> h, ptr |-> NULL]
    <2>1. z = [heap |-> [h EXCEPT !.left = 0], ptr |-> NULL]
        BY <1>5, <1>6
    <2>2. PICK g : g = [h EXCEPT !.left = 0]
        OBVIOUS
    <2>3. /\ g \in HeapRecords /\ g.position = h.position /\ g.space = h.space /\ g.left = 0 /\ g.arenas = h.arenas
          /\ g.size = h.size /\ g.begin = h.begin /\ g.bins = h.bins
        BY <1>0, <2>2 DEF HeapRecords
    <2>4. Placed(h.position, h.space, 0, h.arenas, h.size, h.begin)
        BY <1>0, LeftIsGivenUp
    <2>5. z.heap = g /\ z.ptr = 0
        BY <2>1, <2>2 DEF NULL
    <2>6. QED BY <1>4, <2>3, <2>4, <2>5 DEF ZoneResult, Layout, SameObjects, NULL
<1>7. ASSUME NEW got \in Nat, got >= n, h.position + got <= HpEnd,
             b = [heap |-> [h EXCEPT !.position = h.position + got], ptr |-> h.position]
      PROVE  ZoneResult(h, sz, z)
    <2>1. PICK pos \in Nat : pos = h.position /\ pos # 0 /\ HpBase <= pos
        <3>1. HpBase <= h.position /\ HpBase \in Nat \ {0}
            BY <1>0, HpNumbers DEF Placed
        <3>2. QED BY <1>0, <3>1
    <2>2. b.ptr = pos /\ b.heap = [h EXCEPT !.position = pos + got]
        BY <1>7, <2>1
    <2>3. PICK g : g = [b.heap EXCEPT !.space = pos + ArenaSize + sz, !.left = whole - sz, !.arenas = b.heap.arenas \cup {pos}]
        OBVIOUS
    <2>4. z = [heap |-> g, ptr |-> pos + ArenaSize]
        BY <1>5, <2>1, <2>2, <2>3 DEF NULL
    <2>5. /\ g \in HeapRecords /\ g.position = pos + got /\ g.space = pos + ArenaSize + sz
          /\ g.left = whole - sz /\ g.arenas = h.arenas \cup {pos}
          /\ g.size = h.size /\ g.begin = h.begin /\ g.bins = h.bins
        <3>1. pos + got \in Nat /\ pos + ArenaSize + sz \in Nat /\ whole - sz \in Nat
            BY <1>1 DEF ArenaSize
        <3>2. PICK g1 : g1 = [h EXCEPT !.position = pos + got]
            OBVIOUS
        <3>3. /\ g1 \in HeapRecords /\ g1.position = pos + got /\ g1.arenas = h.arenas
              /\ g1.size = h.size /\ g1.begin = h.begin /\ g1.bins = h.bins
            BY <1>0, <3>1, <3>2 DEF HeapRecords
        <3>4. h.arenas \cup {pos} \in SUBSET Nat
            BY <1>0
        <3>5. g = [g1 EXCEPT !.space = pos + ArenaSize + sz, !.left = whole - sz, !.arenas = h.arenas \cup {pos}]
            BY <2>2, <2>3, <3>2, <3>3
        <3>6. QED BY <3>1, <3>3, <3>4, <3>5 DEF HeapRecords
    <2>6. ArenaSize + whole <= got /\ pos + got <= HpEnd
        BY <1>2, <1>7, <2>1
    <2>7. /\ Placed(pos + got, pos + ArenaSize + sz, whole - sz, h.arenas \cup {pos}, h.size, h.begin)
          /\ Outside(pos + got, pos + ArenaSize + sz, whole - sz, h.arenas \cup {pos}, h.size, h.begin,
                     pos + ArenaSize, pos + ArenaSize + sz)
        BY <1>0, <1>1, <2>1, <2>6, NewArena
    <2>8. Layout(g) /\ SameObjects(h, g) /\ IsOutside(g, pos + ArenaSize, pos + ArenaSize + sz)
        BY <2>5, <2>7 DEF Layout, SameObjects, IsOutside
    <2>9. pos + ArenaSize \in Nat
        BY DEF ArenaSize
    <2>10. z.heap = g /\ z.ptr = pos + ArenaSize
        BY <2>4
    <2>11. QED BY <2>8, <2>9, <2>10 DEF ZoneResult
<1>8. QED BY <1>0, <1>2, <1>3, <1>4, <1>6, <1>7, BumpGives

LEMMA ZoneGives ==
    ASSUME NEW h, Layout(h), NEW n \in Nat \ {0}
    PROVE  ZoneResult(h, n, ZoneMalloc(h, n))
<1>0. /\ h \in HeapRecords /\ h.position \in Nat /\ h.space \in Nat /\ h.left \in Nat /\ h.arenas \in SUBSET Nat
      /\ h.size \in PartialNat /\ h.begin \in PartialNat /\ h.bins \in [HpClasses -> Seq(Nat)]
      /\ Placed(h.position, h.space, h.left, h.arenas, h.size, h.begin)
    BY RecordFields DEF Layout
<1>1. PICK sz \in Nat \ {0} : sz = Roundup(n, 8) /\ n <= sz
    <2>1. 8 \in Nat \ {0}
        OBVIOUS
    <2>2. Roundup(n, 8) \in Nat /\ n <= Roundup(n, 8)
        BY <2>1, RoundupIs
    <2>3. QED BY <2>2
<1>2. PICK z : z = ZoneMalloc(h, n)
    OBVIOUS
<1>3. z = IF h.left >= sz
          THEN [heap |-> [h EXCEPT !.space = h.space + sz, !.left = h.left - sz], ptr |-> h.space]
          ELSE SlowMalloc(h, sz)
    BY <1>1, <1>2 DEF ZoneMalloc
<1>4. ZoneResult(h, sz, z)
    <2>1. CASE h.left >= sz
        <3>1. PICK g : g = [h EXCEPT !.space = h.space + sz, !.left = h.left - sz]
            OBVIOUS
        <3>2. h.space + sz \in Nat /\ h.left - sz \in Nat /\ sz <= h.left
            BY <1>0, <2>1
        <3>3. /\ g \in HeapRecords /\ g.position = h.position /\ g.space = h.space + sz
              /\ g.left = h.left - sz /\ g.arenas = h.arenas
              /\ g.size = h.size /\ g.begin = h.begin /\ g.bins = h.bins
            BY <1>0, <3>1, <3>2 DEF HeapRecords
        <3>4. /\ Placed(h.position, h.space + sz, h.left - sz, h.arenas, h.size, h.begin)
              /\ Outside(h.position, h.space + sz, h.left - sz, h.arenas, h.size, h.begin, h.space, h.space + sz)
            BY <1>0, <3>2, CutsFree
        <3>5. Layout(g) /\ SameObjects(h, g) /\ IsOutside(g, h.space, h.space + sz)
            BY <3>3, <3>4 DEF Layout, SameObjects, IsOutside
        <3>6. z.heap = g /\ z.ptr = h.space
            BY <1>3, <2>1, <3>1
        <3>7. QED BY <1>0, <3>5, <3>6 DEF ZoneResult
    <2>2. CASE ~ (h.left >= sz)
        BY <1>3, <2>2, SlowMallocGives
    <2>3. QED BY <2>1, <2>2
<1>5. \A k \in Nat : k >= sz => k >= n
    BY <1>1
<1>6. QED BY <1>2, <1>4, <1>5 DEF ZoneResult

-----------------------------------------------------------------------------
\* Objects: the header's words and the room behind a pointer.
Room(h, p) == BlockEnd(h.size, h.begin, p) - p

\* The object p of at least n bytes is new in g, and otherwise g has what h has.
AddsObject(h, g, p, n) ==
    /\ p # NULL /\ p \in Nat /\ p \notin DOMAIN h.begin
    /\ DOMAIN g.begin = DOMAIN h.begin \cup {p} /\ g.bins = h.bins
    /\ \A q \in DOMAIN h.begin : g.size[q] = h.size[q] /\ g.begin[q] = h.begin[q]
    /\ Room(g, p) >= n

SourceResult(h, n, m) ==
    /\ Layout(m.heap)
    /\ m.ptr = NULL \/ AddsObject(h, m.heap, m.ptr, n)
    /\ m.ptr = NULL => SameObjects(h, m.heap)

LEMMA SourceGives ==
    ASSUME NEW h, Layout(h), NEW n \in Nat, n >= 8
    PROVE  SourceResult(h, n, SourceMalloc(h, n))
<1> USE HpNumbers
<1>1. PICK sz \in Nat : sz = (IF IsLarge(n) THEN n + HpPage ELSE n) /\ sz >= 8
    OBVIOUS
<1>2. PICK z : z = ZoneMalloc(h, sz + HeaderSize)
    OBVIOUS
<1>3. ZoneResult(h, sz + HeaderSize, z)
    <2>1. sz + HeaderSize \in Nat \ {0}
        BY DEF HeaderSize
    <2>2. QED BY <1>2, <2>1, ZoneGives
<1>4. PICK p : p = IF IsLarge(sz) THEN Roundup(z.ptr, HpPage) ELSE z.ptr + HeaderSize
    OBVIOUS
<1>5. PICK m : m = SourceMalloc(h, n)
    OBVIOUS
<1>6. m = IF z.ptr = NULL THEN z
          ELSE [heap |-> [z.heap EXCEPT !.size = HeaderWritten(z.heap.size, p, sz),
                                        !.begin = HeaderWritten(z.heap.begin, p, z.ptr)],
                ptr  |-> p]
    BY <1>1, <1>2, <1>4, <1>5 DEF SourceMalloc
<1>7. CASE z.ptr = NULL
    BY <1>3, <1>5, <1>6, <1>7 DEF SourceResult, ZoneResult
<1>8. CASE z.ptr # NULL
    <2>1. PICK from \in Nat : from = z.ptr
        BY <1>3 DEF ZoneResult
    <2>2. PICK g : g = z.heap
        OBVIOUS
    <2>3. PICK room \in Nat : room >= sz + HeaderSize /\ IsOutside(g, from, from + room)
        BY <1>3, <1>8, <2>1, <2>2 DEF ZoneResult
    <2>4. /\ g \in HeapRecords /\ g.position \in Nat /\ g.space \in Nat /\ g.left \in Nat /\ g.arenas \in SUBSET Nat
          /\ g.size \in PartialNat /\ g.begin \in PartialNat /\ g.bins \in [HpClasses -> Seq(Nat)]
          /\ Placed(g.position, g.space, g.left, g.arenas, g.size, g.begin)
          /\ g.size = h.size /\ g.begin = h.begin /\ g.bins = h.bins
        BY <1>3, <2>2, RecordFields DEF ZoneResult, Layout, SameObjects
    <2>5. p \in Nat /\ from <= p /\ p + n <= from + sz + HeaderSize /\ p < from + sz + HeaderSize
        <3>1. CASE IsLarge(n)
            <4>1. sz = n + HpPage /\ IsLarge(sz)
                BY <1>1, <3>1 DEF IsLarge, HeaderSize
            <4>2. p = Roundup(from, HpPage)
                BY <1>4, <2>1, <4>1
            <4>3. p \in Nat /\ from <= p /\ p < from + HpPage
                BY <4>2, RoundupIs
            <4>4. QED BY <4>1, <4>3 DEF HeaderSize
        <3>2. CASE ~IsLarge(n)
            BY <1>1, <1>4, <2>1, <3>2 DEF IsLarge, HeaderSize
        <3>3. QED BY <3>1, <3>2
    <2>6. from + sz + HeaderSize <= from + room /\ from + room \in Nat
        BY <2>3 DEF HeaderSize
    <2>7. PICK S, B : S = HeaderWritten(g.size, p, sz) /\ B = HeaderWritten(g.begin, p, from)
        OBVIOUS
    <2>8. /\ p \notin DOMAIN g.begin /\ p # 0
          /\ Placed(g.position, g.space, g.left, g.arenas, S, B)
        <3>1. Outside(g.position, g.space, g.left, g.arenas, g.size, g.begin, from, from + room)
            BY <2>3 DEF IsOutside
        <3>2. PICK to \in Nat : to = from + room
            OBVIOUS
        <3>3. PICK pos \in Nat, space \in Nat, left \in Nat, arenas \in SUBSET Nat, size \in PartialNat, begin \in PartialNat :
                    /\ pos = g.position /\ space = g.space /\ left = g.left
                    /\ arenas = g.arenas /\ size = g.size /\ begin = g.begin
            BY <2>4
        <3>4. Placed(pos, space, left, arenas, size, begin) /\ Outside(pos, space, left, arenas, size, begin, from, to)
            BY <2>4, <3>1, <3>2, <3>3
        <3>5. /\ p \notin DOMAIN begin /\ p # 0
              /\ Placed(pos, space, left, arenas, HeaderWritten(size, p, sz), HeaderWritten(begin, p, from))
            <4>1. from + sz + HeaderSize <= to /\ from <= p /\ p < from + sz + HeaderSize /\ p \in Nat /\ sz >= 8
                BY <1>1, <2>5, <2>6, <3>2
            <4>2. QED BY <3>4, <4>1, NewBlock
        <3>6. QED BY <2>7, <3>3, <3>5
    <2>9. /\ S \in PartialNat /\ B \in PartialNat
          /\ DOMAIN B = DOMAIN g.begin \cup {p} /\ S[p] = sz /\ B[p] = from
          /\ \A q \in DOMAIN g.begin : S[q] = g.size[q] /\ B[q] = g.begin[q]
        <3>1. DOMAIN g.size = DOMAIN g.begin
            BY <2>4 DEF Placed
        <3>2. \A q \in DOMAIN g.begin : q \in Nat /\ g.size[q] \in Nat /\ g.begin[q] \in Nat
            BY <2>4, <3>1, PartialTyped
        <3>3. PICK D : D = DOMAIN g.begin \cup {p}
            OBVIOUS
        <3>4. D \in SUBSET Nat /\ S \in [D -> Nat] /\ B \in [D -> Nat]
            BY <2>5, <2>7, <3>1, <3>2, <3>3 DEF HeaderWritten
        <3>5. S \in PartialNat /\ B \in PartialNat
            BY <3>4 DEF PartialNat
        <3>6. S[p] = sz /\ B[p] = from /\ \A q \in DOMAIN g.begin : S[q] = g.size[q] /\ B[q] = g.begin[q]
            BY <2>7, <2>8, <3>1 DEF HeaderWritten
        <3>7. QED BY <3>3, <3>4, <3>5, <3>6
    <2>10. PICK e : e = [g EXCEPT !.size = S, !.begin = B]
        OBVIOUS
    <2>11. /\ e \in HeapRecords /\ e.position = g.position /\ e.space = g.space /\ e.left = g.left /\ e.arenas = g.arenas
           /\ e.size = S /\ e.begin = B /\ e.bins = g.bins
        BY <2>4, <2>9, <2>10 DEF HeapRecords
    <2>12. m.heap = e /\ m.ptr = p
        BY <1>6, <1>8, <2>1, <2>2, <2>7, <2>10
    <2>13. Layout(e)
        BY <2>8, <2>11 DEF Layout
    <2>14. Room(e, p) >= n
        BY <2>5, <2>9, <2>11 DEF Room, BlockEnd, HeaderSize
    <2>15. AddsObject(h, e, p, n)
        BY <2>4, <2>5, <2>8, <2>9, <2>11, <2>14 DEF AddsObject, NULL
    <2>16. QED BY <1>5, <2>8, <2>12, <2>13, <2>15 DEF SourceResult, NULL
<1>9. QED BY <1>7, <1>8

-----------------------------------------------------------------------------
\* The size classes' bins.
Binned(h, p) == \E c \in HpClasses : \E i \in 1 .. Len(h.bins[c]) : h.bins[c][i] = p

BinsHold(h) ==
    /\ \A c \in HpClasses : \A i \in 1 .. Len(h.bins[c]) :
            h.bins[c][i] \in DOMAIN h.begin /\ Room(h, h.bins[c][i]) >= Class2Size(c)
    /\ \A c, d \in HpClasses : \A i \in 1 .. Len(h.bins[c]) : \A j \in 1 .. Len(h.bins[d]) :
            h.bins[c][i] = h.bins[d][j] => c = d /\ i = j

\* The program's objects have the room their class promises, and are in no bin.
ProgramHas(h, objects) ==
    /\ \A o \in objects :
            /\ o.ptr \in DOMAIN h.begin /\ ~Binned(h, o.ptr)
            /\ o.asked \in Nat /\ Size2Class(o.asked) \in HpClasses
            /\ Room(h, o.ptr) >= Class2Size(Size2Class(o.asked))
    /\ \A o, q \in objects : o.ptr = q.ptr => o = q

HeapGood(h, objects) == Layout(h) /\ BinsHold(h) /\ ProgramHas(h, objects)

\* Rounding a request up to a multiple of eight does not change its class.
LEMMA SameClass ==
    ASSUME NEW n \in Nat
    PROVE  /\ Roundup(IF n < 8 THEN 8 ELSE n, 8) \in Nat
           /\ Size2Class(Roundup(IF n < 8 THEN 8 ELSE n, 8)) = Size2Class(n)
<1>1. PICK sz \in Nat : sz = (IF n < 8 THEN 8 ELSE n) /\ sz >= 8
    OBVIOUS
<1>2. PICK r \in Nat : r = Roundup(sz, 8)
    BY DEF Roundup
<1>3. r = ((sz + 8 - 1) \div 8) * 8
    BY <1>2 DEF Roundup
<1>4. /\ r >= 8 /\ (r <= 128 <=> sz <= 128)
      /\ (r - 1) \div 8 = (sz - 1) \div 8
    BY <1>1, <1>3
<1>5. (r - 1) \div 32 = (sz - 1) \div 32
    BY <1>1, <1>3
<1>6. Size2Class(n) = IF sz <= 128 THEN SmallClass[((sz - 1) \div 8) + 1] ELSE Shifts[(sz - 1) \div 32]
    BY <1>1 DEF Size2Class
<1>7. Size2Class(r) = IF r <= 128 THEN SmallClass[((r - 1) \div 8) + 1] ELSE Shifts[(r - 1) \div 32]
    <2>1. (IF r < 8 THEN 8 ELSE r) = r
        BY <1>4
    <2>2. QED BY <2>1 DEF Size2Class
<1>8. Size2Class(r) = Size2Class(n)
    BY <1>4, <1>5, <1>6, <1>7
<1>9. QED BY <1>1, <1>2, <1>8

\* Whatever is at a smaller address than 1 is no object.
LEMMA ObjectsAreSomewhere ==
    ASSUME NEW h, Layout(h), NEW p \in DOMAIN h.begin
    PROVE  p # NULL /\ p \in Nat
<1>1. h.size \in PartialNat /\ h.begin \in PartialNat /\ HpBase \in Nat \ {0}
    BY RecordFields, HpNumbers DEF Layout
<1>2. HpBase <= h.begin[p] /\ h.begin[p] <= p /\ p \in Nat /\ h.begin[p] \in Nat
    BY <1>1, PartialTyped DEF Layout, Placed
<1>3. QED BY <1>1, <1>2 DEF NULL

InBin(h, c, i, p) == c \in HpClasses /\ i \in 1 .. Len(h.bins[c]) /\ h.bins[c][i] = p

\* No object is twice in the bins.
LEMMA BinsApart ==
    ASSUME NEW h, BinsHold(h), NEW d, NEW e, NEW k, NEW l, NEW p, InBin(h, d, k, p), InBin(h, e, l, p)
    PROVE  d = e /\ k = l
BY DEF BinsHold, InBin

\* A freed object is given out again ...
LEMMA ReusedObject ==
    ASSUME NEW h, NEW L, HeapGood(h, L), NEW n \in Nat, NEW c \in HpClasses, c = Size2Class(n), h.bins[c] # <<>>,
           NEW g, g = [h EXCEPT !.bins[c] = Tail(@)]
    PROVE  /\ Head(h.bins[c]) # NULL /\ \A o \in L : o.ptr # Head(h.bins[c])
           /\ HeapGood(g, L \cup {[ptr |-> Head(h.bins[c]), asked |-> n]})
<1>0. h \in HeapRecords /\ h.bins \in [HpClasses -> Seq(Nat)] /\ h.bins[c] \in Seq(Nat)
    BY RecordFields DEF HeapGood, Layout
<1>1. PICK bin \in Seq(Nat) : bin = h.bins[c] /\ bin # <<>>
    BY <1>0
<1>2. PICK p, rest : p = Head(bin) /\ rest = Tail(bin)
    OBVIOUS
<1>3. /\ p \in Nat /\ rest \in Seq(Nat) /\ Len(bin) \in Nat /\ 1 \in 1 .. Len(bin) /\ p = bin[1]
      /\ Len(rest) = Len(bin) - 1
      /\ \A i \in 1 .. Len(rest) : rest[i] = bin[i + 1] /\ i + 1 \in 1 .. Len(bin)
    BY <1>1, <1>2, HeadTailProperties
<1>5. /\ g \in HeapRecords /\ g.position = h.position /\ g.space = h.space /\ g.left = h.left /\ g.arenas = h.arenas
      /\ g.size = h.size /\ g.begin = h.begin /\ g.bins[c] = rest
      /\ \A d \in HpClasses \ {c} : g.bins[d] = h.bins[d]
    <2>1. PICK B : B = [h.bins EXCEPT ![c] = rest]
        OBVIOUS
    <2>2. B \in [HpClasses -> Seq(Nat)] /\ B[c] = rest /\ \A d \in HpClasses \ {c} : B[d] = h.bins[d]
        BY <1>0, <1>3, <2>1
    <2>3. g = [h EXCEPT !.bins = B]
        BY <1>0, <1>1, <1>2, <2>1
    <2>4. QED BY <1>0, <2>2, <2>3 DEF HeapRecords
<1>6. Layout(g)
    BY <1>5 DEF HeapGood, Layout
<1>7. \A q : Room(g, q) = Room(h, q)
    BY <1>5 DEF Room, BlockEnd
<1>8. ASSUME NEW d \in HpClasses, NEW i \in 1 .. Len(g.bins[d])
      PROVE  \E j \in 1 .. Len(h.bins[d]) : /\ g.bins[d][i] = h.bins[d][j] /\ j = (IF d = c THEN i + 1 ELSE i)
    BY <1>1, <1>3, <1>5
<1>9. BinsHold(g)
    <2>1. ASSUME NEW d \in HpClasses, NEW i \in 1 .. Len(g.bins[d])
          PROVE  g.bins[d][i] \in DOMAIN g.begin /\ Room(g, g.bins[d][i]) >= Class2Size(d)
        <3>1. PICK j \in 1 .. Len(h.bins[d]) : g.bins[d][i] = h.bins[d][j]
            BY <1>8
        <3>2. h.bins[d][j] \in DOMAIN h.begin /\ Room(h, h.bins[d][j]) >= Class2Size(d)
            BY DEF HeapGood, BinsHold
        <3>3. QED BY <1>5, <1>7, <3>1, <3>2
    <2>2. ASSUME NEW d \in HpClasses, NEW e \in HpClasses, NEW i \in 1 .. Len(g.bins[d]), NEW j \in 1 .. Len(g.bins[e]),
                 g.bins[d][i] = g.bins[e][j]
          PROVE  d = e /\ i = j
        <3>1. PICK k \in 1 .. Len(h.bins[d]) : g.bins[d][i] = h.bins[d][k] /\ k = (IF d = c THEN i + 1 ELSE i)
            BY <1>8
        <3>2. PICK l \in 1 .. Len(h.bins[e]) : g.bins[e][j] = h.bins[e][l] /\ l = (IF e = c THEN j + 1 ELSE j)
            BY <1>8
        <3>3. d = e /\ k = l
            <4>1. InBin(h, d, k, g.bins[d][i]) /\ InBin(h, e, l, g.bins[d][i])
                BY <2>2, <3>1, <3>2 DEF InBin
            <4>2. QED BY <4>1, BinsApart DEF HeapGood
        <3>4. QED BY <3>1, <3>2, <3>3
    <2>3. QED BY <2>1, <2>2 DEF BinsHold
<1>10. p \in DOMAIN h.begin /\ Room(h, p) >= Class2Size(c) /\ Binned(h, p)
    BY <1>1, <1>3 DEF HeapGood, BinsHold, Binned
<1>11. ~Binned(g, p)
    <2> SUFFICES ASSUME NEW d \in HpClasses, NEW i \in 1 .. Len(g.bins[d]), g.bins[d][i] = p PROVE FALSE
        BY DEF Binned
    <2>1. PICK k \in 1 .. Len(h.bins[d]) : g.bins[d][i] = h.bins[d][k] /\ k = (IF d = c THEN i + 1 ELSE i)
        BY <1>8
    <2>2. InBin(h, d, k, p) /\ InBin(h, c, 1, p)
        BY <1>1, <1>3, <2>1 DEF InBin
    <2>3. d = c /\ k = 1
        BY <2>2, BinsApart DEF HeapGood
    <2>4. QED BY <2>1, <2>3
<1>12. \A q : Binned(g, q) => Binned(h, q)
    <2> SUFFICES ASSUME NEW q, Binned(g, q) PROVE Binned(h, q)
        OBVIOUS
    <2>1. PICK d \in HpClasses : \E i \in 1 .. Len(g.bins[d]) : g.bins[d][i] = q
        BY DEF Binned
    <2>2. PICK i \in 1 .. Len(g.bins[d]) : g.bins[d][i] = q
        BY <2>1
    <2>3. PICK j \in 1 .. Len(h.bins[d]) : q = h.bins[d][j]
        BY <1>8, <2>2
    <2>4. QED BY <2>3 DEF Binned
<1>13. \A o \in L : o.ptr # p
    BY <1>10 DEF HeapGood, ProgramHas
<1>14. PICK new : new = [ptr |-> p, asked |-> n]
    OBVIOUS
<1>15. ProgramHas(g, L \cup {new})
    <2>1. /\ new.ptr \in DOMAIN g.begin /\ ~Binned(g, new.ptr) /\ new.asked \in Nat
          /\ Size2Class(new.asked) \in HpClasses /\ Room(g, new.ptr) >= Class2Size(Size2Class(new.asked))
        BY <1>5, <1>7, <1>10, <1>11, <1>14
    <2>2. \A o \in L : /\ o.ptr \in DOMAIN g.begin /\ ~Binned(g, o.ptr) /\ o.asked \in Nat
                       /\ Size2Class(o.asked) \in HpClasses /\ Room(g, o.ptr) >= Class2Size(Size2Class(o.asked))
        BY <1>5, <1>7, <1>12 DEF HeapGood, ProgramHas
    <2>3. \A o, q \in L \cup {new} : o.ptr = q.ptr => o = q
        BY <1>13, <1>14 DEF HeapGood, ProgramHas
    <2>4. QED BY <2>1, <2>2, <2>3 DEF ProgramHas
<1>16. p # NULL
    BY <1>10, ObjectsAreSomewhere DEF HeapGood
<1>17. QED BY <1>1, <1>2, <1>6, <1>9, <1>13, <1>14, <1>15, <1>16 DEF HeapGood

\* ... or there is a new one, or none.
LEMMA FreshObject ==
    ASSUME NEW h, NEW L, HeapGood(h, L), NEW n \in Nat, Size2Class(n) \in HpClasses,
           NEW g, NEW p, Layout(g), AddsObject(h, g, p, Class2Size(Size2Class(n)))
    PROVE  HeapGood(g, L \cup {[ptr |-> p, asked |-> n]}) /\ \A o \in L : o.ptr # p
<1>1. /\ DOMAIN g.begin = DOMAIN h.begin \cup {p} /\ g.bins = h.bins /\ p \notin DOMAIN h.begin
      /\ \A q \in DOMAIN h.begin : g.size[q] = h.size[q] /\ g.begin[q] = h.begin[q]
      /\ Room(g, p) >= Class2Size(Size2Class(n))
    BY DEF AddsObject
<1>2. \A q \in DOMAIN h.begin : Room(g, q) = Room(h, q)
    BY <1>1 DEF Room, BlockEnd
<1>3. BinsHold(g)
    BY <1>1, <1>2 DEF HeapGood, BinsHold
<1>4. \A q : Binned(g, q) <=> Binned(h, q)
    BY <1>1 DEF Binned
<1>5. ~Binned(h, p) /\ \A o \in L : o.ptr # p
    BY <1>1 DEF HeapGood, BinsHold, Binned, ProgramHas
<1>6. PICK new : new = [ptr |-> p, asked |-> n]
    OBVIOUS
<1>7. ProgramHas(g, L \cup {new})
    <2>1. /\ new.ptr \in DOMAIN g.begin /\ ~Binned(g, new.ptr) /\ new.asked \in Nat
          /\ Size2Class(new.asked) \in HpClasses /\ Room(g, new.ptr) >= Class2Size(Size2Class(new.asked))
        BY <1>1, <1>4, <1>5, <1>6
    <2>2. \A o \in L : /\ o.ptr \in DOMAIN g.begin /\ ~Binned(g, o.ptr) /\ o.asked \in Nat
                       /\ Size2Class(o.asked) \in HpClasses /\ Room(g, o.ptr) >= Class2Size(Size2Class(o.asked))
        BY <1>1, <1>2, <1>4 DEF HeapGood, ProgramHas
    <2>3. \A o, q \in L \cup {new} : o.ptr = q.ptr => o = q
        BY <1>5, <1>6 DEF HeapGood, ProgramHas
    <2>4. QED BY <2>1, <2>2, <2>3 DEF ProgramHas
<1>8. QED BY <1>3, <1>5, <1>6, <1>7 DEF HeapGood

LEMMA MallocKeeps ==
    ASSUME NEW h, NEW L, HeapGood(h, L), NEW n \in Nat, Size2Class(n) \in HpClasses
    PROVE  /\ HeapGood(Malloc(h, n).heap,
                       L \cup (IF Malloc(h, n).ptr = NULL THEN {} ELSE {[ptr |-> Malloc(h, n).ptr, asked |-> n]}))
           /\ Malloc(h, n).ptr # NULL => \A o \in L : o.ptr # Malloc(h, n).ptr
<1>1. PICK c \in HpClasses : c = Size2Class(n)
    OBVIOUS
<1>2. PICK m : m = Malloc(h, n)
    OBVIOUS
<1>3. m = IF h.bins[c] # <<>>
          THEN [heap |-> [h EXCEPT !.bins[c] = Tail(@)], ptr |-> Head(h.bins[c])]
          ELSE SourceMalloc(h, Class2Size(c))
    <2>1. PICK r \in Nat : r = Roundup(IF n < 8 THEN 8 ELSE n, 8) /\ Size2Class(r) = c
        BY <1>1, SameClass
    <2>2. m = SegMalloc(h, r)
        BY <1>2, <2>1 DEF Malloc
    <2>3. QED BY <2>1, <2>2 DEF SegMalloc
<1>4. CASE h.bins[c] # <<>>
    <2>1. m.heap = [h EXCEPT !.bins[c] = Tail(@)] /\ m.ptr = Head(h.bins[c])
        BY <1>3, <1>4
    <2>2. /\ m.ptr # NULL /\ HeapGood(m.heap, L \cup {[ptr |-> m.ptr, asked |-> n]})
          /\ \A o \in L : o.ptr # m.ptr
        <3>1. PICK g : g = [h EXCEPT !.bins[c] = Tail(@)]
            OBVIOUS
        <3>2. /\ Head(h.bins[c]) # NULL /\ HeapGood(g, L \cup {[ptr |-> Head(h.bins[c]), asked |-> n]})
              /\ \A o \in L : o.ptr # Head(h.bins[c])
            BY <1>1, <1>4, <3>1, ReusedObject
        <3>3. QED BY <2>1, <3>1, <3>2
    <2>3. QED BY <1>2, <2>2
<1>5. CASE h.bins[c] = <<>>
    <2>1. PICK size \in Nat : size = Class2Size(c) /\ size >= 8
        <3>1. c \in Nat /\ c + 1 \in Nat /\ c < c + 1
            BY DEF HpClasses
        <3>2. QED BY <3>1, ClassesDouble, ClassesGrow
    <2>2. SourceResult(h, size, m)
        <3>1. m = SourceMalloc(h, size)
            BY <1>3, <1>5, <2>1
        <3>2. QED BY <2>1, <3>1, SourceGives DEF HeapGood
    <2>3. CASE m.ptr = NULL
        <3>1. Layout(m.heap) /\ SameObjects(h, m.heap)
            BY <2>2, <2>3 DEF SourceResult
        <3>2. HeapGood(m.heap, L)
            <4>1. \A q : (Binned(m.heap, q) <=> Binned(h, q)) /\ Room(m.heap, q) = Room(h, q)
                BY <3>1 DEF SameObjects, Binned, Room, BlockEnd
            <4>2. BinsHold(m.heap)
                BY <3>1, <4>1 DEF HeapGood, SameObjects, BinsHold
            <4>3. ProgramHas(m.heap, L)
                BY <3>1, <4>1 DEF HeapGood, SameObjects, ProgramHas
            <4>4. QED BY <3>1, <4>2, <4>3 DEF HeapGood
        <3>3. L \cup {} = L
            OBVIOUS
        <3>4. QED BY <1>2, <2>3, <3>2, <3>3
    <2>4. CASE m.ptr # NULL
        <3>1. Layout(m.heap) /\ AddsObject(h, m.heap, m.ptr, Class2Size(Size2Class(n)))
            BY <1>1, <2>1, <2>2, <2>4 DEF SourceResult
        <3>2. HeapGood(m.heap, L \cup {[ptr |-> m.ptr, asked |-> n]}) /\ \A o \in L : o.ptr # m.ptr
            BY <1>1, <3>1, FreshObject
        <3>3. QED BY <1>2, <2>4, <3>2
    <2>5. QED BY <2>3, <2>4
<1>6. QED BY <1>4, <1>5

\* free writes no header.
LEMMA FreeLeavesHeaders ==
    ASSUME NEW h \in HeapRecords, NEW p
    PROVE  SegFree(h, p).size = h.size /\ SegFree(h, p).begin = h.begin
BY DEF SegFree, HeapRecords

\* The bin of a freed object is a class.
LEMMA BinOfIs ==
    ASSUME NEW s \in Nat, s >= 8
    PROVE  BinOf(s) \in Nat /\ BinOf(s) <= Size2Class(s)
<1>1. PICK c \in Nat : c = Size2Class(s)
    BY ClassHoldsItsSizes
<1> DEFINE T == {k \in Nat : k <= c /\ Class2Size(c - k) <= s}
<1>2. c \in T
    <2>1. c - c = 0
        OBVIOUS
    <2>2. QED BY <2>1, SmallClasses
<1>3. PICK k \in T : \A j \in T : k <= j
    <2>1. T \subseteq Nat /\ T # {}
        BY <1>2
    <2> HIDE DEF T
    <2>2. QED BY <2>1, LeastNatural
<1>4. PICK d \in Nat : d = c - k /\ d \in 0 .. c /\ Class2Size(d) <= s
    BY <1>3
<1>5. ASSUME NEW e \in d + 1 .. c PROVE Class2Size(e) > s
    <2>1. e \in Nat /\ c - e \in Nat /\ c - e < k /\ c - (c - e) = e /\ c - e <= c
        BY <1>3, <1>4
    <2>2. c - e \notin T
        <3>1. SUFFICES ASSUME c - e \in T PROVE FALSE
            OBVIOUS
        <3>2. k <= c - e
            BY <1>3, <3>1
        <3>3. QED BY <1>3, <2>1, <3>2
    <2>3. ~ (Class2Size(e) <= s)
        BY <2>1, <2>2
    <2>4. QED BY <2>1, <2>3, ClassesDouble
<1>6. \E b \in 0 .. c : Class2Size(b) <= s /\ \A e \in b + 1 .. c : Class2Size(e) > s
    BY <1>4, <1>5
<1>7. BinOf(s) \in 0 .. c
    BY <1>1, <1>6 DEF BinOf
<1>8. QED BY <1>1, <1>7

LEMMA FreeKeeps ==
    ASSUME NEW h, NEW L, HeapGood(h, L), NEW o \in L,
           ~ (Class2Size(BinOf(h.size[o.ptr])) > Class2Size(Size2Class(o.asked)))
    PROVE  HeapGood(SegFree(h, o.ptr), L \ {o})
<1>0. h \in HeapRecords /\ h.bins \in [HpClasses -> Seq(Nat)] /\ h.size \in PartialNat /\ h.begin \in PartialNat
    BY RecordFields DEF HeapGood, Layout
<1>1. PICK p \in DOMAIN h.begin : p = o.ptr
    BY DEF HeapGood, ProgramHas
<1>2. p \in Nat /\ h.size[p] \in Nat /\ h.size[p] >= 8
    BY <1>0, BlocksTyped DEF HeapGood, Layout, Placed
<1>3. PICK b \in Nat : b = BinOf(h.size[p])
    BY <1>2, BinOfIs
<1>4. PICK a \in HpClasses : a = Size2Class(o.asked) /\ Room(h, p) >= Class2Size(a)
    BY <1>1 DEF HeapGood, ProgramHas
<1>5. b <= a /\ Room(h, p) >= Class2Size(b) /\ b \in HpClasses
    <2>1. a \in Nat /\ Class2Size(a) \in Nat /\ Class2Size(b) \in Nat /\ ~ (Class2Size(b) > Class2Size(a))
        BY <1>1, <1>3, <1>4, ClassesDouble DEF HpClasses
    <2>2. b <= a
        <3>1. SUFFICES ASSUME a < b PROVE FALSE
            BY <2>1
        <3>2. Class2Size(a) < Class2Size(b)
            BY <2>1, <3>1, ClassesGrow
        <3>3. QED BY <2>1, <3>2
    <2>3. h.begin[p] \in Nat /\ BlockEnd(h.size, h.begin, p) \in Nat /\ Room(h, p) \in Int
        <3>1. DOMAIN h.size = DOMAIN h.begin
            BY DEF HeapGood, Layout, Placed
        <3>2. QED BY <1>0, <1>2, <3>1, BlocksTyped DEF Room
    <2>4. b \in HpClasses
        BY <2>2 DEF HpClasses
    <2>5. QED BY <1>4, <2>1, <2>2, <2>3, <2>4
<1>6. PICK bin \in Seq(Nat) : bin = h.bins[b] /\ Len(bin) \in Nat
    BY <1>0, <1>5
<1>7. PICK more : more = <<p>> \o bin
    OBVIOUS
<1>8. /\ more \in Seq(Nat) /\ Len(more) = Len(bin) + 1 /\ more[1] = p
      /\ \A i \in 1 .. Len(more) : i # 1 => more[i] = bin[i - 1] /\ i - 1 \in 1 .. Len(bin)
    <2>1. <<p>> \in Seq(Nat) /\ Len(<<p>>) = 1 /\ <<p>>[1] = p
        BY <1>2
    <2>2. more \in Seq(Nat) /\ Len(more) = 1 + Len(bin)
        BY <1>7, <2>1, ConcatProperties
    <2>3. \A i \in 1 .. 1 + Len(bin) : more[i] = IF i <= 1 THEN <<p>>[i] ELSE bin[i - 1]
        BY <1>7, <2>1, ConcatProperties
    <2>4. Len(more) = Len(bin) + 1 /\ 1 \in 1 .. 1 + Len(bin)
        BY <1>6, <2>2
    <2>5. more[1] = p
        BY <2>1, <2>3, <2>4
    <2>6. ASSUME NEW i \in 1 .. Len(more), i # 1 PROVE more[i] = bin[i - 1] /\ i - 1 \in 1 .. Len(bin)
        <3>1. i \in 1 .. 1 + Len(bin) /\ ~ (i <= 1) /\ i - 1 \in 1 .. Len(bin)
            BY <1>6, <2>4, <2>6
        <3>2. QED BY <2>3, <3>1
    <2>7. QED BY <2>2, <2>4, <2>5, <2>6
<1>9. PICK g : g = SegFree(h, o.ptr)
    OBVIOUS
<1>10. /\ g \in HeapRecords /\ g.position = h.position /\ g.space = h.space /\ g.left = h.left /\ g.arenas = h.arenas
       /\ g.size = h.size /\ g.begin = h.begin /\ g.bins[b] = more
       /\ \A d \in HpClasses \ {b} : g.bins[d] = h.bins[d]
    <2>1. PICK B : B = [h.bins EXCEPT ![b] = more]
        OBVIOUS
    <2>2. B \in [HpClasses -> Seq(Nat)] /\ B[b] = more /\ \A d \in HpClasses \ {b} : B[d] = h.bins[d]
        BY <1>0, <1>5, <1>8, <2>1
    <2>3. g = [h EXCEPT !.bins[b] = <<p>> \o @]
        BY <1>1, <1>3, <1>9 DEF SegFree
    <2>4. g = [h EXCEPT !.bins = B]
        BY <1>0, <1>6, <1>7, <2>1, <2>3
    <2>5. QED BY <1>0, <2>2, <2>4 DEF HeapRecords
<1>11. Layout(g)
    BY <1>10 DEF HeapGood, Layout
<1>12. \A q : Room(g, q) = Room(h, q)
    BY <1>10 DEF Room, BlockEnd
<1>13. ~Binned(h, p)
    BY <1>1 DEF HeapGood, ProgramHas
<1>14. ASSUME NEW d \in HpClasses, NEW i \in 1 .. Len(g.bins[d])
       PROVE  \/ d = b /\ i = 1 /\ g.bins[d][i] = p
              \/ \E j \in 1 .. Len(h.bins[d]) : g.bins[d][i] = h.bins[d][j] /\ j = (IF d = b THEN i - 1 ELSE i)
    <2>1. CASE d = b
        BY <1>6, <1>8, <1>10, <2>1
    <2>2. CASE d # b
        BY <1>10, <2>2
    <2>3. QED BY <2>1, <2>2
<1>15. BinsHold(g)
    <2>1. ASSUME NEW d \in HpClasses, NEW i \in 1 .. Len(g.bins[d])
          PROVE  g.bins[d][i] \in DOMAIN g.begin /\ Room(g, g.bins[d][i]) >= Class2Size(d)
        <3>1. CASE d = b /\ i = 1 /\ g.bins[d][i] = p
            BY <1>5, <1>10, <1>12, <3>1
        <3>2. CASE \E j \in 1 .. Len(h.bins[d]) : g.bins[d][i] = h.bins[d][j]
            BY <1>10, <1>12, <3>2 DEF HeapGood, BinsHold
        <3>3. QED BY <1>14, <3>1, <3>2
    <2>2. ASSUME NEW d \in HpClasses, NEW e \in HpClasses, NEW i \in 1 .. Len(g.bins[d]), NEW j \in 1 .. Len(g.bins[e]),
                 g.bins[d][i] = g.bins[e][j]
          PROVE  d = e /\ i = j
        <3>1. ASSUME NEW f \in HpClasses, NEW k \in 1 .. Len(h.bins[f]) PROVE h.bins[f][k] # p
            BY <1>13 DEF Binned
        <3>2. CASE d = b /\ i = 1 /\ g.bins[d][i] = p
            <4>1. g.bins[e][j] = p
                BY <2>2, <3>2
            <4>2. e = b /\ j = 1
                BY <1>14, <3>1, <4>1
            <4>3. QED BY <3>2, <4>2
        <3>3. CASE \E k \in 1 .. Len(h.bins[d]) : g.bins[d][i] = h.bins[d][k] /\ k = (IF d = b THEN i - 1 ELSE i)
            <4>1. PICK k \in 1 .. Len(h.bins[d]) : g.bins[d][i] = h.bins[d][k] /\ k = (IF d = b THEN i - 1 ELSE i)
                BY <3>3
            <4>2. PICK l \in 1 .. Len(h.bins[e]) : g.bins[e][j] = h.bins[e][l] /\ l = (IF e = b THEN j - 1 ELSE j)
                BY <1>14, <2>2, <3>1, <4>1
            <4>3. d = e /\ k = l
                <5>1. InBin(h, d, k, g.bins[d][i]) /\ InBin(h, e, l, g.bins[d][i])
                    BY <2>2, <4>1, <4>2 DEF InBin
                <5>2. QED BY <5>1, BinsApart DEF HeapGood
            <4>4. QED BY <4>1, <4>2, <4>3
        <3>4. QED BY <1>14, <3>2, <3>3
    <2>3. QED BY <2>1, <2>2 DEF BinsHold
<1>16. \A q : Binned(g, q) => Binned(h, q) \/ q = p
    <2> SUFFICES ASSUME NEW q, Binned(g, q), q # p PROVE Binned(h, q)
        OBVIOUS
    <2>1. PICK d \in HpClasses : \E i \in 1 .. Len(g.bins[d]) : g.bins[d][i] = q
        BY DEF Binned
    <2>2. PICK i \in 1 .. Len(g.bins[d]) : g.bins[d][i] = q
        BY <2>1
    <2>3. PICK j \in 1 .. Len(h.bins[d]) : q = h.bins[d][j]
        BY <1>14, <2>2
    <2>4. QED BY <2>3 DEF Binned
<1>17. ProgramHas(g, L \ {o})
    <2>1. \A q \in L \ {o} : q.ptr # p
        BY <1>1 DEF HeapGood, ProgramHas
    <2>2. QED BY <1>10, <1>12, <1>16, <2>1 DEF HeapGood, ProgramHas
<1>18. QED BY <1>9, <1>11, <1>15, <1>17 DEF HeapGood

-----------------------------------------------------------------------------
\* Every header is in its block.
HeadersInside(h) == \A p \in DOMAIN h.begin : h.begin[p] + HeaderSize <= p

\* Until an object that was moved to a page boundary has been freed into a class above
\* its own, or a header has been put before its block, the heap is in order.
HpInv == ~reusable /\ ~misplaced => HeapGood(heap, live) /\ HeadersInside(heap)

\* Two objects overlap only if their blocks do.
LEMMA HpInvSuffices == HpInv => OnlyMovedObjectsCollide
<1> SUFFICES ASSUME HpInv, ~reusable, ~misplaced PROVE ObjectsDisjoint
    BY DEF OnlyMovedObjectsCollide
<1>1. HeapGood(heap, live) /\ HeadersInside(heap)
    BY DEF HpInv
<1>2. /\ heap.position \in Nat /\ heap.space \in Nat /\ heap.left \in Nat /\ heap.arenas \in SUBSET Nat
      /\ heap.size \in PartialNat /\ heap.begin \in PartialNat
      /\ Placed(heap.position, heap.space, heap.left, heap.arenas, heap.size, heap.begin)
      /\ DOMAIN heap.size = DOMAIN heap.begin
    BY <1>1, RecordFields DEF HeapGood, Layout, Placed
<1>3. ASSUME NEW o \in live
      PROVE  /\ o.ptr \in DOMAIN heap.begin /\ o.ptr \in Nat /\ o.asked \in Nat /\ heap.begin[o.ptr] \in Nat
             /\ heap.begin[o.ptr] + HeaderSize <= o.ptr
             /\ BlockEnd(heap.size, heap.begin, o.ptr) \in Nat
             /\ o.ptr + o.asked <= BlockEnd(heap.size, heap.begin, o.ptr)
    <2>1. PICK p \in DOMAIN heap.begin : p = o.ptr
        BY <1>1 DEF HeapGood, ProgramHas
    <2>2. p \in Nat /\ heap.begin[p] \in Nat /\ BlockEnd(heap.size, heap.begin, p) \in Nat
        BY <1>2, BlocksTyped
    <2>3. PICK n \in Nat : n = o.asked /\ Size2Class(n) \in HpClasses /\ Room(heap, p) >= Class2Size(Size2Class(n))
        BY <1>1, <2>1 DEF HeapGood, ProgramHas
    <2>4. Class2Size(Size2Class(n)) >= n /\ Class2Size(Size2Class(n)) \in Nat
        BY <2>3, ClassHoldsItsSizes, ClassesDouble DEF HpClasses
    <2>5. p + n <= BlockEnd(heap.size, heap.begin, p)
        BY <2>2, <2>3, <2>4 DEF Room
    <2>6. heap.begin[p] + HeaderSize <= p
        BY <1>1 DEF HeadersInside
    <2>7. QED BY <2>1, <2>2, <2>3, <2>5, <2>6
<1>4. ASSUME NEW o \in live, NEW q \in live, o # q PROVE Disjoint(Extent(o), Extent(q))
    <2>1. o.ptr # q.ptr
        BY <1>1, <1>4 DEF HeapGood, ProgramHas
    <2>2. Apart(heap.begin[o.ptr], BlockEnd(heap.size, heap.begin, o.ptr),
                heap.begin[q.ptr], BlockEnd(heap.size, heap.begin, q.ptr))
        BY <1>2, <1>3, <2>1 DEF Placed
    <2>3. \/ o.ptr + o.asked <= q.ptr - HeaderSize
          \/ q.ptr + q.asked <= o.ptr - HeaderSize
        BY <1>3, <2>2 DEF Apart, HeaderSize
    <2>4. QED BY <2>3 DEF Disjoint, Extent
<1>5. ASSUME NEW o \in live, NEW a \in heap.arenas PROVE Disjoint(Extent(o), ArenaExtent(a))
    <2>1. Apart(heap.begin[o.ptr], BlockEnd(heap.size, heap.begin, o.ptr), a, a + ArenaSize)
        BY <1>2, <1>3 DEF Placed
    <2>2. a \in Nat
        BY <1>2
    <2>3. o.ptr + o.asked <= a \/ a + ArenaSize <= o.ptr - HeaderSize
        BY <1>3, <2>1, <2>2 DEF Apart, HeaderSize, ArenaSize
    <2>4. QED BY <2>3 DEF Disjoint, Extent, ArenaExtent
<1>6. ASSUME NEW o \in live PROVE o.ptr + o.asked <= HpEnd
    <2>1. BlockEnd(heap.size, heap.begin, o.ptr) <= heap.position /\ heap.position <= HpEnd
        BY <1>2, <1>3 DEF Placed
    <2>2. QED BY <1>2, <1>3, <2>1, HpNumbers
<1>7. QED BY <1>4, <1>5, <1>6 DEF ObjectsDisjoint

\* The first object, of eight bytes, gets the beginning of the first arena.
LEMMA FirstObject ==
    ASSUME NEW h, h = [position |-> HpBase, space |-> NULL, left |-> 0, arenas |-> {},
                       size |-> << >>, begin |-> << >>, bins |-> [c \in HpClasses |-> <<>>]]
    PROVE  /\ HeapGood(h, {})
           /\ \E p \in Nat : /\ Malloc(h, 8).ptr = p /\ p # NULL
                             /\ DOMAIN Malloc(h, 8).heap.begin = {p} /\ Malloc(h, 8).heap.size[p] = 8
                             /\ Malloc(h, 8).heap.begin[p] + HeaderSize <= p
<1> USE HpNumbers
<1>1. << >> \in PartialNat /\ DOMAIN << >> = {}
    <2>1. << >> \in [{} -> Nat]
        OBVIOUS
    <2>2. QED BY <2>1 DEF PartialNat
<1>2. /\ h \in HeapRecords /\ h.position = HpBase /\ h.space = 0 /\ h.left = 0 /\ h.arenas = {}
      /\ DOMAIN h.size = {} /\ DOMAIN h.begin = {}
      /\ \A c \in HpClasses : h.bins[c] = << >>
    <2>1. PICK B : B = [c \in HpClasses |-> <<>>]
        OBVIOUS
    <2>2. B \in [HpClasses -> Seq(Nat)] /\ \A c \in HpClasses : B[c] = << >>
        BY <2>1
    <2>3. h = [position |-> HpBase, space |-> NULL, left |-> 0, arenas |-> {},
               size |-> << >>, begin |-> << >>, bins |-> B]
        BY <2>1
    <2>4. QED BY <1>1, <2>2, <2>3 DEF HeapRecords, NULL
<1>3. HpBase + Roundup(ArenaSize + HpChunk, 8) <= HpEnd /\ HpChunk >= 16 /\ HpPage > 16
    BY HpRoomAssumption DEF HeaderSize
<1>4. PICK got \in Nat : got = Roundup(16 + HpChunk, 8) /\ HpBase + got <= HpEnd
    <2>1. 8 \in Nat \ {0} /\ 16 + HpChunk \in Nat
        OBVIOUS
    <2>2. Roundup(16 + HpChunk, 8) \in Nat
        BY <2>1, RoundupIs
    <2>3. QED BY <1>3, <2>2 DEF ArenaSize
<1>5. HeapGood(h, {})
    <2>1. HpBase <= HpEnd
        BY <1>4
    <2>2. Placed(HpBase, 0, 0, {}, h.size, h.begin)
        BY <1>2, <2>1 DEF Placed
    <2>3. BinsHold(h)
        BY <1>2 DEF BinsHold
    <2>4. QED BY <1>2, <2>2, <2>3 DEF HeapGood, Layout, ProgramHas
<1>6. Roundup(8, 8) = 8 /\ Roundup(16, 8) = 16
    BY DEF Roundup
<1>7. Size2Class(8) = 0 /\ Class2Size(0) = 8 /\ 0 \in HpClasses
    BY SmallClasses DEF Size2Class, SmallClass, HpClasses
<1>8. Malloc(h, 8) = SourceMalloc(h, 8)
    BY <1>2, <1>6, <1>7 DEF Malloc, SegMalloc
<1>9. PICK b : b = BumpMalloc(h, 16 + HpChunk)
    OBVIOUS
<1>10. b.ptr = HpBase /\ b.heap = [h EXCEPT !.position = HpBase + got]
    <2>1. ~ (h.position + got > HpEnd) /\ ~ (16 + HpChunk < 8)
        BY <1>2, <1>4
    <2>2. b = [heap |-> [h EXCEPT !.position = @ + got], ptr |-> h.position]
        BY <1>4, <1>9, <2>1 DEF BumpMalloc
    <2>3. QED BY <1>2, <2>2
<1>11. PICK z : z = ZoneMalloc(h, 16)
    OBVIOUS
<1>12. PICK e : e = [b.heap EXCEPT !.space = b.ptr + ArenaSize + 16, !.left = HpChunk - 16, !.arenas = @ \cup {b.ptr}]
    OBVIOUS
<1>13. z = [heap |-> e, ptr |-> HpBase + 16]
    <2>1. z = SlowMalloc(h, 16)
        BY <1>2, <1>6, <1>11 DEF ZoneMalloc
    <2>2. ~ (HpChunk < 16) /\ HpBase # 0
        BY <1>3
    <2>3. QED BY <1>9, <1>10, <1>12, <2>1, <2>2 DEF SlowMalloc, ArenaSize, NULL
<1>14. e.size = h.size /\ e.begin = h.begin /\ e \in HeapRecords
    <2>1. PICK g : g = [h EXCEPT !.position = HpBase + got]
        OBVIOUS
    <2>2. g \in HeapRecords /\ g.size = h.size /\ g.begin = h.begin
        <3>1. HpBase + got \in Nat
            BY <1>4
        <3>2. QED BY <1>2, <2>1, <3>1 DEF HeapRecords
    <2>3. HpBase + ArenaSize + 16 \in Nat /\ HpChunk - 16 \in Nat /\ g.arenas \cup {HpBase} \in SUBSET Nat
        BY <1>3, <2>2, RecordFields DEF ArenaSize
    <2>4. e = [g EXCEPT !.space = HpBase + ArenaSize + 16, !.left = HpChunk - 16, !.arenas = g.arenas \cup {HpBase}]
        BY <1>10, <1>12, <2>1, <2>2
    <2>5. QED BY <2>2, <2>3, <2>4 DEF HeapRecords
<1>15. PICK p \in Nat : p = HpBase + 24
    OBVIOUS
<1>16. PICK S, B : S = HeaderWritten(h.size, p, 8) /\ B = HeaderWritten(h.begin, p, HpBase + 16)
    OBVIOUS
<1>17. DOMAIN B = {p} /\ S[p] = 8 /\ B[p] = HpBase + 16
    BY <1>2, <1>16 DEF HeaderWritten
<1>18. PICK m : m = SourceMalloc(h, 8)
    OBVIOUS
<1>19. m = [heap |-> [e EXCEPT !.size = S, !.begin = B], ptr |-> p]
    <2>1. ~IsLarge(8)
        BY <1>3 DEF IsLarge, HeaderSize
    <2>2. z = ZoneMalloc(h, 8 + HeaderSize) /\ z.ptr # NULL /\ z.ptr + HeaderSize = p
        BY <1>11, <1>13, <1>15 DEF HeaderSize, NULL
    <2>3. m = [heap |-> [z.heap EXCEPT !.size = HeaderWritten(z.heap.size, p, 8),
                                       !.begin = HeaderWritten(z.heap.begin, p, z.ptr)],
               ptr |-> p]
        BY <1>18, <2>1, <2>2 DEF SourceMalloc
    <2>4. QED BY <1>13, <1>14, <1>16, <2>3
<1>20. PICK g : g = [e EXCEPT !.size = S, !.begin = B]
    OBVIOUS
<1>21. m.heap = g /\ g.size = S /\ g.begin = B /\ m.ptr = p
    BY <1>14, <1>19, <1>20 DEF HeapRecords
<1>22. p # NULL
    BY <1>15 DEF NULL
<1>23. DOMAIN m.heap.begin = {p} /\ m.heap.size[p] = 8 /\ m.heap.begin[p] + HeaderSize <= p
    BY <1>15, <1>17, <1>21 DEF HeaderSize
<1>24. QED BY <1>5, <1>8, <1>18, <1>21, <1>22, <1>23

-----------------------------------------------------------------------------
LEMMA HpInvInit == HpInit => HpInv
<1> SUFFICES ASSUME HpInit PROVE HeapGood(heap, live) /\ HeadersInside(heap)
    BY DEF HpInv
<1>1. PICK h : h = [position |-> HpBase, space |-> NULL, left |-> 0, arenas |-> {},
                    size |-> << >>, begin |-> << >>, bins |-> [c \in HpClasses |-> <<>>]]
    OBVIOUS
<1>2. PICK m : m = Malloc(h, 8)
    OBVIOUS
<1>3. heap = SegFree(m.heap, m.ptr) /\ live = {}
    BY <1>1, <1>2 DEF HpInit
<1>4. PICK p \in Nat : /\ m.ptr = p /\ p # NULL /\ DOMAIN m.heap.begin = {p} /\ m.heap.size[p] = 8
                       /\ m.heap.begin[p] + HeaderSize <= p
    BY <1>1, <1>2, FirstObject
<1>5. PICK o : o = [ptr |-> p, asked |-> 8]
    OBVIOUS
<1>6. Size2Class(8) = 0 /\ 0 \in HpClasses /\ Class2Size(0) = 8
    BY SmallClasses DEF Size2Class, SmallClass, HpClasses
<1>7. HeapGood(m.heap, {o})
    <2>1. HeapGood(h, {})
        BY <1>1, FirstObject
    <2>2. HeapGood(m.heap, {} \cup (IF m.ptr = NULL THEN {} ELSE {[ptr |-> m.ptr, asked |-> 8]}))
        BY <1>2, <1>6, <2>1, MallocKeeps
    <2>3. QED BY <1>4, <1>5, <2>2
<1>8. ~ (Class2Size(BinOf(m.heap.size[o.ptr])) > Class2Size(Size2Class(o.asked)))
    <2>1. BinOf(8) \in Nat /\ BinOf(8) <= 0
        BY <1>6, BinOfIs
    <2>2. BinOf(8) = 0
        BY <2>1
    <2>3. QED BY <1>4, <1>5, <1>6, <2>2
<1>9. HeapGood(SegFree(m.heap, o.ptr), {o} \ {o})
    BY <1>7, <1>8, FreeKeeps
<1>10. HeapGood(heap, live)
    BY <1>3, <1>4, <1>5, <1>9
<1>11. heap.begin = m.heap.begin
    BY <1>3, <1>7, FreeLeavesHeaders DEF HeapGood, Layout
<1>12. QED BY <1>4, <1>10, <1>11 DEF HeadersInside

\* What is remembered of a heap that is in order.
LEMMA RememberKeeps ==
    ASSUME NEW freed, NEW h, Remember(h, freed), HpInv,
           ~reusable /\ ~misplaced /\ HeapGood(heap, live) /\ HeadersInside(heap)
           /\ (\A o \in freed : ~ (Class2Size(BinOf(h.size[o.ptr])) > Class2Size(Size2Class(o.asked))))
           => HeapGood(h, live')
    PROVE  HpInv'
<1> SUFFICES ASSUME ~reusable', ~misplaced' PROVE HeapGood(heap', live') /\ HeadersInside(heap')
    BY DEF HpInv
<1>1. heap' = h /\ ~reusable /\ ~misplaced
    BY DEF Remember
<1>2. \A o \in freed : ~ (Class2Size(BinOf(h.size[o.ptr])) > Class2Size(Size2Class(o.asked)))
    BY DEF Remember
<1>3. HeapGood(h, live')
    BY <1>1, <1>2 DEF HpInv
<1>4. ASSUME NEW p \in DOMAIN h.begin PROVE h.begin[p] + HeaderSize <= p
    <2>1. ~ (p - HeaderSize < h.begin[p])
        BY DEF Remember
    <2>2. p \in Nat /\ h.begin[p] \in Nat
        BY <1>3, RecordFields, PartialTyped DEF HeapGood, Layout
    <2>3. QED BY <2>1, <2>2 DEF HeaderSize
<1>5. QED BY <1>1, <1>3, <1>4 DEF HeadersInside

LEMMA HpInvStep == HpInv /\ [HpNext]_hpVars => HpInv'
<1> SUFFICES ASSUME HpInv, [HpNext]_hpVars PROVE HpInv'
    OBVIOUS
<1>1. ASSUME NEW n \in HpSizes, HpMalloc(n) PROVE HpInv'
    <2>1. PICK m : m = Malloc(heap, n)
        OBVIOUS
    <2>2. Remember(m.heap, {}) /\ live' = live \cup (IF m.ptr = NULL THEN {} ELSE {[ptr |-> m.ptr, asked |-> n]})
        BY <1>1, <2>1 DEF HpMalloc
    <2>3. n \in Nat /\ Size2Class(n) \in HpClasses
        BY HpAssumption, HpRoomAssumption
    <2>4. HeapGood(heap, live) => HeapGood(m.heap, live')
        BY <2>1, <2>2, <2>3, MallocKeeps
    <2>5. QED BY <2>2, <2>4, RememberKeeps
<1>2. ASSUME NEW o \in live, HpFree(o) PROVE HpInv'
    <2>1. PICK g : g = SegFree(heap, o.ptr)
        OBVIOUS
    <2>2. Remember(g, {o}) /\ live' = live \ {o}
        BY <1>2, <2>1 DEF HpFree
    <2>3. HeapGood(heap, live) => g.size = heap.size
        BY <2>1, FreeLeavesHeaders DEF HeapGood, Layout
    <2>4. HeapGood(heap, live) /\ ~ (Class2Size(BinOf(g.size[o.ptr])) > Class2Size(Size2Class(o.asked)))
          => HeapGood(g, live')
        BY <2>1, <2>2, <2>3, FreeKeeps
    <2>5. QED BY <2>2, <2>4, RememberKeeps
<1>3. ASSUME NEW o \in live, NEW n \in HpSizes, HpRealloc(o, n) PROVE HpInv'
    <2>1. PICK m : m = Malloc(heap, n)
        OBVIOUS
    <2>2. PICK g : g = SegFree(m.heap, o.ptr)
        OBVIOUS
    <2>3. PICK X : X = (IF m.ptr = NULL THEN {} ELSE {[ptr |-> m.ptr, asked |-> n]})
        OBVIOUS
    <2>4. Remember(g, {o}) /\ live' = (live \ {o}) \cup X
        BY <1>3, <2>1, <2>2, <2>3 DEF HpRealloc
    <2>5. n \in Nat /\ Size2Class(n) \in HpClasses
        BY HpAssumption, HpRoomAssumption
    <2>6. HeapGood(heap, live) => HeapGood(m.heap, live \cup X) /\ o \notin X
        BY <2>1, <2>3, <2>5, MallocKeeps
    <2>7. HeapGood(m.heap, live \cup X) => g.size = m.heap.size
        BY <2>2, FreeLeavesHeaders DEF HeapGood, Layout
    <2>8. HeapGood(m.heap, live \cup X) /\ ~ (Class2Size(BinOf(m.heap.size[o.ptr])) > Class2Size(Size2Class(o.asked)))
          => HeapGood(g, (live \cup X) \ {o})
        BY <2>2, FreeKeeps
    <2>9. o \notin X => (live \cup X) \ {o} = live'
        BY <2>4
    <2>10. HeapGood(heap, live) /\ ~ (Class2Size(BinOf(g.size[o.ptr])) > Class2Size(Size2Class(o.asked)))
           => HeapGood(g, live')
        BY <2>6, <2>7, <2>8, <2>9
    <2>11. QED BY <2>4, <2>10, RememberKeeps
<1>4. CASE UNCHANGED hpVars
    BY <1>4 DEF hpVars, HpInv
<1>5. QED BY <1>1, <1>2, <1>3, <1>4 DEF HpNext

\* Until an object that was moved to a page boundary has been freed into a class above
\* its own, or its header has been written before its block, no two objects of the
\* program overlap, and none overlaps an arena's header or passes the heap's end.
THEOREM OnlyMovedCollide == HpSpec => []OnlyMovedObjectsCollide
<1>1. HpInit => HpInv
    BY HpInvInit
<1>2. HpInv /\ [HpNext]_hpVars => HpInv'
    BY HpInvStep
<1>3. HpInv => OnlyMovedObjectsCollide
    BY HpInvSuffices
<1>4. QED BY <1>1, <1>2, <1>3, PTL DEF HpSpec

-----------------------------------------------------------------------------
(* WinSbrk *)

\* Multiples of a unit, and rounding to them.
LEMMA MultipleIs ==
    ASSUME NEW unit \in Nat \ {0}, NEW k \in Int
    PROVE  (k * unit) % unit = 0 /\ (k * unit) \div unit = k
OBVIOUS

LEMMA TimesItsQuotient ==
    ASSUME NEW unit \in Nat \ {0}, NEW n \in Int, n % unit = 0
    PROVE  n \div unit \in Int /\ n = (n \div unit) * unit
OBVIOUS

LEMMA MultiplesMove ==
    ASSUME NEW unit \in Nat \ {0}, NEW n \in Int, n % unit = 0, NEW k \in Int
    PROVE  (n + k * unit) % unit = 0 /\ (n - k * unit) % unit = 0
<1>1. PICK j \in Int : n = j * unit
    OBVIOUS
<1>2. n + k * unit = (j + k) * unit /\ n - k * unit = (j - k) * unit /\ j + k \in Int /\ j - k \in Int
    BY <1>1
<1>3. QED BY <1>2, MultipleIs

LEMMA MultipleOfMultiple ==
    ASSUME NEW unit \in Nat \ {0}, NEW larger \in Nat \ {0}, larger % unit = 0, NEW k \in Int
    PROVE  (k * larger) % unit = 0
<1>1. PICK j \in Int : larger = j * unit
    OBVIOUS
<1>2. k * larger = (k * j) * unit /\ k * j \in Int
    BY <1>1
<1>3. QED BY <1>2, MultipleIs

LEMMA RoundedUpIs ==
    ASSUME NEW n \in Int, NEW unit \in Nat \ {0}
    PROVE  /\ Ceil(n, unit) \in Int /\ n <= Ceil(n, unit) /\ Ceil(n, unit) < n + unit
           /\ Ceil(n, unit) % unit = 0
<1>1. PICK j \in Int : j = (n + unit - 1) \div unit
    OBVIOUS
<1>2. Ceil(n, unit) = j * unit
    BY <1>1 DEF Ceil
<1>3. Ceil(n, unit) \in Int /\ n <= Ceil(n, unit) /\ Ceil(n, unit) < n + unit
    BY DEF Ceil
<1>4. QED BY <1>2, <1>3, MultipleIs

LEMMA RoundedDownIs ==
    ASSUME NEW n \in Int, NEW unit \in Nat \ {0}
    PROVE  Floor(n, unit) \in Int /\ Floor(n, unit) <= n /\ Floor(n, unit) % unit = 0
<1>1. PICK j \in Int : j = n \div unit
    OBVIOUS
<1>2. Floor(n, unit) = j * unit
    BY <1>1 DEF Floor
<1>3. Floor(n, unit) \in Int /\ Floor(n, unit) <= n
    BY DEF Floor
<1>4. QED BY <1>2, <1>3, MultipleIs

LEMMA RoundedDownOfNat ==
    ASSUME NEW n \in Nat, NEW unit \in Nat \ {0}
    PROVE  Floor(n, unit) >= 0
BY DEF Floor

LEMMA RoundedUpIsLeast ==
    ASSUME NEW n \in Int, NEW unit \in Nat \ {0}, NEW m \in Int, m % unit = 0, n <= m
    PROVE  Ceil(n, unit) <= m
<1>1. PICK k \in Int : m = k * unit
    OBVIOUS
<1>2. PICK j \in Int : j = (n + unit - 1) \div unit
    OBVIOUS
<1>3. j * unit <= n + unit - 1
    BY <1>2
<1>4. j * unit < k * unit + unit
    BY <1>1, <1>3
<1>5. j <= k
    BY <1>4
<1>6. j * unit <= k * unit
    BY <1>5
<1>7. QED BY <1>1, <1>2, <1>6 DEF Ceil

\* Two multiples of the page differ by one.
LEMMA MultiplesAdd ==
    ASSUME NEW unit \in Nat \ {0}, NEW m \in Int, m % unit = 0, NEW n \in Int, n % unit = 0
    PROVE  (m + n) % unit = 0 /\ (m - n) % unit = 0
<1>1. PICK k \in Int : n = k * unit
    BY TimesItsQuotient
<1>2. (m + k * unit) % unit = 0 /\ (m - k * unit) % unit = 0
    BY MultiplesMove
<1>3. QED BY <1>1, <1>2

LEMMA TimesCancels ==
    ASSUME NEW unit \in Nat \ {0}, NEW g \in Int, NEW h \in Int
    PROVE  /\ g * unit <= h * unit => g <= h
           /\ g * unit < h * unit => g < h
           /\ g <= h => g * unit <= h * unit
OBVIOUS

\* A region's parts, and what is so of a list of them.
Region == [base : Int, allocated : Int, committed : Int, top : Int]

RegionSound(r) ==
    /\ r \in Region
    /\ 0 <= r.base /\ r.base <= r.allocated /\ r.allocated <= r.committed /\ r.committed <= r.top
    /\ r.committed % WsPage = 0 /\ r.top % WsGranule = 0

ListSound(s) ==
    /\ s \in Seq(Region) /\ Len(s) >= 1
    /\ \A i \in 1 .. Len(s) : RegionSound(s[i])
    /\ \A i, j \in 1 .. Len(s) : i < j => s[i].top <= s[j].base

ListApart(s, taken) == \A i \in 1 .. Len(s) : Granules(s[i]) \cap taken = {}

ListHolds(s, given) ==
    /\ given \subseteq Int
    /\ \A b \in given : \E i \in 1 .. Len(s) : s[i].base <= b /\ b < s[i].allocated

LEMMA ListLast ==
    ASSUME NEW s, ListSound(s)
    PROVE  Last(s) = s[Len(s)] /\ Len(s) \in 1 .. Len(s) /\ RegionSound(Last(s)) /\ Len(s) \in Nat
BY DEF ListSound, Last

\* Another last region with the same bounds.
LEMMA LastReplaced ==
    ASSUME NEW s, ListSound(s), NEW r, RegionSound(r), r.base = Last(s).base, r.top = Last(s).top,
           NEW w, w = [s EXCEPT ![Len(s)] = r]
    PROVE  /\ ListSound(w) /\ Last(w) = r /\ Len(w) = Len(s)
           /\ \A taken : ListApart(s, taken) => ListApart(w, taken)
<1>1. s \in Seq(Region) /\ Len(s) \in 1 .. Len(s) /\ Last(s) = s[Len(s)] /\ r \in Region
    BY ListLast DEF ListSound, RegionSound
<1>2. w \in Seq(Region) /\ Len(w) = Len(s) /\ w[Len(s)] = r
      /\ \A i \in 1 .. Len(s) : i # Len(s) => w[i] = s[i]
    BY <1>1
<1>3. \A i \in 1 .. Len(s) : RegionSound(w[i]) /\ w[i].base = s[i].base /\ w[i].top = s[i].top
    <2> SUFFICES ASSUME NEW i \in 1 .. Len(s)
                 PROVE  RegionSound(w[i]) /\ w[i].base = s[i].base /\ w[i].top = s[i].top
        OBVIOUS
    <2>1. CASE i = Len(s)
        BY <1>1, <1>2, <2>1
    <2>2. CASE i # Len(s)
        BY <1>2, <2>2 DEF ListSound
    <2>3. QED BY <2>1, <2>2
<1>4. ListSound(w)
    <2>1. \A i, j \in 1 .. Len(s) : i < j => s[i].top <= s[j].base
        BY DEF ListSound
    <2>2. \A i, j \in 1 .. Len(w) : i < j => w[i].top <= w[j].base
        BY <1>2, <1>3, <2>1
    <2>3. Len(w) >= 1
        BY <1>2 DEF ListSound
    <2>4. \A i \in 1 .. Len(w) : RegionSound(w[i])
        BY <1>2, <1>3
    <2>5. QED BY <1>2, <2>2, <2>3, <2>4 DEF ListSound
<1>5. Last(w) = r
    BY <1>2, <1>4, ListLast
<1>6. ASSUME NEW taken, ListApart(s, taken) PROVE ListApart(w, taken)
    <2>1. \A i \in 1 .. Len(s) : Granules(w[i]) = Granules(s[i])
        BY <1>3 DEF Granules
    <2>2. QED BY <1>2, <1>6, <2>1 DEF ListApart
<1>7. QED BY <1>2, <1>4, <1>5, <1>6

\* A last region that has grown, and one that has been added.
LEMMA LastGrown ==
    ASSUME NEW s, ListSound(s), NEW r, RegionSound(r), r.base = Last(s).base, r.top = Last(s).top,
           r.allocated >= Last(s).allocated, NEW w, w = [s EXCEPT ![Len(s)] = r],
           NEW given, ListHolds(s, given)
    PROVE  ListHolds(w, given)
<1>1. s \in Seq(Region) /\ Len(s) \in 1 .. Len(s) /\ Last(s) = s[Len(s)] /\ r \in Region
      /\ RegionSound(Last(s))
    BY ListLast DEF ListSound, RegionSound
<1>2. Len(w) = Len(s) /\ w[Len(s)] = r
      /\ \A i \in 1 .. Len(s) : i # Len(s) => w[i] = s[i]
    BY <1>1
<1>3. given \subseteq Int
    BY DEF ListHolds
<1>4. ASSUME NEW b \in given PROVE \E i \in 1 .. Len(w) : w[i].base <= b /\ b < w[i].allocated
    <2>1. PICK i \in 1 .. Len(s) : s[i].base <= b /\ b < s[i].allocated
        BY DEF ListHolds
    <2>2. CASE i = Len(s)
        <3>0. PICK l : l = Last(s)
            OBVIOUS
        <3>1. w[i] = r /\ l.base <= b /\ b < l.allocated /\ r.base = l.base /\ r.allocated >= l.allocated
            BY <1>1, <1>2, <2>1, <2>2, <3>0
        <3>2. l.allocated \in Int /\ r.allocated \in Int /\ b \in Int
            BY <1>1, <1>3, <3>0 DEF Region, RegionSound
        <3>3. w[i].base <= b /\ b < w[i].allocated
            BY <3>1, <3>2
        <3>4. QED BY <1>2, <3>3
    <2>3. CASE i # Len(s)
        BY <1>2, <2>1, <2>3
    <2>4. QED BY <2>2, <2>3
<1>5. QED BY <1>3, <1>4 DEF ListHolds

LEMMA RegionAdded ==
    ASSUME NEW s, ListSound(s), NEW r, RegionSound(r), r.base >= Last(s).top,
           NEW w, w = Append(s, r)
    PROVE  /\ ListSound(w) /\ Last(w) = r /\ Len(w) = Len(s) + 1
           /\ \A i \in 1 .. Len(s) : w[i] = s[i]
           /\ \A taken : ListApart(s, taken) /\ Granules(r) \cap taken = {} => ListApart(w, taken)
<1>1. s \in Seq(Region) /\ Len(s) \in 1 .. Len(s) /\ Last(s) = s[Len(s)] /\ r \in Region
    BY ListLast DEF ListSound, RegionSound
<1>2. w \in Seq(Region) /\ Len(w) = Len(s) + 1 /\ w[Len(s) + 1] = r
      /\ \A i \in 1 .. Len(s) : w[i] = s[i]
    BY <1>1
<1>3. \A i \in 1 .. Len(w) : i = Len(s) + 1 \/ i \in 1 .. Len(s)
    BY <1>1, <1>2
<1>4. \A i \in 1 .. Len(w) : RegionSound(w[i])
    BY <1>2, <1>3 DEF ListSound
<1>5. \A i \in 1 .. Len(s) : s[i].top <= r.base
    <2> SUFFICES ASSUME NEW i \in 1 .. Len(s) PROVE s[i].top <= r.base
        OBVIOUS
    <2>1. CASE i = Len(s)
        BY <1>1, <2>1
    <2>2. CASE i # Len(s)
        <3>1. s[i].top <= s[Len(s)].base /\ s[Len(s)].base <= s[Len(s)].top
            <4>1. RegionSound(s[Len(s)]) /\ i < Len(s) /\ s[Len(s)] \in Region
                BY <1>1, <2>2 DEF ListSound
            <4>2. s[i].top <= s[Len(s)].base
                BY <1>1, <4>1 DEF ListSound
            <4>3. s[Len(s)].base <= s[Len(s)].top
                BY <4>1 DEF RegionSound, Region
            <4>4. QED BY <4>2, <4>3
        <3>2. s[i] \in Region /\ s[Len(s)] \in Region
            BY <1>1 DEF ListSound, RegionSound
        <3>3. s[i].top \in Int /\ s[Len(s)].base \in Int /\ s[Len(s)].top \in Int /\ r.base \in Int
            BY <1>1, <3>2 DEF Region
        <3>4. s[Len(s)].top <= r.base
            BY <1>1, <3>3
        <3>5. QED BY <3>1, <3>3, <3>4
    <2>3. QED BY <2>1, <2>2
<1>6. ASSUME NEW i \in 1 .. Len(w), NEW j \in 1 .. Len(w), i < j PROVE w[i].top <= w[j].base
    <2>1. CASE j = Len(s) + 1
        BY <1>2, <1>3, <1>5, <1>6, <2>1
    <2>2. CASE j # Len(s) + 1
        <3>1. i \in 1 .. Len(s) /\ j \in 1 .. Len(s)
            BY <1>1, <1>2, <1>3, <1>6, <2>2
        <3>2. QED BY <1>2, <1>6, <3>1 DEF ListSound
    <2>3. QED BY <2>1, <2>2
<1>7. ListSound(w)
    BY <1>1, <1>2, <1>4, <1>6 DEF ListSound
<1>8. Last(w) = r
    BY <1>2, <1>7, ListLast
<1>9. \A taken : ListApart(s, taken) /\ Granules(r) \cap taken = {} => ListApart(w, taken)
    BY <1>2, <1>3 DEF ListApart
<1>10. QED BY <1>2, <1>7, <1>8, <1>9

\* Where the new top lies before a region, the region begins where the one before it
\* has its allocation top.
LEMMA RegionsAbut ==
    ASSUME NEW s, ListSound(s), NEW given, ListHolds(s, given), NEW new \in Int,
           new .. Last(s).allocated - 1 \subseteq given,
           NEW i \in 1 .. Len(s), new < s[i].base
    PROVE  i # 1 /\ i - 1 \in 1 .. Len(s) /\ s[i - 1].allocated = s[i].base
<1>0. PICK l : l = Len(s)
    OBVIOUS
<1>1. l \in Nat /\ l \in 1 .. l /\ Last(s) = s[l] /\ i \in 1 .. l
    BY <1>0, ListLast
<1>2. \A k \in 1 .. l : /\ s[k].base \in Int /\ s[k].allocated \in Int /\ s[k].top \in Int
                        /\ s[k].base <= s[k].allocated /\ s[k].allocated <= s[k].top
    <2>1. \A k \in 1 .. l : RegionSound(s[k])
        BY <1>0 DEF ListSound
    <2>2. \A k \in 1 .. l : /\ s[k].base \in Int /\ s[k].allocated \in Int /\ s[k].committed \in Int
                            /\ s[k].top \in Int
        BY <2>1 DEF RegionSound, Region
    <2>3. \A k \in 1 .. l : s[k].base <= s[k].allocated /\ s[k].allocated <= s[k].committed
                            /\ s[k].committed <= s[k].top
        BY <2>1 DEF RegionSound
    <2>4. QED BY <2>2, <2>3
<1>3. \A k, m \in 1 .. l : k < m => s[k].top <= s[m].base
    BY <1>0 DEF ListSound
<1>4. PICK b \in Int : b = s[i].base
    BY <1>1, <1>2
<1>5. b - 1 >= new /\ b <= s[l].allocated
    <2>1. b - 1 >= new
        BY <1>4
    <2>2. CASE i = l
        BY <1>1, <1>2, <1>4, <2>1, <2>2
    <2>3. CASE i # l
        <3>1. s[i].top <= s[l].base
            BY <1>1, <1>3, <2>3
        <3>2. s[i].base <= s[i].allocated /\ s[i].allocated <= s[i].top
              /\ s[i].allocated \in Int /\ s[i].top \in Int
            BY <1>1, <1>2
        <3>3. s[l].base <= s[l].allocated /\ s[l].base \in Int /\ s[l].allocated \in Int
            BY <1>1, <1>2
        <3>4. QED BY <1>4, <2>1, <3>1, <3>2, <3>3
    <2>4. QED BY <2>2, <2>3
<1>6. b - 1 \in given
    <2>1. PICK a \in Int : a = Last(s).allocated
        BY <1>1, <1>2
    <2>2. b - 1 \in new .. a - 1
        BY <1>1, <1>5, <2>1
    <2>3. QED BY <2>1, <2>2
<1>7. PICK j \in 1 .. l : s[j].base <= b - 1 /\ b - 1 < s[j].allocated
    BY <1>0, <1>6 DEF ListHolds
<1>8. j < i
    <2>1. CASE j = i
        BY <1>2, <1>4, <1>7, <2>1
    <2>2. CASE j > i
        <3>1. s[i].top <= s[j].base
            BY <1>1, <1>3, <2>2
        <3>2. QED BY <1>1, <1>2, <1>4, <1>7, <3>1
    <2>3. QED BY <1>1, <2>1, <2>2
<1>9. PICK p \in 1 .. l : p = i - 1 /\ j <= p /\ p < i
    BY <1>1, <1>8
<1>10. s[p].top <= b
    BY <1>1, <1>3, <1>4, <1>9
<1>11. b <= s[p].allocated
    <2>1. CASE j = p
        BY <1>2, <1>4, <1>7, <1>9, <2>1
    <2>2. CASE j # p
        <3>1. s[j].top <= s[p].base
            BY <1>3, <1>9, <2>2
        <3>2. s[j].allocated <= s[j].top /\ s[j].allocated \in Int /\ s[j].top \in Int
            BY <1>2
        <3>3. s[p].base <= s[p].allocated /\ s[p].base \in Int /\ s[p].allocated \in Int
            BY <1>2
        <3>4. b <= s[j].allocated
            BY <1>4, <1>7, <3>2
        <3>5. QED BY <1>4, <3>1, <3>2, <3>3, <3>4
    <2>3. QED BY <2>1, <2>2
<1>12. s[p].allocated = b
    BY <1>2, <1>4, <1>9, <1>10, <1>11
<1>13. QED BY <1>0, <1>1, <1>4, <1>9, <1>12

\* What is left of n when regions have been released one by one.
RestIs(f, s, n) ==
    f = [m \in 0 .. Len(s) |->
            IF m = 0 THEN n
            ELSE f[m - 1] - (s[Len(s) - m + 1].allocated - s[Len(s) - m + 1].base)]

LEMMA RestExists ==
    ASSUME NEW s, ListSound(s), NEW n \in Int
    PROVE  \E f : RestIs(f, s, n)
<1>0. PICK l : l = Len(s)
    OBVIOUS
<1>1. l \in Nat
    BY <1>0, ListLast
<1> PICK released : released = [x \in Int \X (1 .. l) |-> x[1] - (s[l - x[2] + 1].allocated - s[l - x[2] + 1].base)]
    OBVIOUS
<1>2. \A m \in 1 .. l : l - m + 1 \in 1 .. l
    BY <1>1
<1>3. \A k \in 1 .. l : s[k].allocated - s[k].base \in Int
    <2>1. \A k \in 1 .. l : s[k] \in Region
        BY <1>0 DEF ListSound, RegionSound
    <2>2. QED BY <2>1 DEF Region
<1>4. released \in [Int \X (1 .. l) -> Int]
    BY <1>2, <1>3
<1>5. PICK f : Iterates(f, l, Int, n, released)
    BY <1>1, <1>4, IterationExists
<1>6. f \in [0 .. l -> Int] /\ f[0] = n /\ \A i \in 1 .. l : f[i] = released[<<f[i - 1], i>>]
    BY <1>5 DEF Iterates
<1>7. ASSUME NEW m \in 0 .. l
      PROVE  f[m] = IF m = 0 THEN n ELSE f[m - 1] - (s[l - m + 1].allocated - s[l - m + 1].base)
    <2>1. CASE m = 0
        BY <1>6, <2>1
    <2>2. CASE m # 0
        <3>1. m \in 1 .. l /\ m - 1 \in 0 .. l
            BY <1>1, <2>2
        <3>2. <<f[m - 1], m>> \in Int \X (1 .. l)
            BY <1>6, <3>1
        <3>3. QED BY <1>6, <2>2, <3>1, <3>2
    <2>3. QED BY <2>1, <2>2
<1>8. f = [m \in 0 .. l |-> IF m = 0 THEN n ELSE f[m - 1] - (s[l - m + 1].allocated - s[l - m + 1].base)]
    BY <1>6, <1>7
<1>9. QED BY <1>0, <1>8 DEF RestIs

LEMMA RestSteps ==
    ASSUME NEW s, ListSound(s), NEW n \in Int, NEW f, RestIs(f, s, n)
    PROVE  /\ f[0] = n
           /\ \A m \in Nat : m < Len(s) =>
                 f[m + 1] = f[m] - (s[Len(s) - m].allocated - s[Len(s) - m].base)
<1>0. PICK l \in Nat : l = Len(s)
    BY ListLast
<1>1. \A m \in 0 .. l : f[m] = IF m = 0 THEN n
                               ELSE f[m - 1] - (s[l - m + 1].allocated - s[l - m + 1].base)
    BY <1>0 DEF RestIs
<1>2. f[0] = n
    BY <1>1
<1>3. ASSUME NEW m \in Nat, m < l PROVE f[m + 1] = f[m] - (s[l - m].allocated - s[l - m].base)
    <2>1. PICK k \in 0 .. l : k = m + 1 /\ k # 0 /\ k - 1 = m /\ l - k + 1 = l - m
        BY <1>3
    <2>2. f[k] = f[k - 1] - (s[l - k + 1].allocated - s[l - k + 1].base)
        BY <1>1, <2>1
    <2>3. QED BY <2>1, <2>2
<1>4. QED BY <1>0, <1>2, <1>3

\* Regions are released until the one in which the new top lies, and what is left of
\* n is what lies behind the new top in that one.
IsReleased(left, s, new, k) ==
    /\ left = [regions |-> SubSeq(s, 1, k), n |-> s[k].allocated - new]
    /\ s[k].base <= new /\ new <= s[k].allocated
    /\ \A j \in 1 .. Len(s) : j > k => new < s[j].base

LEMMA ReleasedIs ==
    ASSUME NEW s, ListSound(s), NEW given, ListHolds(s, given), NEW new \in Int,
           NEW n \in Nat \ {0}, new = Last(s).allocated - n,
           new .. Last(s).allocated - 1 \subseteq given
    PROVE  \E k \in 1 .. Len(s) : IsReleased(RegionsReleased(s, n), s, new, k)
<1>0. PICK l \in Nat : l = Len(s) /\ l >= 1 /\ Last(s) = s[l]
    BY ListLast
<1>1. PICK rest : rest = CHOOSE f : RestIs(f, s, n)
    OBVIOUS
<1>2. RestIs(rest, s, n)
    BY <1>1, RestExists
<1>3. /\ rest[0] = n
      /\ \A m \in Nat : m < l => rest[m + 1] = rest[m] - (s[l - m].allocated - s[l - m].base)
    BY <1>0, <1>2, RestSteps
<1>4. PICK T : T = {m \in 0 .. l - 1 : s[l - m].allocated - rest[m] >= s[l - m].base}
    OBVIOUS
<1>5. RegionsReleased(s, n) = [regions |-> SubSeq(s, 1, l - Min(T)), n |-> rest[Min(T)]]
    BY <1>0, <1>1, <1>4 DEF RegionsReleased, RestIs
<1>6. \A k \in 1 .. l : s[k].base \in Int /\ s[k].allocated \in Int
    <2>1. \A k \in 1 .. l : s[k] \in Region
        BY <1>0 DEF ListSound, RegionSound
    <2>2. QED BY <2>1 DEF Region
<1>7. \A i \in 1 .. l : new < s[i].base => i # 1 /\ i - 1 \in 1 .. l /\ s[i - 1].allocated = s[i].base
    <2>1. \A i \in 1 .. Len(s) : new < s[i].base => i # 1 /\ i - 1 \in 1 .. Len(s) /\ s[i - 1].allocated = s[i].base
        BY RegionsAbut
    <2>2. QED BY <1>0, <2>1
<1> DEFINE Before(m) == \A j \in 0 .. m - 1 : j \notin T
           S == {m \in Nat : Before(m) => rest[m] = s[l - m].allocated - new}
<1>8. 0 \in S
    BY <1>0, <1>3, <1>6
<1>9. ASSUME NEW m \in Nat, m < l - 1, m \in S PROVE m + 1 \in S
    <2>1. SUFFICES ASSUME Before(m + 1) PROVE rest[m + 1] = s[l - (m + 1)].allocated - new
        OBVIOUS
    <2>2. Before(m) /\ m \notin T /\ m \in 0 .. l - 1
        BY <1>9, <2>1
    <2>3. PICK i \in 1 .. l : i = l - m /\ i - 1 = l - (m + 1) /\ i - 1 \in 1 .. l
        BY <1>9
    <2>4. rest[m] = s[i].allocated - new
        BY <1>9, <2>2, <2>3
    <2>5. s[i].base \in Int /\ s[i].allocated \in Int /\ s[i - 1].allocated \in Int
        BY <1>6, <2>3
    <2>6. ~ (s[i].allocated - rest[m] >= s[i].base)
        BY <1>4, <2>2, <2>3
    <2>7. new < s[i].base
        BY <2>4, <2>5, <2>6
    <2>8. s[i - 1].allocated = s[i].base
        BY <1>7, <2>7
    <2>9. rest[m + 1] = rest[m] - (s[i].allocated - s[i].base)
        BY <1>3, <1>9, <2>3
    <2>10. rest[m + 1] = s[i - 1].allocated - new
        BY <2>4, <2>5, <2>8, <2>9
    <2>11. QED BY <2>3, <2>10
<1>10. \A m \in 0 .. l - 1 : Before(m) => rest[m] = s[l - m].allocated - new
    <2>1. l - 1 \in Nat
        BY <1>0
    <2>2. 0 .. l - 1 \subseteq S
        <3> HIDE DEF S
        <3>1. QED BY <1>8, <1>9, <2>1, OneMore
    <2>3. QED BY <2>2
<1>11. ASSUME NEW m \in 0 .. l - 1, Before(m), m \notin T PROVE new < s[l - m].base
    <2>0. l - m \in 1 .. l
        BY <1>0
    <2>1. PICK i \in 1 .. l : i = l - m
        BY <2>0
    <2>2. rest[m] = s[i].allocated - new /\ ~ (s[i].allocated - rest[m] >= s[i].base)
        BY <1>4, <1>10, <1>11, <2>1
    <2>3. s[i].base \in Int /\ s[i].allocated \in Int
        BY <1>6, <2>1
    <2>4. QED BY <2>1, <2>2, <2>3
<1>12. T # {}
    <2>1. SUFFICES ASSUME T = {} PROVE FALSE
        OBVIOUS
    <2>2. PICK m \in 0 .. l - 1 : m = l - 1 /\ l - m = 1
        BY <1>0
    <2>3. new < s[1].base
        BY <1>11, <2>1, <2>2
    <2>4. 1 \in 1 .. l
        BY <1>0
    <2>5. QED BY <1>7, <2>3, <2>4
<1>13. PICK m \in T : \A j \in T : m <= j
    <2>1. T \subseteq Nat
        BY <1>0, <1>4
    <2>2. QED BY <1>12, <2>1, LeastNatural
<1>14. m \in 0 .. l - 1 /\ T \subseteq Int
    BY <1>0, <1>4, <1>13
<1>15. Min(T) = m
    <2>1. PICK v : v = CHOOSE x \in T : \A y \in T : x <= y
        OBVIOUS
    <2>2. v \in T /\ \A y \in T : v <= y
        BY <1>13, <2>1
    <2>3. v <= m /\ m <= v /\ v \in Int /\ m \in Int
        BY <1>13, <1>14, <2>2
    <2>4. v = m
        BY <2>3
    <2>5. QED BY <2>1, <2>4 DEF Min
<1>16. Before(m)
    BY <1>13, <1>14
<1>17. PICK k \in 1 .. l : k = l - m
    <2>1. l - m \in 1 .. l
        BY <1>0, <1>14
    <2>2. QED BY <2>1
<1>18. rest[m] = s[k].allocated - new /\ s[k].allocated - rest[m] >= s[k].base
    BY <1>4, <1>10, <1>13, <1>14, <1>16, <1>17
<1>19. s[k].base <= new
    BY <1>6, <1>18
<1>20. ASSUME NEW j \in 1 .. l, j > k PROVE new < s[j].base
    <2>0. l - j \in 0 .. l - 1 /\ l - (l - j) = j /\ l - j < m
        BY <1>0, <1>14, <1>17, <1>20
    <2>1. PICK q \in 0 .. l - 1 : q = l - j /\ l - q = j /\ q < m
        BY <2>0
    <2>2. q \notin T /\ Before(q)
        BY <1>13, <1>14, <1>16, <2>1
    <2>3. QED BY <1>11, <2>1, <2>2
<1>21. new <= s[k].allocated
    <2>1. CASE k = l
        BY <1>0, <1>6, <2>1
    <2>2. CASE k # l
        <3>1. PICK j \in 1 .. l : j = k + 1 /\ j > k /\ j - 1 = k
            BY <2>2
        <3>2. new < s[j].base
            BY <1>20, <3>1
        <3>3. s[k].allocated = s[j].base
            BY <1>7, <3>1, <3>2
        <3>4. QED BY <1>6, <3>1, <3>2, <3>3
    <2>3. QED BY <2>1, <2>2
<1>22. RegionsReleased(s, n) = [regions |-> SubSeq(s, 1, k), n |-> s[k].allocated - new]
    BY <1>5, <1>15, <1>17, <1>18
<1>23. IsReleased(RegionsReleased(s, n), s, new, k)
    BY <1>0, <1>19, <1>20, <1>21, <1>22 DEF IsReleased
<1>24. QED BY <1>0, <1>23

\* The list is cut off at the region in which the new top lies.
LEMMA ListCut ==
    ASSUME NEW s, ListSound(s), NEW k \in 1 .. Len(s)
    PROVE  LET w == SubSeq(s, 1, k) IN
           /\ ListSound(w) /\ Len(w) = k /\ Last(w) = s[k]
           /\ \A i \in 1 .. k : w[i] = s[i]
           /\ \A taken : ListApart(s, taken) => ListApart(w, taken)
<1>1. s \in Seq(Region) /\ Len(s) \in Nat /\ k \in Nat /\ k <= Len(s) /\ 1 <= k
    BY ListLast DEF ListSound
<1>2. PICK w : w = SubSeq(s, 1, k)
    OBVIOUS
<1>3. w \in Seq(Region) /\ Len(w) = k /\ \A i \in 1 .. k : w[i] = s[i]
    BY <1>1, <1>2
<1>4. \A i \in 1 .. k : i \in 1 .. Len(s)
    BY <1>1
<1>5. ListSound(w)
    BY <1>1, <1>3, <1>4 DEF ListSound
<1>6. Last(w) = s[k]
    BY <1>1, <1>3, <1>5, ListLast
<1>7. \A taken : ListApart(s, taken) => ListApart(w, taken)
    BY <1>3, <1>4 DEF ListApart
<1>8. QED BY <1>2, <1>3, <1>5, <1>6, <1>7

LEMMA WsNumbers ==
    /\ WsPage \in Nat \ {0} /\ WsGranule \in Nat \ {0} /\ WsGranule % WsPage = 0
    /\ WsSizes \subseteq Int /\ WsNone \notin WsThreads
BY WsAssumption

CallType == [at : {"idle", "return", "sbrk", "reserve", "mmap", "munmap"}, size : Int, place : Int,
             granules : Int, contiguous : BOOLEAN, found : BOOLEAN]

\* A call that gives memory back gives back bytes at the end that the program holds.
Shrinking(c) == c.at = "sbrk" /\ c.size < 0 => CanShrink(-c.size)

\* A call that has found a place has committed the last region; with what is left
\* there, or without it, the place has room for all the pages.
Reserving(c) ==
    c.at = "reserve" =>
        /\ c.size \in Nat /\ GLast.committed = GLast.top /\ GLast.allocated + c.size > GLast.top
        /\ c.contiguous => /\ c.place = GLast.top \div WsGranule
                           /\ Ceil(c.size - (GLast.top - GLast.allocated), WsPage) <= c.granules * WsGranule
        /\ ~c.contiguous => /\ c.place > GLast.top \div WsGranule \/ c.place = WsGranules
                            /\ Ceil(c.size, WsPage) <= c.granules * WsGranule

WsCalled ==
    /\ wsCall \in [WsThreads -> CallType]
    /\ \A t \in WsThreads : wsCall[t].at # "idle" => wsLock = t
    /\ \A t \in WsThreads : Shrinking(wsCall[t]) /\ Reserving(wsCall[t])

WsInv ==
    /\ ListSound(wsRegions) /\ ListApart(wsRegions, wsTaken) /\ ListHolds(wsRegions, wsGiven)
    /\ WsCalled

LEMMA WsIdleIs == WsIdle \in CallType /\ WsIdle.at = "idle"
BY DEF WsIdle, CallType

LEMMA WsInitGood == WsInit => WsInv
<1> SUFFICES ASSUME WsInit PROVE WsInv
    OBVIOUS
<1>1. PICK r : r = RegionAt(0, 0)
    OBVIOUS
<1>2. r = [base |-> 0, allocated |-> 0, committed |-> 0, top |-> 0]
    BY <1>1 DEF RegionAt
<1>3. RegionSound(r)
    <2>1. 0 % WsPage = 0 /\ 0 % WsGranule = 0
        BY WsNumbers
    <2>2. QED BY <1>2, <2>1 DEF RegionSound, Region
<1>4. wsRegions = <<r>> /\ wsTaken = {} /\ wsGiven = {}
    BY <1>1 DEF WsInit
<1>5. Len(wsRegions) = 1 /\ wsRegions[1] = r /\ wsRegions \in Seq(Region)
    BY <1>3, <1>4 DEF RegionSound
<1>6. \A i \in 1 .. Len(wsRegions) : i = 1
    BY <1>5
<1>7. ListSound(wsRegions)
    BY <1>3, <1>5, <1>6 DEF ListSound
<1>8. ListApart(wsRegions, wsTaken) /\ ListHolds(wsRegions, wsGiven)
    BY <1>4 DEF ListApart, ListHolds
<1>9. WsCalled
    <2>1. wsCall = [t \in WsThreads |-> WsIdle]
        BY DEF WsInit
    <2>2. \A t \in WsThreads : wsCall[t] = WsIdle /\ wsCall[t].at = "idle"
        BY <2>1, WsIdleIs
    <2>3. \A t \in WsThreads : Shrinking(wsCall[t]) /\ Reserving(wsCall[t])
        BY <2>2 DEF Shrinking, Reserving
    <2>4. wsCall \in [WsThreads -> CallType]
        BY <2>1, WsIdleIs
    <2>5. QED BY <2>2, <2>3, <2>4 DEF WsCalled
<1>10. QED BY <1>7, <1>8, <1>9 DEF WsInv

\* While one thread is in a call, the others are in none.
LEMMA OthersAreIdle ==
    ASSUME WsCalled, NEW t \in WsThreads, wsCall[t].at # "idle"
    PROVE  wsLock = t /\ \A u \in WsThreads : u # t => wsCall[u].at = "idle"
BY DEF WsCalled

\* The call of the thread that holds the lock goes on, or returns.
LEMMA CallGoesOn ==
    ASSUME WsCalled, NEW t \in WsThreads, wsCall[t].at # "idle", wsLock' = wsLock,
           NEW c \in CallType, wsCall' = [wsCall EXCEPT ![t] = c], Shrinking(c)', Reserving(c)'
    PROVE  WsCalled'
<1>1. wsLock = t /\ \A u \in WsThreads : u # t => wsCall[u].at = "idle"
    BY OthersAreIdle
<1>2. wsCall' \in [WsThreads -> CallType] /\ wsCall'[t] = c
      /\ \A u \in WsThreads : u # t => wsCall'[u] = wsCall[u]
    BY DEF WsCalled
<1>3. \A u \in WsThreads : wsCall'[u].at # "idle" => wsLock' = u
    BY <1>1, <1>2
<1>4. ASSUME NEW u \in WsThreads PROVE Shrinking(wsCall[u])' /\ Reserving(wsCall[u])'
    <2>1. CASE u = t
        BY <1>2, <2>1 DEF Shrinking, Reserving
    <2>2. CASE u # t
        BY <1>1, <1>2, <2>2 DEF Shrinking, Reserving
    <2>3. QED BY <2>1, <2>2
<1>5. QED BY <1>2, <1>3, <1>4 DEF WsCalled, Shrinking, Reserving

LEMMA CallReturns ==
    ASSUME WsCalled, NEW t \in WsThreads, wsCall[t].at # "idle", wsLock' = wsLock, Returns(t)
    PROVE  WsCalled'
<1>1. PICK c : c = [WsIdle EXCEPT !.at = "return"]
    OBVIOUS
<1>2. c \in CallType /\ c.at = "return"
    <2>1. c = [at |-> "return", size |-> 0, place |-> 0, granules |-> 0, contiguous |-> FALSE, found |-> FALSE]
        BY <1>1 DEF WsIdle
    <2>2. QED BY <2>1 DEF CallType
<1>3. wsCall' = [wsCall EXCEPT ![t] = c]
    BY <1>1 DEF Returns
<1>4. Shrinking(c)' /\ Reserving(c)'
    BY <1>2 DEF Shrinking, Reserving
<1>5. QED BY <1>2, <1>3, <1>4, CallGoesOn

LEMMA SlWaitGood ==
    ASSUME WsInv, NEW t \in WsThreads, NEW size \in Int, NEW at \in {"sbrk", "mmap", "munmap"},
           at = "sbrk" /\ size < 0 => CanShrink(-size), SlWait(t, size, at)
    PROVE  WsInv'
<1>1. UNCHANGED <<wsRegions, wsTaken, wsGiven>> /\ wsLock = WsNone /\ wsLock' = t
    BY DEF SlWait
<1>2. PICK c : c = [WsIdle EXCEPT !.at = at, !.size = size]
    OBVIOUS
<1>3. c \in CallType /\ c.at = at /\ c.size = size
    <2>1. c = [at |-> at, size |-> size, place |-> 0, granules |-> 0, contiguous |-> FALSE, found |-> FALSE]
        BY <1>2 DEF WsIdle
    <2>2. QED BY <2>1 DEF CallType
<1>4. wsCall' = [wsCall EXCEPT ![t] = c]
    BY <1>2 DEF SlWait
<1>5. \A u \in WsThreads : wsCall[u].at = "idle"
    BY <1>1, WsNumbers DEF WsInv, WsCalled
<1>6. wsCall' \in [WsThreads -> CallType] /\ wsCall'[t] = c
      /\ \A u \in WsThreads : u # t => wsCall'[u] = wsCall[u]
    BY <1>3, <1>4 DEF WsInv, WsCalled
<1>7. Shrinking(c)' /\ Reserving(c)'
    <2>1. Shrinking(c)'
        BY <1>1, <1>3 DEF Shrinking, CanShrink, GLast
    <2>2. QED BY <1>3, <2>1 DEF Reserving
<1>8. ASSUME NEW u \in WsThreads PROVE Shrinking(wsCall[u])' /\ Reserving(wsCall[u])'
    <2>1. CASE u = t
        BY <1>6, <1>7, <2>1 DEF Shrinking, Reserving
    <2>2. CASE u # t
        BY <1>5, <1>6, <2>2 DEF Shrinking, Reserving
    <2>3. QED BY <2>1, <2>2
<1>9. WsCalled'
    BY <1>1, <1>5, <1>6, <1>8 DEF WsCalled, Shrinking, Reserving
<1>10. QED BY <1>1, <1>9 DEF WsInv, ListSound, ListApart, ListHolds, Granules

LEMMA SlReleaseGood ==
    ASSUME WsInv, NEW t \in WsThreads, SlRelease(t)
    PROVE  WsInv'
<1>1. UNCHANGED <<wsRegions, wsTaken, wsGiven>> /\ wsCall[t].at = "return" /\ wsLock' = WsNone
      /\ wsCall' = [wsCall EXCEPT ![t] = WsIdle]
    BY DEF SlRelease
<1>2. \A u \in WsThreads : u # t => wsCall[u].at = "idle"
    BY <1>1, OthersAreIdle DEF WsInv
<1>3. wsCall' \in [WsThreads -> CallType] /\ \A u \in WsThreads : wsCall'[u].at = "idle"
    BY <1>1, <1>2, WsIdleIs DEF WsInv, WsCalled
<1>4. WsCalled'
    BY <1>3 DEF WsCalled, Shrinking, Reserving
<1>5. QED BY <1>1, <1>4 DEF WsInv, ListSound, ListApart, ListHolds, Granules

LEMMA ListStays ==
    ASSUME WsInv, UNCHANGED <<wsRegions, wsGiven>>
    PROVE  ListSound(wsRegions)' /\ ListHolds(wsRegions, wsGiven)'
           /\ (wsTaken' = wsTaken => ListApart(wsRegions, wsTaken)')
BY DEF WsInv, ListSound, ListHolds, ListApart, Granules

LEMMA WsAbortsGood ==
    ASSUME WsInv, NEW t \in WsThreads, WsAborts(t)
    PROVE  WsInv'
BY DEF WsInv, WsAborts, ListSound, ListApart, ListHolds, Granules, WsCalled, Shrinking, Reserving,
       CanShrink, GLast

\* Granules that other code takes, by mmap too, are in no region.
LEMMA TakenApart ==
    ASSUME WsInv, wsRegions' = wsRegions,
           \/ \E g \in Reservable(0, 1) : wsTaken' = wsTaken \cup {g}
           \/ \E g \in wsTaken : wsTaken' = wsTaken \ {g}
    PROVE  ListApart(wsRegions, wsTaken)'
<1>1. \A i \in 1 .. Len(wsRegions) : Granules(wsRegions[i]) \cap wsTaken = {}
    BY DEF WsInv, ListApart
<1>2. CASE \E g \in Reservable(0, 1) : wsTaken' = wsTaken \cup {g}
    <2>1. PICK g \in Reservable(0, 1) : wsTaken' = wsTaken \cup {g}
        BY <1>2
    <2>2. g \in Int /\ FreeFrom(g, 1)
        BY DEF Reservable
    <2>3. g \in g .. g + 1 - 1
        BY <2>2
    <2>4. g \in Unreserved
        BY <2>2, <2>3 DEF FreeFrom
    <2>5. wsRegions \in Seq(Region)
        BY DEF WsInv, ListSound
    <2>6. \A i \in 1 .. Len(wsRegions) : g \notin Granules(wsRegions[i])
        BY <2>4, <2>5 DEF Unreserved, ToSet
    <2>7. QED BY <1>1, <2>1, <2>6 DEF ListApart, Granules
<1>3. CASE \E g \in wsTaken : wsTaken' = wsTaken \ {g}
    BY <1>1, <1>3 DEF ListApart, Granules
<1>4. QED BY <1>2, <1>3

LEMMA OtherCodeGood ==
    ASSUME WsInv, OtherCode
    PROVE  WsInv'
<1>1. UNCHANGED <<wsRegions, wsLock, wsCall, wsGiven>>
    BY DEF OtherCode
<1>2. ListApart(wsRegions, wsTaken)'
    BY <1>1, TakenApart DEF OtherCode
<1>3. WsCalled'
    BY <1>1 DEF WsInv, WsCalled, Shrinking, Reserving, CanShrink, GLast
<1>4. QED BY <1>1, <1>2, <1>3, ListStays DEF WsInv

LEMMA WsMapGood ==
    ASSUME WsInv, NEW t \in WsThreads, WsMmap(t) \/ WsMunmap(t)
    PROVE  WsInv'
<1>1. UNCHANGED <<wsRegions, wsLock, wsGiven>> /\ Returns(t) /\ wsCall[t].at # "idle"
    BY DEF WsMmap, WsMunmap
<1>2. ListApart(wsRegions, wsTaken)'
    BY <1>1, TakenApart DEF WsMmap, WsMunmap
<1>3. WsCalled'
    BY <1>1, CallReturns DEF WsInv
<1>4. QED BY <1>1, <1>2, <1>3, ListStays DEF WsInv

LEMMA SbrkRetriesGood ==
    ASSUME WsInv, NEW t \in WsThreads, SbrkRetries(t)
    PROVE  WsInv'
<1>1. UNCHANGED <<wsRegions, wsTaken, wsLock, wsGiven>> /\ wsCall[t].at = "reserve"
      /\ wsCall' = [wsCall EXCEPT ![t].at = "sbrk"]
    BY DEF SbrkRetries
<1>2. wsCall[t] \in CallType /\ Reserving(wsCall[t]) /\ wsCall \in [WsThreads -> CallType]
    BY DEF WsInv, WsCalled
<1>3. PICK c : c = [wsCall[t] EXCEPT !.at = "sbrk"]
    OBVIOUS
<1>4. c \in CallType /\ c.at = "sbrk" /\ c.size = wsCall[t].size
    BY <1>2, <1>3 DEF CallType
<1>5. wsCall' = [wsCall EXCEPT ![t] = c]
    BY <1>1, <1>3
<1>6. c.size \in Nat
    BY <1>1, <1>2, <1>4 DEF Reserving
<1>7. Shrinking(c)' /\ Reserving(c)'
    BY <1>4, <1>6 DEF Shrinking, Reserving
<1>8. WsCalled'
    BY <1>1, <1>4, <1>5, <1>7, CallGoesOn DEF WsInv
<1>9. QED BY <1>1, <1>8, ListStays DEF WsInv

\* The last region after Extends, if the pages it commits are in the region.
Extended(x, r, size) ==
    RegionSound(x) /\ x.base = r.base /\ x.top = r.top /\ x.allocated = r.allocated + size

LEMMA ExtendsIs ==
    ASSUME NEW s, ListSound(s), NEW size \in Nat, NEW asked \in Int,
           ToCommit(Last(s), size) > 0 =>
              Last(s).committed + Ceil(ToCommit(Last(s), size), WsPage) <= Last(s).top,
           Extends(s, size, asked)
    PROVE  \E x : /\ Extended(x, Last(s), size) /\ wsRegions' = [s EXCEPT ![Len(s)] = x]
                  /\ wsGiven' = wsGiven \cup (x.allocated - asked .. x.allocated - 1)
<1>0. PICK r : r = Last(s)
    OBVIOUS
<1>1. RegionSound(r) /\ r \in Region
    BY <1>0, ListLast DEF RegionSound
<1>2. PICK need \in Int : need = ToCommit(r, size) /\ need = r.allocated + size - r.committed
    BY <1>1 DEF ToCommit, Region
<1>3. PICK pages \in Int : pages = Ceil(need, WsPage) /\ pages >= need /\ pages % WsPage = 0
    BY RoundedUpIs, WsNumbers
<1>4. PICK grown : grown = [r EXCEPT !.allocated = @ + size, !.committed = @ + pages]
    OBVIOUS
<1>5. PICK x : x = IF need > 0 THEN grown ELSE [grown EXCEPT !.committed = r.committed]
    OBVIOUS
<1>6. wsRegions' = [s EXCEPT ![Len(s)] = x] /\ wsGiven' = wsGiven \cup (x.allocated - asked .. x.allocated - 1)
    BY <1>0, <1>2, <1>3, <1>4, <1>5 DEF Extends
<1>7. r.base \in Int /\ r.allocated \in Int /\ r.committed \in Int /\ r.top \in Int
    BY <1>1 DEF Region
<1>8. CASE need > 0
    <2>1. x = [base |-> r.base, allocated |-> r.allocated + size, committed |-> r.committed + pages, top |-> r.top]
        BY <1>1, <1>4, <1>5, <1>8 DEF Region
    <2>2. x \in Region
        BY <1>7, <2>1 DEF Region
    <2>3. r.committed + pages <= r.top
        BY <1>0, <1>2, <1>3, <1>8
    <2>4. (r.committed + pages) % WsPage = 0
        BY <1>1, <1>3, <1>7, MultiplesAdd, WsNumbers DEF RegionSound
    <2>5. RegionSound(x)
        BY <1>1, <1>2, <1>3, <1>7, <2>1, <2>2, <2>3, <2>4 DEF RegionSound
    <2>6. QED BY <1>0, <1>6, <2>1, <2>5 DEF Extended
<1>9. CASE ~ (need > 0)
    <2>1. x = [base |-> r.base, allocated |-> r.allocated + size, committed |-> r.committed, top |-> r.top]
        BY <1>1, <1>4, <1>5, <1>9 DEF Region
    <2>2. x \in Region
        BY <1>7, <2>1 DEF Region
    <2>3. RegionSound(x)
        BY <1>1, <1>2, <1>7, <1>9, <2>1, <2>2 DEF RegionSound
    <2>4. QED BY <1>0, <1>6, <2>1, <2>3 DEF Extended
<1>10. QED BY <1>8, <1>9

LEMMA SbrkHereGood ==
    ASSUME WsInv, NEW t \in WsThreads, SbrkHere(t)
    PROVE  WsInv'
<1>0. PICK s : s = wsRegions
    OBVIOUS
<1>1. PICK r : r = Last(s)
    OBVIOUS
<1>2. PICK size \in Nat : size = wsCall[t].size
    <2>1. wsCall[t].size \in Int /\ wsCall[t].size >= 0
        BY DEF WsInv, WsCalled, CallType, SbrkHere
    <2>2. QED BY <2>1
<1>3. ListSound(s) /\ ListApart(s, wsTaken) /\ ListHolds(s, wsGiven)
    BY <1>0 DEF WsInv
<1>4. RegionSound(r) /\ r.base \in Int /\ r.allocated \in Int /\ r.committed \in Int /\ r.top \in Int
    BY <1>1, <1>3, ListLast DEF RegionSound, Region
<1>5. ToCommit(r, size) > 0 => r.committed + Ceil(ToCommit(r, size), WsPage) <= r.top
    <2>1. PICK need \in Int : need = ToCommit(r, size)
        BY <1>4 DEF ToCommit
    <2>2. PICK pages \in Int : pages = Ceil(need, WsPage)
        BY RoundedUpIs, WsNumbers
    <2>3. need <= 0 \/ r.committed + pages - r.top <= 0
        BY <1>0, <1>1, <1>2, <2>1, <2>2 DEF SbrkHere, GLast, ToReserve
    <2>4. QED BY <1>4, <2>1, <2>2, <2>3
<1>6. Extends(s, size, size)
    BY <1>0, <1>2 DEF SbrkHere
<1>7. PICK x : /\ Extended(x, r, size) /\ wsRegions' = [s EXCEPT ![Len(s)] = x]
               /\ wsGiven' = wsGiven \cup (x.allocated - size .. x.allocated - 1)
    BY <1>1, <1>3, <1>5, <1>6, ExtendsIs
<1>8. RegionSound(x) /\ x.base = r.base /\ x.top = r.top /\ x.allocated = r.allocated + size
    BY <1>7 DEF Extended
<1>9. PICK w : w = [s EXCEPT ![Len(s)] = x]
    OBVIOUS
<1>10. ListSound(w) /\ Last(w) = x /\ Len(w) = Len(s) /\ ListApart(w, wsTaken)
    BY <1>1, <1>3, <1>8, <1>9, LastReplaced
<1>11. ListHolds(w, wsGiven)
    <2>1. x.allocated >= r.allocated
        BY <1>4, <1>8
    <2>2. QED BY <1>1, <1>3, <1>8, <1>9, <2>1, LastGrown
<1>12. ListHolds(w, wsGiven')
    <2>1. PICK new : new = (x.allocated - size .. x.allocated - 1)
        OBVIOUS
    <2>2. x.allocated \in Int
        BY <1>4, <1>8
    <2>3. \A b \in new : b \in Int /\ x.base <= b /\ b < x.allocated
        BY <1>4, <1>8, <2>1, <2>2 DEF RegionSound
    <2>4. Len(w) \in 1 .. Len(w) /\ w[Len(w)] = x
        BY <1>10, ListLast
    <2>5. QED BY <1>7, <1>11, <2>1, <2>3, <2>4 DEF ListHolds
<1>13. UNCHANGED <<wsTaken, wsLock>> /\ Returns(t) /\ wsCall[t].at # "idle"
    BY DEF SbrkHere
<1>14. WsCalled'
    BY <1>13, CallReturns DEF WsInv
<1>15. wsRegions' = w
    BY <1>7, <1>9
<1>16. QED BY <1>10, <1>12, <1>13, <1>14, <1>15 DEF WsInv, ListSound, ListApart, ListHolds, Granules

\* So many granules have room for the pages that are needed.
RoomFor(n, size) == n \in Int /\ Ceil(size, WsPage) <= n * WsGranule

LEMMA RoomIs ==
    ASSUME NEW bytes \in Int, NEW size \in Int, size <= bytes
    PROVE  RoomFor(Ceil(bytes, WsGranule) \div WsGranule, size)
<1>0. WsPage \in Nat \ {0} /\ WsGranule \in Nat \ {0} /\ WsGranule % WsPage = 0
    BY WsNumbers
<1>1. PICK m \in Int : m = Ceil(bytes, WsGranule) /\ bytes <= m /\ m % WsGranule = 0
    BY <1>0, RoundedUpIs
<1>2. PICK n \in Int : n = m \div WsGranule /\ m = n * WsGranule
    BY <1>0, <1>1, TimesItsQuotient
<1>3. m % WsPage = 0
    <2>1. (n * WsGranule) % WsPage = 0
        BY <1>0, MultipleOfMultiple
    <2>2. QED BY <1>2, <2>1
<1>4. Ceil(size, WsPage) <= m
    BY <1>0, <1>1, <1>3, RoundedUpIsLeast
<1>5. QED BY <1>1, <1>2, <1>4 DEF RoomFor

LEMMA TopInPages ==
    ASSUME NEW r, RegionSound(r)
    PROVE  r.top % WsPage = 0
<1>1. PICK top \in Int : top = r.top /\ top % WsGranule = 0
    BY DEF RegionSound, Region
<1>2. PICK k \in Int : top = k * WsGranule
    BY <1>1, WsNumbers, TimesItsQuotient
<1>3. QED BY <1>1, <1>2, WsNumbers, MultipleOfMultiple

\* What is missing when the last region is too short.
LEMMA MissingBytes ==
    ASSUME NEW r, RegionSound(r), NEW size \in Nat, ToReserve(r, size) > 0
    PROVE  /\ r.allocated + size > r.top
           /\ ToReserve(r, size) \in Int /\ size - (r.top - r.allocated) <= ToReserve(r, size)
<1>1. r.base \in Int /\ r.allocated \in Int /\ r.committed \in Int /\ r.top \in Int
    BY DEF RegionSound, Region
<1>2. PICK need \in Int : need = ToCommit(r, size) /\ need = r.allocated + size - r.committed
    BY <1>1 DEF ToCommit
<1>3. PICK pages \in Int : pages = Ceil(need, WsPage) /\ need <= pages
    BY RoundedUpIs, WsNumbers
<1>4. ToReserve(r, size) = r.committed + pages - r.top
    BY <1>2, <1>3 DEF ToReserve
<1>5. r.allocated + size > r.top
    <2>1. SUFFICES ASSUME r.allocated + size <= r.top PROVE FALSE
        BY <1>1
    <2>2. PICK gap \in Int : gap = r.top - r.committed
        BY <1>1
    <2>3. need <= gap
        BY <1>1, <1>2, <2>1, <2>2
    <2>4. gap % WsPage = 0
        BY <1>1, <2>2, TopInPages, MultiplesAdd, WsNumbers DEF RegionSound
    <2>5. pages <= gap
        BY <1>3, <2>3, <2>4, RoundedUpIsLeast, WsNumbers
    <2>6. QED BY <1>1, <1>4, <2>2, <2>5
<1>6. QED BY <1>1, <1>2, <1>3, <1>4, <1>5

\* The place that a search in the granules behind yields.
LEMMA LowestPlace ==
    ASSUME NEW g \in Int, NEW n, Places(g, n) # {},
           NEW k, k = CHOOSE i \in Places(g, n) : \A j \in Places(g, n) : i <= j
    PROVE  k \in Int /\ k > g
<1>1. Places(g, n) \subseteq Nat
    BY DEF Places, Unreserved
<1>2. \E i \in Places(g, n) : \A j \in Places(g, n) : i <= j
    BY <1>1, LeastNatural
<1>3. k \in Places(g, n)
    BY <1>2
<1>4. QED BY <1>1, <1>3 DEF Places

\* What a search writes down.
Sought(t, place, n, contiguous) ==
    /\ wsRegions' = WithLast([GLast EXCEPT !.committed = GLast.top])
    /\ wsCall' = [wsCall EXCEPT ![t] = [@ EXCEPT !.at = "reserve", !.place = place, !.granules = n,
                                                 !.contiguous = contiguous, !.found = TRUE]]

LEMMA SoughtGood ==
    ASSUME WsInv, NEW t \in WsThreads, SbrkSearches(t), NEW place \in Int, NEW n, NEW contiguous \in BOOLEAN,
           Sought(t, place, n, contiguous),
           contiguous => /\ place = GLast.top \div WsGranule
                         /\ RoomFor(n, wsCall[t].size - (GLast.top - GLast.allocated)),
           ~contiguous => /\ place > GLast.top \div WsGranule \/ place = WsGranules
                          /\ RoomFor(n, wsCall[t].size)
    PROVE  WsInv'
<1>0. PICK s : s = wsRegions
    OBVIOUS
<1>1. PICK r : r = Last(s) /\ r = GLast
    BY <1>0 DEF GLast
<1>2. ListSound(s) /\ ListApart(s, wsTaken) /\ ListHolds(s, wsGiven)
    BY <1>0 DEF WsInv
<1>3. RegionSound(r) /\ r \in Region /\ r.base \in Int /\ r.allocated \in Int /\ r.committed \in Int /\ r.top \in Int
    BY <1>1, <1>2, ListLast DEF RegionSound, Region
<1>4. PICK x : x = [r EXCEPT !.committed = r.top]
    OBVIOUS
<1>5. x = [base |-> r.base, allocated |-> r.allocated, committed |-> r.top, top |-> r.top]
    BY <1>3, <1>4 DEF Region
<1>6. RegionSound(x)
    <2>1. x \in Region
        BY <1>3, <1>5 DEF Region
    <2>2. r.top % WsPage = 0
        BY <1>3, TopInPages
    <2>3. QED BY <1>3, <1>5, <2>1, <2>2 DEF RegionSound
<1>7. wsRegions' = [s EXCEPT ![Len(s)] = x]
    BY <1>0, <1>1, <1>4 DEF Sought, WithLast
<1>8. x.base = r.base /\ x.top = r.top /\ x.allocated = r.allocated /\ x.allocated >= r.allocated
    BY <1>3, <1>5
<1>9. PICK w : w = [s EXCEPT ![Len(s)] = x]
    OBVIOUS
<1>10. ListSound(w) /\ Last(w) = x /\ ListApart(w, wsTaken) /\ ListHolds(w, wsGiven)
    <2>1. ListSound(w) /\ Last(w) = x /\ ListApart(w, wsTaken)
        BY <1>1, <1>2, <1>6, <1>8, <1>9, LastReplaced
    <2>2. QED BY <1>1, <1>2, <1>6, <1>8, <1>9, <2>1, LastGrown
<1>11. wsRegions' = w /\ GLast' = x
    BY <1>7, <1>9, <1>10 DEF GLast
<1>12. UNCHANGED <<wsTaken, wsLock, wsGiven>> /\ wsCall[t].at = "sbrk"
    BY DEF SbrkSearches
<1>13. wsCall[t] \in CallType /\ wsCall \in [WsThreads -> CallType]
    BY DEF WsInv, WsCalled
<1>14. PICK size \in Nat : size = wsCall[t].size
    <2>1. wsCall[t].size \in Int /\ wsCall[t].size >= 0
        BY <1>13 DEF CallType, SbrkSearches
    <2>2. QED BY <2>1
<1>15. n \in Int
    BY DEF RoomFor
<1>16. PICK c : c = [wsCall[t] EXCEPT !.at = "reserve", !.place = place, !.granules = n,
                                     !.contiguous = contiguous, !.found = TRUE]
    OBVIOUS
<1>17. c \in CallType /\ c.at = "reserve" /\ c.size = size /\ c.place = place /\ c.granules = n
       /\ c.contiguous = contiguous
    BY <1>13, <1>14, <1>15, <1>16 DEF CallType
<1>18. wsCall' = [wsCall EXCEPT ![t] = c]
    BY <1>16 DEF Sought
<1>19. x.allocated + size > x.top
    <2>1. ToReserve(r, size) > 0
        BY <1>1, <1>14 DEF SbrkSearches
    <2>2. QED BY <1>3, <1>8, <2>1, MissingBytes
<1>20. Reserving(c)'
    <2>1. c.size \in Nat /\ GLast'.committed = GLast'.top /\ GLast'.allocated + c.size > GLast'.top
        BY <1>5, <1>11, <1>17, <1>19
    <2>2. contiguous => /\ place = x.top \div WsGranule
                        /\ Ceil(size - (x.top - x.allocated), WsPage) <= n * WsGranule
        BY <1>1, <1>8, <1>14 DEF RoomFor
    <2>3. ~contiguous => /\ place > x.top \div WsGranule \/ place = WsGranules
                         /\ Ceil(size, WsPage) <= n * WsGranule
        BY <1>1, <1>8, <1>14 DEF RoomFor
    <2>4. QED BY <1>11, <1>17, <2>1, <2>2, <2>3 DEF Reserving
<1>21. Shrinking(c)'
    BY <1>17 DEF Shrinking
<1>22. WsCalled'
    BY <1>12, <1>17, <1>18, <1>20, <1>21, CallGoesOn DEF WsInv
<1>23. QED BY <1>10, <1>11, <1>12, <1>22 DEF WsInv, ListSound, ListApart, ListHolds, Granules

LEMMA SbrkSearchesGood ==
    ASSUME WsInv, NEW t \in WsThreads, SbrkSearches(t)
    PROVE  WsInv'
<1>0. PICK r : r = GLast
    OBVIOUS
<1>1. RegionSound(r) /\ r.top \in Int /\ r.allocated \in Int
    BY <1>0, ListLast DEF WsInv, GLast, RegionSound, Region
<1>2. PICK size \in Nat : size = wsCall[t].size
    <2>1. wsCall[t].size \in Int /\ wsCall[t].size >= 0
        BY DEF WsInv, WsCalled, CallType, SbrkSearches
    <2>2. QED BY <2>1
<1>3. PICK g \in Int : g = r.top \div WsGranule
    BY <1>1, WsNumbers
<1>4. ToReserve(r, size) > 0
    BY <1>0, <1>2 DEF SbrkSearches
<1>5. PICK near : near = Ceil(ToReserve(r, size), WsGranule) \div WsGranule
    OBVIOUS
<1>6. PICK far : far = Ceil(size, WsGranule) \div WsGranule
    OBVIOUS
<1>7. RoomFor(near, size - (r.top - r.allocated)) /\ RoomFor(far, size)
    <2>1. PICK need \in Int : need = ToReserve(r, size) /\ size - (r.top - r.allocated) <= need
        BY <1>1, <1>4, MissingBytes
    <2>2. PICK less \in Int : less = size - (r.top - r.allocated)
        BY <1>1
    <2>3. RoomFor(near, less)
        BY <1>5, <2>1, <2>2, RoomIs
    <2>4. RoomFor(far, size)
        BY <1>6, RoomIs
    <2>5. QED BY <2>2, <2>3, <2>4
<1>8. PICK k : k = CHOOSE i \in Places(g, far) : \A j \in Places(g, far) : i <= j
    OBVIOUS
<1>9. \/ Sought(t, g, near, TRUE)
      \/ Places(g, far) # {} /\ Sought(t, k, far, FALSE)
      \/ Sought(t, WsGranules, far, FALSE)
      \/ UNCHANGED <<wsRegions, wsTaken, wsLock, wsCall, wsGiven>>
    BY <1>0, <1>2, <1>3, <1>5, <1>6, <1>8 DEF SbrkSearches, Sought
<1>10. CASE Sought(t, g, near, TRUE)
    BY <1>0, <1>2, <1>3, <1>7, <1>10, SoughtGood
<1>11. CASE Places(g, far) # {} /\ Sought(t, k, far, FALSE)
    <2>1. k \in Int /\ k > g
        BY <1>8, <1>11, LowestPlace
    <2>2. QED BY <1>0, <1>2, <1>3, <1>7, <1>11, <2>1, SoughtGood
<1>12. CASE Sought(t, WsGranules, far, FALSE)
    <2>1. WsGranules \in Int
        BY WsAssumption
    <2>2. QED BY <1>2, <1>7, <1>12, <2>1, SoughtGood
<1>13. CASE UNCHANGED <<wsRegions, wsTaken, wsLock, wsCall, wsGiven>>
    BY <1>13 DEF WsInv, ListSound, ListApart, ListHolds, Granules, WsCalled, Shrinking, Reserving,
                 CanShrink, GLast
<1>14. QED BY <1>9, <1>10, <1>11, <1>12, <1>13

\* A granule of a region is one of those reserved for it.
LEMMA NewGranules ==
    ASSUME NEW g \in Int, NEW n \in Int, FreeFrom(g, n),
           NEW r, r.base = g * WsGranule, r.top = g * WsGranule + n * WsGranule
    PROVE  Granules(r) \cap wsTaken = {}
<1>0. WsGranule \in Nat \ {0}
    BY WsNumbers
<1>1. ASSUME NEW h \in Granules(r) PROVE h \notin wsTaken
    <2>1. h \in Int
        BY DEF Granules
    <2>2. g * WsGranule <= h * WsGranule /\ h * WsGranule < g * WsGranule + n * WsGranule
        BY DEF Granules
    <2>3. PICK m \in Int : m = g + n
        OBVIOUS
    <2>4. g * WsGranule + n * WsGranule = m * WsGranule
        BY <1>0, <2>3
    <2>5. g <= h
        BY <1>0, <2>1, <2>2, TimesCancels
    <2>6. h < m
        <3>1. h * WsGranule < m * WsGranule
            BY <2>2, <2>4
        <3>2. QED BY <1>0, <2>1, <3>1, TimesCancels
    <2>7. h \in g .. g + n - 1
        BY <2>1, <2>3, <2>5, <2>6
    <2>8. QED BY <2>7 DEF FreeFrom, Unreserved
<1>2. QED BY <1>1

\* The new region lies behind the last one, and right behind it if the bytes left in
\* that one are to be used.
LEMMA NewPlace ==
    ASSUME NEW r, RegionSound(r), NEW place \in Int, NEW contiguous \in BOOLEAN,
           NEW g \in 1 .. WsGranules - 1, place = 0 \/ g = place,
           contiguous => place = r.top \div WsGranule,
           ~contiguous => place > r.top \div WsGranule \/ place = WsGranules,
           r.committed = r.top
    PROVE  /\ r.top <= g * WsGranule
           /\ contiguous => r.top = r.allocated \/ g * WsGranule = r.top
<1>0. WsGranule \in Nat \ {0} /\ WsGranules \in Nat
    BY WsNumbers, WsAssumption
<1>1. PICK top \in Int : top = r.top /\ top % WsGranule = 0 /\ top >= 0
    BY DEF RegionSound, Region
<1>2. PICK k \in Int : k = top \div WsGranule /\ top = k * WsGranule
    BY <1>0, <1>1, TimesItsQuotient
<1>3. k >= 0
    <2>1. 0 * WsGranule <= k * WsGranule
        BY <1>0, <1>1, <1>2
    <2>2. QED BY <1>0, <2>1, TimesCancels
<1>4. g \in Int /\ g >= 1 /\ g < WsGranules
    BY <1>0
<1>5. CASE contiguous
    <2>1. place = k
        BY <1>1, <1>2, <1>5
    <2>2. CASE place = 0
        <3>1. top = 0
            BY <1>0, <1>2, <2>1, <2>2
        <3>2. 0 * WsGranule <= g * WsGranule
            BY <1>0, <1>4, TimesCancels
        <3>3. r.top = r.allocated
            BY <1>1, <3>1 DEF RegionSound, Region
        <3>4. 0 <= g * WsGranule
            BY <1>0, <3>2
        <3>5. QED BY <1>1, <3>1, <3>3, <3>4
    <2>3. CASE g = place
        <3>1. g * WsGranule = r.top
            BY <1>1, <1>2, <2>1, <2>3
        <3>2. QED BY <1>1, <3>1
    <2>4. QED BY <2>2, <2>3
<1>6. CASE ~contiguous
    <2>1. place > k \/ place = WsGranules
        BY <1>1, <1>2, <1>6
    <2>2. g > k
        BY <1>0, <1>3, <1>4, <2>1
    <2>3. k * WsGranule <= g * WsGranule
        BY <1>0, <1>4, <2>2, TimesCancels
    <2>4. QED BY <1>1, <1>2, <1>6, <2>3
<1>7. QED BY <1>5, <1>6

\* A region of so many granules, of which no byte is used yet.
LEMMA NewRegion ==
    ASSUME NEW g \in Nat, NEW n \in Int, NEW need \in Nat \ {0}, RoomFor(n, need)
    PROVE  LET r == RegionAt(g * WsGranule, n * WsGranule) IN
           /\ RegionSound(r) /\ r.base = g * WsGranule /\ r.allocated = r.base
           /\ r.committed = r.base /\ r.top = g * WsGranule + n * WsGranule
           /\ r.committed + Ceil(ToCommit(r, need), WsPage) <= r.top
<1>0. WsPage \in Nat \ {0} /\ WsGranule \in Nat \ {0} /\ WsGranule % WsPage = 0
    BY WsNumbers
<1>1. PICK r : r = RegionAt(g * WsGranule, n * WsGranule)
    OBVIOUS
<1>2. PICK base \in Int : base = g * WsGranule
    BY <1>0
<1>3. PICK size \in Int : size = n * WsGranule
    BY <1>0
<1>4. r = [base |-> base, allocated |-> base, committed |-> base, top |-> base + size]
    BY <1>1, <1>2, <1>3 DEF RegionAt
<1>5. PICK pages \in Int : pages = Ceil(need, WsPage) /\ need <= pages
    BY <1>0, RoundedUpIs
<1>6. pages <= size
    BY <1>3, <1>5 DEF RoomFor
<1>7. base >= 0
    <2>1. 0 * WsGranule <= g * WsGranule
        BY <1>0, TimesCancels
    <2>2. QED BY <1>0, <1>2, <2>1
<1>8. base % WsPage = 0
    <2>1. PICK k \in Int : k = g
        OBVIOUS
    <2>2. (k * WsGranule) % WsPage = 0
        BY <1>0, MultipleOfMultiple
    <2>3. QED BY <1>2, <2>1, <2>2
<1>9. (base + size) % WsGranule = 0
    <2>1. (g * WsGranule) % WsGranule = 0 /\ (n * WsGranule) % WsGranule = 0
        BY <1>0, MultipleIs DEF RoomFor
    <2>2. base % WsGranule = 0 /\ size % WsGranule = 0
        BY <1>2, <1>3, <2>1
    <2>3. QED BY <1>0, <2>2, MultiplesAdd
<1>10. RegionSound(r)
    <2>1. r \in Region
        BY <1>4 DEF Region
    <2>2. base <= base + size
        BY <1>5, <1>6
    <2>3. QED BY <1>4, <1>7, <1>8, <1>9, <2>1, <2>2 DEF RegionSound
<1>11. ToCommit(r, need) = need
    BY <1>4 DEF ToCommit
<1>12. r.committed + Ceil(ToCommit(r, need), WsPage) <= r.top
    BY <1>4, <1>5, <1>6, <1>11
<1>13. QED BY <1>1, <1>2, <1>3, <1>4, <1>10, <1>12

\* The bytes given out lie in the new region and, if it is contiguous, in what was left
\* in the one before it.
LEMMA SbrkReservesGood ==
    ASSUME WsInv, NEW t \in WsThreads, SbrkReserves(t)
    PROVE  WsInv'
<1>0. PICK s : s = wsRegions
    OBVIOUS
<1>1. PICK r : r = Last(s) /\ r = GLast
    BY <1>0 DEF GLast
<1>2. ListSound(s) /\ ListApart(s, wsTaken) /\ ListHolds(s, wsGiven)
    BY <1>0 DEF WsInv
<1>3. RegionSound(r) /\ r \in Region /\ r.base \in Int /\ r.allocated \in Int /\ r.committed \in Int /\ r.top \in Int
    BY <1>1, <1>2, ListLast DEF RegionSound, Region
<1>4. PICK c \in CallType : c = wsCall[t]
    BY DEF WsInv, WsCalled
<1>5. c.at = "reserve" /\ c.place \in Int /\ c.granules \in Int /\ c.contiguous \in BOOLEAN
    BY <1>4 DEF SbrkReserves, CallType
<1>6. Reserving(c)
    BY <1>4 DEF WsInv, WsCalled
<1>7. PICK size \in Nat : size = c.size
    BY <1>5, <1>6 DEF Reserving
<1>8. r.committed = r.top /\ r.allocated + size > r.top
    BY <1>1, <1>5, <1>6, <1>7 DEF Reserving
<1>9. PICK left \in Int : left = IF c.contiguous THEN r.committed - r.allocated ELSE 0
    BY <1>3
<1>10. PICK g \in Reservable(c.place, c.granules) :
          Extends(Append(WithLast([r EXCEPT !.allocated = @ + left]), RegionAt(g * WsGranule, c.granules * WsGranule)),
                  size - left, size)
    BY <1>1, <1>4, <1>7, <1>9 DEF SbrkReserves
<1>11. g \in 1 .. WsGranules - 1 /\ FreeFrom(g, c.granules) /\ (c.place = 0 \/ g = c.place)
    BY DEF Reservable
<1>12. g \in Nat
    BY <1>11, WsAssumption
<1>13. PICK need \in Nat \ {0} : need = size - left
    BY <1>3, <1>8, <1>9 DEF RegionSound
<1>14. RoomFor(c.granules, need)
    <2>1. CASE c.contiguous
        <3>1. need = size - (r.top - r.allocated)
            BY <1>3, <1>8, <1>9, <1>13, <2>1
        <3>2. QED BY <1>1, <1>5, <1>6, <1>7, <2>1, <3>1 DEF Reserving, RoomFor
    <2>2. CASE ~c.contiguous
        <3>1. need = size
            BY <1>9, <1>13, <2>2
        <3>2. QED BY <1>1, <1>5, <1>6, <1>7, <2>2, <3>1 DEF Reserving, RoomFor
    <2>3. QED BY <2>1, <2>2
<1>15. PICK z : z = RegionAt(g * WsGranule, c.granules * WsGranule)
    OBVIOUS
<1>16. /\ RegionSound(z) /\ z.base = g * WsGranule /\ z.allocated = z.base
       /\ z.top = g * WsGranule + c.granules * WsGranule
       /\ z.committed + Ceil(ToCommit(z, need), WsPage) <= z.top
    BY <1>5, <1>12, <1>14, <1>15, NewRegion
<1>17. /\ r.top <= z.base
       /\ c.contiguous => r.top = r.allocated \/ z.base = r.top
    <2>1. c.contiguous => c.place = r.top \div WsGranule
        BY <1>1, <1>5, <1>6 DEF Reserving
    <2>2. ~c.contiguous => c.place > r.top \div WsGranule \/ c.place = WsGranules
        BY <1>1, <1>5, <1>6 DEF Reserving
    <2>3. /\ r.top <= g * WsGranule
          /\ c.contiguous => r.top = r.allocated \/ g * WsGranule = r.top
        BY <1>3, <1>5, <1>8, <1>11, <2>1, <2>2, NewPlace
    <2>4. QED BY <1>16, <2>3
<1>18. PICK f : f = [r EXCEPT !.allocated = @ + left]
    OBVIOUS
<1>19. f = [base |-> r.base, allocated |-> r.allocated + left, committed |-> r.committed, top |-> r.top]
    BY <1>3, <1>18 DEF Region
<1>20. left >= 0 /\ r.allocated + left <= r.committed
    BY <1>3, <1>9 DEF RegionSound
<1>21. RegionSound(f) /\ f.base = r.base /\ f.top = r.top /\ f.allocated = r.allocated + left /\ f.allocated >= r.allocated
    <2>1. f \in Region
        BY <1>3, <1>19 DEF Region
    <2>2. r.base <= r.allocated + left
        BY <1>3, <1>20 DEF RegionSound
    <2>3. RegionSound(f)
        BY <1>3, <1>19, <1>20, <2>1, <2>2 DEF RegionSound
    <2>4. QED BY <1>3, <1>19, <1>20, <2>3
<1>22. PICK v : v = [s EXCEPT ![Len(s)] = f]
    OBVIOUS
<1>23. ListSound(v) /\ Last(v) = f /\ ListApart(v, wsTaken) /\ ListHolds(v, wsGiven)
    <2>1. ListSound(v) /\ Last(v) = f /\ ListApart(v, wsTaken)
        BY <1>1, <1>2, <1>21, <1>22, LastReplaced
    <2>2. QED BY <1>1, <1>2, <1>21, <1>22, <2>1, LastGrown
<1>24. PICK w : w = Append(v, z)
    OBVIOUS
<1>25. /\ ListSound(w) /\ Last(w) = z /\ Len(w) = Len(v) + 1 /\ ListApart(w, wsTaken)
       /\ \A i \in 1 .. Len(v) : w[i] = v[i]
    <2>1. z.base >= Last(v).top
        <3>1. z.base \in Int /\ r.top \in Int
            BY <1>3, <1>16 DEF RegionSound, Region
        <3>2. QED BY <1>17, <1>21, <1>23, <3>1
    <2>2. Granules(z) \cap wsTaken = {}
        BY <1>5, <1>11, <1>12, <1>16, NewGranules
    <2>3. /\ ListSound(w) /\ Last(w) = z /\ Len(w) = Len(v) + 1
          /\ \A i \in 1 .. Len(v) : w[i] = v[i]
          /\ \A taken : ListApart(v, taken) /\ Granules(z) \cap taken = {} => ListApart(w, taken)
        <3>1. RegionSound(z) /\ ListSound(v)
            BY <1>16, <1>23
        <3>2. QED BY <1>24, <2>1, <3>1, RegionAdded
    <2>4. ListApart(w, wsTaken)
        BY <1>23, <2>2, <2>3
    <2>5. QED BY <2>3, <2>4
<1>26. Extends(w, need, size)
    BY <1>0, <1>10, <1>13, <1>15, <1>18, <1>22, <1>24 DEF WithLast
<1>27. PICK x : /\ Extended(x, z, need) /\ wsRegions' = [w EXCEPT ![Len(w)] = x]
                /\ wsGiven' = wsGiven \cup (x.allocated - size .. x.allocated - 1)
    BY <1>16, <1>25, <1>26, ExtendsIs
<1>28. RegionSound(x) /\ x.base = z.base /\ x.top = z.top /\ x.allocated = z.base + need
    BY <1>16, <1>27 DEF Extended
<1>29. z.base \in Int /\ x.allocated \in Int
    BY <1>16, <1>28 DEF RegionSound, Region
<1>30. PICK y : y = [w EXCEPT ![Len(w)] = x]
    OBVIOUS
<1>31. ListSound(y) /\ Last(y) = x /\ Len(y) = Len(w) /\ ListApart(y, wsTaken)
    BY <1>25, <1>28, <1>30, LastReplaced
<1>32. \A i \in 1 .. Len(v) : i \in 1 .. Len(y) /\ y[i] = v[i]
    <2>1. Len(v) \in Nat /\ w \in Seq(Region) /\ Len(w) = Len(v) + 1
        BY <1>23, <1>25, ListLast DEF ListSound
    <2>2. QED BY <1>25, <1>30, <1>31, <2>1
<1>33. ListHolds(y, wsGiven')
    <2>1. wsGiven \subseteq Int /\ \A b \in wsGiven : \E i \in 1 .. Len(v) : v[i].base <= b /\ b < v[i].allocated
        BY <1>23 DEF ListHolds
    <2>2. \A b \in wsGiven : \E i \in 1 .. Len(y) : y[i].base <= b /\ b < y[i].allocated
        BY <1>32, <2>1
    <2>3. ASSUME NEW b \in x.allocated - size .. x.allocated - 1
          PROVE  b \in Int /\ \E i \in 1 .. Len(y) : y[i].base <= b /\ b < y[i].allocated
        <3>1. b \in Int /\ b >= z.base - left /\ b < x.allocated
            BY <1>13, <1>28, <1>29
        <3>2. CASE b >= z.base
            <4>1. Len(y) \in 1 .. Len(y) /\ y[Len(y)] = x
                BY <1>31, ListLast
            <4>2. QED BY <1>28, <3>1, <3>2, <4>1
        <3>3. CASE b < z.base
            <4>1. c.contiguous /\ left = r.top - r.allocated /\ r.top # r.allocated /\ z.base = r.top
                BY <1>3, <1>8, <1>9, <1>17, <1>29, <3>1, <3>3
            <4>2. f.base <= b /\ b < f.allocated
                <5>1. r.base <= r.allocated
                    BY <1>3 DEF RegionSound
                <5>2. f.allocated = r.top /\ f.base = r.base
                    BY <1>3, <1>21, <4>1
                <5>3. b >= r.allocated /\ b < r.top
                    BY <1>3, <3>1, <3>3, <4>1
                <5>4. QED BY <1>3, <3>1, <5>1, <5>2, <5>3
            <4>3. Len(v) \in 1 .. Len(v) /\ v[Len(v)] = f
                BY <1>23, ListLast
            <4>4. QED BY <1>32, <3>1, <4>2, <4>3
        <3>4. QED BY <1>29, <3>1, <3>2, <3>3
    <2>4. QED BY <1>27, <2>1, <2>2, <2>3 DEF ListHolds
<1>34. UNCHANGED <<wsTaken, wsLock>> /\ Returns(t) /\ wsCall[t].at # "idle"
    BY DEF SbrkReserves
<1>35. WsCalled'
    BY <1>34, CallReturns DEF WsInv
<1>36. wsRegions' = y
    BY <1>27, <1>30
<1>37. QED BY <1>31, <1>33, <1>34, <1>35, <1>36 DEF WsInv, ListSound, ListApart, ListHolds, Granules

\* The region of the new top after its pages behind have been decommitted.
LEMMA DecommittedIs ==
    ASSUME NEW r, RegionSound(r), NEW new \in Int, r.base <= new, new <= r.allocated
    PROVE  LET d == Decommitted(r, r.allocated - new) IN
           RegionSound(d) /\ d.base = r.base /\ d.top = r.top /\ d.allocated = new
<1>1. r \in Region /\ r.base \in Int /\ r.allocated \in Int /\ r.committed \in Int /\ r.top \in Int
    BY DEF RegionSound, Region
<1>2. PICK n \in Int : n = r.allocated - new
    BY <1>1
<1>3. PICK unused \in Int : unused = r.committed - (r.allocated - n) /\ unused = r.committed - new
    BY <1>1, <1>2
<1>4. unused >= 0
    BY <1>1, <1>3 DEF RegionSound
<1>5. PICK pages \in Int : pages = Floor(unused, WsPage) /\ pages <= unused /\ pages % WsPage = 0 /\ pages >= 0
    <2>1. unused \in Nat
        BY <1>4
    <2>2. QED BY <2>1, RoundedDownIs, RoundedDownOfNat, WsNumbers
<1>6. PICK kept \in Int : kept = IF unused >= WsPage THEN r.committed - pages ELSE r.committed
    BY <1>1
<1>7. new <= kept /\ kept <= r.top /\ kept % WsPage = 0
    <2>1. r.committed - pages >= new /\ r.committed - pages <= r.top /\ r.committed >= new
        BY <1>1, <1>3, <1>4, <1>5 DEF RegionSound
    <2>2. (r.committed - pages) % WsPage = 0 /\ r.committed % WsPage = 0
        BY <1>1, <1>5, MultiplesAdd, WsNumbers DEF RegionSound
    <2>3. r.committed <= r.top
        BY DEF RegionSound
    <2>4. QED BY <1>6, <2>1, <2>2, <2>3
<1>8. PICK d : d = Decommitted(r, n)
    OBVIOUS
<1>9. d = [base |-> r.base, allocated |-> new, committed |-> kept, top |-> r.top]
    <2>1. d = [r EXCEPT !.committed = kept, !.allocated = @ - n]
        <3>1. CASE unused >= WsPage
            BY <1>3, <1>5, <1>6, <1>8, <3>1 DEF Decommitted
        <3>2. CASE ~ (unused >= WsPage)
            BY <1>3, <1>5, <1>6, <1>8, <3>2 DEF Decommitted
        <3>3. QED BY <3>1, <3>2
    <2>2. r.allocated - n = new
        BY <1>1, <1>2
    <2>3. QED BY <1>1, <2>1, <2>2 DEF Region
<1>10. d \in Region
    BY <1>1, <1>9 DEF Region
<1>11. RegionSound(d)
    BY <1>1, <1>7, <1>9, <1>10 DEF RegionSound
<1>12. QED BY <1>2, <1>8, <1>9, <1>11

LEMMA SbrkShrinksGood ==
    ASSUME WsInv, NEW t \in WsThreads, SbrkShrinks(t)
    PROVE  WsInv' /\ wsEnded' = FALSE
<1>0. PICK s : s = wsRegions
    OBVIOUS
<1>1. ListSound(s) /\ ListApart(s, wsTaken) /\ ListHolds(s, wsGiven)
    BY <1>0 DEF WsInv
<1>2. PICK l : l = Last(s) /\ l = GLast
    BY <1>0 DEF GLast
<1>3. l.allocated \in Int /\ l.base \in Int /\ l.top \in Int
    BY <1>1, <1>2, ListLast DEF RegionSound, Region
<1>4. wsCall[t].at = "sbrk" /\ wsCall[t].size \in Int /\ Shrinking(wsCall[t])
    BY DEF SbrkShrinks, WsInv, WsCalled, CallType
<1>5. PICK n \in Nat \ {0} : n = -wsCall[t].size
    <2>1. -wsCall[t].size > 0
        BY DEF SbrkShrinks
    <2>2. QED BY <1>4, <2>1
<1>6. CanShrink(n)
    BY <1>4, <1>5 DEF Shrinking
<1>7. PICK new \in Int : new = l.allocated - n
    BY <1>3
<1>8. new .. l.allocated - 1 \subseteq wsGiven
    BY <1>2, <1>6, <1>7 DEF CanShrink
<1>9. PICK cut : cut = RegionsReleased(s, n)
    OBVIOUS
<1>10. PICK k \in 1 .. Len(s) : IsReleased(cut, s, new, k)
    BY <1>1, <1>2, <1>7, <1>8, <1>9, ReleasedIs
<1>11. PICK q : q = s[k]
    OBVIOUS
<1>12. /\ cut.regions = SubSeq(s, 1, k) /\ cut.n = q.allocated - new
       /\ q.base <= new /\ new <= q.allocated
       /\ \A j \in 1 .. Len(s) : j > k => new < s[j].base
    BY <1>10, <1>11 DEF IsReleased
<1>13. PICK v : v = SubSeq(s, 1, k)
    OBVIOUS
<1>14. ListSound(v) /\ Len(v) = k /\ Last(v) = q /\ ListApart(v, wsTaken) /\ \A i \in 1 .. k : v[i] = s[i]
    BY <1>1, <1>11, <1>13, ListCut
<1>15. RegionSound(q) /\ q.allocated \in Int /\ q.base \in Int
    BY <1>14, ListLast DEF RegionSound, Region
<1>16. PICK d : d = Decommitted(q, q.allocated - new)
    OBVIOUS
<1>17. RegionSound(d) /\ d.base = q.base /\ d.top = q.top /\ d.allocated = new
    BY <1>12, <1>15, <1>16, DecommittedIs
<1>18. ~ (d.base > d.allocated \/ d.allocated > d.committed)
    BY <1>17 DEF RegionSound, Region
<1>19. d = Decommitted(Last(cut.regions), cut.n)
    BY <1>12, <1>13, <1>14, <1>16
<1>20. PICK w : w = [v EXCEPT ![k] = d]
    OBVIOUS
<1>21. d = [d EXCEPT !.allocated = @]
    BY <1>17 DEF RegionSound, Region
<1>22. wsRegions' = w /\ wsEnded' = FALSE /\ wsGiven' = wsGiven \ (new .. l.allocated - 1)
    <2>1. PICK under : under = (d.base > d.allocated \/ d.allocated > d.committed)
        OBVIOUS
    <2>2. under = FALSE
        BY <1>18, <2>1
    <2>3. /\ wsRegions' = [cut.regions EXCEPT ![Len(cut.regions)] =
                             [d EXCEPT !.allocated = IF under THEN d.base ELSE @]]
          /\ wsGiven' = wsGiven \ (l.allocated - n .. l.allocated - 1)
          /\ wsEnded' = under
        BY <1>0, <1>2, <1>5, <1>9, <1>19, <2>1 DEF SbrkShrinks
    <2>4. QED BY <1>7, <1>12, <1>13, <1>14, <1>20, <1>21, <2>2, <2>3
<1>23. ListSound(w) /\ Len(w) = k /\ ListApart(w, wsTaken) /\ w[k] = d /\ k \in 1 .. k
    <2>1. ListSound(w) /\ Last(w) = d /\ Len(w) = k /\ ListApart(w, wsTaken)
        BY <1>14, <1>17, <1>20, LastReplaced
    <2>2. QED BY <2>1, ListLast
<1>24. ListHolds(w, wsGiven')
    <2>1. wsGiven' \subseteq wsGiven /\ wsGiven \subseteq Int
        BY <1>1, <1>22 DEF ListHolds
    <2>2. ASSUME NEW b \in wsGiven' PROVE \E i \in 1 .. Len(w) : w[i].base <= b /\ b < w[i].allocated
        <3>1. b \in Int /\ b \in wsGiven /\ ~ (b >= new /\ b < l.allocated)
            BY <1>3, <1>22, <2>1
        <3>2. PICK i \in 1 .. Len(s) : s[i].base <= b /\ b < s[i].allocated
            BY <1>1, <3>1 DEF ListHolds
        <3>3. PICK e : e = s[i]
            OBVIOUS
        <3>4. e.base \in Int /\ e.allocated \in Int /\ e.top \in Int /\ e.allocated <= e.top
            <4>1. RegionSound(e)
                BY <1>1, <3>3 DEF ListSound
            <4>2. QED BY <4>1 DEF RegionSound, Region
        <3>5. b < l.allocated
            <4>1. CASE i = Len(s)
                BY <1>1, <1>2, <3>2, <4>1, ListLast
            <4>2. CASE i # Len(s)
                <5>1. Len(s) \in 1 .. Len(s) /\ l = s[Len(s)] /\ l.base <= l.allocated /\ i < Len(s)
                    <6>1. Len(s) \in 1 .. Len(s) /\ l = s[Len(s)] /\ RegionSound(l) /\ Len(s) \in Nat
                        BY <1>1, <1>2, ListLast
                    <6>2. QED BY <4>2, <6>1 DEF RegionSound
                <5>2. e.top <= l.base
                    BY <1>1, <3>3, <5>1 DEF ListSound
                <5>3. QED BY <1>3, <3>1, <3>2, <3>3, <3>4, <5>1, <5>2
            <4>3. QED BY <4>1, <4>2
        <3>6. b < new
            BY <3>1, <3>5
        <3>7. ~ (i > k)
            <4>1. SUFFICES ASSUME i > k PROVE FALSE
                OBVIOUS
            <4>2. new < e.base
                BY <1>12, <3>3, <4>1
            <4>3. QED BY <3>1, <3>2, <3>3, <3>4, <3>6, <4>2
        <3>8. i \in 1 .. k
            BY <1>1, <3>7, ListLast
        <3>9. CASE i = k
            BY <1>11, <1>17, <1>23, <3>2, <3>6, <3>9
        <3>10. CASE i # k
            <4>1. w[i] = s[i]
                <5>1. v \in Seq(Region)
                    BY <1>14 DEF ListSound
                <5>2. QED BY <1>14, <1>20, <3>8, <3>10, <5>1
            <4>2. QED BY <1>23, <3>2, <3>8, <4>1
        <3>11. QED BY <3>9, <3>10
    <2>3. QED BY <2>1, <2>2 DEF ListHolds
<1>25. UNCHANGED <<wsTaken, wsLock>> /\ Returns(t) /\ wsCall[t].at # "idle"
    BY DEF SbrkShrinks
<1>26. WsCalled'
    BY <1>25, CallReturns DEF WsInv
<1>27. QED BY <1>22, <1>23, <1>24, <1>25, <1>26 DEF WsInv, ListSound, ListApart, ListHolds, Granules

\* sbrk.c: what it has committed and not handed out lies between its two positions.
RsType == [initialized : BOOLEAN, position : Int, nextPage : Int, remainingCommitted : Int, remainingReserved : Int]

RsInv ==
    /\ rs \in RsType
    /\ rs.remainingCommitted >= 0 /\ rs.nextPage = rs.position + rs.remainingCommitted
    /\ rs.initialized => /\ rs.position + rs.remainingReserved = WsGranule + RsReserve
                         /\ rs.nextPage <= WsGranule + RsReserve
    /\ ~rs.initialized => rs.position = 0 /\ rs.remainingCommitted = 0 /\ rs.remainingReserved = RsReserve

LEMMA RsInitGood == RsInit => RsInv
BY WsAssumption DEF RsInit, RsInv, RsType

\* What a step does to three or two of the parts.
RsChanged(r, a, position, committed, reserved) ==
    r = [a EXCEPT !.position = position, !.remainingCommitted = committed, !.remainingReserved = reserved]
RsCommitted(r, a, page, committed) == r = [a EXCEPT !.nextPage = page, !.remainingCommitted = committed]
RsBegins(r, a, base) == r = [a EXCEPT !.initialized = TRUE, !.position = base, !.nextPage = base]

LEMMA RsChanges ==
    ASSUME NEW a \in RsType, NEW position \in Int, NEW committed \in Int, NEW reserved \in Int, NEW r,
           RsChanged(r, a, position, committed, reserved)
    PROVE  /\ r \in RsType /\ r.initialized = a.initialized
           /\ r.position = position /\ r.nextPage = a.nextPage
           /\ r.remainingCommitted = committed /\ r.remainingReserved = reserved
<1>1. r \in RsType
    BY DEF RsType, RsChanged
<1>2. r.initialized = a.initialized
    BY DEF RsType, RsChanged
<1>3. /\ r.position = position /\ r.nextPage = a.nextPage
      /\ r.remainingCommitted = committed /\ r.remainingReserved = reserved
    BY DEF RsType, RsChanged
<1>4. QED BY <1>1, <1>2, <1>3

LEMMA RsCommits ==
    ASSUME NEW a \in RsType, NEW page \in Int, NEW committed \in Int, NEW r,
           RsCommitted(r, a, page, committed)
    PROVE  /\ r \in RsType /\ r.initialized = a.initialized
           /\ r.position = a.position /\ r.nextPage = page
           /\ r.remainingCommitted = committed /\ r.remainingReserved = a.remainingReserved
<1>1. r \in RsType
    BY DEF RsType, RsCommitted
<1>2. r.initialized = a.initialized
    BY DEF RsType, RsCommitted
<1>3. /\ r.position = a.position /\ r.nextPage = page
      /\ r.remainingCommitted = committed /\ r.remainingReserved = a.remainingReserved
    BY DEF RsType, RsCommitted
<1>4. QED BY <1>1, <1>2, <1>3

LEMMA RsOpens ==
    ASSUME NEW a \in RsType, NEW base \in Int, NEW r,
           RsBegins(r, a, base)
    PROVE  /\ r \in RsType /\ r.initialized
           /\ r.position = base /\ r.nextPage = base
           /\ r.remainingCommitted = a.remainingCommitted /\ r.remainingReserved = a.remainingReserved
<1>1. r \in RsType
    BY DEF RsType, RsBegins
<1>2. r.initialized
    BY DEF RsType, RsBegins
<1>3. /\ r.position = base /\ r.nextPage = base
      /\ r.remainingCommitted = a.remainingCommitted /\ r.remainingReserved = a.remainingReserved
    BY DEF RsType, RsBegins
<1>4. QED BY <1>1, <1>2, <1>3

LEMMA RsOpenedGood ==
    ASSUME RsInv
    PROVE  /\ RsOpened \in RsType
           /\ RsOpened.remainingCommitted >= 0
           /\ RsOpened.nextPage = RsOpened.position + RsOpened.remainingCommitted
           /\ RsOpened.initialized /\ RsOpened.position + RsOpened.remainingReserved = WsGranule + RsReserve
           /\ RsOpened.nextPage <= WsGranule + RsReserve
<1>1. WsGranule \in Nat /\ RsReserve \in Nat
    BY WsAssumption
<1>2. CASE rs.initialized
    BY <1>2 DEF RsOpened, RsInv
<1>3. CASE ~rs.initialized
    <2>1. PICK r : r = RsOpened
        OBVIOUS
    <2>2. r = [rs EXCEPT !.initialized = TRUE, !.position = WsGranule, !.nextPage = WsGranule]
        BY <1>3, <2>1 DEF RsOpened
    <2>3. /\ r \in RsType
          /\ r.initialized /\ r.position = WsGranule /\ r.nextPage = WsGranule
          /\ r.remainingCommitted = rs.remainingCommitted /\ r.remainingReserved = rs.remainingReserved
        <3>1. PICK a \in RsType : a = rs
            BY DEF RsInv
        <3>2. r = [a EXCEPT !.initialized = TRUE, !.position = WsGranule, !.nextPage = WsGranule]
            BY <2>2, <3>1
        <3>3. /\ r \in RsType /\ r.initialized /\ r.position = WsGranule /\ r.nextPage = WsGranule
              /\ r.remainingCommitted = a.remainingCommitted /\ r.remainingReserved = a.remainingReserved
            <4>1. WsGranule \in Int
                BY <1>1
            <4>2. RsBegins(r, a, WsGranule)
                BY <3>2 DEF RsBegins
            <4>3. a \in RsType
                BY <3>1
            <4>4. PICK base \in Int : base = WsGranule
                BY <4>1
            <4>5. RsBegins(r, a, base)
                BY <4>2, <4>4
            <4>6. /\ r \in RsType /\ r.initialized
                  /\ r.position = base /\ r.nextPage = base
                  /\ r.remainingCommitted = a.remainingCommitted /\ r.remainingReserved = a.remainingReserved
                BY <4>3, <4>5, RsOpens
            <4>7. QED BY <4>4, <4>6
        <3>4. QED BY <3>1, <3>3
    <2>4. rs.remainingCommitted = 0 /\ rs.remainingReserved = RsReserve
        BY <1>3 DEF RsInv
    <2>5. QED BY <1>1, <2>1, <2>3, <2>4
<1>4. QED BY <1>2, <1>3

LEMMA RsNextGood ==
    ASSUME RsInv, [RsNext]_rsVars
    PROVE  RsInv'
<1>1. CASE UNCHANGED rsVars
    BY <1>1 DEF rsVars, RsInv
<1>2. CASE RsNext
    <2>1. PICK size \in Int : RsSbrk(size)
        BY <1>2, WsNumbers DEF RsNext
    <2>2. PICK o : o = RsOpened
        OBVIOUS
    <2>3. /\ o \in RsType
          /\ o.remainingCommitted >= 0 /\ o.nextPage = o.position + o.remainingCommitted
          /\ o.initialized /\ o.position + o.remainingReserved = WsGranule + RsReserve
          /\ o.nextPage <= WsGranule + RsReserve
        BY <2>2, RsOpenedGood
    <2>4. CASE rs' = o
        BY <2>3, <2>4 DEF RsInv
    <2>5. CASE rs' # o
        <3>1. PICK r : r = RsCommit(o, size)
            OBVIOUS
        <3>2. /\ size > 0 /\ ~ (r.nextPage > WsGranule + RsReserve)
              /\ rs' = [r EXCEPT !.position = @ + size, !.remainingCommitted = @ - size, !.remainingReserved = @ - size]
            BY <2>1, <2>2, <2>5, <3>1 DEF RsSbrk
        <3>3. PICK bytes \in Int : bytes = Ceil(size - o.remainingCommitted, WsPage) /\ size - o.remainingCommitted <= bytes
            <4>1. PICK missing \in Int : missing = size - o.remainingCommitted
                BY <2>3 DEF RsType
            <4>2. QED BY <4>1, RoundedUpIs, WsNumbers
        <3>4. /\ r \in RsType
              /\ r.remainingCommitted >= size /\ r.nextPage = r.position + r.remainingCommitted
              /\ r.initialized /\ r.position + r.remainingReserved = WsGranule + RsReserve
            <4>1. CASE size <= o.remainingCommitted
                BY <2>3, <3>1, <3>3, <4>1 DEF RsCommit
            <4>2. CASE ~ (size <= o.remainingCommitted)
                <5>1. r = [o EXCEPT !.nextPage = @ + bytes, !.remainingCommitted = @ + bytes]
                    BY <3>1, <3>3, <4>2 DEF RsCommit
                <5>2. /\ r \in RsType
                      /\ r.initialized = o.initialized /\ r.position = o.position
                      /\ r.nextPage = o.nextPage + bytes /\ r.remainingCommitted = o.remainingCommitted + bytes
                      /\ r.remainingReserved = o.remainingReserved
                    <6>1. PICK page \in Int : page = o.nextPage + bytes
                        BY <2>3, <3>3 DEF RsType
                    <6>2. PICK committed \in Int : committed = o.remainingCommitted + bytes
                        BY <2>3, <3>3 DEF RsType
                    <6>3. r = [o EXCEPT !.nextPage = page, !.remainingCommitted = committed]
                        BY <5>1, <6>1, <6>2
                    <6>4. /\ r \in RsType /\ r.initialized = o.initialized
                          /\ r.position = o.position /\ r.nextPage = page
                          /\ r.remainingCommitted = committed /\ r.remainingReserved = o.remainingReserved
                        <7>1. o \in RsType
                            BY <2>3
                        <7>2. RsCommitted(r, o, page, committed)
                            BY <6>3 DEF RsCommitted
                        <7>3. QED BY <7>1, <7>2, RsCommits
                    <6>5. QED BY <6>1, <6>2, <6>4, Zenon
                <5>3. QED BY <2>3, <3>3, <5>2 DEF RsType
            <4>3. QED BY <4>1, <4>2
        <3>5. PICK z : z = rs'
            OBVIOUS
        <3>6. /\ z \in RsType
              /\ z.initialized = r.initialized /\ z.position = r.position + size /\ z.nextPage = r.nextPage
              /\ z.remainingCommitted = r.remainingCommitted - size
              /\ z.remainingReserved = r.remainingReserved - size
            <4>1. PICK position \in Int : position = r.position + size
                BY <3>4 DEF RsType
            <4>2. PICK committed \in Int : committed = r.remainingCommitted - size
                BY <3>4 DEF RsType
            <4>3. PICK reserved \in Int : reserved = r.remainingReserved - size
                BY <3>4 DEF RsType
            <4>4. z = [r EXCEPT !.position = position, !.remainingCommitted = committed, !.remainingReserved = reserved]
                BY <3>2, <3>5, <4>1, <4>2, <4>3
            <4>5. RsChanged(z, r, position, committed, reserved)
                BY <4>4 DEF RsChanged
            <4>6. r \in RsType
                BY <3>4
            <4>7. /\ z \in RsType /\ z.initialized = r.initialized
                  /\ z.position = position /\ z.nextPage = r.nextPage
                  /\ z.remainingCommitted = committed /\ z.remainingReserved = reserved
                BY <4>6, <4>5, RsChanges
            <4>8. QED BY <4>1, <4>2, <4>3, <4>7, Zenon
        <3>7. /\ z.remainingCommitted >= 0 /\ z.nextPage = z.position + z.remainingCommitted
              /\ z.position + z.remainingReserved = WsGranule + RsReserve
              /\ z.nextPage <= WsGranule + RsReserve
            BY <3>2, <3>4, <3>6, WsAssumption DEF RsType
        <3>8. QED BY <3>4, <3>5, <3>6, <3>7 DEF RsInv
    <2>6. QED BY <2>4, <2>5
<1>3. QED BY <1>1, <1>2

LEMMA WsNextGood ==
    ASSUME WsInv, [WsNext]_wsVars
    PROVE  WsInv'
<1>1. CASE UNCHANGED wsVars
    BY <1>1 DEF wsVars, WsInv, ListSound, ListApart, ListHolds, Granules, WsCalled, Shrinking, Reserving,
                CanShrink, GLast
<1>2. CASE WsNext
    <2>1. CASE OtherCode
        BY <2>1, OtherCodeGood
    <2>2. ASSUME NEW t \in WsThreads, WsCalls(t) PROVE WsInv'
        <3>1. CASE \E size \in WsSizes : /\ size < 0 => CanShrink(-size)
                                         /\ SlWait(t, size, "sbrk")
            BY <3>1, SlWaitGood, WsNumbers
        <3>2. CASE SlWait(t, 0, "mmap") \/ SlWait(t, 0, "munmap")
            BY <3>2, SlWaitGood
        <3>3. QED BY <2>2, <3>1, <3>2 DEF WsCalls
    <2>3. ASSUME NEW t \in WsThreads,
                 \/ SlRelease(t) \/ WsAborts(t) \/ SbrkHere(t) \/ SbrkSearches(t) \/ SbrkReserves(t)
                 \/ SbrkRetries(t) \/ SbrkShrinks(t) \/ WsMmap(t) \/ WsMunmap(t)
          PROVE  WsInv'
        BY <2>3, SlReleaseGood, WsAbortsGood, SbrkHereGood, SbrkSearchesGood, SbrkReservesGood,
           SbrkRetriesGood, SbrkShrinksGood, WsMapGood
    <2>4. QED BY <1>2, <2>1, <2>2, <2>3 DEF WsNext
<1>3. QED BY <1>1, <1>2

LEMMA WsInvSuffices == WsInv /\ RsInv => BytesStayCommitted
<1> SUFFICES ASSUME WsInv, RsInv PROVE BytesStayCommitted
    OBVIOUS
<1>0. PICK s : s = wsRegions
    OBVIOUS
<1>1. ListSound(s) /\ ListApart(s, wsTaken) /\ ListHolds(s, wsGiven) /\ s \in Seq(Region) /\ Len(s) \in Nat
    BY <1>0, ListLast DEF WsInv, ListSound
<1>2. ToSet(s) = {s[i] : i \in 1 .. Len(s)}
    BY <1>1 DEF ToSet
<1>3. \A i \in 1 .. Len(s) : /\ RegionSound(s[i]) /\ s[i].base \in Int /\ s[i].allocated \in Int /\ s[i].top \in Int
                             /\ s[i].base >= 0 /\ s[i].base <= s[i].top
    <2> SUFFICES ASSUME NEW i \in 1 .. Len(s)
                 PROVE  /\ RegionSound(s[i]) /\ s[i].base \in Int /\ s[i].allocated \in Int /\ s[i].top \in Int
                        /\ s[i].base >= 0 /\ s[i].base <= s[i].top
        OBVIOUS
    <2>1. RegionSound(s[i])
        BY <1>1 DEF ListSound
    <2>2. QED BY <2>1 DEF RegionSound, Region
<1>4. wsGiven \subseteq UNION {r.base .. r.allocated - 1 : r \in ToSet(s)}
    <2>1. SUFFICES ASSUME NEW b \in wsGiven PROVE \E r \in ToSet(s) : b \in r.base .. r.allocated - 1
        OBVIOUS
    <2>2. PICK i \in 1 .. Len(s) : s[i].base <= b /\ b < s[i].allocated /\ b \in Int
        BY <1>1 DEF ListHolds
    <2>3. b \in s[i].base .. s[i].allocated - 1
        BY <1>3, <2>2
    <2>4. QED BY <1>2, <2>3
<1>5. \A r \in ToSet(s) :
          /\ r.base <= r.allocated /\ r.allocated <= r.committed /\ r.committed <= r.top
          /\ r.committed % WsPage = 0 /\ r.top % WsGranule = 0
          /\ Granules(r) \cap wsTaken = {}
    <2> SUFFICES ASSUME NEW i \in 1 .. Len(s)
                 PROVE  /\ s[i].base <= s[i].allocated /\ s[i].allocated <= s[i].committed
                        /\ s[i].committed <= s[i].top
                        /\ s[i].committed % WsPage = 0 /\ s[i].top % WsGranule = 0
                        /\ Granules(s[i]) \cap wsTaken = {}
        BY <1>2
    <2>1. QED BY <1>1, <1>3 DEF RegionSound, ListApart
<1>6. ASSUME NEW i \in 1 .. Len(s), NEW j \in 1 .. Len(s), i # j
      PROVE  Granules(s[i]) \cap Granules(s[j]) = {}
    <2>1. ASSUME NEW x, NEW y, x.top \in Int, y.base \in Int, x.top <= y.base
          PROVE  Granules(x) \cap Granules(y) = {}
        <3>1. SUFFICES ASSUME NEW h \in Granules(x), h \in Granules(y) PROVE FALSE
            OBVIOUS
        <3>2. PICK at \in Int : at = h * WsGranule
            BY WsNumbers DEF Granules
        <3>3. at < x.top /\ y.base <= at
            BY <3>1, <3>2 DEF Granules
        <3>4. QED BY <2>1, <3>2, <3>3
    <2>2. CASE i < j
        <3>1. s[i].top <= s[j].base
            BY <1>1, <2>2 DEF ListSound
        <3>2. QED BY <1>3, <2>1, <3>1
    <2>3. CASE j < i
        <3>1. s[j].top <= s[i].base
            BY <1>1, <2>3 DEF ListSound
        <3>2. Granules(s[j]) \cap Granules(s[i]) = {}
            BY <1>3, <2>1, <3>1
        <3>3. QED BY <3>2
    <2>4. QED BY <1>6, <2>2, <2>3
<1>7. /\ rs.position <= rs.nextPage /\ rs.nextPage = rs.position + rs.remainingCommitted
      /\ rs.initialized => /\ rs.position + rs.remainingReserved = WsGranule + RsReserve
                           /\ rs.nextPage <= WsGranule + RsReserve
    BY DEF RsInv, RsType
<1>8. QED BY <1>0, <1>4, <1>5, <1>6, <1>7 DEF BytesStayCommitted

\* In dlmalloc's emulation of sbrk on Windows the bytes the program holds stay in the
\* committed part of a region of the list, and no region meets another or what other
\* code has reserved; what sbrk.c has handed out ends in the pages it has committed.
THEOREM BytesAreCommitted == WsSpec => []BytesStayCommitted
<1> DEFINE vars == <<wsVars, rsVars>>
           Next == (WsNext /\ UNCHANGED rsVars) \/ (RsNext /\ UNCHANGED wsVars)
<1>1. WsInit /\ RsInit => WsInv /\ RsInv
    BY WsInitGood, RsInitGood
<1>2. WsInv /\ RsInv /\ [Next]_vars => (WsInv /\ RsInv)'
    <2> SUFFICES ASSUME WsInv, RsInv, [Next]_vars PROVE WsInv' /\ RsInv'
        OBVIOUS
    <2>1. [WsNext]_wsVars /\ [RsNext]_rsVars
        OBVIOUS
    <2>2. QED BY <2>1, WsNextGood, RsNextGood
<1>3. WsInv /\ RsInv => BytesStayCommitted
    BY WsInvSuffices
<1>4. QED BY <1>1, <1>2, <1>3, PTL DEF WsSpec
-----------------------------------------------------------------------------
(* BitString *)

\* What is taken of a run, and whether it fits.
BsTaken(S, length, p) == {j \in 0 .. length - 1 : p + j \in S}
BsFits(S, length, p) == ~ (Word(p \div BITS_PER_ULONG) \subseteq S) /\ p \notin S /\ BsTaken(S, length, p) = {}

\* Where the search goes on.
BsAfter(S, length, alignment, p) ==
    IF Word(p \div BITS_PER_ULONG) \subseteq S
    THEN Adjusted((p \div BITS_PER_ULONG + 1) * BITS_PER_ULONG, alignment)
    ELSE IF p \in S THEN p + alignment
    ELSE Adjusted(p + Min(BsTaken(S, length, p)), alignment)

\* No run that begins at a multiple and is passed is free.
BsPassed(S, length, alignment, p, a) ==
    /\ a \in Nat /\ p < a
    /\ p % alignment = 0 =>
          /\ a % alignment = 0
          /\ \A q \in Nat : q % alignment = 0 /\ p <= q /\ q < a => BsRun(q, length) \cap S # {}

LEMMA AdjustedIs ==
    ASSUME NEW p \in Nat, NEW alignment \in Nat \ {0}
    PROVE  /\ Adjusted(p, alignment) \in Nat /\ p <= Adjusted(p, alignment)
           /\ Adjusted(p, alignment) % alignment = 0
           /\ \A q \in Nat : q % alignment = 0 /\ p <= q => Adjusted(p, alignment) <= q
<1>1. Adjusted(p, alignment) = Ceil(p, alignment)
    BY DEF Adjusted, Ceil
<1>2. Ceil(p, alignment) \in Int /\ p <= Ceil(p, alignment) /\ Ceil(p, alignment) % alignment = 0
    BY RoundedUpIs
<1>3. \A q \in Nat : q % alignment = 0 /\ p <= q => Ceil(p, alignment) <= q
    BY RoundedUpIsLeast
<1>4. QED BY <1>1, <1>2, <1>3

LEMMA WordHolds ==
    ASSUME NEW p \in Nat
    PROVE  /\ p \in Word(p \div BITS_PER_ULONG) /\ p < (p \div BITS_PER_ULONG + 1) * BITS_PER_ULONG
           /\ (p \div BITS_PER_ULONG + 1) * BITS_PER_ULONG \in Nat
           /\ \A q \in Nat : p <= q /\ q < (p \div BITS_PER_ULONG + 1) * BITS_PER_ULONG
                             => q \in Word(p \div BITS_PER_ULONG)
BY DEF Word, BsRun, BITS_PER_ULONG

LEMMA BsGoesOn ==
    ASSUME NEW S, NEW length \in Nat \ {0}, NEW alignment \in Nat \ {0}, NEW p \in Nat, ~ BsFits(S, length, p)
    PROVE  BsPassed(S, length, alignment, p, BsAfter(S, length, alignment, p))
<1>1. CASE Word(p \div BITS_PER_ULONG) \subseteq S
    <2>1. PICK e \in Nat : e = (p \div BITS_PER_ULONG + 1) * BITS_PER_ULONG
        BY WordHolds
    <2>2. p < e /\ \A q \in Nat : p <= q /\ q < e => q \in S
        BY <1>1, <2>1, WordHolds
    <2>3. PICK a \in Nat : a = Adjusted(e, alignment)
        BY AdjustedIs
    <2>4. e <= a /\ a % alignment = 0 /\ \A q \in Nat : q % alignment = 0 /\ e <= q => a <= q
        BY <2>3, AdjustedIs
    <2>5. BsAfter(S, length, alignment, p) = a
        BY <1>1, <2>1, <2>3 DEF BsAfter
    <2>6. ASSUME NEW q \in Nat, q % alignment = 0, p <= q, q < a PROVE BsRun(q, length) \cap S # {}
        <3>1. q < e
            BY <2>4, <2>6
        <3>2. q \in S /\ q \in BsRun(q, length)
            BY <2>2, <2>6, <3>1 DEF BsRun
        <3>3. QED BY <3>2
    <2>7. QED BY <2>2, <2>4, <2>5, <2>6 DEF BsPassed
<1>2. CASE ~ (Word(p \div BITS_PER_ULONG) \subseteq S) /\ p \in S
    <2>1. BsAfter(S, length, alignment, p) = p + alignment
        BY <1>2 DEF BsAfter
    <2>2. ASSUME p % alignment = 0 PROVE (p + alignment) % alignment = 0
        BY <2>2
    <2>3. ASSUME p % alignment = 0, NEW q \in Nat, q % alignment = 0, p <= q, q < p + alignment PROVE q = p
        <3>1. (q - p) % alignment = 0
            <4>1. p \in Int /\ q \in Int
                OBVIOUS
            <4>2. QED BY <2>3, <4>1, MultiplesAdd
        <3>2. PICK d \in Nat : d = q - p /\ d < alignment
            BY <2>3
        <3>3. d = 0
            BY <3>1, <3>2
        <3>4. QED BY <3>2, <3>3
    <2>4. p \in BsRun(p, length)
        BY DEF BsRun
    <2>5. QED BY <1>2, <2>1, <2>2, <2>3, <2>4 DEF BsPassed
<1>3. CASE ~ (Word(p \div BITS_PER_ULONG) \subseteq S) /\ p \notin S
    <2>1. PICK T : T = BsTaken(S, length, p)
        OBVIOUS
    <2>2. T # {} /\ T \subseteq Nat /\ \A j \in T : j \in Nat /\ j <= length - 1 /\ p + j \in S /\ j # 0
        BY <1>3, <2>1 DEF BsFits, BsTaken
    <2>3. PICK m \in T : m = Min(T)
        BY <2>2, LeastIs
    <2>4. m \in Nat /\ 0 < m /\ m <= length - 1 /\ p + m \in S /\ p + m \in Nat
        BY <2>2
    <2>5. PICK a \in Nat : a = Adjusted(p + m, alignment)
        BY <2>4, AdjustedIs
    <2>6. p + m <= a /\ a % alignment = 0 /\ \A q \in Nat : q % alignment = 0 /\ p + m <= q => a <= q
        BY <2>4, <2>5, AdjustedIs
    <2>7. BsAfter(S, length, alignment, p) = a
        BY <1>3, <2>1, <2>3, <2>5 DEF BsAfter
    <2>8. ASSUME NEW q \in Nat, q % alignment = 0, p <= q, q < a PROVE BsRun(q, length) \cap S # {}
        <3>1. q < p + m
            <4>1. ~ (p + m <= q)
                BY <2>6, <2>8
            <4>2. QED BY <2>4, <4>1
        <3>2. p + m \in BsRun(q, length)
            BY <2>4, <2>8, <3>1 DEF BsRun
        <3>3. QED BY <2>4, <3>2
    <2>9. p < a
        BY <2>4, <2>6
    <2>10. QED BY <2>6, <2>7, <2>8, <2>9 DEF BsPassed
<1>4. QED BY <1>1, <1>2, <1>3

\* The search, as the function that allocate computes.
BsSearches(f, S, length, alignment) ==
    /\ f \in [Nat -> Int]
    /\ \A p \in Nat : f[p] = IF BsBits <= p THEN -1 ELSE IF BsFits(S, length, p) THEN p
                             ELSE f[BsAfter(S, length, alignment, p)]

LEMMA BsSearchIs ==
    ASSUME NEW S, NEW length \in Nat \ {0}, NEW alignment \in Nat \ {0}, firstPos \in Nat
    PROVE  \E f : BsSearches(f, S, length, alignment) /\ BsSearch(S, length, alignment) = f[firstPos]
<1>0. BsBits \in Nat
    BY BsAssumption
<1> DEFINE stop == {p \in Nat : BsFits(S, length, p)}
           first == [p \in stop |-> p]
           after == [p \in Nat |-> IF p \in stop THEN p + 1 ELSE BsAfter(S, length, alignment, p)]
<1> PICK none \in Int : none = -1
    OBVIOUS
<1>1. first \in [stop -> Int] /\ none \in Int
    OBVIOUS
<1>2. ASSUME NEW p \in Nat PROVE after[p] \in Nat /\ p < after[p]
    <2>1. CASE p \in stop
        BY <2>1
    <2>2. CASE p \notin stop
        <3>1. BsPassed(S, length, alignment, p, BsAfter(S, length, alignment, p))
            BY <2>2, BsGoesOn
        <3>2. QED BY <2>2, <3>1 DEF BsPassed
    <2>3. QED BY <2>1, <2>2
<1>3. after \in [Nat -> Nat] /\ \A p \in Nat : p < after[p]
    BY <1>2
<1> HIDE DEF first, after
<1>4. PICK f : SearchesUp(f, BsBits, Int, none, stop, first, after)
    <2> HIDE DEF stop
    <2>1. QED BY <1>0, <1>1, <1>3, SearchExists
<1>5. BsSearches(f, S, length, alignment)
    BY <1>4 DEF SearchesUp, first, after, BsSearches
<1> DEFINE Body(g) ==
      [p \in Nat |->
          IF p >= BsBits THEN -1
          ELSE IF Word(p \div BITS_PER_ULONG) \subseteq S
          THEN g[Adjusted((p \div BITS_PER_ULONG + 1) * BITS_PER_ULONG, alignment)]
          ELSE IF p \in S THEN g[p + alignment]
          ELSE IF {j \in 0 .. length - 1 : p + j \in S} = {} THEN p
          ELSE g[Adjusted(p + Min({j \in 0 .. length - 1 : p + j \in S}), alignment)]]
<1>6. ASSUME NEW g, NEW p \in Nat
      PROVE  Body(g)[p] = IF BsBits <= p THEN -1 ELSE IF BsFits(S, length, p) THEN p
                          ELSE g[BsAfter(S, length, alignment, p)]
    <2>1. p >= BsBits <=> BsBits <= p
        BY <1>0
    <2>2. BsFits(S, length, p) <=> /\ ~ (Word(p \div BITS_PER_ULONG) \subseteq S) /\ p \notin S
                                   /\ {j \in 0 .. length - 1 : p + j \in S} = {}
        BY DEF BsFits, BsTaken
    <2>3. QED BY <2>1, <2>2, Zenon DEF BsAfter, BsTaken
<1>7. f = Body(f)
    <2>1. \A p \in Nat : Body(f)[p] = f[p]
        BY <1>5, <1>6 DEF BsSearches
    <2>2. DOMAIN Body(f) = Nat /\ Body(f) = [p \in Nat |-> Body(f)[p]]
        OBVIOUS
    <2> HIDE DEF Body
    <2>3. f = [p \in Nat |-> f[p]]
        BY <1>5 DEF BsSearches
    <2>4. QED BY <2>1, <2>2, <2>3
<1>8. PICK g : g = CHOOSE h : h = Body(h)
    OBVIOUS
<1>9. g = Body(g)
    BY <1>7, <1>8
<1>10. BsSearch(S, length, alignment) = g[firstPos]
    BY <1>8 DEF BsSearch
<1>11. \A p \in Nat : g[p] = IF BsBits <= p THEN -1 ELSE IF BsFits(S, length, p) THEN p
                             ELSE g[BsAfter(S, length, alignment, p)]
    BY <1>6, <1>9
<1>12. g = [p \in Nat |-> g[p]]
    BY <1>9
<1> HIDE DEF Body
<1> DEFINE G == {m \in Nat : g[m] \in Int}
<1>13. ASSUME NEW p \in Nat, \A q \in Nat : p < q /\ p < BsBits => q \in G PROVE p \in G
    <2>1. CASE BsBits <= p
        BY <1>11, <2>1
    <2>2. CASE ~ (BsBits <= p) /\ BsFits(S, length, p)
        BY <1>11, <2>2
    <2>3. CASE ~ (BsBits <= p) /\ ~ BsFits(S, length, p)
        <3>1. PICK a \in Nat : a = BsAfter(S, length, alignment, p) /\ p < a
            BY <2>3, BsGoesOn DEF BsPassed
        <3>2. g[p] = g[a] /\ p < BsBits
            BY <1>0, <1>11, <2>3, <3>1
        <3>3. QED BY <1>13, <3>1, <3>2
    <2>4. QED BY <2>1, <2>2, <2>3
<1>14. Nat \subseteq G
    <2> HIDE DEF G
    <2>1. Nat \subseteq Nat
        OBVIOUS
    <2>2. QED BY <1>0, <1>13, <2>1, LargerFirst
<1>15. g \in [Nat -> Int]
    BY <1>12, <1>14
<1>16. QED BY <1>10, <1>11, <1>15 DEF BsSearches

LEMMA LeastOfIs ==
    ASSUME NEW T, T \subseteq Nat, NEW n \in T, \A m \in T : n <= m
    PROVE  LeastOf(T) = n
<1>1. PICK k \in T : k = Min(T) /\ \A m \in T : k <= m
    BY LeastIs
<1>2. k \in Nat /\ n \in Nat /\ k <= n /\ n <= k
    BY <1>1
<1>3. QED BY <1>1, <1>2 DEF LeastOf

\* The first run that fits from the place on, at a multiple, is the first that is free.
LEMMA BsFinds ==
    ASSUME NEW S, NEW length \in Nat \ {0}, NEW alignment \in Nat \ {0}, NEW f,
           BsSearches(f, S, length, alignment),
           \A p \in Nat : BsFits(S, length, p) /\ p < BsBits => p + length <= BsBits
    PROVE  f[0] = LeastOf({p \in 0 .. BsBits - length : p % alignment = 0 /\ BsRun(p, length) \cap S = {}})
<1>0. BsBits \in Nat
    BY BsAssumption
<1> DEFINE T == {p \in 0 .. BsBits - length : p % alignment = 0 /\ BsRun(p, length) \cap S = {}}
           A == {p \in Nat : p % alignment = 0}
           G == {p \in A : \/ f[p] \in T /\ \A q \in T : p <= q => f[p] <= q
                           \/ f[p] = -1 /\ \A q \in T : ~ (p <= q)}
<1>1. ASSUME NEW p \in A, \A q \in A : p < q /\ p < BsBits => q \in G PROVE p \in G
    <2>0. p \in Nat /\ p % alignment = 0
        OBVIOUS
    <2>1. CASE BsBits <= p
        <3>1. f[p] = -1
            BY <2>0, <2>1 DEF BsSearches
        <3>2. \A q \in T : ~ (p <= q)
            BY <1>0, <2>0, <2>1
        <3>3. QED BY <3>1, <3>2
    <2>2. CASE ~ (BsBits <= p) /\ BsFits(S, length, p)
        <3>1. f[p] = p /\ p < BsBits
            BY <1>0, <2>0, <2>2 DEF BsSearches
        <3>2. p + length <= BsBits
            BY <2>0, <2>2, <3>1
        <3>3. BsRun(p, length) \cap S = {}
            <4>1. SUFFICES ASSUME NEW x \in BsRun(p, length), x \in S PROVE FALSE
                OBVIOUS
            <4>2. x - p \in 0 .. length - 1 /\ p + (x - p) = x
                BY <2>0 DEF BsRun
            <4>3. QED BY <2>2, <4>1, <4>2 DEF BsFits, BsTaken
        <3>4. p \in T
            BY <1>0, <2>0, <3>2, <3>3
        <3>5. QED BY <3>1, <3>4
    <2>3. CASE ~ (BsBits <= p) /\ ~ BsFits(S, length, p)
        <3>1. PICK a \in Nat : a = BsAfter(S, length, alignment, p) /\ BsPassed(S, length, alignment, p, a)
            BY <2>0, <2>3, BsGoesOn DEF BsPassed
        <3>2. f[p] = f[a] /\ p < BsBits
            BY <1>0, <2>0, <2>3, <3>1 DEF BsSearches
        <3>3. a \in A /\ p < a
            BY <2>0, <3>1 DEF BsPassed
        <3>4. a \in G
            BY <1>1, <3>2, <3>3
        <3>5. \A q \in T : p <= q => a <= q
            <4>1. SUFFICES ASSUME NEW q \in T, p <= q, q < a PROVE FALSE
                BY <1>0, <3>1
            <4>2. BsRun(q, length) \cap S # {}
                BY <2>0, <3>1, <4>1 DEF BsPassed
            <4>3. QED BY <4>2
        <3>6. QED BY <3>2, <3>4, <3>5
    <2>4. QED BY <2>1, <2>2, <2>3
<1>2. A \subseteq G
    <2>1. A \subseteq Nat
        OBVIOUS
    <2> HIDE DEF A, G
    <2>2. QED BY <1>0, <1>1, <2>1, LargerFirst
<1>3. 0 \in A
    OBVIOUS
<1>4. 0 \in G
    BY <1>2, <1>3
<1>5. T \subseteq Nat /\ \A q \in T : 0 <= q
    BY <1>0
<1>6. CASE f[0] \in T /\ \A q \in T : f[0] <= q
    <2> HIDE DEF T
    <2>1. LeastOf(T) = f[0]
        BY <1>5, <1>6, LeastOfIs
    <2>2. QED BY <2>1 DEF T
<1>7. CASE f[0] = -1 /\ T = {}
    BY <1>7 DEF LeastOf
<1>8. QED BY <1>4, <1>5, <1>6, <1>7

\* The de Bruijn sequence tells the 32 bits apart.
LsbAt(k) ==
    LET bit(j) == IF k + j < BITS_PER_ULONG THEN debruijn32[k + j + 1] ELSE 0
    IN  index32[16 * bit(0) + 8 * bit(1) + 4 * bit(2) + 2 * bit(3) + bit(4) + 1]

LEMMA LsbIs == \A k \in 0 .. 31 : LsbAt(k) = k
<1>1. LsbAt(0) = 0
    BY DEF LsbAt, index32, debruijn32, BITS_PER_ULONG
<1>2. LsbAt(1) = 1
    BY DEF LsbAt, index32, debruijn32, BITS_PER_ULONG
<1>3. LsbAt(2) = 2
    BY DEF LsbAt, index32, debruijn32, BITS_PER_ULONG
<1>4. LsbAt(3) = 3
    BY DEF LsbAt, index32, debruijn32, BITS_PER_ULONG
<1>5. LsbAt(4) = 4
    BY DEF LsbAt, index32, debruijn32, BITS_PER_ULONG
<1>6. LsbAt(5) = 5
    BY DEF LsbAt, index32, debruijn32, BITS_PER_ULONG
<1>7. LsbAt(6) = 6
    BY DEF LsbAt, index32, debruijn32, BITS_PER_ULONG
<1>8. LsbAt(7) = 7
    BY DEF LsbAt, index32, debruijn32, BITS_PER_ULONG
<1>9. LsbAt(8) = 8
    BY DEF LsbAt, index32, debruijn32, BITS_PER_ULONG
<1>10. LsbAt(9) = 9
    BY DEF LsbAt, index32, debruijn32, BITS_PER_ULONG
<1>11. LsbAt(10) = 10
    BY DEF LsbAt, index32, debruijn32, BITS_PER_ULONG
<1>12. LsbAt(11) = 11
    BY DEF LsbAt, index32, debruijn32, BITS_PER_ULONG
<1>13. LsbAt(12) = 12
    BY DEF LsbAt, index32, debruijn32, BITS_PER_ULONG
<1>14. LsbAt(13) = 13
    BY DEF LsbAt, index32, debruijn32, BITS_PER_ULONG
<1>15. LsbAt(14) = 14
    BY DEF LsbAt, index32, debruijn32, BITS_PER_ULONG
<1>16. LsbAt(15) = 15
    BY DEF LsbAt, index32, debruijn32, BITS_PER_ULONG
<1>17. LsbAt(16) = 16
    BY DEF LsbAt, index32, debruijn32, BITS_PER_ULONG
<1>18. LsbAt(17) = 17
    BY DEF LsbAt, index32, debruijn32, BITS_PER_ULONG
<1>19. LsbAt(18) = 18
    BY DEF LsbAt, index32, debruijn32, BITS_PER_ULONG
<1>20. LsbAt(19) = 19
    BY DEF LsbAt, index32, debruijn32, BITS_PER_ULONG
<1>21. LsbAt(20) = 20
    BY DEF LsbAt, index32, debruijn32, BITS_PER_ULONG
<1>22. LsbAt(21) = 21
    BY DEF LsbAt, index32, debruijn32, BITS_PER_ULONG
<1>23. LsbAt(22) = 22
    BY DEF LsbAt, index32, debruijn32, BITS_PER_ULONG
<1>24. LsbAt(23) = 23
    BY DEF LsbAt, index32, debruijn32, BITS_PER_ULONG
<1>25. LsbAt(24) = 24
    BY DEF LsbAt, index32, debruijn32, BITS_PER_ULONG
<1>26. LsbAt(25) = 25
    BY DEF LsbAt, index32, debruijn32, BITS_PER_ULONG
<1>27. LsbAt(26) = 26
    BY DEF LsbAt, index32, debruijn32, BITS_PER_ULONG
<1>28. LsbAt(27) = 27
    BY DEF LsbAt, index32, debruijn32, BITS_PER_ULONG
<1>29. LsbAt(28) = 28
    BY DEF LsbAt, index32, debruijn32, BITS_PER_ULONG
<1>30. LsbAt(29) = 29
    BY DEF LsbAt, index32, debruijn32, BITS_PER_ULONG
<1>31. LsbAt(30) = 30
    BY DEF LsbAt, index32, debruijn32, BITS_PER_ULONG
<1>32. LsbAt(31) = 31
    BY DEF LsbAt, index32, debruijn32, BITS_PER_ULONG
<1>33. QED BY <1>1, <1>2, <1>3, <1>4, <1>5, <1>6, <1>7, <1>8, <1>9, <1>10, <1>11, <1>12, <1>13, <1>14, <1>15, <1>16, <1>17, <1>18, <1>19, <1>20, <1>21, <1>22, <1>23, <1>24, <1>25, <1>26, <1>27, <1>28, <1>29, <1>30, <1>31, <1>32

\* The bits of a word that are set, from the place that is asked for on.
SetFrom(i, index) ==
    {b \in (IF i = index \div BITS_PER_ULONG THEN index % BITS_PER_ULONG ELSE 0) .. BITS_PER_ULONG - 1 :
        i * BITS_PER_ULONG + b \in bits}

LEMMA SetFromIs ==
    ASSUME NEW i \in Nat, NEW index \in Nat, index \div BITS_PER_ULONG <= i, bits \subseteq Nat
    PROVE  /\ SetFrom(i, index) \subseteq 0 .. 31
           /\ \A b \in SetFrom(i, index) : i * 32 + b \in bits /\ i * 32 + b >= index
           /\ \A c \in bits : c >= index /\ c >= i * 32 /\ c < (i + 1) * 32 => c - i * 32 \in SetFrom(i, index)
<1>0. BITS_PER_ULONG = 32
    BY DEF BITS_PER_ULONG
<1>1. PICK q \in Nat, r \in 0 .. 31 : q = index \div 32 /\ r = index % 32 /\ index = q * 32 + r
    OBVIOUS
<1>2. PICK l \in 0 .. 31 : l = IF i = q THEN r ELSE 0
    BY <1>1
<1>3. SetFrom(i, index) = {b \in l .. 31 : i * 32 + b \in bits} /\ q <= i
    BY <1>0, <1>1, <1>2 DEF SetFrom
<1>4. SetFrom(i, index) \subseteq 0 .. 31
    BY <1>3
<1>5. ASSUME NEW b \in SetFrom(i, index) PROVE i * 32 + b \in bits /\ i * 32 + b >= index
    <2>1. b \in l .. 31 /\ i * 32 + b \in bits
        BY <1>3
    <2>2. CASE i = q
        BY <1>1, <1>2, <2>1, <2>2
    <2>3. CASE q < i
        BY <1>1, <1>2, <2>1, <2>3
    <2>4. QED BY <1>3, <2>1, <2>2, <2>3
<1>6. ASSUME NEW c \in bits, c >= index, c >= i * 32, c < (i + 1) * 32 PROVE c - i * 32 \in SetFrom(i, index)
    <2>1. PICK d \in 0 .. 31 : d = c - i * 32 /\ i * 32 + d = c
        BY <1>6
    <2>2. d \in l .. 31
        BY <1>1, <1>2, <1>6, <2>1
    <2>3. QED BY <1>3, <2>1, <2>2
<1>7. QED BY <1>4, <1>5, <1>6

LEMMA LsbIsLeast ==
    ASSUME NEW word, word \subseteq 0 .. 31, word # {}
    PROVE  lsb(word) \in word /\ \A b \in word : lsb(word) <= b
<1>1. PICK k \in word : k = Min(word) /\ \A b \in word : k <= b
    <2>1. word \subseteq Nat
        OBVIOUS
    <2>2. QED BY <2>1, LeastIs
<1>2. lsb(word) = LsbAt(k)
    BY <1>1 DEF lsb, LsbAt
<1>3. QED BY <1>1, <1>2, LsbIs

\* The search for a word with a bit set, as the function that firstAfter computes.
Seeks(f, index) ==
    /\ f \in [Nat -> Int]
    /\ \A i \in Nat : f[i] = IF NUM_ULONGS <= i THEN -1
                             ELSE IF SetFrom(i, index) # {} THEN i * BITS_PER_ULONG + lsb(SetFrom(i, index))
                             ELSE f[i + 1]

LEMMA NumUlongs ==
    /\ NUM_ULONGS \in Nat /\ BsBits \in Nat /\ BsBits > 0 /\ BsBits < NUM_ULONGS * 32
    /\ \A p \in Nat : p < BsBits => p \div 32 < NUM_ULONGS
<1>1. BsBits \in Nat /\ BsBits % 32 # 0
    BY BsAssumption DEF BITS_PER_ULONG
<1>2. NUM_ULONGS = (BsBits + 32 - 1) \div 32
    BY DEF NUM_ULONGS, BITS_PER_ULONG
<1>3. PICK q \in Nat, r \in 1 .. 31 : BsBits = q * 32 + r
    BY <1>1
<1>4. (BsBits + 32 - 1) \div 32 = q + 1
    BY <1>3
<1>5. \A p \in Nat : p < BsBits => p \div 32 < q + 1
    BY <1>3
<1>6. QED BY <1>1, <1>2, <1>3, <1>4, <1>5

LEMMA FirstAfterSeeks ==
    ASSUME NEW index \in Nat, bits \subseteq Nat
    PROVE  \E f : Seeks(f, index) /\ firstAfter(index) = f[index \div BITS_PER_ULONG]
<1>0. NUM_ULONGS \in Nat /\ BITS_PER_ULONG = 32
    BY NumUlongs DEF BITS_PER_ULONG
<1> DEFINE stop == {i \in Nat : SetFrom(i, index) # {}}
           first == [i \in stop |-> i * BITS_PER_ULONG + lsb(SetFrom(i, index))]
           after == [i \in Nat |-> i + 1]
<1> PICK none \in Int : none = -1
    OBVIOUS
<1>1. ASSUME NEW i \in stop PROVE i * BITS_PER_ULONG + lsb(SetFrom(i, index)) \in Int
    <2>1. SetFrom(i, index) \subseteq 0 .. 31
        BY DEF SetFrom, BITS_PER_ULONG
    <2>2. lsb(SetFrom(i, index)) \in 0 .. 31
        BY <2>1, LsbIsLeast
    <2>3. QED BY <1>0, <2>2
<1>2. first \in [stop -> Int] /\ after \in [Nat -> Nat] /\ none \in Int /\ \A p \in Nat : p < after[p]
    BY <1>1
<1> HIDE DEF first, after
<1>3. PICK f : SearchesUp(f, NUM_ULONGS, Int, none, stop, first, after)
    <2> HIDE DEF stop
    <2>1. QED BY <1>0, <1>2, SearchExists
<1>4. Seeks(f, index)
    BY <1>3 DEF SearchesUp, first, after, Seeks
<1> DEFINE Body(g) ==
      [i \in Nat |->
          IF i >= NUM_ULONGS THEN -1
          ELSE IF {b \in (IF i = index \div BITS_PER_ULONG THEN index % BITS_PER_ULONG ELSE 0) .. BITS_PER_ULONG - 1 :
                      i * BITS_PER_ULONG + b \in bits} # {}
          THEN i * BITS_PER_ULONG +
               lsb({b \in (IF i = index \div BITS_PER_ULONG THEN index % BITS_PER_ULONG ELSE 0) .. BITS_PER_ULONG - 1 :
                      i * BITS_PER_ULONG + b \in bits})
          ELSE g[i + 1]]
<1>5. ASSUME NEW g, NEW i \in Nat
      PROVE  Body(g)[i] = IF NUM_ULONGS <= i THEN -1
                          ELSE IF SetFrom(i, index) # {} THEN i * BITS_PER_ULONG + lsb(SetFrom(i, index))
                          ELSE g[i + 1]
    <2>1. i >= NUM_ULONGS <=> NUM_ULONGS <= i
        BY <1>0
    <2>2. QED BY <2>1, Zenon DEF SetFrom
<1>6. f = Body(f)
    <2>1. \A p \in Nat : Body(f)[p] = f[p]
        BY <1>4, <1>5 DEF Seeks
    <2>2. DOMAIN Body(f) = Nat /\ Body(f) = [p \in Nat |-> Body(f)[p]]
        OBVIOUS
    <2> HIDE DEF Body
    <2>3. f = [p \in Nat |-> f[p]]
        BY <1>4 DEF Seeks
    <2>4. QED BY <2>1, <2>2, <2>3
<1>7. PICK g : g = CHOOSE h : h = Body(h)
    OBVIOUS
<1>8. g = Body(g)
    BY <1>6, <1>7
<1>9. firstAfter(index) = g[index \div BITS_PER_ULONG]
    BY <1>7 DEF firstAfter
<1>10. \A i \in Nat : g[i] = IF NUM_ULONGS <= i THEN -1
                             ELSE IF SetFrom(i, index) # {} THEN i * BITS_PER_ULONG + lsb(SetFrom(i, index))
                             ELSE g[i + 1]
    BY <1>5, <1>8
<1>11. g = [p \in Nat |-> g[p]]
    BY <1>8
<1> HIDE DEF Body
<1> DEFINE G == {m \in Nat : g[m] \in Int}
<1>12. ASSUME NEW i \in Nat, \A q \in Nat : i < q /\ i < NUM_ULONGS => q \in G PROVE i \in G
    <2>1. CASE NUM_ULONGS <= i
        BY <1>10, <2>1
    <2>2. CASE ~ (NUM_ULONGS <= i) /\ i \in stop
        BY <1>1, <1>10, <2>2
    <2>3. CASE ~ (NUM_ULONGS <= i) /\ i \notin stop
        <3>1. g[i] = g[i + 1] /\ i < NUM_ULONGS /\ i + 1 \in Nat /\ i < i + 1
            BY <1>0, <1>10, <2>3
        <3>2. QED BY <1>12, <3>1
    <2>4. QED BY <2>1, <2>2, <2>3
<1>13. Nat \subseteq G
    <2> HIDE DEF G
    <2>1. Nat \subseteq Nat
        OBVIOUS
    <2>2. QED BY <1>0, <1>12, <2>1, LargerFirst
<1>14. g \in [Nat -> Int]
    BY <1>11, <1>13
<1>15. QED BY <1>9, <1>10, <1>14 DEF Seeks

LEMMA FirstAfterIs ==
    ASSUME NEW index \in Nat, bits \subseteq 0 .. NUM_ULONGS * 32 - 1
    PROVE  firstAfter(index) = LeastOf({b \in bits : b >= index})
<1>0. NUM_ULONGS \in Nat /\ BITS_PER_ULONG = 32 /\ bits \subseteq Nat
    BY NumUlongs DEF BITS_PER_ULONG
<1>1. PICK f : Seeks(f, index) /\ firstAfter(index) = f[index \div BITS_PER_ULONG]
    BY <1>0, FirstAfterSeeks
<1>2. PICK q \in Nat : q = index \div BITS_PER_ULONG /\ q * 32 <= index
    BY <1>0
<1> DEFINE T(i) == {b \in bits : b >= index /\ b >= i * 32}
           A == {i \in Nat : q <= i}
           G == {i \in A : f[i] = LeastOf(T(i))}
<1>3. ASSUME NEW i \in A, \A j \in A : i < j /\ i < NUM_ULONGS => j \in G PROVE i \in G
    <2>0. i \in Nat /\ q <= i /\ T(i) \subseteq Nat
        BY <1>0
    <2>1. CASE NUM_ULONGS <= i
        <3>1. f[i] = -1
            BY <1>1, <2>0, <2>1 DEF Seeks
        <3>2. T(i) = {}
            BY <1>0, <2>0, <2>1
        <3>3. QED BY <3>1, <3>2 DEF LeastOf
    <2>2. CASE ~ (NUM_ULONGS <= i) /\ SetFrom(i, index) # {}
        <3>1. PICK k : k = lsb(SetFrom(i, index))
            OBVIOUS
        <3>2. SetFrom(i, index) \subseteq 0 .. 31
            BY <1>0, <1>2, <2>0, SetFromIs
        <3>3. k \in SetFrom(i, index) /\ k \in 0 .. 31 /\ \A b \in SetFrom(i, index) : k <= b
            BY <2>2, <3>1, <3>2, LsbIsLeast
        <3>4. PICK n \in Nat : n = i * 32 + k
            BY <2>0, <3>3
        <3>5. n \in bits /\ n >= index
            BY <1>0, <1>2, <2>0, <3>3, <3>4, SetFromIs
        <3>6. n \in T(i)
            BY <2>0, <3>3, <3>4, <3>5
        <3>7. ASSUME NEW c \in T(i) PROVE n <= c
            <4>1. c \in Nat /\ c >= index /\ c >= i * 32 /\ c \in bits
                BY <2>0
            <4>2. CASE c < (i + 1) * 32
                <5>1. c - i * 32 \in SetFrom(i, index)
                    BY <1>0, <1>2, <2>0, <4>1, <4>2, SetFromIs
                <5>2. QED BY <2>0, <3>3, <3>4, <4>1, <5>1
            <4>3. CASE ~ (c < (i + 1) * 32)
                BY <2>0, <3>3, <3>4, <4>1, <4>3
            <4>4. QED BY <4>2, <4>3
        <3>8. f[i] = n
            BY <1>0, <1>1, <2>0, <2>2, <3>1, <3>4 DEF Seeks
        <3>9. LeastOf(T(i)) = n
            <4> HIDE DEF T
            <4>1. QED BY <2>0, <3>6, <3>7, LeastOfIs
        <3>10. QED BY <3>8, <3>9
    <2>3. CASE ~ (NUM_ULONGS <= i) /\ SetFrom(i, index) = {}
        <3>1. f[i] = f[i + 1] /\ i < NUM_ULONGS /\ i + 1 \in A /\ i < i + 1
            BY <1>0, <1>1, <2>0, <2>3 DEF Seeks
        <3>2. f[i + 1] = LeastOf(T(i + 1))
            BY <1>3, <3>1
        <3>3. T(i) = T(i + 1)
            <4>1. ASSUME NEW c \in T(i) PROVE c \in T(i + 1)
                <5>1. c \in Nat /\ c >= index /\ c >= i * 32 /\ c \in bits
                    BY <2>0
                <5>2. ~ (c < (i + 1) * 32)
                    BY <1>0, <1>2, <2>0, <2>3, <5>1, SetFromIs
                <5>3. QED BY <2>0, <5>1, <5>2
            <4>2. ASSUME NEW c \in T(i + 1) PROVE c \in T(i)
                BY <1>0, <2>0
            <4>3. QED BY <4>1, <4>2
        <3>4. QED BY <3>1, <3>2, <3>3
    <2>4. QED BY <2>1, <2>2, <2>3
<1>4. A \subseteq G
    <2>1. A \subseteq Nat
        OBVIOUS
    <2>2. PICK N \in Nat : N = NUM_ULONGS
        BY <1>0
    <2> HIDE DEF A, G
    <2>3. ASSUME NEW i \in A, \A j \in A : i < j /\ i < N => j \in G PROVE i \in G
        BY <1>3, <2>2, <2>3
    <2>4. QED BY <2>1, <2>3, LargerFirst
<1>5. f[q] = LeastOf(T(q))
    BY <1>4
<1>6. T(q) = {b \in bits : b >= index}
    <2>1. \A b \in bits : b >= index => b >= q * 32
        BY <1>0, <1>2
    <2>2. QED BY <2>1
<1>7. QED BY <1>1, <1>2, <1>5, <1>6

BsSlots == UNION {BsRun(r[1], r[2]) : r \in bsHeld}

\* The bits from N on in the last word stay set.
BsInv ==
    /\ firstPos = 0
    /\ bsHeld \subseteq Nat \X (Nat \ {0})
    /\ \A r \in bsHeld : r[1] + r[2] <= BsBits
    /\ \A r, s \in bsHeld : r # s => BsRun(r[1], r[2]) \cap BsRun(s[1], s[2]) = {}
    /\ bits = BsSlots \cup (BsBits .. NUM_ULONGS * 32 - 1)

SlotsOf(H) == UNION {BsRun(s[1], s[2]) : s \in H}

LEMMA SlotsAdd ==
    ASSUME NEW H, NEW first, NEW length
    PROVE  SlotsOf(H \cup {<<first, length>>}) = SlotsOf(H) \cup BsRun(first, length)
<1> PICK r : r = <<first, length>>
    OBVIOUS
<1>1. r[1] = first /\ r[2] = length
    OBVIOUS
<1>2. UNION {BsRun(s[1], s[2]) : s \in H \cup {r}} = (UNION {BsRun(s[1], s[2]) : s \in H}) \cup BsRun(r[1], r[2])
    <2>1. ASSUME NEW x
          PROVE  x \in UNION {BsRun(s[1], s[2]) : s \in H \cup {r}}
                 <=> x \in (UNION {BsRun(s[1], s[2]) : s \in H}) \cup BsRun(r[1], r[2])
        <3>1. x \in UNION {BsRun(s[1], s[2]) : s \in H \cup {r}} <=> \E s \in H \cup {r} : x \in BsRun(s[1], s[2])
            OBVIOUS
        <3>2. x \in UNION {BsRun(s[1], s[2]) : s \in H} <=> \E s \in H : x \in BsRun(s[1], s[2])
            OBVIOUS
        <3>3. (\E s \in H \cup {r} : x \in BsRun(s[1], s[2])) <=>
              ((\E s \in H : x \in BsRun(s[1], s[2])) \/ x \in BsRun(r[1], r[2]))
            OBVIOUS
        <3>4. x \in (UNION {BsRun(s[1], s[2]) : s \in H}) \cup BsRun(r[1], r[2])
              <=> (x \in (UNION {BsRun(s[1], s[2]) : s \in H}) \/ x \in BsRun(r[1], r[2]))
            OBVIOUS
        <3>5. QED BY <3>1, <3>2, <3>3, <3>4
    <2>2. QED BY <2>1
<1>3. QED BY <1>1, <1>2 DEF SlotsOf

LEMMA BsRunsWhole ==
    ASSUME bsHeld' = {<<0, BsBits>>}, bits' = 0 .. NUM_ULONGS * BITS_PER_ULONG - 1, firstPos' = 0
    PROVE  BsInv'
<1>1. BsBits \in Nat /\ BsBits > 0 /\ BsBits < NUM_ULONGS * 32 /\ NUM_ULONGS \in Nat
    BY NumUlongs
<1>2. BsSlots' = 0 .. BsBits - 1
    BY <1>1 DEF BsSlots, BsRun
<1>3. bits' = (0 .. BsBits - 1) \cup (BsBits .. NUM_ULONGS * 32 - 1)
    BY <1>1 DEF BITS_PER_ULONG
<1>4. QED BY <1>1, <1>2, <1>3 DEF BsInv

LEMMA BsInitGood == BsInit => BsInv
<1> SUFFICES ASSUME BsInit PROVE BsInv
    OBVIOUS
<1>1. BsBits \in Nat /\ BsBits > 0 /\ BsBits < NUM_ULONGS * 32 /\ NUM_ULONGS \in Nat
    BY NumUlongs
<1>2. BsSlots = 0 .. BsBits - 1
    BY <1>1 DEF BsSlots, BsRun, BsInit
<1>3. bits = (0 .. BsBits - 1) \cup (BsBits .. NUM_ULONGS * 32 - 1)
    BY <1>1 DEF BITS_PER_ULONG, BsInit
<1>4. QED BY <1>1, <1>2, <1>3 DEF BsInv, BsInit

\* What allocate finds.
LEMMA BsAllocateFinds ==
    ASSUME BsInv, NEW length \in BsLengths, NEW alignment \in BsAlignments
    PROVE  BsSearch(bits, length, alignment) =
             LeastOf({p \in 0 .. BsBits - length : p % alignment = 0 /\ BsRun(p, length) \cap bits = {}})
<1>1. length \in Nat \ {0} /\ length <= BsBits /\ alignment \in Nat \ {0} /\ firstPos = 0 /\ firstPos \in Nat
    BY BsAssumption DEF BsInv
<1>2. BsBits \in Nat /\ BsBits > 0 /\ BsBits < NUM_ULONGS * 32 /\ NUM_ULONGS \in Nat
    BY NumUlongs
<1>3. PICK f : BsSearches(f, bits, length, alignment) /\ BsSearch(bits, length, alignment) = f[firstPos]
    BY <1>1, BsSearchIs
<1>4. ASSUME NEW p \in Nat, BsFits(bits, length, p), p < BsBits PROVE p + length <= BsBits
    <2>1. SUFFICES ASSUME BsBits < p + length PROVE FALSE
        BY <1>1, <1>2
    <2>2. BsBits - p \in 0 .. length - 1 /\ p + (BsBits - p) = BsBits
        BY <1>1, <1>2, <1>4, <2>1
    <2>3. BsBits \in bits
        BY <1>2 DEF BsInv
    <2>4. QED BY <1>4, <2>2, <2>3 DEF BsFits, BsTaken
<1>5. f[0] = LeastOf({p \in 0 .. BsBits - length : p % alignment = 0 /\ BsRun(p, length) \cap bits = {}})
    BY <1>1, <1>3, <1>4, BsFinds
<1>6. QED BY <1>1, <1>3, <1>5

LEMMA LeastOfIn == ASSUME NEW T, T \subseteq Nat, LeastOf(T) # -1 PROVE LeastOf(T) \in T
<1>1. T # {} /\ LeastOf(T) = Min(T)
    BY DEF LeastOf
<1>2. QED BY <1>1, LeastIs

LEMMA BsAllocateKeeps ==
    ASSUME BsInv, NEW length \in BsLengths, NEW alignment \in BsAlignments, BsAllocate(length, alignment)
    PROVE  BsInv'
<1>1. length \in Nat \ {0} /\ length <= BsBits /\ BsBits \in Nat
    BY BsAssumption
<1>2. PICK p : p = BsSearch(bits, length, alignment)
    OBVIOUS
<1>3. p \in {q \in 0 .. BsBits - length : q % alignment = 0 /\ BsRun(q, length) \cap bits = {}}
    <2> DEFINE T == {q \in 0 .. BsBits - length : q % alignment = 0 /\ BsRun(q, length) \cap bits = {}}
    <2>1. T \subseteq Nat
        BY <1>1
    <2>2. LeastOf(T) = p /\ p # -1
        BY <1>2, BsAllocateFinds DEF BsAllocate
    <2> HIDE DEF T
    <2>3. p \in T
        BY <2>1, <2>2, LeastOfIn
    <2>4. QED BY <2>3 DEF T
<1>4. p \in Nat /\ p + length <= BsBits /\ BsRun(p, length) \cap bits = {}
    BY <1>1, <1>3
<1>5. bits' = bits \cup BsRun(p, length) /\ bsHeld' = bsHeld \cup {<<p, length>>} /\ firstPos' = Min({firstPos, p})
    BY <1>2 DEF BsAllocate
<1>6. firstPos' = 0
    <2>1. {0, p} \subseteq Nat /\ {0, p} # {}
        BY <1>4
    <2>2. PICK m \in {0, p} : m = Min({0, p}) /\ m <= 0
        BY <2>1, LeastIs
    <2>3. m = 0
        BY <1>4, <2>2
    <2>4. QED BY <1>5, <2>2, <2>3 DEF BsInv
<1>7. bsHeld' \subseteq Nat \X (Nat \ {0}) /\ \A r \in bsHeld' : r[1] + r[2] <= BsBits
    BY <1>1, <1>4, <1>5 DEF BsInv
<1>8. \A r \in bsHeld : BsRun(r[1], r[2]) \subseteq bits
    BY DEF BsInv, BsSlots
<1>9. \A r, s \in bsHeld' : r # s => BsRun(r[1], r[2]) \cap BsRun(s[1], s[2]) = {}
    BY <1>4, <1>5, <1>8 DEF BsInv
<1>10. BsSlots' = BsSlots \cup BsRun(p, length)
    <2>1. BsSlots' = SlotsOf(bsHeld \cup {<<p, length>>}) /\ BsSlots = SlotsOf(bsHeld)
        BY <1>5 DEF BsSlots, SlotsOf
    <2>2. QED BY <2>1, SlotsAdd
<1>11. QED BY <1>5, <1>6, <1>7, <1>9, <1>10 DEF BsInv

LEMMA BsFreeKeeps ==
    ASSUME BsInv, NEW r \in bsHeld, NEW length \in BsLengths \cup {r[2]}, BsFree(r, length)
    PROVE  BsInv'
<1>1. PICK a \in Nat, n \in Nat \ {0} : r = <<a, n>> /\ r[1] = a /\ r[2] = n /\ a + n <= BsBits
    BY DEF BsInv
<1>2. length \in Nat \ {0} /\ length <= n /\ BsBits \in Nat
    BY <1>1, BsAssumption DEF BsFree
<1>3. PICK k \in Nat : k = n - length
    BY <1>2
<1>4. PICK rest : rest = {s \in {<<a + length, k>>} : s[2] > 0}
    OBVIOUS
<1>5. bsHeld' = (bsHeld \ {r}) \cup rest /\ bits' = bits \ BsRun(a, length) /\ firstPos' = firstPos
    BY <1>1, <1>3, <1>4 DEF BsFree
<1>6. rest = IF k > 0 THEN {<<a + length, k>>} ELSE {}
    BY <1>4
<1>7. BsRun(a, n) = BsRun(a, length) \cup BsRun(a + length, k) /\ BsRun(a, length) \cap BsRun(a + length, k) = {}
    BY <1>2, <1>3 DEF BsRun
<1>8. k = 0 => BsRun(a + length, k) = {}
    BY <1>2 DEF BsRun
<1>9. bsHeld' \subseteq Nat \X (Nat \ {0}) /\ \A s \in bsHeld' : s[1] + s[2] <= BsBits
    BY <1>1, <1>2, <1>3, <1>5, <1>6 DEF BsInv
<1>10. \A s \in bsHeld : s # r => BsRun(s[1], s[2]) \cap BsRun(a, n) = {}
    BY <1>1 DEF BsInv
<1>11. \A s \in rest : BsRun(s[1], s[2]) = BsRun(a + length, k)
    BY <1>6
<1>12. \A s, u \in bsHeld' : s # u => BsRun(s[1], s[2]) \cap BsRun(u[1], u[2]) = {}
    <2>1. ASSUME NEW s \in bsHeld', NEW u \in bsHeld', s # u
          PROVE  BsRun(s[1], s[2]) \cap BsRun(u[1], u[2]) = {}
        <3>1. CASE s \in bsHeld \ {r} /\ u \in bsHeld \ {r}
            BY <2>1, <3>1 DEF BsInv
        <3>2. CASE s \in rest /\ u \in bsHeld \ {r}
            BY <1>7, <1>10, <1>11, <3>2
        <3>3. CASE s \in bsHeld \ {r} /\ u \in rest
            BY <1>7, <1>10, <1>11, <3>3
        <3>4. CASE s \in rest /\ u \in rest
            BY <1>6, <2>1, <3>4
        <3>5. QED BY <1>5, <3>1, <3>2, <3>3, <3>4
    <2>2. QED BY <2>1
<1> DEFINE others == UNION {BsRun(s[1], s[2]) : s \in bsHeld \ {r}}
<1>13. BsSlots = others \cup BsRun(a, n) /\ others \cap BsRun(a, n) = {}
    BY <1>1, <1>10 DEF BsSlots
<1>14. BsSlots' = others \cup BsRun(a + length, k)
    <2>1. CASE k > 0
        <3>1. PICK H : H = bsHeld \ {r}
            OBVIOUS
        <3>2. BsSlots' = SlotsOf(H \cup {<<a + length, k>>}) /\ others = SlotsOf(H)
            BY <1>5, <1>6, <2>1, <3>1 DEF BsSlots, SlotsOf
        <3>3. PICK b : b = a + length
            OBVIOUS
        <3>4. SlotsOf(H \cup {<<b, k>>}) = SlotsOf(H) \cup BsRun(b, k)
            BY SlotsAdd
        <3>5. QED BY <3>2, <3>3, <3>4
    <2>2. CASE k = 0
        BY <1>5, <1>6, <1>8, <2>2 DEF BsSlots
    <2>3. QED BY <2>1, <2>2
<1> HIDE DEF others
<1>15. BsRun(a, length) \cap (BsBits .. NUM_ULONGS * 32 - 1) = {}
    BY <1>1, <1>2, NumUlongs DEF BsRun
<1>16. bits' = BsSlots' \cup (BsBits .. NUM_ULONGS * 32 - 1)
    BY <1>5, <1>7, <1>13, <1>14, <1>15 DEF BsInv
<1>17. QED BY <1>5, <1>9, <1>12, <1>16 DEF BsInv

LEMMA BsInvMatches == BsInv => BitsMatchRuns
<1> SUFFICES ASSUME BsInv PROVE BitsMatchRuns
    OBVIOUS
<1>1. BsBits \in Nat /\ BsBits > 0 /\ BsBits < NUM_ULONGS * 32 /\ NUM_ULONGS \in Nat
    BY NumUlongs
<1>2. ASSUME NEW r \in bsHeld
      PROVE  r[1] \in Nat /\ r[1] + r[2] \in Nat /\ BsRun(r[1], r[2]) \subseteq 0 .. BsBits - 1
    <2>1. r[1] \in Nat /\ r[2] \in Nat /\ r[1] + r[2] <= BsBits
        BY DEF BsInv
    <2>2. QED BY <1>1, <2>1 DEF BsRun
<1>3. BsSlots \subseteq 0 .. BsBits - 1
    BY <1>2 DEF BsSlots
<1>4. bits \cap 0 .. BsBits - 1 = BsSlots
    <2>1. (BsBits .. NUM_ULONGS * 32 - 1) \cap (0 .. BsBits - 1) = {}
        BY <1>1
    <2>2. QED BY <1>3, <2>1 DEF BsInv
<1>5. bits \subseteq 0 .. NUM_ULONGS * 32 - 1
    BY <1>1, <1>3 DEF BsInv
<1>6. ASSUME NEW r \in bsHeld, NEW index \in {r[1], r[1] + r[2]}
      PROVE  firstAfter(index) = LeastOf({b \in bits : b >= index})
    <2>1. index \in Nat
        BY <1>2
    <2>2. QED BY <1>5, <2>1, FirstAfterIs
<1>7. QED BY <1>4, <1>6, BsAllocateFinds DEF BitsMatchRuns, BsInv, BsSlots

\* Whatever runs were given back, whole or in part, a bit is set for a slot that is held
\* and for no other; allocate finds the first free run at an alignment if there is one, and
\* firstAfter the first set bit (BitString, for any number of bits, any lengths and
\* alignments).
THEOREM SearchesAreExact == BsSpec => []BitsMatchRuns
<1>1. ASSUME BsInv, [BsNext]_bsVars PROVE BsInv'
    <2>1. CASE BsClear
        BY <2>1, BsRunsWhole DEF BsClear
    <2>2. ASSUME NEW length \in BsLengths, NEW alignment \in BsAlignments, BsAllocate(length, alignment)
          PROVE  BsInv'
        BY <1>1, <2>2, BsAllocateKeeps
    <2>3. ASSUME NEW r \in bsHeld, NEW length \in BsLengths \cup {r[2]}, BsFree(r, length) PROVE BsInv'
        BY <1>1, <2>3, BsFreeKeeps
    <2>4. CASE UNCHANGED bsVars
        BY <1>1, <2>4 DEF bsVars, BsInv, BsSlots
    <2>5. QED BY <1>1, <2>1, <2>2, <2>3, <2>4 DEF BsNext
<1>2. QED BY <1>1, BsInitGood, BsInvMatches, PTL DEF BsSpec
=============================================================================
