--------------------------- MODULE LeaHeapProofs ---------------------------
(***************************************************************************)
(* The boundary tags and the bins of the Lea heap (LeaHeap), whatever is   *)
(* asked for and freed, for every size of the memory below it.             *)
(*                                                                         *)
(* First the size classes, the lists of the bins and the layout of the     *)
(* headers; then what each operation of a layer makes of the record, from  *)
(* the big heap up; then the steps.                                        *)
(***************************************************************************)
EXTENDS ProofFacts, LeaHeap

-----------------------------------------------------------------------------
(* LeaHeap *)

\* The constants are numbers, and the sizes are multiples of 8.
LEMMA LhNumbers ==
    /\ LhLargest \in Nat /\ LhEnd \in Nat /\ LhEnd <= LhLargest /\ LhMmapAbove \in Nat /\ LhMmapAbove <= LhLargest
    /\ \A n \in LhSizes : n \in Nat \ {0} /\ n % 8 = 0
<1>1. LhLargest \in Nat
    BY SMT DEF LhLargest
<1>2. QED BY <1>1, LhAssumption

LEMMA LargestIs == LhLargest = 2147483647
BY SMT DEF LhLargest

LEMMA AtMostLargest == ASSUME NEW n \in Nat, n <= LhLargest PROVE n <= 2147483647
BY LargestIs, SMT

\* The table of powers, of which no entry is left to the provers to compute.
LEMMA TwosDouble ==
    /\ \A k \in 1 .. 14 : Twos[k] \in Nat
    /\ Twos[1] = 1 /\ Twos[13] = 4096 /\ \A k \in 1 .. 13 : Twos[k + 1] = 2 * Twos[k]
<1>1. /\ Twos[1] = 1 /\ Twos[2] = 2 /\ Twos[3] = 4 /\ Twos[4] = 8 /\ Twos[5] = 16 /\ Twos[6] = 32 /\ Twos[7] = 64
      /\ Twos[8] = 128 /\ Twos[9] = 256 /\ Twos[10] = 512 /\ Twos[11] = 1024 /\ Twos[12] = 2048 /\ Twos[13] = 4096
      /\ Twos[14] = 8192
    BY DEF Twos
<1>2. ASSUME NEW k \in 1 .. 14 PROVE Twos[k] \in Nat
    <2>1. k = 1 \/ k = 2 \/ k = 3 \/ k = 4 \/ k = 5 \/ k = 6 \/ k = 7 \/ k = 8 \/ k = 9 \/ k = 10 \/ k = 11
              \/ k = 12 \/ k = 13 \/ k = 14
        BY SMT
    <2>2. QED BY <1>1, <2>1, SMT
<1>3. ASSUME NEW k \in 1 .. 13 PROVE Twos[k + 1] = 2 * Twos[k]
    <2>1. k = 1 \/ k = 2 \/ k = 3 \/ k = 4 \/ k = 5 \/ k = 6 \/ k = 7 \/ k = 8 \/ k = 9 \/ k = 10 \/ k = 11
              \/ k = 12 \/ k = 13
        BY SMT
    <2>2. QED BY <1>1, <2>1, SMT
<1>4. QED BY <1>1, <1>2, <1>3, SMT

\* Log2 is defined, and an upper bound, on what BigClass asks of it.
LEMMA Log2Is ==
    ASSUME NEW n \in Nat, n >= 1, n <= 4095
    PROVE  Log2(n) \in 0 .. 11 /\ n < 2 * Twos[Log2(n) + 1]
<1>0. Twos[1] = 1 /\ Twos[13] = 4096
    BY TwosDouble
<1>1. PICK c \in 0 .. 11 : Twos[c + 1] <= n /\ n < Twos[c + 2]
    <2> DEFINE S == {k \in Nat : k <= 12 => Twos[k + 1] <= n}
    <2>1. SUFFICES ASSUME \A m \in 0 .. 11 : Twos[m + 1] <= n => Twos[m + 2] <= n PROVE FALSE
        <3>1. ASSUME NEW m \in 0 .. 11 PROVE Twos[m + 1] \in Nat /\ Twos[m + 2] \in Nat
            BY TwosDouble, SMT
        <3>2. PICK m \in 0 .. 11 : Twos[m + 1] <= n /\ ~(Twos[m + 2] <= n)
            BY <2>1
        <3>3. Twos[m + 1] <= n /\ n < Twos[m + 2]
            BY <3>1, <3>2, SMT
        <3>4. QED BY <3>3
    <2>2. 0 \in S
        <3>1. 0 + 1 = 1 /\ 1 <= n
            OBVIOUS
        <3>2. QED BY <1>0, <3>1
    <2>3. ASSUME NEW k \in Nat, k < 12, k \in S PROVE k + 1 \in S
        <3>1. k \in 0 .. 11 /\ (k + 1) + 1 = k + 2 /\ Twos[k + 1] <= n
            BY <2>3, SMT
        <3>2. Twos[k + 2] <= n
            BY <2>1, <3>1
        <3>3. QED BY <3>1, <3>2
    <2>4. 0 .. 12 \subseteq S
        <3> HIDE DEF S
        <3>1. 12 \in Nat
            OBVIOUS
        <3>2. QED BY <2>2, <2>3, <3>1, OneMore
    <2>5. Twos[13] <= n
        <3>1. 12 \in S
            <4> HIDE DEF S
            <4>1. 12 \in 0 .. 12
                OBVIOUS
            <4>2. QED BY <2>4, <4>1
        <3>2. 12 + 1 = 13 /\ 12 <= 12
            OBVIOUS
        <3>3. QED BY <3>1, <3>2
    <2>6. QED BY <1>0, <2>5, SMT
<1>2. \E m \in 0 .. 12 : Twos[m + 1] <= n /\ n < Twos[m + 2]
    BY <1>1
<1>3. PICK l : l = Log2(n)
    OBVIOUS
<1>4. l \in 0 .. 12 /\ Twos[l + 1] <= n /\ n < Twos[l + 2]
    <2>1. l = CHOOSE m \in 0 .. 12 : Twos[m + 1] <= n /\ n < Twos[m + 2]
        BY <1>3 DEF Log2
    <2>2. QED BY ONLY <1>2, <2>1, Zenon
<1>5. l # 12
    <2>1. SUFFICES ASSUME l = 12 PROVE FALSE
        OBVIOUS
    <2>2. Twos[13] <= n
        <3>1. l + 1 = 13
            BY <2>1
        <3>2. QED BY <1>4, <3>1
    <2>3. QED BY <1>0, <2>2, SMT
<1>6. Twos[l + 2] = 2 * Twos[l + 1]
    <2>1. l + 1 \in 1 .. 13 /\ (l + 1) + 1 = l + 2
        BY <1>4
    <2>2. QED BY <2>1, TwosDouble
<1>7. QED BY <1>3, <1>4, <1>5, <1>6

\* No request is larger than its class, and classes rise.
LEMMA ClassesHold ==
    ASSUME NEW sz \in 1 .. LhLargest
    PROVE  BigClass(sz) \in 0 .. 131 /\ sz <= BigClassSize(BigClass(sz))
<1>0. sz \in Nat /\ sz >= 1 /\ sz <= 2147483647
    <2>1. LhLargest \in Nat
        BY LhNumbers
    <2>2. sz \in Nat /\ sz >= 1 /\ sz <= LhLargest
        BY ONLY <2>1, SMT
    <2>3. QED BY ONLY <2>2, AtMostLargest, SMT
<1>1. PICK n \in Nat : n = sz - 1 /\ n <= 2147483646
    BY <1>0, SMT
<1>2. CASE n <= 513
    BY <1>0, <1>1, <1>2, SMT DEF BigClass, BigClassSize
<1>3. CASE n > 513 /\ n \div 64 <= 32
    BY <1>0, <1>1, <1>3, SMT DEF BigClass, BigClassSize
<1>4. CASE n \div 64 > 32 /\ n \div 512 <= 20
    <2>1. PICK q \in Nat : q = n \div 512 /\ q >= 4 /\ n < 512 * (q + 1) /\ n > 513
        BY <1>1, <1>4, SMT
    <2>2. BigClass(sz) = 91 + q
        BY <1>1, <1>4, <2>1, SMT DEF BigClass
    <2>3. QED BY <1>0, <1>1, <1>4, <2>1, <2>2, SMT DEF BigClassSize
<1>5. CASE n \div 64 > 32 /\ n \div 512 > 20 /\ n \div 4096 <= 10
    <2>1. PICK q \in Nat : q = n \div 4096 /\ q >= 2 /\ n < 4096 * (q + 1) /\ n > 513
        BY <1>1, <1>5, SMT
    <2>2. BigClass(sz) = 104 + q
        BY <1>1, <1>5, <2>1, SMT DEF BigClass
    <2>3. QED BY <1>0, <1>1, <1>5, <2>1, <2>2, SMT DEF BigClassSize
<1>6. CASE n \div 64 > 32 /\ n \div 512 > 20 /\ n \div 4096 > 10 /\ n \div 32768 <= 4
    <2>1. PICK q \in Nat : q = n \div 32768 /\ q >= 1 /\ q <= 4 /\ n < 32768 * (q + 1) /\ n > 513
        BY <1>1, <1>6, SMT
    <2>2. BigClass(sz) = 113 + q
        BY <1>1, <1>6, <2>1, SMT DEF BigClass
    <2>3. QED BY <1>0, <1>1, <2>1, <2>2, SMT DEF BigClassSize
<1>7. CASE /\ n \div 64 > 32 /\ n \div 512 > 20 /\ n \div 4096 > 10 /\ n \div 32768 > 4
           /\ n \div 262144 <= 2
    <2>1. PICK q \in 0 .. 2 : q = n \div 262144 /\ n < 262144 * (q + 1) /\ n > 513
        BY <1>1, <1>7, SMT
    <2>2. BigClass(sz) = 118 + q
        BY <1>1, <1>7, <2>1, SMT DEF BigClass
    <2>3. BigClassSize(118 + q) = 262144 * Twos[q + 1]
        BY <2>1, SMT DEF BigClassSize
    <2>4. Twos[q + 1] >= q + 1
        BY <2>1, TwosDouble, SMT
    <2>5. QED BY <1>0, <1>1, <2>1, <2>2, <2>3, <2>4, TwosDouble, SMT
<1>8. CASE /\ n \div 64 > 32 /\ n \div 512 > 20 /\ n \div 4096 > 10 /\ n \div 32768 > 4
           /\ n \div 262144 > 2
    <2>1. PICK q \in Nat : q >= 1 /\ q <= 4095 /\ q = n \div 524288 /\ n < 524288 * (q + 1) /\ n > 513
        BY <1>1, <1>8, SMT
    <2>2. PICK l \in 0 .. 11 : l = Log2(q) /\ q < 2 * Twos[l + 1]
        <3>1. q \in Nat /\ q >= 1 /\ q <= 4095
            BY <2>1, SMT
        <3>2. Log2(q) \in 0 .. 11 /\ q < 2 * Twos[Log2(q) + 1]
            BY ONLY <3>1, Log2Is, SMT
        <3>3. QED BY ONLY <3>2
    <2>3. BigClass(sz) = 120 + l
        BY <1>1, <1>8, <2>1, <2>2, SMT DEF BigClass
    <2>4. BigClassSize(120 + l) = 262144 * Twos[l + 3]
        BY SMT DEF BigClassSize
    <2>5. Twos[l + 3] = 4 * Twos[l + 1] /\ Twos[l + 1] \in Nat
        <3>1. l + 1 \in 1 .. 13 /\ l + 2 \in 1 .. 13 /\ (l + 1) + 1 = l + 2 /\ (l + 2) + 1 = l + 3
            OBVIOUS
        <3>2. Twos[l + 2] = 2 * Twos[l + 1] /\ Twos[l + 3] = 2 * Twos[l + 2] /\ Twos[l + 1] \in Nat
            BY <3>1, TwosDouble, SMT
        <3>3. QED BY <3>2, SMT
    <2>6. QED BY <1>0, <1>1, <2>1, <2>2, <2>3, <2>4, <2>5, SMT
<1>9. QED BY <1>1, <1>2, <1>3, <1>4, <1>5, <1>6, <1>7, <1>8, SMT

LhClasses == 0 .. 131

\* The sizes of the classes rise.
LEMMA ClassesRise ==
    ASSUME NEW i \in LhClasses, NEW j \in LhClasses, i <= j
    PROVE  BigClassSize(i) \in Nat /\ BigClassSize(j) \in Nat /\ BigClassSize(i) <= BigClassSize(j)
<1> USE DEF LhClasses
<1>1. ASSUME NEW k \in 0 .. 131 PROVE BigClassSize(k) \in Nat
    <2>1. CASE k < 118
        BY <2>1, SMT DEF BigClassSize
    <2>2. CASE k >= 118
        <3>1. Twos[k - 117] \in Nat
            BY <2>2, TwosDouble, SMT
        <3>2. QED BY <2>2, <3>1, SMT DEF BigClassSize
    <2>3. QED BY <2>1, <2>2, SMT
<1>2. ASSUME NEW k \in 0 .. 130 PROVE BigClassSize(k) <= BigClassSize(k + 1)
    <2>1. CASE k < 117
        BY <2>1, SMT DEF BigClassSize
    <2>2. CASE k = 117
        BY <2>2, TwosDouble, SMT DEF BigClassSize
    <2>3. CASE k > 117
        <3>1. k - 117 \in 1 .. 13 /\ (k - 117) + 1 = (k + 1) - 117
            BY <2>3
        <3>2. Twos[(k + 1) - 117] = 2 * Twos[k - 117] /\ Twos[k - 117] \in Nat
            BY <3>1, TwosDouble, SMT
        <3>3. BigClassSize(k) = 262144 * Twos[k - 117] /\ BigClassSize(k + 1) = 262144 * Twos[(k + 1) - 117]
            BY <2>3, SMT DEF BigClassSize
        <3>4. QED BY <3>2, <3>3, SMT
    <2>4. QED BY <2>1, <2>2, <2>3, SMT
<1> DEFINE S == {n \in Nat : n <= j - i => BigClassSize(i) <= BigClassSize(i + n)}
<1>3. 0 \in S
    BY <1>1, SMT
<1>4. ASSUME NEW n \in Nat, n < j - i, n \in S PROVE n + 1 \in S
    <2>1. i + n \in 0 .. 130 /\ i + n \in 0 .. 131 /\ (i + n) + 1 = i + (n + 1) /\ i + (n + 1) \in 0 .. 131
        BY <1>4
    <2>2. /\ BigClassSize(i) <= BigClassSize(i + n) /\ BigClassSize(i + n) <= BigClassSize(i + (n + 1))
        BY <1>2, <1>4, <2>1
    <2>3. BigClassSize(i) \in Nat /\ BigClassSize(i + n) \in Nat /\ BigClassSize(i + (n + 1)) \in Nat
        BY <1>1, <2>1, SMT
    <2>4. QED BY <2>2, <2>3, SMT
<1>5. j - i \in Nat /\ i + (j - i) = j
    OBVIOUS
<1>6. 0 .. (j - i) \subseteq S
    <2> HIDE DEF S
    <2>1. PICK k \in Nat : k = j - i
        BY <1>5
    <2>2. \A n \in Nat : n < k /\ n \in S => n + 1 \in S
        BY <1>4, <2>1
    <2>3. 0 .. k \subseteq S
        BY <1>3, <2>2, OneMore
    <2>4. QED BY <2>1, <2>3, SMT
<1>7. j - i \in S
    <2> HIDE DEF S
    <2>1. j - i \in 0 .. (j - i)
        BY <1>5
    <2>2. QED BY <1>6, <2>1
<1>8. QED BY <1>1, <1>5, <1>7, SMT

\* A non-empty set of naturals that is bounded has a greatest member.
LEMMA GreatestIs ==
    ASSUME NEW k \in Nat, NEW I, I \subseteq 0 .. k, I # {}
    PROVE  Max(I) \in I /\ \A m \in I : m <= Max(I)
<1> DEFINE T == {k - m : m \in I}
<1>1. T \subseteq Nat /\ T # {}
    <2>1. ASSUME NEW m \in I PROVE k - m \in Nat
        <3>1. m \in 0 .. k
            OBVIOUS
        <3>2. QED BY <3>1
    <2>2. QED BY <2>1
<1>2. PICK n \in T : \A m \in T : n <= m
    <2> HIDE DEF T
    <2>1. QED BY <1>1, LeastNatural
<1>3. PICK g \in I : n = k - g
    OBVIOUS
<1>4. ASSUME NEW m \in I PROVE m <= g
    <2>1. n <= k - m
        BY <1>2
    <2>2. m \in 0 .. k /\ g \in 0 .. k
        OBVIOUS
    <2>3. QED BY <1>3, <2>1, <2>2
<1>5. \E x \in I : \A y \in I : x >= y
    <2>1. \A y \in I : g >= y
        BY <1>4
    <2>2. QED BY <2>1
<1>6. PICK x \in I : x = Max(I) /\ \A y \in I : x >= y
    BY <1>5 DEF Max
<1>7. QED BY <1>6

\* The bin that an object is filed in is of a class no larger than the object.
LEMMA BigBinIs ==
    ASSUME NEW size \in Nat, size >= 8, size <= LhLargest
    PROVE  BigBin(size) \in 0 .. 131 /\ BigClassSize(BigBin(size)) <= size
<1>1. size \in 1 .. LhLargest /\ LhLargest \in Nat
    BY LhNumbers
<1>2. PICK c \in 0 .. 131 : c = BigClass(size)
    BY <1>1, ClassesHold
<1> DEFINE I == {i \in 0 .. c : BigClassSize(i) <= size}
<1>3. 0 \in I
    <2>1. BigClassSize(0) = 8
        BY DEF BigClassSize
    <2>2. QED BY <2>1
<1>4. Max(I) \in I
    <2>1. I \subseteq 0 .. c /\ I # {} /\ c \in Nat
        BY <1>3
    <2> HIDE DEF I
    <2>2. QED BY <2>1, GreatestIs
<1>5. BigBin(size) = Max(I)
    BY <1>2 DEF BigBin
<1>6. PICK b \in I : b = BigBin(size)
    BY <1>4, <1>5
<1>7. QED BY <1>6

\* What is in a bin is as large as what is asked of the bin.
LEMMA BinServes ==
    ASSUME NEW size \in Nat, size >= 8, size <= LhLargest, NEW sz \in 1 .. LhLargest, BigClass(sz) <= BigBin(size)
    PROVE  sz <= size
<1>1. PICK b \in 0 .. 131 : b = BigBin(size) /\ BigClassSize(b) <= size
    BY BigBinIs
<1>2. PICK c \in 0 .. 131 : c = BigClass(sz) /\ sz <= BigClassSize(c)
    BY ClassesHold
<1>3. BigClassSize(c) <= BigClassSize(b) /\ BigClassSize(c) \in Nat /\ BigClassSize(b) \in Nat
    <2>1. c <= b
        BY <1>1, <1>2
    <2>2. c \in LhClasses /\ b \in LhClasses
        BY DEF LhClasses
    <2>3. QED BY ONLY <2>1, <2>2, ClassesRise
<1>4. sz \in Nat
    BY LhNumbers
<1>5. QED BY <1>1, <1>2, <1>3, <1>4

-----------------------------------------------------------------------------
(* Lists of headers in bins, each header once. *)

LhNoTwice(s) == \A j, k \in 1 .. Len(s) : s[j] = s[k] => j = k

LhLists(f) == \A i \in DOMAIN f : f[i] \in Seq(Nat) /\ LhNoTwice(f[i])

LhIn(f, i, h) == i \in DOMAIN f /\ h \in ToSet(f[i])

\* What putting a header in a bin does, and what taking one out does.
LhAdds(f, f2, i, h) ==
    /\ LhLists(f2) /\ DOMAIN f2 = DOMAIN f \cup {i}
    /\ \A j, g : LhIn(f2, j, g) <=> (LhIn(f, j, g) \/ (j = i /\ g = h))

LhTakes(f, f2, i, h) ==
    /\ LhLists(f2) /\ DOMAIN f2 = DOMAIN f
    /\ \A j, g : LhIn(f2, j, g) <=> (LhIn(f, j, g) /\ ~(j = i /\ g = h))

\* What a list holds.
LEMMA ToSetIs ==
    ASSUME NEW s \in Seq(Nat), NEW h
    PROVE  h \in ToSet(s) <=> \E k \in 1 .. Len(s) : s[k] = h
<1>1. DOMAIN s = 1 .. Len(s)
    OBVIOUS
<1>2. QED BY <1>1 DEF ToSet

\* A list with a header in front of it.
LEMMA ConsIs ==
    ASSUME NEW s \in Seq(Nat), LhNoTwice(s), NEW h \in Nat, h \notin ToSet(s)
    PROVE  /\ <<h>> \o s \in Seq(Nat) /\ LhNoTwice(<<h>> \o s)
           /\ \A g : g \in ToSet(<<h>> \o s) <=> (g \in ToSet(s) \/ g = h)
<1>1. PICK t : t = <<h>> \o s
    OBVIOUS
<1>2. t \in Seq(Nat) /\ Len(t) = Len(s) + 1 /\ Len(s) \in Nat
    BY <1>1
<1>3. t[1] = h /\ \A k \in 1 .. Len(s) : t[k + 1] = s[k]
    BY <1>1
<1>4. \A k \in 1 .. Len(s) : s[k] # h
    BY ToSetIs
<1>5. \A k \in 2 .. Len(t) : k - 1 \in 1 .. Len(s) /\ t[k] = s[k - 1]
    <2>1. ASSUME NEW k \in 2 .. Len(t) PROVE k - 1 \in 1 .. Len(s) /\ t[k] = s[k - 1]
        <3>1. k - 1 \in 1 .. Len(s) /\ (k - 1) + 1 = k
            BY <1>2
        <3>2. QED BY <1>3, <3>1
    <2>2. QED BY <2>1
<1>6. LhNoTwice(t)
    <2>1. SUFFICES ASSUME NEW j \in 1 .. Len(t), NEW k \in 1 .. Len(t), t[j] = t[k] PROVE j = k
        BY DEF LhNoTwice
    <2>2. CASE j = 1 \/ k = 1
        <3>1. j = 1 \/ j \in 2 .. Len(t)
            BY <1>2
        <3>2. k = 1 \/ k \in 2 .. Len(t)
            BY <1>2
        <3>3. QED BY <1>3, <1>4, <1>5, <2>1, <2>2, <3>1, <3>2
    <2>3. CASE j # 1 /\ k # 1
        <3>1. j \in 2 .. Len(t) /\ k \in 2 .. Len(t)
            BY <1>2, <2>3
        <3>2. s[j - 1] = s[k - 1] /\ j - 1 \in 1 .. Len(s) /\ k - 1 \in 1 .. Len(s)
            BY <1>5, <2>1, <3>1
        <3>3. j - 1 = k - 1
            BY <3>2 DEF LhNoTwice
        <3>4. QED BY <3>1, <3>3
    <2>4. QED BY <2>2, <2>3
<1>7. ASSUME NEW g PROVE g \in ToSet(t) <=> (g \in ToSet(s) \/ g = h)
    <2>1. CASE g \in ToSet(t)
        <3>1. PICK k \in 1 .. Len(t) : t[k] = g
            BY <1>2, <2>1, ToSetIs
        <3>2. k = 1 \/ k \in 2 .. Len(t)
            BY <1>2
        <3>3. QED BY <1>3, <1>5, <2>1, <3>1, <3>2, ToSetIs
    <2>2. CASE g = h
        <3>1. 1 \in 1 .. Len(t)
            BY <1>2
        <3>2. QED BY <1>2, <1>3, <2>2, <3>1, ToSetIs
    <2>3. CASE g \in ToSet(s)
        <3>1. PICK k \in 1 .. Len(s) : s[k] = g
            BY <2>3, ToSetIs
        <3>2. k + 1 \in 1 .. Len(t) /\ t[k + 1] = g
            BY <1>2, <1>3, <3>1
        <3>3. QED BY <1>2, <2>3, <3>2, ToSetIs
    <2>4. QED BY <2>1, <2>2, <2>3
<1>8. QED BY <1>1, <1>2, <1>6, <1>7

\* A list without its ith element.
LEMMA WithoutIs ==
    ASSUME NEW s \in Seq(Nat), LhNoTwice(s), NEW i \in 1 .. Len(s), NEW t \in Seq(Nat), Len(t) = Len(s) - 1,
           \A j \in 1 .. i - 1 : t[j] = s[j], \A j \in i .. Len(s) - 1 : t[j] = s[j + 1]
    PROVE  LhNoTwice(t) /\ \A g : g \in ToSet(t) <=> (g \in ToSet(s) /\ g # s[i])
<1> DEFINE place(j) == IF j < i THEN j ELSE j + 1
<1>0. Len(s) \in Nat /\ i \in Nat /\ i >= 1 /\ i <= Len(s)
    OBVIOUS
<1>1. ASSUME NEW j \in 1 .. Len(t) PROVE place(j) \in 1 .. Len(s) /\ place(j) # i /\ t[j] = s[place(j)]
    <2>1. CASE j < i
        <3>1. j \in 1 .. i - 1
            BY <1>0, <2>1
        <3>2. QED BY <1>0, <2>1, <3>1, SMTT(30)
    <2>2. CASE ~(j < i)
        <3>1. j \in i .. Len(s) - 1
            BY <1>0, <2>2
        <3>2. QED BY <1>0, <2>2, <3>1
    <2>3. QED BY <2>1, <2>2
<1>2. LhNoTwice(t)
    <2>1. SUFFICES ASSUME NEW j \in 1 .. Len(t), NEW k \in 1 .. Len(t), t[j] = t[k] PROVE j = k
        BY DEF LhNoTwice
    <2>2. PICK jj, kk : jj = place(j) /\ kk = place(k)
        OBVIOUS
    <2>3. jj \in 1 .. Len(s) /\ t[j] = s[jj] /\ kk \in 1 .. Len(s) /\ t[k] = s[kk]
        <3> HIDE DEF place
        <3>1. QED BY <1>1, <2>2
    <2>4. jj = kk
        BY <2>1, <2>3 DEF LhNoTwice
    <2>5. QED BY <1>0, <2>2, <2>4
<1>3. ASSUME NEW g PROVE g \in ToSet(t) <=> (g \in ToSet(s) /\ g # s[i])
    <2>1. CASE g \in ToSet(t)
        <3>1. PICK j \in 1 .. Len(t) : t[j] = g
            BY <2>1, ToSetIs
        <3>2. PICK p : p = place(j)
            OBVIOUS
        <3>3. p \in 1 .. Len(s) /\ p # i /\ s[p] = g
            BY <1>1, <3>1, <3>2
        <3>4. s[p] # s[i]
            BY <3>3 DEF LhNoTwice
        <3>5. QED BY <2>1, <3>3, <3>4, ToSetIs
    <2>2. CASE g \in ToSet(s) /\ g # s[i]
        <3>1. PICK k \in 1 .. Len(s) : s[k] = g
            BY <2>2, ToSetIs
        <3>2. k # i
            BY <2>2, <3>1
        <3>3. CASE k < i
            <4>1. k \in 1 .. i - 1 /\ k \in 1 .. Len(t)
                BY <1>0, <3>3
            <4>2. QED BY <2>2, <3>1, <4>1, ToSetIs
        <3>4. CASE k > i
            <4>1. k - 1 \in i .. Len(s) - 1 /\ k - 1 \in 1 .. Len(t) /\ (k - 1) + 1 = k
                BY <1>0, <3>4
            <4>2. t[k - 1] = g
                BY <3>1, <4>1
            <4>3. QED BY <2>2, <4>1, <4>2, ToSetIs
        <3>5. QED BY <1>0, <3>2, <3>3, <3>4
    <2>3. QED BY <2>1, <2>2
<1>4. QED BY <1>2, <1>3

\* A list without its first header.
LEMMA TailIs ==
    ASSUME NEW s \in Seq(Nat), LhNoTwice(s), s # <<>>
    PROVE  /\ Head(s) \in Nat /\ Head(s) \in ToSet(s)
           /\ Tail(s) \in Seq(Nat) /\ LhNoTwice(Tail(s))
           /\ \A g : g \in ToSet(Tail(s)) <=> (g \in ToSet(s) /\ g # Head(s))
<1>1. Len(s) \in Nat /\ Len(s) >= 1 /\ 1 \in 1 .. Len(s) /\ Head(s) = s[1] /\ s[1] \in Nat
    BY EmptySeq
<1>2. PICK t \in Seq(Nat) : t = Tail(s)
    BY HeadTailProperties
<1>3. Len(t) = Len(s) - 1 /\ \A j \in 1 .. Len(s) - 1 : t[j] = s[j + 1]
    BY <1>1, <1>2
<1>4. \A j \in 1 .. 1 - 1 : t[j] = s[j]
    OBVIOUS
<1>5. LhNoTwice(t) /\ \A g : g \in ToSet(t) <=> (g \in ToSet(s) /\ g # s[1])
    BY <1>1, <1>3, <1>4, WithoutIs
<1>6. Head(s) \in ToSet(s)
    BY <1>1, ToSetIs
<1>7. QED BY <1>1, <1>2, <1>5, <1>6

\* A list without one of its headers.
LEMMA DropIs ==
    ASSUME NEW s \in Seq(Nat), LhNoTwice(s), NEW h \in ToSet(s), NEW t,
           t = RemoveAt(s, CHOOSE k \in 1 .. Len(s) : s[k] = h)
    PROVE  /\ t \in Seq(Nat) /\ LhNoTwice(t)
           /\ \A g : g \in ToSet(t) <=> (g \in ToSet(s) /\ g # h)
<1>1. \E k \in 1 .. Len(s) : s[k] = h
    BY ToSetIs
<1>2. PICK i \in 1 .. Len(s) : s[i] = h /\ t = RemoveAt(s, i)
    BY <1>1
<1>3. /\ t \in Seq(Nat) /\ Len(t) = Len(s) - 1
      /\ \A j \in 1 .. i - 1 : t[j] = s[j]
      /\ \A j \in i .. Len(s) - 1 : t[j] = s[j + 1]
    BY <1>2, RemoveAtIs, ZenonT(40)
<1>4. LhNoTwice(t) /\ \A g : g \in ToSet(t) <=> (g \in ToSet(s) /\ g # s[i])
    BY <1>2, <1>3, WithoutIs
<1>5. QED BY <1>2, <1>3, <1>4

\* Two lists without a common header, one behind the other.
LEMMA JoinIs ==
    ASSUME NEW s \in Seq(Nat), NEW t \in Seq(Nat), LhNoTwice(s), LhNoTwice(t),
           \A g : ~(g \in ToSet(s) /\ g \in ToSet(t))
    PROVE  /\ s \o t \in Seq(Nat) /\ LhNoTwice(s \o t)
           /\ \A g : g \in ToSet(s \o t) <=> (g \in ToSet(s) \/ g \in ToSet(t))
<1>1. PICK r \in Seq(Nat) : r = s \o t
    BY ConcatProperties
<1>2. /\ Len(r) = Len(s) + Len(t) /\ Len(s) \in Nat /\ Len(t) \in Nat
      /\ \A k \in 1 .. Len(s) : r[k] = s[k]
      /\ \A k \in 1 .. Len(t) : r[k + Len(s)] = t[k]
    BY <1>1
<1>3. ASSUME NEW k \in 1 .. Len(r)
      PROVE  \/ k \in 1 .. Len(s) /\ r[k] = s[k] /\ r[k] \in ToSet(s) /\ r[k] \notin ToSet(t)
             \/ k - Len(s) \in 1 .. Len(t) /\ r[k] = t[k - Len(s)] /\ r[k] \in ToSet(t) /\ r[k] \notin ToSet(s)
    <2>1. CASE k <= Len(s)
        <3>1. k \in 1 .. Len(s) /\ r[k] = s[k]
            BY <1>2, <2>1
        <3>2. QED BY <3>1, ToSetIs
    <2>2. CASE k > Len(s)
        <3>1. k - Len(s) \in 1 .. Len(t) /\ (k - Len(s)) + Len(s) = k
            BY <1>2, <2>2
        <3>2. r[k] = t[k - Len(s)]
            BY <1>2, <3>1
        <3>3. QED BY <3>1, <3>2, ToSetIs
    <2>3. QED BY <1>2, <2>1, <2>2
<1>4. LhNoTwice(r)
    <2>1. SUFFICES ASSUME NEW j \in 1 .. Len(r), NEW k \in 1 .. Len(r), r[j] = r[k] PROVE j = k
        BY DEF LhNoTwice
    <2>2. CASE r[j] \in ToSet(s)
        <3>1. j \in 1 .. Len(s) /\ r[j] = s[j] /\ k \in 1 .. Len(s) /\ r[k] = s[k]
            BY <1>3, <2>1, <2>2
        <3>2. QED BY <2>1, <3>1 DEF LhNoTwice
    <2>3. CASE r[j] \notin ToSet(s)
        <3>1. j - Len(s) \in 1 .. Len(t) /\ r[j] = t[j - Len(s)]
            BY <1>3, <2>3
        <3>2. k - Len(s) \in 1 .. Len(t) /\ r[k] = t[k - Len(s)]
            BY <1>3, <2>1, <2>3
        <3>3. t[j - Len(s)] = t[k - Len(s)]
            BY <2>1, <3>1, <3>2
        <3>4. j - Len(s) = k - Len(s)
            BY <3>1, <3>2, <3>3 DEF LhNoTwice
        <3>5. QED BY <1>2, <3>4
    <2>4. QED BY <2>2, <2>3
<1>5. ASSUME NEW g PROVE g \in ToSet(r) <=> (g \in ToSet(s) \/ g \in ToSet(t))
    <2>1. CASE g \in ToSet(r)
        <3>1. PICK k \in 1 .. Len(r) : r[k] = g
            BY <2>1, ToSetIs
        <3>2. QED BY <1>3, <2>1, <3>1
    <2>2. CASE g \in ToSet(s)
        <3>1. PICK k \in 1 .. Len(s) : s[k] = g
            BY <2>2, ToSetIs
        <3>2. k \in 1 .. Len(r) /\ r[k] = g
            BY <1>2, <3>1
        <3>3. QED BY <2>2, <3>2, ToSetIs
    <2>3. CASE g \in ToSet(t)
        <3>1. PICK k \in 1 .. Len(t) : t[k] = g
            BY <2>3, ToSetIs
        <3>2. k + Len(s) \in 1 .. Len(r) /\ r[k + Len(s)] = g
            BY <1>2, <3>1
        <3>3. QED BY <2>3, <3>2, ToSetIs
    <2>4. QED BY <2>1, <2>2, <2>3
<1>6. QED BY <1>1, <1>4, <1>5

LhGives(f, f2, i, t) == LhLists(f2) /\ \A j, g : LhIn(f2, j, g) <=> IF j = i THEN g \in ToSet(t) ELSE LhIn(f, j, g)

\* A bin is given another list.
LEMMA ListReplaced ==
    ASSUME NEW f, LhLists(f), NEW i, NEW t \in Seq(Nat), LhNoTwice(t), NEW f2,
           DOMAIN f2 = DOMAIN f \cup {i}, f2[i] = t, \A j \in DOMAIN f : j # i => f2[j] = f[j]
    PROVE  LhGives(f, f2, i, t)
<1>1. ASSUME NEW j \in DOMAIN f2 PROVE f2[j] \in Seq(Nat) /\ LhNoTwice(f2[j])
    <2>1. CASE j = i
        BY <2>1
    <2>2. CASE j # i
        <3>1. j \in DOMAIN f /\ f2[j] = f[j]
            BY <2>2
        <3>2. QED BY <3>1 DEF LhLists
    <2>3. QED BY <2>1, <2>2
<1>2. ASSUME NEW j, NEW g PROVE LhIn(f2, j, g) <=> IF j = i THEN g \in ToSet(t) ELSE LhIn(f, j, g)
    <2>1. CASE j = i
        BY <2>1 DEF LhIn
    <2>2. CASE j # i
        BY <2>2 DEF LhIn
    <2>3. QED BY <2>1, <2>2
<1>3. QED BY <1>1, <1>2 DEF LhLists, LhGives

\* A header is put in a bin, which may not have had a list yet.
LEMMA ListPushed ==
    ASSUME NEW f, LhLists(f), NEW i, NEW h \in Nat, ~LhIn(f, i, h), NEW f2,
           f2 = LhPut(f, i, <<h>> \o (IF i \in DOMAIN f THEN f[i] ELSE <<>>))
    PROVE  LhAdds(f, f2, i, h)
<1>1. PICK s : s = IF i \in DOMAIN f THEN f[i] ELSE <<>>
    OBVIOUS
<1>2. s \in Seq(Nat) /\ LhNoTwice(s) /\ \A g : g \in ToSet(s) <=> LhIn(f, i, g)
    <2>1. CASE i \in DOMAIN f
        BY <1>1, <2>1 DEF LhLists, LhIn
    <2>2. CASE i \notin DOMAIN f
        <3>1. s = <<>> /\ s \in Seq(Nat) /\ Len(s) = 0
            BY <1>1, <2>2
        <3>2. 1 .. Len(s) = {}
            BY <3>1
        <3>3. \A g : g \notin ToSet(s)
            BY <3>1, <3>2, ToSetIs
        <3>4. LhNoTwice(s)
            BY <3>2 DEF LhNoTwice
        <3>5. QED BY <2>2, <3>1, <3>3, <3>4 DEF LhIn
    <2>3. QED BY <2>1, <2>2
<1>3. PICK t : t = <<h>> \o s
    OBVIOUS
<1>4. t \in Seq(Nat) /\ LhNoTwice(t) /\ \A g : g \in ToSet(t) <=> (g \in ToSet(s) \/ g = h)
    BY <1>2, <1>3, ConsIs
<1>5. DOMAIN f2 = DOMAIN f \cup {i} /\ f2[i] = t /\ \A j \in DOMAIN f : j # i => f2[j] = f[j]
    <2>1. f2 = LhPut(f, i, t)
        BY <1>1, <1>3
    <2>2. QED BY <2>1 DEF LhPut
<1>6. LhGives(f, f2, i, t)
    BY <1>4, <1>5, ListReplaced
<1>7. ASSUME NEW j, NEW g PROVE LhIn(f2, j, g) <=> (LhIn(f, j, g) \/ (j = i /\ g = h))
    <2>1. LhIn(f2, j, g) <=> IF j = i THEN g \in ToSet(t) ELSE LhIn(f, j, g)
        BY <1>6 DEF LhGives
    <2>2. QED BY <1>2, <1>4, <2>1
<1>8. QED BY <1>5, <1>6, <1>7 DEF LhAdds, LhGives

\* A bin keeps its list but for one header.
LEMMA ListReduced ==
    ASSUME NEW f, LhLists(f), NEW i \in DOMAIN f, NEW h, NEW t \in Seq(Nat), LhNoTwice(t),
           \A g : g \in ToSet(t) <=> (g \in ToSet(f[i]) /\ g # h), NEW f2, f2 = [f EXCEPT ![i] = t]
    PROVE  LhTakes(f, f2, i, h)
<1>1. DOMAIN f2 = DOMAIN f /\ DOMAIN f = DOMAIN f \cup {i} /\ f2[i] = t /\ \A j \in DOMAIN f : j # i => f2[j] = f[j]
    OBVIOUS
<1>2. LhGives(f, f2, i, t)
    BY <1>1, ListReplaced
<1>3. ASSUME NEW j, NEW g PROVE LhIn(f2, j, g) <=> (LhIn(f, j, g) /\ ~(j = i /\ g = h))
    <2>1. LhIn(f2, j, g) <=> IF j = i THEN g \in ToSet(t) ELSE LhIn(f, j, g)
        BY <1>2 DEF LhGives
    <2>2. QED BY <2>1 DEF LhIn
<1>4. QED BY <1>1, <1>2, <1>3 DEF LhTakes, LhGives

-----------------------------------------------------------------------------
(* The headers *)

LhHeaderType == [size : Nat, prevSize : Nat, prevFree : BOOLEAN]

\* Where the header behind an object of a size is.
LhBehind(h, size) == h + 8 + size

LhNx(hd, h) == h + LhHeader + hd[h].size

\* The headers lead from one object to the next, in address order, up to the last one.
LhLayout(hd, e) ==
    /\ DOMAIN hd \subseteq 0 .. LhEnd /\ 0 \in DOMAIN hd /\ e \in DOMAIN hd
    /\ \A h \in DOMAIN hd : hd[h] \in LhHeaderType /\ h <= e
    /\ hd[e].size = 0 /\ ~hd[0].prevFree
    /\ \A h \in DOMAIN hd \ {e} :
          /\ hd[h].size % 8 = 0 /\ hd[h].size >= 8
          /\ LhNx(hd, h) \in DOMAIN hd /\ hd[LhNx(hd, h)].prevSize = hd[h].size
    /\ \A g, h \in DOMAIN hd : g < h => LhNx(hd, g) <= h

\* What is known of an object and the header behind it.
LEMMA NxIs ==
    ASSUME NEW hd, NEW e, LhLayout(hd, e), NEW h \in DOMAIN hd \ {e}
    PROVE  /\ h \in Nat /\ e \in Nat /\ h < e /\ LhEnd \in Nat /\ e <= LhEnd
           /\ hd[h].size \in Nat /\ hd[h].size % 8 = 0 /\ hd[h].size >= 8 /\ hd[h].size <= LhLargest
           /\ LhNx(hd, h) \in DOMAIN hd /\ LhNx(hd, h) \in Nat /\ LhNx(hd, h) = h + 8 + hd[h].size
           /\ hd[LhNx(hd, h)].prevSize = hd[h].size /\ LhNx(hd, h) # 0 /\ LhNx(hd, h) <= e
<1>1. h \in DOMAIN hd /\ h # e /\ h \in 0 .. LhEnd /\ e \in 0 .. LhEnd /\ LhEnd \in Nat /\ LhEnd <= LhLargest
    BY LhNumbers DEF LhLayout
<1>2. PICK n \in Nat : n = hd[h].size /\ n % 8 = 0 /\ n >= 8
    BY <1>1 DEF LhLayout, LhHeaderType
<1>3. LhNx(hd, h) = h + 8 + n
    BY <1>2 DEF LhNx, LhHeader
<1>4. LhNx(hd, h) \in DOMAIN hd /\ LhNx(hd, h) \in 0 .. LhEnd /\ LhNx(hd, h) <= e /\ h <= e
    BY <1>1 DEF LhLayout
<1>5. hd[LhNx(hd, h)].prevSize = hd[h].size
    BY <1>1 DEF LhLayout
<1>6. LhLargest \in Nat
    BY LhNumbers
<1>7. QED BY <1>1, <1>2, <1>3, <1>4, <1>5, <1>6

\* Two objects do not have the same header behind them.
LEMMA NextsDiffer ==
    ASSUME NEW hd, NEW e, LhLayout(hd, e), NEW g \in DOMAIN hd \ {e}, NEW h \in DOMAIN hd \ {e}, LhNx(hd, g) = LhNx(hd, h)
    PROVE  g = h
<1>1. g \in Nat /\ h \in Nat /\ LhNx(hd, g) > g /\ LhNx(hd, h) > h
    BY NxIs
<1>2. (g < h => LhNx(hd, g) <= h) /\ (h < g => LhNx(hd, h) <= g)
    BY DEF LhLayout
<1>3. LhNx(hd, g) \in Nat /\ LhNx(hd, h) \in Nat
    BY NxIs
<1>4. QED BY <1>1, <1>2, <1>3

\* Between an object and the next one there is no header.
LEMMA NoneBetween ==
    ASSUME NEW hd, NEW e, LhLayout(hd, e), NEW g \in DOMAIN hd \ {e}, NEW h \in DOMAIN hd
    PROVE  h \in Nat /\ (h <= g \/ h >= LhNx(hd, g))
<1>1. g \in Nat /\ h \in Nat
    BY NxIs DEF LhLayout
<1>2. g < h => LhNx(hd, g) <= h
    BY DEF LhLayout
<1>3. LhNx(hd, g) \in Nat
    BY NxIs
<1>4. QED BY <1>1, <1>2, <1>3

\* There is an object in front of every header but the first.
LEMMA BeforeIs ==
    ASSUME NEW hd, NEW e, LhLayout(hd, e), NEW h \in DOMAIN hd, h # 0
    PROVE  \E p \in DOMAIN hd \ {e} : LhNx(hd, p) = h /\ h - LhHeader - hd[h].prevSize = p
<1> DEFINE I == {g \in DOMAIN hd : g < h}
<1>1. /\ h \in Nat /\ LhEnd \in Nat /\ h <= LhEnd /\ e \in Nat /\ h <= e
      /\ DOMAIN hd \subseteq 0 .. LhEnd /\ 0 \in DOMAIN hd
    BY LhNumbers DEF LhLayout
<1>2. I \subseteq 0 .. LhEnd /\ 0 \in I
    BY <1>1
<1>3. PICK p \in I : \A g \in I : g <= p
    <2> HIDE DEF I
    <2>1. Max(I) \in I /\ \A m \in I : m <= Max(I)
        BY <1>1, <1>2, GreatestIs
    <2>2. QED BY <2>1
<1>4. p \in DOMAIN hd \ {e} /\ p < h /\ p \in Nat
    BY <1>1
<1>5. LhNx(hd, p) \in DOMAIN hd /\ LhNx(hd, p) \in Nat /\ LhNx(hd, p) > p /\ LhNx(hd, p) <= h
    <2>1. LhNx(hd, p) <= h
        BY <1>4 DEF LhLayout
    <2>2. LhNx(hd, p) \in DOMAIN hd /\ LhNx(hd, p) \in Nat /\ LhNx(hd, p) = p + 8 + hd[p].size /\ hd[p].size \in Nat
        BY <1>4, NxIs
    <2>3. QED BY <1>4, <2>1, <2>2
<1>6. LhNx(hd, p) = h
    <2>1. LhNx(hd, p) \notin I
        BY <1>3, <1>4, <1>5
    <2>2. QED BY <1>1, <1>5, <2>1
<1>7. LhNx(hd, p) = p + 8 + hd[p].size /\ hd[h].prevSize = hd[p].size /\ hd[p].size \in Nat
    BY <1>4, <1>6, NxIs
<1>8. QED BY <1>1, <1>4, <1>6, <1>7 DEF LhHeader

\* The last header is the greatest address.
LEMMA TopIs == ASSUME NEW hd, NEW e, LhLayout(hd, e) PROVE Max(DOMAIN hd) = e
<1>1. DOMAIN hd \subseteq 0 .. LhEnd /\ LhEnd \in Nat /\ e \in DOMAIN hd /\ \A h \in DOMAIN hd : h <= e
    BY LhNumbers DEF LhLayout
<1>2. Max(DOMAIN hd) \in DOMAIN hd /\ \A m \in DOMAIN hd : m <= Max(DOMAIN hd)
    BY <1>1, GreatestIs
<1>3. QED BY <1>1, <1>2

-----------------------------------------------------------------------------
(* What the operations make of the headers *)

LhIsMarked(hd, hd2, h, free) ==
    /\ DOMAIN hd2 = DOMAIN hd
    /\ \A g \in DOMAIN hd2 :
          /\ hd2[g] \in LhHeaderType /\ hd2[g].size = hd[g].size /\ hd2[g].prevSize = hd[g].prevSize
          /\ hd2[g].prevFree = IF g = LhNx(hd, h) THEN free ELSE hd[g].prevFree

LhIsMerged(hd, hd2, f, s) ==
    /\ DOMAIN hd2 = DOMAIN hd \ {s}
    /\ \A g \in DOMAIN hd2 :
          /\ hd2[g] \in LhHeaderType /\ hd2[g].prevFree = hd[g].prevFree
          /\ hd2[g].size = IF g = f THEN hd[f].size + 8 + hd[s].size ELSE hd[g].size
          /\ hd2[g].prevSize = IF g = LhNx(hd, s) THEN hd[f].size + 8 + hd[s].size ELSE hd[g].prevSize

LhIsSplit(hd, hd2, h, p, sz) ==
    /\ DOMAIN hd2 = DOMAIN hd \cup {p}
    /\ \A g \in DOMAIN hd2 :
          /\ hd2[g] \in LhHeaderType
          /\ hd2[g].prevFree = IF g = p THEN FALSE ELSE hd[g].prevFree
          /\ hd2[g].size = IF g = h THEN sz ELSE IF g = p THEN hd[h].size - sz - 8 ELSE hd[g].size
          /\ hd2[g].prevSize = IF g = p THEN sz ELSE IF g = LhNx(hd, h) THEN hd[h].size - sz - 8 ELSE hd[g].prevSize

LhIsExtended(hd, hd2, e, e2, sz) ==
    /\ DOMAIN hd2 = DOMAIN hd \cup {e2}
    /\ \A g \in DOMAIN hd2 :
          /\ hd2[g] \in LhHeaderType
          /\ hd2[g].prevFree = IF g = e2 THEN FALSE ELSE hd[g].prevFree
          /\ hd2[g].size = IF g = e THEN sz ELSE IF g = e2 THEN 0 ELSE hd[g].size
          /\ hd2[g].prevSize = IF g = e2 THEN sz ELSE hd[g].prevSize

\* Marks do not matter to the layout ...
LEMMA MarkedLayout ==
    ASSUME NEW hd, NEW e, LhLayout(hd, e), NEW h \in DOMAIN hd \ {e}, NEW free, NEW hd2, LhIsMarked(hd, hd2, h, free)
    PROVE  LhLayout(hd2, e) /\ \A g \in DOMAIN hd : LhNx(hd2, g) = LhNx(hd, g)
<1>1. DOMAIN hd2 = DOMAIN hd /\ \A g \in DOMAIN hd : LhNx(hd2, g) = LhNx(hd, g)
    BY DEF LhIsMarked, LhNx
<1>2. LhNx(hd, h) # 0
    BY NxIs
<1>3. /\ \A g \in DOMAIN hd : hd2[g] \in LhHeaderType /\ g <= e
      /\ hd2[e].size = 0 /\ ~hd2[0].prevFree /\ e \in DOMAIN hd /\ 0 \in DOMAIN hd /\ DOMAIN hd \subseteq 0 .. LhEnd
    BY <1>2 DEF LhIsMarked, LhLayout
<1>4. ASSUME NEW g \in DOMAIN hd \ {e}
      PROVE  /\ hd2[g].size % 8 = 0 /\ hd2[g].size >= 8
             /\ LhNx(hd2, g) \in DOMAIN hd /\ hd2[LhNx(hd2, g)].prevSize = hd2[g].size
    BY <1>1, <1>4 DEF LhIsMarked, LhLayout
<1>5. ASSUME NEW f \in DOMAIN hd, NEW g \in DOMAIN hd, f < g PROVE LhNx(hd2, f) <= g
    BY <1>1, <1>5 DEF LhLayout
<1>6. QED BY <1>1, <1>3, <1>4, <1>5 DEF LhLayout

\* ... and it is kept when two neighbours become one object,
LEMMA MergedLayout ==
    ASSUME NEW hd, NEW e, LhLayout(hd, e), NEW f \in DOMAIN hd \ {e}, NEW s \in DOMAIN hd \ {e}, s = LhNx(hd, f),
           NEW hd2, LhIsMerged(hd, hd2, f, s)
    PROVE  /\ LhLayout(hd2, e) /\ f \in DOMAIN hd2 \ {e}
           /\ \A g \in DOMAIN hd2 : LhNx(hd2, g) = IF g = f THEN LhNx(hd, s) ELSE LhNx(hd, g)
           /\ \A g \in DOMAIN hd2 \ {e, f} : LhNx(hd, g) # s /\ LhNx(hd, g) # LhNx(hd, s)
<1>1. /\ f \in Nat /\ s \in Nat /\ e \in Nat /\ f < s /\ s < e /\ s # 0
      /\ hd[f].size \in Nat /\ hd[s].size \in Nat /\ hd[f].size >= 8 /\ hd[s].size >= 8
      /\ hd[f].size % 8 = 0 /\ hd[s].size % 8 = 0
      /\ s = f + 8 + hd[f].size /\ LhNx(hd, s) = s + 8 + hd[s].size
      /\ LhNx(hd, s) \in DOMAIN hd /\ LhNx(hd, s) > s
    <2>1. /\ f \in Nat /\ s \in Nat /\ e \in Nat /\ s < e
          /\ hd[f].size \in Nat /\ hd[s].size \in Nat /\ hd[f].size >= 8 /\ hd[s].size >= 8
          /\ hd[f].size % 8 = 0 /\ hd[s].size % 8 = 0
          /\ s = f + 8 + hd[f].size /\ LhNx(hd, s) = s + 8 + hd[s].size /\ LhNx(hd, s) \in DOMAIN hd
        BY NxIs
    <2>2. QED BY <2>1
<1>2. DOMAIN hd2 = DOMAIN hd \ {s} /\ f \in DOMAIN hd2 \ {e}
    BY <1>1 DEF LhIsMerged
<1>3. ASSUME NEW g \in DOMAIN hd2 PROVE LhNx(hd2, g) = IF g = f THEN LhNx(hd, s) ELSE LhNx(hd, g)
    <2>1. CASE g = f
        <3>1. hd2[f].size = hd[f].size + 8 + hd[s].size
            BY <2>1 DEF LhIsMerged
        <3>2. LhNx(hd2, f) = f + 8 + hd2[f].size
            BY DEF LhNx, LhHeader
        <3>3. QED BY <1>1, <2>1, <3>1, <3>2
    <2>2. CASE g # f
        BY <2>2 DEF LhIsMerged, LhNx
    <2>3. QED BY <2>1, <2>2
<1>4. ASSUME NEW g \in DOMAIN hd2 \ {e, f} PROVE LhNx(hd, g) # s /\ LhNx(hd, g) # LhNx(hd, s)
    <2>1. g \in DOMAIN hd \ {e} /\ g # f /\ g # s
        BY <1>2
    <2>2. QED BY <2>1, NextsDiffer
<1>5. /\ \A g \in DOMAIN hd2 : hd2[g] \in LhHeaderType /\ g <= e
      /\ e \in DOMAIN hd2 /\ 0 \in DOMAIN hd2 /\ DOMAIN hd2 \subseteq 0 .. LhEnd
    BY <1>1, <1>2 DEF LhIsMerged, LhLayout
<1>6. hd2[e].size = 0 /\ ~hd2[0].prevFree
    <2>1. e # f
        OBVIOUS
    <2>2. hd2[e].size = hd[e].size /\ hd2[0].prevFree = hd[0].prevFree
        BY <1>5, <2>1 DEF LhIsMerged
    <2>3. QED BY <2>2 DEF LhLayout
<1>7. ASSUME NEW g \in DOMAIN hd2 \ {e}
      PROVE  /\ hd2[g].size % 8 = 0 /\ hd2[g].size >= 8
             /\ LhNx(hd2, g) \in DOMAIN hd2 /\ hd2[LhNx(hd2, g)].prevSize = hd2[g].size
    <2>1. CASE g = f
        <3>1. hd2[f].size = hd[f].size + 8 + hd[s].size
            BY <1>2 DEF LhIsMerged
        <3>2. LhNx(hd2, f) = LhNx(hd, s) /\ LhNx(hd, s) \in DOMAIN hd2
            BY <1>1, <1>2, <1>3
        <3>3. hd2[LhNx(hd, s)].prevSize = hd[f].size + 8 + hd[s].size
            BY <3>2 DEF LhIsMerged
        <3>4. hd2[f].size % 8 = 0 /\ hd2[f].size >= 8
            BY <1>1, <3>1
        <3>5. QED BY <2>1, <3>1, <3>2, <3>3, <3>4
    <2>2. CASE g # f
        <3>1. g \in DOMAIN hd \ {e} /\ hd2[g].size = hd[g].size /\ LhNx(hd2, g) = LhNx(hd, g)
            BY <1>2, <1>3, <2>2 DEF LhIsMerged
        <3>2. LhNx(hd, g) # s /\ LhNx(hd, g) # LhNx(hd, s)
            BY <1>4, <2>2
        <3>3. LhNx(hd, g) \in DOMAIN hd /\ hd[LhNx(hd, g)].prevSize = hd[g].size /\ hd[g].size % 8 = 0
              /\ hd[g].size >= 8
            BY <3>1, NxIs
        <3>4. hd2[LhNx(hd, g)].prevSize = hd[LhNx(hd, g)].prevSize
            BY <1>2, <3>2, <3>3 DEF LhIsMerged
        <3>5. QED BY <1>2, <3>1, <3>2, <3>3, <3>4
    <2>3. QED BY <2>1, <2>2
<1>8. ASSUME NEW g \in DOMAIN hd2, NEW h \in DOMAIN hd2, g < h PROVE LhNx(hd2, g) <= h
    <2>1. LhNx(hd, g) <= h
        BY <1>2, <1>8 DEF LhLayout
    <2>2. CASE g = f
        <3>1. h >= s /\ h # s
            BY <1>2, <2>1, <2>2
        <3>2. h \in Nat
            BY <1>2 DEF LhLayout
        <3>3. s < h
            BY <1>1, <3>1, <3>2
        <3>4. LhNx(hd, s) <= h
            BY <1>2, <3>3 DEF LhLayout
        <3>5. QED BY <1>3, <2>2, <3>4
    <2>3. QED BY <1>3, <2>1, <2>2
<1>9. QED BY <1>2, <1>3, <1>4, <1>5, <1>6, <1>7, <1>8 DEF LhLayout

\* when one becomes two,
LEMMA SplitLayout ==
    ASSUME NEW hd, NEW e, LhLayout(hd, e), NEW h \in DOMAIN hd \ {e}, NEW sz \in Nat, sz % 8 = 0, sz >= 8,
           hd[h].size - sz - 8 >= 8, NEW p, p = LhBehind(h, sz), NEW hd2, LhIsSplit(hd, hd2, h, p, sz)
    PROVE  /\ LhLayout(hd2, e) /\ p \notin DOMAIN hd /\ p \in Nat \ {0} /\ p # e
           /\ LhNx(hd2, h) = p /\ LhNx(hd2, p) = LhNx(hd, h)
           /\ \A g \in DOMAIN hd : g # h => LhNx(hd2, g) = LhNx(hd, g)
<1>1. /\ h \in Nat /\ e \in Nat /\ h < e /\ hd[h].size \in Nat /\ hd[h].size % 8 = 0 /\ LhNx(hd, h) = h + 8 + hd[h].size
      /\ LhNx(hd, h) \in DOMAIN hd /\ LhNx(hd, h) <= e /\ e <= LhEnd
    BY NxIs
<1>0. p = h + 8 + sz
    BY DEF LhBehind
<1>2. p \in Nat /\ p > h /\ p < LhNx(hd, h) /\ p < e /\ LhEnd \in Nat
    BY <1>0, <1>1, LhNumbers
<1>3. p \notin DOMAIN hd
    <2>1. SUFFICES ASSUME p \in DOMAIN hd PROVE FALSE
        OBVIOUS
    <2>2. p <= h \/ p >= LhNx(hd, h)
        BY <2>1, NoneBetween
    <2>3. QED BY <1>1, <1>2, <2>2
<1>4. DOMAIN hd2 = DOMAIN hd \cup {p} /\ h \in DOMAIN hd2 /\ p \in DOMAIN hd2
    BY DEF LhIsSplit
<1>5. PICK rest \in Nat : rest = hd[h].size - sz - 8 /\ rest >= 8 /\ rest % 8 = 0
    BY <1>1
<1>6. hd2[h].size = sz /\ hd2[p].size = rest
    BY <1>2, <1>3, <1>4, <1>5 DEF LhIsSplit
<1>7. LhNx(hd2, h) = p /\ LhNx(hd2, p) = LhNx(hd, h)
    <2>1. LhNx(hd2, h) = h + 8 + sz /\ LhNx(hd2, p) = p + 8 + rest
        BY <1>6 DEF LhNx, LhHeader
    <2>2. QED BY <1>0, <1>1, <1>5, <2>1
<1>8. ASSUME NEW g \in DOMAIN hd, g # h PROVE hd2[g].size = hd[g].size /\ LhNx(hd2, g) = LhNx(hd, g)
    BY <1>3, <1>4, <1>8 DEF LhIsSplit, LhNx
<1>9. /\ \A g \in DOMAIN hd2 : hd2[g] \in LhHeaderType /\ g <= e
      /\ e \in DOMAIN hd2 /\ 0 \in DOMAIN hd2 /\ DOMAIN hd2 \subseteq 0 .. LhEnd
    <2>1. p \in 0 .. LhEnd /\ p <= e
        BY <1>1, <1>2
    <2>2. QED BY <1>4, <2>1 DEF LhIsSplit, LhLayout
<1>10. hd2[e].size = 0 /\ ~hd2[0].prevFree
    <2>1. e \in DOMAIN hd /\ 0 \in DOMAIN hd /\ e # h /\ 0 # p /\ hd[e].size = 0 /\ ~hd[0].prevFree
        BY <1>2 DEF LhLayout
    <2>2. hd2[e].size = 0
        BY <1>8, <2>1
    <2>3. ~hd2[0].prevFree
        BY <1>4, <2>1 DEF LhIsSplit
    <2>4. QED BY <2>2, <2>3
<1>11. ASSUME NEW g \in DOMAIN hd2 \ {e}
       PROVE  /\ hd2[g].size % 8 = 0 /\ hd2[g].size >= 8
              /\ LhNx(hd2, g) \in DOMAIN hd2 /\ hd2[LhNx(hd2, g)].prevSize = hd2[g].size
    <2>1. CASE g = h
        <3>1. hd2[p].prevSize = sz
            BY <1>4 DEF LhIsSplit
        <3>2. QED BY <1>4, <1>6, <1>7, <2>1, <3>1
    <2>2. CASE g = p
        <3>1. LhNx(hd, h) \in DOMAIN hd2 /\ LhNx(hd, h) # p
            BY <1>1, <1>2, <1>4
        <3>2. hd2[LhNx(hd, h)].prevSize = rest
            BY <1>5, <3>1 DEF LhIsSplit
        <3>3. QED BY <1>5, <1>6, <1>7, <2>2, <3>1, <3>2
    <2>3. CASE g # h /\ g # p
        <3>1. g \in DOMAIN hd \ {e}
            BY <1>4, <2>3
        <3>2. hd2[g].size = hd[g].size /\ LhNx(hd2, g) = LhNx(hd, g)
            BY <1>8, <2>3, <3>1
        <3>3. LhNx(hd, g) \in DOMAIN hd /\ hd[LhNx(hd, g)].prevSize = hd[g].size /\ hd[g].size % 8 = 0
              /\ hd[g].size >= 8
            BY <3>1, NxIs
        <3>4. LhNx(hd, g) # LhNx(hd, h)
            BY <2>3, <3>1, NextsDiffer
        <3>5. LhNx(hd, g) # p /\ LhNx(hd, g) \in DOMAIN hd2
            BY <1>3, <1>4, <3>3
        <3>6. hd2[LhNx(hd, g)].prevSize = hd[LhNx(hd, g)].prevSize
            BY <3>4, <3>5 DEF LhIsSplit
        <3>7. QED BY <3>2, <3>3, <3>5, <3>6
    <2>4. QED BY <2>1, <2>2, <2>3
<1>12. ASSUME NEW f \in DOMAIN hd2, NEW g \in DOMAIN hd2, f < g PROVE LhNx(hd2, f) <= g
    <2>1. CASE f \in DOMAIN hd /\ g \in DOMAIN hd
        <3>1. LhNx(hd, f) <= g
            BY <1>12, <2>1 DEF LhLayout
        <3>2. CASE f = h
            <4>1. g \in Nat
                BY <2>1 DEF LhLayout
            <4>2. QED BY <1>1, <1>2, <1>7, <3>1, <3>2, <4>1
        <3>3. QED BY <1>8, <2>1, <3>1, <3>2
    <2>2. CASE f = p
        <3>1. g \in DOMAIN hd
            BY <1>2, <1>4, <1>12, <2>2
        <3>2. g \in Nat /\ (g <= h \/ g >= LhNx(hd, h))
            BY <3>1, NoneBetween
        <3>3. g > h
            BY <1>1, <1>2, <1>12, <2>2, <3>2
        <3>4. QED BY <1>1, <1>7, <2>2, <3>2, <3>3
    <2>3. CASE f # p /\ g = p
        <3>1. f \in DOMAIN hd
            BY <1>4, <2>3
        <3>2. f \in Nat /\ (f <= h \/ f >= LhNx(hd, h))
            BY <3>1, NoneBetween
        <3>3. f <= h
            BY <1>1, <1>2, <1>12, <2>3, <3>2
        <3>4. CASE f = h
            BY <1>2, <1>7, <2>3, <3>4
        <3>5. CASE f # h
            <4>1. LhNx(hd, f) <= h /\ LhNx(hd2, f) = LhNx(hd, f)
                BY <1>1, <1>8, <3>1, <3>2, <3>3, <3>5 DEF LhLayout
            <4>2. f # e
                BY <1>1, <3>3
            <4>3. LhNx(hd, f) \in Nat
                BY <3>1, <4>2, NxIs
            <4>4. QED BY <1>1, <1>2, <2>3, <4>1, <4>3
        <3>6. QED BY <3>4, <3>5
    <2>4. QED BY <1>4, <2>1, <2>2, <2>3
<1>13. LhLayout(hd2, e)
    BY <1>4, <1>9, <1>10, <1>11, <1>12 DEF LhLayout
<1>14. QED BY <1>1, <1>2, <1>3, <1>7, <1>8, <1>13

\* and when one is put behind the last.
LEMMA ExtendedLayout ==
    ASSUME NEW hd, NEW e, LhLayout(hd, e), NEW sz \in Nat, sz % 8 = 0, sz >= 8,
           NEW e2, e2 = LhBehind(e, sz), e2 <= LhEnd, NEW hd2, LhIsExtended(hd, hd2, e, e2, sz)
    PROVE  /\ LhLayout(hd2, e2) /\ e2 \notin DOMAIN hd /\ LhNx(hd2, e) = e2 /\ e \in DOMAIN hd2 \ {e2}
           /\ \A g \in DOMAIN hd \ {e} : LhNx(hd2, g) = LhNx(hd, g)
<1>0. e2 = e + 8 + sz
    BY DEF LhBehind
<1>1. e \in DOMAIN hd /\ e \in Nat /\ LhEnd \in Nat /\ e2 \in Nat /\ e2 > e /\ \A g \in DOMAIN hd : g \in Nat /\ g <= e
    BY <1>0, LhNumbers DEF LhLayout
<1>2. e2 \notin DOMAIN hd
    BY <1>1
<1>3. DOMAIN hd2 = DOMAIN hd \cup {e2}
    BY DEF LhIsExtended
<1>4. hd2[e].size = sz /\ hd2[e2].size = 0 /\ hd2[e2].prevSize = sz
    BY <1>1, <1>2, <1>3 DEF LhIsExtended
<1>5. LhNx(hd2, e) = e2
    BY <1>0, <1>4 DEF LhNx, LhHeader
<1>6. ASSUME NEW g \in DOMAIN hd \ {e} PROVE hd2[g].size = hd[g].size /\ LhNx(hd2, g) = LhNx(hd, g)
    BY <1>2, <1>3 DEF LhIsExtended, LhNx
<1>7. ASSUME NEW g \in DOMAIN hd PROVE hd2[g].prevSize = hd[g].prevSize /\ hd2[g].prevFree = hd[g].prevFree
    BY <1>2, <1>3 DEF LhIsExtended
<1>8. /\ \A g \in DOMAIN hd2 : hd2[g] \in LhHeaderType /\ g <= e2
      /\ e2 \in DOMAIN hd2 /\ 0 \in DOMAIN hd2 /\ DOMAIN hd2 \subseteq 0 .. LhEnd /\ ~hd2[0].prevFree
    <2>1. \A g \in DOMAIN hd : g <= e2
        BY <1>1
    <2>2. 0 \in DOMAIN hd /\ DOMAIN hd \subseteq 0 .. LhEnd /\ ~hd[0].prevFree
        BY DEF LhLayout
    <2>3. e2 \in 0 .. LhEnd /\ e2 <= e2
        BY <1>1
    <2>4. QED BY <1>3, <1>7, <2>1, <2>2, <2>3 DEF LhIsExtended
<1>9. ASSUME NEW g \in DOMAIN hd2 \ {e2}
      PROVE  /\ hd2[g].size % 8 = 0 /\ hd2[g].size >= 8
             /\ LhNx(hd2, g) \in DOMAIN hd2 /\ hd2[LhNx(hd2, g)].prevSize = hd2[g].size
    <2>1. CASE g = e
        BY <1>3, <1>4, <1>5, <2>1
    <2>2. CASE g # e
        <3>1. g \in DOMAIN hd \ {e} /\ hd2[g].size = hd[g].size /\ LhNx(hd2, g) = LhNx(hd, g)
            BY <1>3, <1>6, <2>2
        <3>2. LhNx(hd, g) \in DOMAIN hd /\ hd[LhNx(hd, g)].prevSize = hd[g].size /\ hd[g].size % 8 = 0
              /\ hd[g].size >= 8
            BY <3>1, NxIs
        <3>3. QED BY <1>3, <1>7, <3>1, <3>2
    <2>3. QED BY <2>1, <2>2
<1>10. ASSUME NEW f \in DOMAIN hd2, NEW g \in DOMAIN hd2, f < g PROVE LhNx(hd2, f) <= g
    <2>1. f \in DOMAIN hd /\ f \in Nat
        BY <1>1, <1>3, <1>8, <1>10
    <2>2. CASE f = e
        <3>1. g = e2
            BY <1>1, <1>3, <1>10, <2>2
        <3>2. QED BY <1>1, <1>5, <2>2, <3>1
    <2>3. CASE f # e /\ g = e2
        <3>1. LhNx(hd, f) <= e /\ LhNx(hd, f) \in Nat /\ LhNx(hd2, f) = LhNx(hd, f)
            BY <1>6, <2>1, <2>3, NxIs
        <3>2. QED BY <1>1, <2>3, <3>1
    <2>4. CASE f # e /\ g \in DOMAIN hd
        <3>1. LhNx(hd, f) <= g
            BY <1>10, <2>1, <2>4 DEF LhLayout
        <3>2. QED BY <1>6, <2>1, <2>4, <3>1
    <2>5. QED BY <1>3, <2>2, <2>3, <2>4
<1>11. LhLayout(hd2, e2)
    BY <1>3, <1>4, <1>8, <1>9, <1>10 DEF LhLayout
<1>12. e \in DOMAIN hd2 \ {e2}
    BY <1>1, <1>3
<1>13. QED BY <1>2, <1>5, <1>6, <1>11, <1>12

-----------------------------------------------------------------------------
(* The big heap: used are the objects that it has given out; the mark of x is *)
(* yet to be set.                                                             *)

LhTagged(hd, e, used, x) ==
    \A h \in DOMAIN hd \ {e} : h # x => (hd[LhNx(hd, h)].prevFree <=> (h \notin used /\ (h # 0 \/ lhFirst = 0)))

LhApart(hd, e, used) ==
    lhFirst = 0 => \A h \in DOMAIN hd \ {e} : LhNx(hd, h) # e => (h \in used \/ LhNx(hd, h) \in used)

LhFiled(hd, e, big, binmap, used) ==
    /\ LhLists(big) /\ used \subseteq DOMAIN hd \ {e}
    /\ \A i, h : LhIn(big, i, h) => /\ h \in DOMAIN hd \ {e} /\ h \notin used
                                    /\ i = BigBin(hd[h].size) /\ i \in binmap
    /\ \A h \in DOMAIN hd \ {e} : h \in used \/ LhIn(big, BigBin(hd[h].size), h)

LhGood(hd, e, big, binmap, used, x) ==
    LhLayout(hd, e) /\ LhTagged(hd, e, used, x) /\ LhApart(hd, e, used) /\ LhFiled(hd, e, big, binmap, used)

LhUsedBefore(hd, e, used, x) == lhFirst = 0 => \A g \in DOMAIN hd \ {e} : LhNx(hd, g) = x => g \in used
LhUsedAfter(hd, e, used, x) == lhFirst = 0 => (LhNx(hd, x) = e \/ LhNx(hd, x) \in used)

\* What is used keeps its size.
LhSizesKept(hd, hd2, used) == \A h \in used : h \in DOMAIN hd2 /\ hd2[h].size = hd[h].size

LhIsFreed(hd, hd2, h) == LhIsMarked(hd, hd2, h, TRUE)
LhIsTaken(hd, hd2, h) == LhIsMarked(hd, hd2, h, FALSE)

\* Of the neighbours f and s, r is taken out of its bin, and x is used.
LhEither(f, s, r, x) == (r = f /\ x = s) \/ (r = s /\ x = f)

LhJoined(hd, hd2, e, big2, binmap, used, used2, f, s) ==
    /\ LhGood(hd2, e, big2, binmap, used2, f)
    /\ LhNx(hd2, f) = LhNx(hd, s) /\ \A g \in DOMAIN hd2 \ {f} : LhNx(hd2, g) = LhNx(hd, g)
    /\ LhSizesKept(hd, hd2, used \ {f, s}) /\ DOMAIN hd2 = DOMAIN hd \ {s} /\ used2 \ {f} = used \ {f, s}

\* Of two neighbours one is used and the other taken out of its bin; they become one.
LEMMA MergeGood ==
    ASSUME NEW hd, NEW e, NEW big, NEW binmap, NEW used, NEW x \in used, LhGood(hd, e, big, binmap, used, x),
           NEW f \in DOMAIN hd \ {e}, NEW s \in DOMAIN hd \ {e}, s = LhNx(hd, f),
           NEW r, r \notin used, LhEither(f, s, r, x),
           NEW hd2, LhIsMerged(hd, hd2, f, s), NEW big2, LhTakes(big, big2, BigBin(hd[r].size), r),
           NEW used2, used2 = (used \ {s}) \cup {f}
    PROVE  LhJoined(hd, hd2, e, big2, binmap, used, used2, f, s)
<1> DEFINE D == DOMAIN hd \ {e}
           D2 == DOMAIN hd2 \ {e}
<1>0. (r = f /\ x = s) \/ (r = s /\ x = f)
    BY DEF LhEither
<1>1. LhLayout(hd, e) /\ LhTagged(hd, e, used, x) /\ LhApart(hd, e, used) /\ LhFiled(hd, e, big, binmap, used)
    BY DEF LhGood
<1>2. /\ LhLayout(hd2, e) /\ f \in D2
      /\ \A g \in DOMAIN hd2 : LhNx(hd2, g) = IF g = f THEN LhNx(hd, s) ELSE LhNx(hd, g)
      /\ \A g \in DOMAIN hd2 \ {e, f} : LhNx(hd, g) # s /\ LhNx(hd, g) # LhNx(hd, s)
    BY <1>1, MergedLayout
<1>3. DOMAIN hd2 = DOMAIN hd \ {s} /\ D2 = D \ {s}
    BY DEF LhIsMerged
<1>4. f # s /\ f \in used2 /\ s \notin used2
    BY <1>2, <1>3
<1>5. \A g : g # f /\ g # s => (g \in used2 <=> g \in used)
    OBVIOUS
<1>6. LhTagged(hd2, e, used2, f)
    <2>1. SUFFICES ASSUME NEW h \in D2, h # f
                   PROVE  hd2[LhNx(hd2, h)].prevFree <=> (h \notin used2 /\ (h # 0 \/ lhFirst = 0))
        BY DEF LhTagged
    <2>2. h \in D /\ h # s /\ h # x /\ LhNx(hd2, h) = LhNx(hd, h)
        BY <1>0, <1>2, <1>3, <2>1
    <2>3. LhNx(hd2, h) \in DOMAIN hd2
        BY <1>2, NxIs
    <2>4. hd2[LhNx(hd2, h)].prevFree = hd[LhNx(hd, h)].prevFree
        BY <2>2, <2>3 DEF LhIsMerged
    <2>5. hd[LhNx(hd, h)].prevFree <=> (h \notin used /\ (h # 0 \/ lhFirst = 0))
        BY <1>1, <2>2 DEF LhTagged
    <2>6. QED BY <1>5, <2>1, <2>2, <2>4, <2>5
<1>7. LhApart(hd2, e, used2)
    <2>1. SUFFICES ASSUME lhFirst = 0, NEW h \in D2, LhNx(hd2, h) # e PROVE h \in used2 \/ LhNx(hd2, h) \in used2
        BY DEF LhApart
    <2>2. CASE h = f
        BY <1>4, <2>2
    <2>3. CASE h # f
        <3>1. h \in D /\ h # s /\ LhNx(hd2, h) = LhNx(hd, h) /\ LhNx(hd, h) # s
            BY <1>2, <1>3, <2>3
        <3>2. h \in used \/ LhNx(hd, h) \in used
            BY <1>1, <2>1, <3>1 DEF LhApart
        <3>3. QED BY <1>4, <1>5, <2>3, <3>1, <3>2
    <2>4. QED BY <2>2, <2>3
<1>8. LhFiled(hd2, e, big2, binmap, used2)
    <2>1. LhLists(big2)
        BY DEF LhTakes
    <2>2. used2 \subseteq D2
        BY <1>1, <1>2, <1>3 DEF LhFiled
    <2>3. ASSUME NEW i, NEW h, LhIn(big2, i, h)
          PROVE  h \in D2 /\ h \notin used2 /\ i = BigBin(hd2[h].size) /\ i \in binmap
        <3>1. LhIn(big, i, h) /\ ~(i = BigBin(hd[r].size) /\ h = r)
            BY <2>3 DEF LhTakes
        <3>2. h \in D /\ h \notin used /\ i = BigBin(hd[h].size) /\ i \in binmap
            BY <1>1, <3>1 DEF LhFiled
        <3>3. h # r /\ h # x /\ h # f /\ h # s
            BY <1>0, <3>1, <3>2
        <3>4. h \in DOMAIN hd2 /\ hd2[h].size = hd[h].size
            BY <1>3, <3>2, <3>3 DEF LhIsMerged
        <3>5. QED BY <1>3, <1>5, <3>2, <3>3, <3>4
    <2>4. ASSUME NEW h \in D2, h \notin used2 PROVE LhIn(big2, BigBin(hd2[h].size), h)
        <3>1. h \in D /\ h # f /\ h # s /\ h \notin used /\ h # r
            BY <1>0, <1>3, <1>4, <1>5, <2>4
        <3>2. LhIn(big, BigBin(hd[h].size), h)
            BY <1>1, <3>1 DEF LhFiled
        <3>3. hd2[h].size = hd[h].size
            BY <3>1 DEF LhIsMerged
        <3>4. QED BY <3>1, <3>2, <3>3 DEF LhTakes
    <2>5. QED BY <2>1, <2>2, <2>3, <2>4 DEF LhFiled
<1>9. LhSizesKept(hd, hd2, used \ {f, s})
    BY <1>1, <1>3 DEF LhSizesKept, LhFiled, LhIsMerged
<1>10. LhNx(hd2, f) = LhNx(hd, s) /\ \A g \in DOMAIN hd2 \ {f} : LhNx(hd2, g) = LhNx(hd, g)
    BY <1>2
<1>11. LhGood(hd2, e, big2, binmap, used2, f)
    BY <1>2, <1>6, <1>7, <1>8 DEF LhGood
<1>12. QED BY <1>3, <1>4, <1>9, <1>10, <1>11 DEF LhJoined

\* An object between used ones is marked as free and filed.
LEMMA GiveGood ==
    ASSUME NEW hd, NEW e, NEW big, NEW binmap, NEW used, NEW x \in used, LhGood(hd, e, big, binmap, used, x),
           LhUsedBefore(hd, e, used, x), LhUsedAfter(hd, e, used, x), x # 0 \/ lhFirst = 0,
           NEW hd2, LhIsFreed(hd, hd2, x),
           NEW big2, LhAdds(big, big2, BigBin(hd[x].size), x), NEW binmap2, binmap2 = binmap \cup {BigBin(hd[x].size)},
           NEW used2, used2 = used \ {x}
    PROVE  LhGood(hd2, e, big2, binmap2, used2, -1) /\ LhSizesKept(hd, hd2, used2)
<1> DEFINE D == DOMAIN hd \ {e}
<1>1. LhLayout(hd, e) /\ LhTagged(hd, e, used, x) /\ LhApart(hd, e, used) /\ LhFiled(hd, e, big, binmap, used)
    BY DEF LhGood
<1>2. x \in D /\ used \subseteq D /\ DOMAIN hd2 = DOMAIN hd
    BY <1>1 DEF LhFiled, LhIsMarked, LhIsFreed
<1>3. LhLayout(hd2, e) /\ \A g \in DOMAIN hd : LhNx(hd2, g) = LhNx(hd, g)
    <2>1. PICK free : free = TRUE
        OBVIOUS
    <2>2. LhIsMarked(hd, hd2, x, free)
        BY <2>1 DEF LhIsFreed
    <2>3. QED BY <1>1, <1>2, <2>2, MarkedLayout
<1>4. LhTagged(hd2, e, used2, -1)
    <2>1. SUFFICES ASSUME NEW h \in D
                   PROVE  hd2[LhNx(hd2, h)].prevFree <=> (h \notin used2 /\ (h # 0 \/ lhFirst = 0))
        BY <1>2 DEF LhTagged
    <2>2. LhNx(hd2, h) = LhNx(hd, h) /\ LhNx(hd, h) \in DOMAIN hd
        BY <1>1, <1>3, NxIs
    <2>3. hd2[LhNx(hd, h)].prevFree = IF LhNx(hd, h) = LhNx(hd, x) THEN TRUE ELSE hd[LhNx(hd, h)].prevFree
        BY <1>2, <2>2 DEF LhIsMarked, LhIsFreed
    <2>4. CASE h = x
        BY <2>2, <2>3, <2>4
    <2>5. CASE h # x
        <3>1. LhNx(hd, h) # LhNx(hd, x)
            BY <1>1, <1>2, <2>5, NextsDiffer
        <3>2. hd[LhNx(hd, h)].prevFree <=> (h \notin used /\ (h # 0 \/ lhFirst = 0))
            BY <1>1, <2>5 DEF LhTagged
        <3>3. QED BY <2>2, <2>3, <2>5, <3>1, <3>2
    <2>6. QED BY <2>4, <2>5
<1>5. LhApart(hd2, e, used2)
    <2>1. SUFFICES ASSUME lhFirst = 0, NEW h \in D, LhNx(hd, h) # e PROVE h \in used2 \/ LhNx(hd, h) \in used2
        BY <1>2, <1>3 DEF LhApart
    <2>2. LhNx(hd, h) # h
        BY <1>1, NxIs
    <2>3. CASE h = x
        <3>1. LhNx(hd, x) \in used
            BY <2>1, <2>3 DEF LhUsedAfter
        <3>2. QED BY <2>2, <2>3, <3>1
    <2>4. CASE LhNx(hd, h) = x
        <3>1. h \in used
            BY <2>1, <2>4 DEF LhUsedBefore
        <3>2. QED BY <2>2, <2>4, <3>1
    <2>5. CASE h # x /\ LhNx(hd, h) # x
        BY <1>1, <2>1, <2>5 DEF LhApart
    <2>6. QED BY <2>3, <2>4, <2>5
<1>6. \A h \in DOMAIN hd : hd2[h].size = hd[h].size
    BY <1>2 DEF LhIsMarked, LhIsFreed
<1>7. LhFiled(hd2, e, big2, binmap2, used2)
    <2>1. LhLists(big2)
        BY DEF LhAdds
    <2>2. ASSUME NEW i, NEW h, LhIn(big2, i, h)
          PROVE  h \in D /\ h \notin used2 /\ i = BigBin(hd2[h].size) /\ i \in binmap2
        <3>1. LhIn(big, i, h) \/ (i = BigBin(hd[x].size) /\ h = x)
            BY <2>2 DEF LhAdds
        <3>2. CASE LhIn(big, i, h)
            <4>1. h \in D /\ h \notin used /\ i = BigBin(hd[h].size) /\ i \in binmap
                BY <1>1, <3>2 DEF LhFiled
            <4>2. QED BY <1>6, <4>1
        <3>3. CASE i = BigBin(hd[x].size) /\ h = x
            BY <1>2, <1>6, <3>3
        <3>4. QED BY <3>1, <3>2, <3>3
    <2>3. ASSUME NEW h \in D, h \notin used2 PROVE LhIn(big2, BigBin(hd2[h].size), h)
        <3>1. h = x \/ LhIn(big, BigBin(hd[h].size), h)
            BY <1>1, <2>3 DEF LhFiled
        <3>2. QED BY <1>6, <3>1 DEF LhAdds
    <2>4. QED BY <1>2, <2>1, <2>2, <2>3 DEF LhFiled
<1>8. LhSizesKept(hd, hd2, used2)
    BY <1>2, <1>6 DEF LhSizesKept
<1>9. QED BY <1>3, <1>4, <1>5, <1>7, <1>8 DEF LhGood

\* The first object, which does not agree with what lies in front of it, is filed only.
LEMMA FileGood ==
    ASSUME NEW hd, NEW e, NEW big, NEW binmap, NEW used, 0 \in used, LhGood(hd, e, big, binmap, used, -1), lhFirst # 0,
           NEW big2, LhAdds(big, big2, BigBin(hd[0].size), 0), NEW binmap2, binmap2 = binmap \cup {BigBin(hd[0].size)},
           NEW used2, used2 = used \ {0}
    PROVE  LhGood(hd, e, big2, binmap2, used2, -1)
<1> DEFINE D == DOMAIN hd \ {e}
<1>1. LhLayout(hd, e) /\ LhTagged(hd, e, used, -1) /\ LhApart(hd, e, used) /\ LhFiled(hd, e, big, binmap, used)
    BY DEF LhGood
<1>2. LhTagged(hd, e, used2, -1)
    <2>1. SUFFICES ASSUME NEW h \in D, h # -1
                   PROVE  hd[LhNx(hd, h)].prevFree <=> (h \notin used2 /\ (h # 0 \/ lhFirst = 0))
        BY DEF LhTagged
    <2>2. hd[LhNx(hd, h)].prevFree <=> (h \notin used /\ (h # 0 \/ lhFirst = 0))
        BY <1>1, <2>1 DEF LhTagged
    <2>3. QED BY <2>2
<1>3. LhApart(hd, e, used2)
    BY DEF LhApart
<1>4. LhFiled(hd, e, big2, binmap2, used2)
    <2>1. LhLists(big2) /\ 0 \in D /\ used2 \subseteq D
        BY <1>1 DEF LhAdds, LhFiled
    <2>2. ASSUME NEW i, NEW h, LhIn(big2, i, h)
          PROVE  h \in D /\ h \notin used2 /\ i = BigBin(hd[h].size) /\ i \in binmap2
        <3>1. LhIn(big, i, h) \/ (i = BigBin(hd[0].size) /\ h = 0)
            BY <2>2 DEF LhAdds
        <3>2. CASE LhIn(big, i, h)
            <4>1. h \in D /\ h \notin used /\ i = BigBin(hd[h].size) /\ i \in binmap
                BY <1>1, <3>2 DEF LhFiled
            <4>2. QED BY <4>1
        <3>3. CASE i = BigBin(hd[0].size) /\ h = 0
            BY <2>1, <3>3
        <3>4. QED BY <3>1, <3>2, <3>3
    <2>3. ASSUME NEW h \in D, h \notin used2 PROVE LhIn(big2, BigBin(hd[h].size), h)
        <3>1. h = 0 \/ LhIn(big, BigBin(hd[h].size), h)
            BY <1>1, <2>3 DEF LhFiled
        <3>2. QED BY <3>1 DEF LhAdds
    <2>4. QED BY <2>1, <2>2, <2>3 DEF LhFiled
<1>5. QED BY <1>1, <1>2, <1>3, <1>4 DEF LhGood

\* A free object is taken out of its bin and marked as used.
LEMMA TakeGood ==
    ASSUME NEW hd, NEW e, NEW big, NEW binmap, NEW used, LhGood(hd, e, big, binmap, used, -1),
           NEW i, NEW h, LhIn(big, i, h), NEW hd2, LhIsTaken(hd, hd2, h),
           NEW big2, LhTakes(big, big2, i, h), NEW binmap2, \A j, g : LhIn(big, j, g) => j \in binmap2,
           NEW used2, used2 = used \cup {h}
    PROVE  /\ LhGood(hd2, e, big2, binmap2, used2, -1) /\ LhSizesKept(hd, hd2, used2)
           /\ h \in DOMAIN hd \ {e} /\ h \notin used /\ i = BigBin(hd[h].size) /\ LhUsedAfter(hd2, e, used2, h)
<1> DEFINE D == DOMAIN hd \ {e}
<1>1. LhLayout(hd, e) /\ LhTagged(hd, e, used, -1) /\ LhApart(hd, e, used) /\ LhFiled(hd, e, big, binmap, used)
    BY DEF LhGood
<1>2. h \in D /\ h \notin used /\ i = BigBin(hd[h].size) /\ used2 \subseteq D /\ DOMAIN hd2 = DOMAIN hd
    BY <1>1 DEF LhFiled, LhIsMarked, LhIsTaken
<1>3. LhLayout(hd2, e) /\ \A g \in DOMAIN hd : LhNx(hd2, g) = LhNx(hd, g)
    <2>1. PICK free : free = FALSE
        OBVIOUS
    <2>2. LhIsMarked(hd, hd2, h, free)
        BY <2>1 DEF LhIsTaken
    <2>3. QED BY <1>1, <1>2, <2>2, MarkedLayout
<1>4. LhTagged(hd2, e, used2, -1)
    <2>1. SUFFICES ASSUME NEW g \in D, g # -1
                   PROVE  hd2[LhNx(hd2, g)].prevFree <=> (g \notin used2 /\ (g # 0 \/ lhFirst = 0))
        BY <1>2 DEF LhTagged
    <2>2. LhNx(hd2, g) = LhNx(hd, g) /\ LhNx(hd, g) \in DOMAIN hd
        BY <1>1, <1>3, NxIs
    <2>3. hd2[LhNx(hd, g)].prevFree = IF LhNx(hd, g) = LhNx(hd, h) THEN FALSE ELSE hd[LhNx(hd, g)].prevFree
        BY <1>2, <2>2 DEF LhIsMarked, LhIsTaken
    <2>4. CASE g = h
        BY <2>2, <2>3, <2>4
    <2>5. CASE g # h
        <3>1. LhNx(hd, g) # LhNx(hd, h)
            BY <1>1, <1>2, <2>5, NextsDiffer
        <3>2. hd[LhNx(hd, g)].prevFree <=> (g \notin used /\ (g # 0 \/ lhFirst = 0))
            BY <1>1, <2>1, <2>5 DEF LhTagged
        <3>3. QED BY <2>2, <2>3, <2>5, <3>1, <3>2
    <2>6. QED BY <2>4, <2>5
<1>5. LhApart(hd2, e, used2)
    BY <1>1, <1>2, <1>3 DEF LhApart
<1>6. \A g \in DOMAIN hd : hd2[g].size = hd[g].size
    BY <1>2 DEF LhIsMarked, LhIsTaken
<1>7. LhFiled(hd2, e, big2, binmap2, used2)
    <2>1. LhLists(big2)
        BY DEF LhTakes
    <2>2. ASSUME NEW j, NEW g, LhIn(big2, j, g)
          PROVE  g \in D /\ g \notin used2 /\ j = BigBin(hd2[g].size) /\ j \in binmap2
        <3>1. LhIn(big, j, g) /\ ~(j = i /\ g = h)
            BY <2>2 DEF LhTakes
        <3>2. g \in D /\ g \notin used /\ j = BigBin(hd[g].size)
            BY <1>1, <3>1 DEF LhFiled
        <3>3. QED BY <1>2, <1>6, <3>1, <3>2
    <2>3. ASSUME NEW g \in D, g \notin used2 PROVE LhIn(big2, BigBin(hd2[g].size), g)
        <3>1. g # h /\ LhIn(big, BigBin(hd[g].size), g)
            BY <1>1, <2>3 DEF LhFiled
        <3>2. QED BY <1>6, <3>1 DEF LhTakes
    <2>4. QED BY <1>2, <2>1, <2>2, <2>3 DEF LhFiled
<1>8. LhSizesKept(hd, hd2, used2)
    BY <1>2, <1>6 DEF LhSizesKept
<1>9. LhUsedAfter(hd2, e, used2, h)
    BY <1>1, <1>2, <1>3 DEF LhApart, LhUsedAfter
<1>10. QED BY <1>2, <1>3, <1>4, <1>5, <1>7, <1>8, <1>9 DEF LhGood

LhSplits(hd, h, sz) == sz \in Nat /\ sz % 8 = 0 /\ sz >= 8 /\ hd[h].size - sz - 8 >= 8

\* What is split off a used object counts as used, until it is marked.
LEMMA SplitGood ==
    ASSUME NEW hd, NEW e, NEW big, NEW binmap, NEW used, LhGood(hd, e, big, binmap, used, -1),
           NEW h \in used, LhUsedAfter(hd, e, used, h), NEW sz, LhSplits(hd, h, sz), NEW p, p = LhBehind(h, sz),
           NEW hd2, LhIsSplit(hd, hd2, h, p, sz),
           NEW used2, used2 = used \cup {p}
    PROVE  /\ LhGood(hd2, e, big, binmap, used2, p) /\ LhSizesKept(hd, hd2, used \ {h}) /\ p # 0 /\ p \notin used
           /\ LhUsedBefore(hd2, e, used2, p) /\ LhUsedAfter(hd2, e, used2, p) /\ hd2[h].size = sz
<1> DEFINE D == DOMAIN hd \ {e}
           D2 == DOMAIN hd2 \ {e}
<1>1. LhLayout(hd, e) /\ LhTagged(hd, e, used, -1) /\ LhApart(hd, e, used) /\ LhFiled(hd, e, big, binmap, used)
    BY DEF LhGood
<1>2. h \in D /\ used \subseteq D
    BY <1>1 DEF LhFiled
<1>0. sz \in Nat /\ sz % 8 = 0 /\ sz >= 8 /\ hd[h].size - sz - 8 >= 8
    BY DEF LhSplits
<1>3. /\ LhLayout(hd2, e) /\ p \notin DOMAIN hd /\ p \in Nat \ {0} /\ p # e
      /\ LhNx(hd2, h) = p /\ LhNx(hd2, p) = LhNx(hd, h)
      /\ \A g \in DOMAIN hd : g # h => LhNx(hd2, g) = LhNx(hd, g)
    BY <1>0, <1>1, <1>2, SplitLayout
<1>4. DOMAIN hd2 = DOMAIN hd \cup {p} /\ D2 = D \cup {p}
    BY <1>3 DEF LhIsSplit
<1>5. \A g \in DOMAIN hd : hd2[g].prevFree = hd[g].prevFree /\ (g # h => hd2[g].size = hd[g].size)
    BY <1>3, <1>4 DEF LhIsSplit
<1>6. LhTagged(hd2, e, used2, p)
    <2>1. SUFFICES ASSUME NEW g \in D, g # p
                   PROVE  hd2[LhNx(hd2, g)].prevFree <=> (g \notin used2 /\ (g # 0 \/ lhFirst = 0))
        BY <1>4 DEF LhTagged
    <2>2. CASE g = h
        <3>1. hd2[p].prevFree = FALSE
            BY <1>4 DEF LhIsSplit
        <3>2. QED BY <1>3, <2>2, <3>1
    <2>3. CASE g # h
        <3>1. LhNx(hd2, g) = LhNx(hd, g) /\ LhNx(hd, g) \in DOMAIN hd /\ g \in Nat
            BY <1>1, <1>3, <2>3, NxIs
        <3>2. hd[LhNx(hd, g)].prevFree <=> (g \notin used /\ (g # 0 \/ lhFirst = 0))
            <4>1. g # -1
                BY <3>1
            <4>2. QED BY <1>1, <4>1 DEF LhTagged
        <3>3. QED BY <1>5, <2>1, <3>1, <3>2
    <2>4. QED BY <2>2, <2>3
<1>7. LhApart(hd2, e, used2)
    <2>1. SUFFICES ASSUME lhFirst = 0, NEW g \in D2, LhNx(hd2, g) # e PROVE g \in used2 \/ LhNx(hd2, g) \in used2
        BY DEF LhApart
    <2>2. CASE g = h \/ g = p
        BY <2>2
    <2>3. CASE g # h /\ g # p
        <3>1. g \in D /\ LhNx(hd2, g) = LhNx(hd, g)
            BY <1>3, <1>4, <2>3
        <3>2. g \in used \/ LhNx(hd, g) \in used
            BY <1>1, <2>1, <3>1 DEF LhApart
        <3>3. QED BY <3>1, <3>2
    <2>4. QED BY <2>2, <2>3
<1>8. LhFiled(hd2, e, big, binmap, used2)
    <2>1. LhLists(big) /\ used2 \subseteq D2
        BY <1>1, <1>2, <1>4 DEF LhFiled
    <2>2. ASSUME NEW i, NEW g, LhIn(big, i, g)
          PROVE  g \in D2 /\ g \notin used2 /\ i = BigBin(hd2[g].size) /\ i \in binmap
        <3>1. g \in D /\ g \notin used /\ i = BigBin(hd[g].size) /\ i \in binmap
            BY <1>1, <2>2 DEF LhFiled
        <3>2. g # h /\ g # p
            BY <1>3, <3>1
        <3>3. QED BY <1>4, <1>5, <3>1, <3>2
    <2>3. ASSUME NEW g \in D2, g \notin used2 PROVE LhIn(big, BigBin(hd2[g].size), g)
        <3>1. g # h /\ g # p /\ g \in D /\ g \notin used
            BY <1>4, <2>3
        <3>2. hd2[g].size = hd[g].size
            BY <1>5, <3>1
        <3>3. QED BY <1>1, <3>1, <3>2 DEF LhFiled
    <2>4. QED BY <2>1, <2>2, <2>3 DEF LhFiled
<1>9. LhSizesKept(hd, hd2, used \ {h})
    BY <1>2, <1>4, <1>5 DEF LhSizesKept
<1>10. LhUsedBefore(hd2, e, used2, p)
    <2>1. SUFFICES ASSUME NEW g \in D2, LhNx(hd2, g) = p PROVE g \in used2
        BY DEF LhUsedBefore
    <2>2. h \in D2
        BY <1>2, <1>4
    <2>3. g = h
        BY <1>3, <2>1, <2>2, NextsDiffer
    <2>4. QED BY <2>3
<1>11. LhUsedAfter(hd2, e, used2, p)
    BY <1>3 DEF LhUsedAfter
<1>12. hd2[h].size = sz
    <2>1. h \in DOMAIN hd2
        BY <1>2, <1>3, <1>4
    <2>2. QED BY <2>1 DEF LhIsSplit
<1>13. p \notin used
    BY <1>2, <1>3
<1>14. QED BY <1>3, <1>6, <1>7, <1>8, <1>9, <1>10, <1>11, <1>12, <1>13 DEF LhGood

\* The object that is put behind the last one is used.
LEMMA ExtendGood ==
    ASSUME NEW hd, NEW e, NEW big, NEW binmap, NEW used, LhGood(hd, e, big, binmap, used, -1),
           NEW sz \in Nat, sz % 8 = 0, sz >= 8, NEW e2, e2 = LhBehind(e, sz), e2 <= LhEnd,
           NEW hd2, LhIsExtended(hd, hd2, e, e2, sz),
           NEW binmap2, \A j, g : LhIn(big, j, g) => j \in binmap2, NEW used2, used2 = used \cup {e}
    PROVE  /\ LhGood(hd2, e2, big, binmap2, used2, -1) /\ LhSizesKept(hd, hd2, used)
           /\ e \notin used /\ hd2[e].size = sz
<1> DEFINE D == DOMAIN hd \ {e}
           D2 == DOMAIN hd2 \ {e2}
<1>1. LhLayout(hd, e) /\ LhTagged(hd, e, used, -1) /\ LhApart(hd, e, used) /\ LhFiled(hd, e, big, binmap, used)
    BY DEF LhGood
<1>2. used \subseteq D /\ e \in DOMAIN hd /\ e \in Nat
    BY <1>1, LhNumbers DEF LhFiled, LhLayout
<1>3. /\ LhLayout(hd2, e2) /\ e2 \notin DOMAIN hd /\ LhNx(hd2, e) = e2 /\ e \in D2
      /\ \A g \in D : LhNx(hd2, g) = LhNx(hd, g)
    BY <1>1, ExtendedLayout
<1>4. DOMAIN hd2 = DOMAIN hd \cup {e2} /\ D2 = D \cup {e}
    BY <1>2, <1>3 DEF LhIsExtended
<1>5. \A g \in DOMAIN hd : hd2[g].prevFree = hd[g].prevFree /\ (g # e => hd2[g].size = hd[g].size)
    BY <1>3, <1>4 DEF LhIsExtended
<1>6. LhTagged(hd2, e2, used2, -1)
    <2>1. SUFFICES ASSUME NEW g \in D2, g # -1
                   PROVE  hd2[LhNx(hd2, g)].prevFree <=> (g \notin used2 /\ (g # 0 \/ lhFirst = 0))
        BY DEF LhTagged
    <2>2. CASE g = e
        <3>1. hd2[e2].prevFree = FALSE
            BY <1>4 DEF LhIsExtended
        <3>2. QED BY <1>3, <2>2, <3>1
    <2>3. CASE g # e
        <3>1. g \in D
            BY <1>4, <2>3
        <3>2. LhNx(hd2, g) = LhNx(hd, g) /\ LhNx(hd, g) \in DOMAIN hd
            BY <1>1, <1>3, <3>1, NxIs
        <3>3. hd[LhNx(hd, g)].prevFree <=> (g \notin used /\ (g # 0 \/ lhFirst = 0))
            BY <1>1, <2>1, <3>1 DEF LhTagged
        <3>4. QED BY <1>5, <2>3, <3>2, <3>3
    <2>4. QED BY <2>2, <2>3
<1>7. LhApart(hd2, e2, used2)
    <2>1. SUFFICES ASSUME lhFirst = 0, NEW g \in D2, LhNx(hd2, g) # e2 PROVE g \in used2 \/ LhNx(hd2, g) \in used2
        BY DEF LhApart
    <2>2. CASE g = e
        BY <2>2
    <2>3. CASE g # e
        <3>1. g \in D /\ LhNx(hd2, g) = LhNx(hd, g)
            BY <1>3, <1>4, <2>3
        <3>2. LhNx(hd, g) = e \/ g \in used \/ LhNx(hd, g) \in used
            BY <1>1, <2>1, <3>1 DEF LhApart
        <3>3. QED BY <3>1, <3>2
    <2>4. QED BY <2>2, <2>3
<1>8. LhFiled(hd2, e2, big, binmap2, used2)
    <2>1. LhLists(big) /\ used2 \subseteq D2
        BY <1>1, <1>2, <1>4 DEF LhFiled
    <2>2. ASSUME NEW i, NEW g, LhIn(big, i, g)
          PROVE  g \in D2 /\ g \notin used2 /\ i = BigBin(hd2[g].size) /\ i \in binmap2
        <3>1. g \in D /\ g \notin used /\ i = BigBin(hd[g].size)
            BY <1>1, <2>2 DEF LhFiled
        <3>2. QED BY <1>4, <1>5, <2>2, <3>1
    <2>3. ASSUME NEW g \in D2, g \notin used2 PROVE LhIn(big, BigBin(hd2[g].size), g)
        <3>1. g \in D /\ g \notin used
            BY <1>4, <2>3
        <3>2. QED BY <1>1, <1>5, <3>1 DEF LhFiled
    <2>4. QED BY <2>1, <2>2, <2>3 DEF LhFiled
<1>9. LhSizesKept(hd, hd2, used)
    BY <1>2, <1>4, <1>5 DEF LhSizesKept
<1>10. hd2[e].size = sz
    BY <1>2, <1>4 DEF LhIsExtended
<1>11. QED BY <1>2, <1>3, <1>6, <1>7, <1>8, <1>9, <1>10 DEF LhGood

-----------------------------------------------------------------------------
(* The record *)

LhShape(a) ==
    /\ a = [hd |-> a.hd, big |-> a.big, binmap |-> a.binmap, small |-> a.small, held |-> a.held,
            inUse |-> a.inUse, maxInUse |-> a.maxInUse, crashed |-> a.crashed]
    /\ a.crashed \in BOOLEAN

\* The big heap's operations leave the small bins alone.
LhSame(a, b) == LhShape(b) /\ b.small = a.small /\ b.crashed = a.crashed

\* SegInsert: one header more, in the marked bin of its size.
LEMMA SegInsertIs ==
    ASSUME NEW a, LhShape(a), LhLists(a.big), NEW h \in Nat, NEW i, i = BigBin(a.hd[h].size), ~LhIn(a.big, i, h),
           NEW b, b = SegInsert(a, h)
    PROVE  LhSame(a, b) /\ b.hd = a.hd /\ b.binmap = a.binmap \cup {i} /\ LhAdds(a.big, b.big, i, h)
<1>1. b = [a EXCEPT !.big = LhPut(@, i, <<h>> \o BigList(a, i)), !.binmap = @ \cup {i}]
    BY DEF SegInsert
<1>2. /\ LhSame(a, b) /\ b.hd = a.hd /\ b.binmap = a.binmap \cup {i}
      /\ b.big = LhPut(a.big, i, <<h>> \o BigList(a, i))
    BY <1>1 DEF LhShape, LhSame
<1>3. LhAdds(a.big, b.big, i, h)
    BY <1>2, ListPushed DEF BigList
<1>4. QED BY <1>2, <1>3

\* Removed: a crash, or one header less.
LEMMA RemovedIs ==
    ASSUME NEW a, LhShape(a), LhLists(a.big), NEW h, NEW i, LhIn(a.big, i, h), \A j : LhIn(a.big, j, h) => j = i,
           NEW b, b = Removed(a, h)
    PROVE  /\ LhShape(b) /\ b.small = a.small /\ b.hd = a.hd /\ b.binmap = a.binmap
           /\ b.crashed = TRUE \/ (b.crashed = a.crashed /\ LhTakes(a.big, b.big, i, h))
<1>1. InBin(a, h) = i
    BY DEF InBin, LhIn
<1>2. CASE Head(a.big[i]) = h
    <2>1. b = [a EXCEPT !.crashed = TRUE]
        BY <1>1, <1>2 DEF Removed
    <2>2. QED BY <2>1 DEF LhShape
<1>3. CASE Head(a.big[i]) # h
    <2>1. PICK t : t = RemoveAt(a.big[i], CHOOSE k \in 1 .. Len(a.big[i]) : a.big[i][k] = h)
        OBVIOUS
    <2>2. b = [a EXCEPT !.big[i] = t]
        BY <1>1, <1>3, <2>1 DEF Removed
    <2>3. /\ LhShape(b) /\ b.small = a.small /\ b.hd = a.hd /\ b.binmap = a.binmap /\ b.crashed = a.crashed
          /\ b.big = [a.big EXCEPT ![i] = t]
        BY <2>2 DEF LhShape
    <2>4. PICK s : s = a.big[i]
        OBVIOUS
    <2>5. i \in DOMAIN a.big /\ s \in Seq(Nat) /\ LhNoTwice(s) /\ h \in ToSet(s)
        BY <2>4 DEF LhIn, LhLists
    <2>6. t = RemoveAt(s, CHOOSE k \in 1 .. Len(s) : s[k] = h)
        BY <2>1, <2>4
    <2>7. t \in Seq(Nat) /\ LhNoTwice(t) /\ \A g : g \in ToSet(t) <=> (g \in ToSet(s) /\ g # h)
        BY <2>5, <2>6, DropIs
    <2>8. PICK f, f2 : f = a.big /\ f2 = b.big
        OBVIOUS
    <2>9. LhTakes(f, f2, i, h)
        <3>1. i \in DOMAIN f /\ LhLists(f) /\ f2 = [f EXCEPT ![i] = t]
              /\ \A g : g \in ToSet(t) <=> (g \in ToSet(f[i]) /\ g # h)
            BY <2>3, <2>4, <2>5, <2>7, <2>8
        <3>2. QED BY <2>7, <3>1, ListReduced
    <2>10. QED BY <2>3, <2>8, <2>9
<1>4. QED BY <1>2, <1>3

\* Marked: the header behind the object, and it alone.
LEMMA MarkedIs ==
    ASSUME NEW a, LhShape(a), NEW e, LhLayout(a.hd, e), NEW h \in DOMAIN a.hd \ {e}, NEW free \in BOOLEAN,
           NEW b, b = Marked(a, h, free)
    PROVE  LhSame(a, b) /\ b.big = a.big /\ b.binmap = a.binmap /\ LhIsMarked(a.hd, b.hd, h, free)
<1>1. PICK n : n = LhNx(a.hd, h)
    OBVIOUS
<1>2. n \in DOMAIN a.hd
    BY <1>1, NxIs
<1>3. LhNext(a, h) = n
    BY <1>1 DEF LhNext, LhNx
<1>4. b = [a EXCEPT !.hd[n].prevFree = free]
    BY <1>3 DEF Marked
<1>5. /\ LhSame(a, b) /\ b.big = a.big /\ b.binmap = a.binmap
      /\ b.hd = [a.hd EXCEPT ![n].prevFree = free]
    BY <1>4 DEF LhShape, LhSame
<1>6. PICK hd, hd2 : hd = a.hd /\ hd2 = b.hd
    OBVIOUS
<1>7. hd2 = [hd EXCEPT ![n] = [hd[n] EXCEPT !.prevFree = free]] /\ n \in DOMAIN hd /\ n = LhNx(hd, h)
    BY <1>1, <1>2, <1>5, <1>6
<1>8. \A g \in DOMAIN hd : hd[g] \in LhHeaderType
    BY <1>6 DEF LhLayout
<1>9. LhIsMarked(hd, hd2, h, free)
    <2>1. DOMAIN hd2 = DOMAIN hd
        BY <1>7
    <2>2. ASSUME NEW g \in DOMAIN hd
          PROVE  /\ hd2[g] \in LhHeaderType /\ hd2[g].size = hd[g].size /\ hd2[g].prevSize = hd[g].prevSize
                 /\ hd2[g].prevFree = IF g = n THEN free ELSE hd[g].prevFree
        <3>1. CASE g = n
            <4>1. hd2[g] = [hd[g] EXCEPT !.prevFree = free] /\ hd[g] \in LhHeaderType
                BY <1>7, <1>8, <3>1
            <4>2. QED BY <3>1, <4>1 DEF LhHeaderType
        <3>2. CASE g # n
            <4>1. hd2[g] = hd[g] /\ hd[g] \in LhHeaderType
                BY <1>7, <1>8, <3>2
            <4>2. QED BY <3>2, <4>1
        <3>3. QED BY <3>1, <3>2
    <2>3. QED BY <1>7, <2>1, <2>2 DEF LhIsMarked
<1>10. QED BY <1>5, <1>6, <1>9

LhFree1(a, h) == Marked(a, h, TRUE)
LhUsed1(a, h) == Marked(a, h, FALSE)

LEMMA FreeIs ==
    ASSUME NEW a, LhShape(a), NEW e, LhLayout(a.hd, e), NEW h \in DOMAIN a.hd \ {e}, NEW b, b = LhFree1(a, h)
    PROVE  LhSame(a, b) /\ b.big = a.big /\ b.binmap = a.binmap /\ LhIsFreed(a.hd, b.hd, h)
<1>1. PICK free \in BOOLEAN : free = TRUE
    OBVIOUS
<1>2. b = Marked(a, h, free)
    BY <1>1 DEF LhFree1
<1>3. LhSame(a, b) /\ b.big = a.big /\ b.binmap = a.binmap /\ LhIsMarked(a.hd, b.hd, h, free)
    BY <1>2, MarkedIs
<1>4. QED BY <1>1, <1>3 DEF LhIsFreed

LEMMA UsedIs ==
    ASSUME NEW a, LhShape(a), NEW e, LhLayout(a.hd, e), NEW h \in DOMAIN a.hd \ {e}, NEW b, b = LhUsed1(a, h)
    PROVE  LhSame(a, b) /\ b.big = a.big /\ b.binmap = a.binmap /\ LhIsTaken(a.hd, b.hd, h)
<1>1. PICK free \in BOOLEAN : free = FALSE
    OBVIOUS
<1>2. b = Marked(a, h, free)
    BY <1>1 DEF LhUsed1
<1>3. LhSame(a, b) /\ b.big = a.big /\ b.binmap = a.binmap /\ LhIsMarked(a.hd, b.hd, h, free)
    BY <1>2, MarkedIs
<1>4. QED BY <1>1, <1>3 DEF LhIsTaken

\* An object's header and the one behind it get the size.
LhResize(hd, h, n, size) == LhPut(LhPut(hd, h, [hd[h] EXCEPT !.size = size]), n, [hd[n] EXCEPT !.prevSize = size])

\* Resized, of the headers and of the record.
LEMMA ResizeIs ==
    ASSUME NEW hd, NEW h \in DOMAIN hd, NEW n \in DOMAIN hd, n # h, \A g \in DOMAIN hd : hd[g] \in LhHeaderType,
           NEW size \in Nat, NEW hd2, hd2 = LhResize(hd, h, n, size)
    PROVE  /\ DOMAIN hd2 = DOMAIN hd
           /\ \A g \in DOMAIN hd2 :
                 /\ hd2[g] \in LhHeaderType /\ hd2[g].prevFree = hd[g].prevFree
                 /\ hd2[g].size = IF g = h THEN size ELSE hd[g].size
                 /\ hd2[g].prevSize = IF g = n THEN size ELSE hd[g].prevSize
<1>1. PICK v, w : v = [hd[h] EXCEPT !.size = size] /\ w = [hd[n] EXCEPT !.prevSize = size]
    OBVIOUS
<1>2. v \in LhHeaderType /\ v.size = size /\ v.prevSize = hd[h].prevSize /\ v.prevFree = hd[h].prevFree
    <2>1. hd[h] \in LhHeaderType
        OBVIOUS
    <2>2. QED BY <1>1, <2>1 DEF LhHeaderType
<1>3. w \in LhHeaderType /\ w.size = hd[n].size /\ w.prevSize = size /\ w.prevFree = hd[n].prevFree
    <2>1. hd[n] \in LhHeaderType
        OBVIOUS
    <2>2. QED BY <1>1, <2>1 DEF LhHeaderType
<1>4. PICK m : m = LhPut(hd, h, v)
    OBVIOUS
<1>5. DOMAIN m = DOMAIN hd /\ m[h] = v /\ \A g \in DOMAIN hd : g # h => m[g] = hd[g]
    BY <1>4 DEF LhPut
<1>6. hd2 = LhPut(m, n, w)
    BY <1>1, <1>4 DEF LhResize
<1>7. DOMAIN hd2 = DOMAIN hd /\ hd2[n] = w /\ \A g \in DOMAIN hd : g # n => hd2[g] = m[g]
    BY <1>5, <1>6 DEF LhPut
<1>8. ASSUME NEW g \in DOMAIN hd2
      PROVE  /\ hd2[g] \in LhHeaderType /\ hd2[g].prevFree = hd[g].prevFree
             /\ hd2[g].size = IF g = h THEN size ELSE hd[g].size
             /\ hd2[g].prevSize = IF g = n THEN size ELSE hd[g].prevSize
    <2>1. CASE g = h
        <3>1. hd2[g] = v
            BY <1>5, <1>7, <2>1
        <3>2. QED BY <1>2, <2>1, <3>1
    <2>2. CASE g = n
        BY <1>3, <1>7, <2>2
    <2>3. CASE g # h /\ g # n
        <3>1. hd2[g] = hd[g] /\ hd[g] \in LhHeaderType
            BY <1>5, <1>7, <2>3
        <3>2. QED BY <2>3, <3>1
    <2>4. QED BY <2>1, <2>2, <2>3
<1>9. QED BY <1>7, <1>8

LEMMA ResizedIs ==
    ASSUME NEW a, LhShape(a), NEW h, NEW size, NEW n, n = LhBehind(h, size), NEW b, b = Resized(a, h, size)
    PROVE  LhSame(a, b) /\ b.big = a.big /\ b.binmap = a.binmap /\ b.hd = LhResize(a.hd, h, n, size)
<1>1. h + LhHeader + size = n
    BY DEF LhHeader, LhBehind
<1>2. b = [a EXCEPT !.hd = LhResize(a.hd, h, n, size)]
    BY <1>1 DEF Resized, LhResize
<1>3. PICK v : v = LhResize(a.hd, h, n, size)
    OBVIOUS
<1>4. LhSame(a, b) /\ b.big = a.big /\ b.binmap = a.binmap /\ b.hd = v
    BY <1>2, <1>3 DEF LhShape, LhSame
<1>5. QED BY <1>3, <1>4

\* LhMerged: of two neighbours the first one is left, with the size of both and a header.
LEMMA MergedIs ==
    ASSUME NEW a, LhShape(a), NEW e, LhLayout(a.hd, e), NEW f \in DOMAIN a.hd \ {e}, NEW s \in DOMAIN a.hd \ {e},
           s = LhNx(a.hd, f), NEW b, b = LhMerged(a, f, s)
    PROVE  LhSame(a, b) /\ b.big = a.big /\ b.binmap = a.binmap /\ LhIsMerged(a.hd, b.hd, f, s)
<1>1. PICK hd : hd = a.hd
    OBVIOUS
<1>2. /\ f \in Nat /\ s \in Nat /\ hd[f].size \in Nat /\ hd[s].size \in Nat /\ hd[s].size >= 8 /\ hd[f].size >= 8
      /\ s = f + 8 + hd[f].size /\ LhNx(hd, s) = s + 8 + hd[s].size /\ LhNx(hd, s) \in DOMAIN hd
    BY <1>1, NxIs
<1>3. PICK size \in Nat : size = hd[f].size + 8 + hd[s].size
    BY <1>2
<1>4. PICK n : n = LhNx(hd, s)
    OBVIOUS
<1>5. n = f + 8 + size /\ n \in DOMAIN hd /\ n # s /\ n # f /\ s # f
    BY <1>2, <1>3, <1>4
<1>6. s - f + hd[s].size = size
    BY <1>2, <1>3
<1>7. PICK c : c = [a EXCEPT !.hd = LhDrop(@, s)]
    OBVIOUS
<1>8. LhSame(a, c) /\ c.big = a.big /\ c.binmap = a.binmap /\ c.hd = LhDrop(hd, s)
    <2>1. PICK v : v = LhDrop(hd, s)
        OBVIOUS
    <2>2. c = [a EXCEPT !.hd = v]
        BY <1>1, <1>7, <2>1
    <2>3. LhSame(a, c) /\ c.big = a.big /\ c.binmap = a.binmap /\ c.hd = v
        BY <2>2 DEF LhShape, LhSame
    <2>4. QED BY <2>1, <2>3
<1>9. b = Resized(c, f, size)
    BY <1>1, <1>6, <1>7 DEF LhMerged
<1>10. LhSame(c, b) /\ b.big = c.big /\ b.binmap = c.binmap /\ b.hd = LhResize(c.hd, f, n, size)
    <2>1. LhShape(c)
        BY <1>8 DEF LhSame
    <2>2. n = LhBehind(f, size)
        BY <1>5 DEF LhBehind
    <2>3. QED BY <1>9, <2>1, <2>2, ResizedIs
<1>11. LhSame(a, b) /\ b.big = a.big /\ b.binmap = a.binmap
    BY <1>8, <1>10 DEF LhSame
<1>12. PICK m, hd2 : m = c.hd /\ hd2 = b.hd
    OBVIOUS
<1>13. DOMAIN m = DOMAIN hd \ {s} /\ \A g \in DOMAIN m : m[g] = hd[g]
    BY <1>8, <1>12 DEF LhDrop
<1>14. f \in DOMAIN m /\ n \in DOMAIN m /\ \A g \in DOMAIN m : m[g] \in LhHeaderType
    <2>1. \A g \in DOMAIN hd : hd[g] \in LhHeaderType
        BY <1>1 DEF LhLayout
    <2>2. QED BY <1>1, <1>5, <1>13, <2>1
<1>15. /\ DOMAIN hd2 = DOMAIN m
       /\ \A g \in DOMAIN hd2 :
             /\ hd2[g] \in LhHeaderType /\ hd2[g].prevFree = m[g].prevFree
             /\ hd2[g].size = IF g = f THEN size ELSE m[g].size
             /\ hd2[g].prevSize = IF g = n THEN size ELSE m[g].prevSize
    <2>1. hd2 = LhResize(m, f, n, size)
        BY <1>10, <1>12
    <2>2. QED BY <1>5, <1>14, <2>1, ResizeIs
<1>16. LhIsMerged(hd, hd2, f, s)
    BY <1>3, <1>4, <1>13, <1>15 DEF LhIsMerged
<1>17. QED BY <1>1, <1>11, <1>12, <1>16

LhPieced(a, p) == [a EXCEPT !.hd = LhPut(@, p, [size |-> 0, prevSize |-> 0, prevFree |-> FALSE])]

LhParts(hd, h, sz, rest) ==
    sz \in Nat /\ sz >= 8 /\ sz % 8 = 0 /\ rest \in Nat /\ rest + sz + 8 = hd[h].size
    /\ rest >= 8

LhCut(a, h, sz, p, rest) == Resized(Resized(LhPieced(a, p), h, sz), p, rest)

\* LeaSplit, where a piece is split off.
LEMMA SplitIs ==
    ASSUME NEW a, LhShape(a), NEW e, LhLayout(a.hd, e), NEW h \in DOMAIN a.hd \ {e}, NEW sz, NEW rest,
           LhParts(a.hd, h, sz, rest), NEW p, p = LhBehind(h, sz), NEW b, b = LhCut(a, h, sz, p, rest)
    PROVE  LhSame(a, b) /\ b.big = a.big /\ b.binmap = a.binmap /\ LhIsSplit(a.hd, b.hd, h, p, sz)
<1>1. PICK hd : hd = a.hd
    OBVIOUS
<1>2. /\ h \in Nat /\ hd[h].size \in Nat /\ LhNx(hd, h) = h + 8 + hd[h].size /\ LhNx(hd, h) \in DOMAIN hd
      /\ h \in DOMAIN hd
    BY <1>1, NxIs
<1>3. PICK n : n = LhNx(hd, h)
    OBVIOUS
<1>0. PICK made : made = LhPieced(a, p)
    OBVIOUS
<1> sz \in Nat /\ sz >= 8 /\ sz % 8 = 0 /\ rest \in Nat /\ rest + sz + 8 = a.hd[h].size /\ rest >= 8
    BY DEF LhParts
<1>4. rest \in Nat /\ p \in Nat /\ n = p + 8 + rest /\ n # p /\ n # h /\ p # h /\ p > h /\ p < n
    BY <1>1, <1>2, <1>3 DEF LhBehind
<1>5. p \notin DOMAIN hd
    <2>1. SUFFICES ASSUME p \in DOMAIN hd PROVE FALSE
        OBVIOUS
    <2>2. p <= h \/ p >= n
        BY <1>1, <1>3, <2>1, NoneBetween
    <2>3. QED BY <1>2, <1>3, <1>4, <2>2
<1>6. PICK z : z = [size |-> 0, prevSize |-> 0, prevFree |-> FALSE]
    OBVIOUS
<1>7. z \in LhHeaderType /\ z.size = 0 /\ z.prevSize = 0 /\ z.prevFree = FALSE
    BY <1>6 DEF LhHeaderType
<1>8. LhSame(a, made) /\ made.big = a.big /\ made.binmap = a.binmap /\ made.hd = LhPut(hd, p, z)
    <2>1. PICK v : v = LhPut(hd, p, z)
        OBVIOUS
    <2>2. made = [a EXCEPT !.hd = v]
        BY <1>0, <1>1, <1>6, <2>1 DEF LhPieced
    <2>3. LhSame(a, made) /\ made.big = a.big /\ made.binmap = a.binmap /\ made.hd = v
        BY <2>2 DEF LhShape, LhSame
    <2>4. QED BY <2>1, <2>3
<1>9. PICK c : c = Resized(made, h, sz)
    OBVIOUS
<1>10. LhSame(made, c) /\ c.big = made.big /\ c.binmap = made.binmap /\ c.hd = LhResize(made.hd, h, p, sz)
    <2>1. LhShape(made)
        BY <1>8 DEF LhSame
    <2>2. QED BY <1>9, <2>1, ResizedIs
<1>11. LhSame(c, b) /\ b.big = c.big /\ b.binmap = c.binmap /\ b.hd = LhResize(c.hd, p, n, rest)
    <2>1. LhShape(c)
        BY <1>10 DEF LhSame
    <2>2. n = LhBehind(p, rest) /\ b = Resized(c, p, rest)
        BY <1>0, <1>4, <1>9 DEF LhBehind, LhCut
    <2>3. QED BY <2>1, <2>2, ResizedIs
<1>12. LhSame(a, b) /\ b.big = a.big /\ b.binmap = a.binmap
    BY <1>8, <1>10, <1>11 DEF LhSame
<1>13. PICK m0, m1, m2 : m0 = made.hd /\ m1 = c.hd /\ m2 = b.hd
    OBVIOUS
<1>14. DOMAIN m0 = DOMAIN hd \cup {p} /\ m0[p] = z /\ \A g \in DOMAIN hd : m0[g] = hd[g]
    <2>1. m0 = LhPut(hd, p, z)
        BY <1>8, <1>13
    <2>2. QED BY <1>5, <2>1 DEF LhPut
<1>15. \A g \in DOMAIN m0 : m0[g] \in LhHeaderType
    <2>1. \A g \in DOMAIN hd : hd[g] \in LhHeaderType
        BY <1>1 DEF LhLayout
    <2>2. QED BY <1>7, <1>14, <2>1
<1>16. /\ DOMAIN m1 = DOMAIN m0
       /\ \A g \in DOMAIN m1 :
             /\ m1[g] \in LhHeaderType /\ m1[g].prevFree = m0[g].prevFree
             /\ m1[g].size = IF g = h THEN sz ELSE m0[g].size
             /\ m1[g].prevSize = IF g = p THEN sz ELSE m0[g].prevSize
    <2>1. m1 = LhResize(m0, h, p, sz) /\ h \in DOMAIN m0 /\ p \in DOMAIN m0 /\ p # h
        BY <1>2, <1>4, <1>10, <1>13, <1>14
    <2>2. QED BY <1>15, <2>1, ResizeIs
<1>17. /\ DOMAIN m2 = DOMAIN m1
       /\ \A g \in DOMAIN m2 :
             /\ m2[g] \in LhHeaderType /\ m2[g].prevFree = m1[g].prevFree
             /\ m2[g].size = IF g = p THEN rest ELSE m1[g].size
             /\ m2[g].prevSize = IF g = n THEN rest ELSE m1[g].prevSize
    <2>1. m2 = LhResize(m1, p, n, rest) /\ n \in DOMAIN m1 /\ p \in DOMAIN m1 /\ n # p
        BY <1>2, <1>3, <1>4, <1>11, <1>13, <1>14, <1>16
    <2>2. \A g \in DOMAIN m1 : m1[g] \in LhHeaderType
        BY <1>16
    <2>3. QED BY <1>4, <2>1, <2>2, ResizeIs
<1>18. LhIsSplit(hd, m2, h, p, sz)
    <2>1. DOMAIN m2 = DOMAIN hd \cup {p}
        BY <1>14, <1>16, <1>17
    <2>2. ASSUME NEW g \in DOMAIN m2
          PROVE  /\ m2[g] \in LhHeaderType
                 /\ m2[g].prevFree = IF g = p THEN FALSE ELSE hd[g].prevFree
                 /\ m2[g].size = IF g = h THEN sz ELSE IF g = p THEN rest ELSE hd[g].size
                 /\ m2[g].prevSize = IF g = p THEN sz ELSE IF g = n THEN rest ELSE hd[g].prevSize
        <3>1. CASE g = p
            BY <1>4, <1>7, <1>14, <1>16, <1>17, <3>1
        <3>2. CASE g # p
            <4>1. g \in DOMAIN hd /\ m0[g] = hd[g]
                BY <1>14, <2>1, <3>2
            <4>2. QED BY <1>16, <1>17, <3>2, <4>1
        <3>3. QED BY <3>1, <3>2
    <2>3. rest = hd[h].size - sz - 8
        BY <1>1, <1>2
    <2>4. QED BY <1>3, <2>1, <2>2, <2>3 DEF LhIsSplit
<1>19. QED BY <1>1, <1>12, <1>13, <1>18

\* What frees an object ends with: between used ones, it is marked and filed.
LEMMA GiveBackGood ==
    ASSUME NEW a, LhShape(a), NEW e, NEW used, NEW x \in used, LhGood(a.hd, e, a.big, a.binmap, used, x),
           LhUsedBefore(a.hd, e, used, x), LhUsedAfter(a.hd, e, used, x), x # 0 \/ lhFirst = 0,
           NEW b, b = SegInsert(LhFree1(a, x), x)
    PROVE  /\ LhSame(a, b) /\ LhGood(b.hd, e, b.big, b.binmap, used \ {x}, -1)
           /\ LhSizesKept(a.hd, b.hd, used \ {x})
<1>1. LhLayout(a.hd, e) /\ LhFiled(a.hd, e, a.big, a.binmap, used)
    BY DEF LhGood
<1>2. x \in DOMAIN a.hd \ {e} /\ x \in Nat
    <2>1. x \in DOMAIN a.hd \ {e}
        BY <1>1 DEF LhFiled
    <2>2. QED BY <1>1, <2>1, NxIs
<1>3. PICK c : c = LhFree1(a, x)
    OBVIOUS
<1>4. LhSame(a, c) /\ c.big = a.big /\ c.binmap = a.binmap /\ LhIsFreed(a.hd, c.hd, x)
    BY <1>1, <1>2, <1>3, FreeIs
<1>5. PICK i : i = BigBin(a.hd[x].size)
    OBVIOUS
<1>6. i = BigBin(c.hd[x].size)
    BY <1>2, <1>4, <1>5 DEF LhIsFreed, LhIsMarked
<1>7. LhSame(c, b) /\ b.hd = c.hd /\ b.binmap = c.binmap \cup {i} /\ LhAdds(c.big, b.big, i, x)
    <2>1. LhShape(c) /\ LhLists(c.big) /\ ~LhIn(c.big, i, x)
        BY <1>1, <1>4 DEF LhSame, LhFiled
    <2>2. b = SegInsert(c, x)
        BY <1>3
    <2>3. QED BY <1>2, <1>6, <2>1, <2>2, SegInsertIs
<1>8. PICK used2 : used2 = used \ {x}
    OBVIOUS
<1>9. LhGood(b.hd, e, b.big, b.binmap, used2, -1) /\ LhSizesKept(a.hd, b.hd, used2)
    <2>1. PICK hd, hd2, big, big2, binmap, binmap2 :
              hd = a.hd /\ hd2 = b.hd /\ big = a.big /\ big2 = b.big /\ binmap = a.binmap /\ binmap2 = b.binmap
        OBVIOUS
    <2>2. /\ LhGood(hd, e, big, binmap, used, x) /\ LhUsedBefore(hd, e, used, x) /\ LhUsedAfter(hd, e, used, x)
          /\ LhIsFreed(hd, hd2, x) /\ LhAdds(big, big2, BigBin(hd[x].size), x)
          /\ binmap2 = binmap \cup {BigBin(hd[x].size)}
        BY <1>4, <1>5, <1>7, <2>1
    <2>3. LhGood(hd2, e, big2, binmap2, used2, -1) /\ LhSizesKept(hd, hd2, used2)
        BY <1>8, <2>2, GiveGood
    <2>4. QED BY <2>1, <2>3
<1>10. LhSame(a, b)
    BY <1>4, <1>7 DEF LhSame
<1>11. QED BY <1>8, <1>9, <1>10

\* LeaSplit of an object that has just been taken: it is used, and a piece is filed.
LEMMA LeaSplitGood ==
    ASSUME NEW a, LhShape(a), NEW e, NEW used, LhGood(a.hd, e, a.big, a.binmap, used, -1),
           NEW h \in used, LhUsedAfter(a.hd, e, used, h), NEW sz \in Nat, sz % 8 = 0, sz >= 8, sz <= a.hd[h].size,
           NEW b, b = LeaSplit(a, h, sz)
    PROVE  /\ LhSame(a, b) /\ LhGood(b.hd, e, b.big, b.binmap, used, -1)
           /\ LhSizesKept(a.hd, b.hd, used \ {h}) /\ b.hd[h].size >= sz
<1>1. LhLayout(a.hd, e) /\ LhFiled(a.hd, e, a.big, a.binmap, used)
    BY DEF LhGood
<1>2. h \in DOMAIN a.hd \ {e} /\ h \in Nat /\ a.hd[h].size \in Nat
    <2>1. h \in DOMAIN a.hd \ {e}
        BY <1>1 DEF LhFiled
    <2>2. QED BY <1>1, <2>1, NxIs
<1>3. PICK rest, p : rest = a.hd[h].size - sz - 8 /\ p = LhBehind(h, sz)
    OBVIOUS
<1>4. PICK c : c = LhCut(a, h, sz, p, rest)
    OBVIOUS
<1>5. PICK done : done = SegInsert(LhFree1(c, p), p)
    OBVIOUS
<1>6. b = IF rest < 8 THEN a ELSE done
    BY <1>3, <1>4, <1>5 DEF LeaSplit, LhHeader, LhBehind, LhPieced, LhCut, LhFree1
<1>7. CASE rest < 8
    <2>1. b = a
        BY <1>6, <1>7
    <2>2. LhSizesKept(a.hd, a.hd, used \ {h})
        BY <1>1 DEF LhSizesKept, LhFiled
    <2>3. QED BY <1>2, <2>1, <2>2 DEF LhSame
<1>8. CASE ~(rest < 8)
    <2>0. LhParts(a.hd, h, sz, rest)
        BY <1>2, <1>3, <1>8 DEF LhParts
    <2>1. b = SegInsert(LhFree1(c, p), p)
        BY <1>5, <1>6, <1>8
    <2>2. LhSame(a, c) /\ c.big = a.big /\ c.binmap = a.binmap /\ LhIsSplit(a.hd, c.hd, h, p, sz)
        BY <1>1, <1>2, <1>3, <1>4, <2>0, SplitIs
    <2>3. PICK used2 : used2 = used \cup {p}
        OBVIOUS
    <2>4. PICK hd, hd2, big, binmap : hd = a.hd /\ hd2 = c.hd /\ big = a.big /\ binmap = a.binmap
        OBVIOUS
    <2>5. /\ LhGood(hd2, e, big, binmap, used2, p) /\ LhSizesKept(hd, hd2, used \ {h}) /\ p # 0 /\ p \notin used
          /\ LhUsedBefore(hd2, e, used2, p) /\ LhUsedAfter(hd2, e, used2, p)
          /\ hd2[h].size = sz
        <3>1. /\ LhGood(hd, e, big, binmap, used, -1) /\ LhUsedAfter(hd, e, used, h) /\ LhSplits(hd, h, sz)
              /\ LhIsSplit(hd, hd2, h, p, sz)
            <4>1. LhSplits(hd, h, sz)
                BY <1>2, <1>3, <1>8, <2>4 DEF LhSplits
            <4>2. QED BY <2>2, <2>4, <4>1
        <3>2. p = LhBehind(h, sz)
            BY <1>3
        <3>3. QED BY ONLY <2>3, <3>1, <3>2, h \in used, SplitGood
    <2>6. LhSame(c, b) /\ LhGood(b.hd, e, b.big, b.binmap, used2 \ {p}, -1) /\ LhSizesKept(c.hd, b.hd, used2 \ {p})
        <3>1. /\ LhShape(c) /\ LhGood(c.hd, e, c.big, c.binmap, used2, p) /\ p \in used2
              /\ LhUsedBefore(c.hd, e, used2, p) /\ LhUsedAfter(c.hd, e, used2, p) /\ p # 0
            BY <2>2, <2>3, <2>4, <2>5 DEF LhSame
        <3>2. QED BY <2>1, <3>1, GiveBackGood
    <2>7. used2 \ {p} = used
        BY <2>3, <2>5
    <2>8. LhSizesKept(a.hd, b.hd, used \ {h}) /\ b.hd[h].size = sz
        <3>1. LhSizesKept(hd, hd2, used \ {h}) /\ LhSizesKept(hd2, b.hd, used) /\ hd2[h].size = sz
            BY <2>4, <2>5, <2>6, <2>7
        <3>2. LhSizesKept(hd, b.hd, used \ {h}) /\ b.hd[h].size = sz
            BY <3>1 DEF LhSizesKept
        <3>3. QED BY <2>4, <3>2
    <2>9. LhSame(a, b)
        BY <2>2, <2>6 DEF LhSame
    <2>10. QED BY <2>6, <2>7, <2>8, <2>9
<1>9. QED BY <1>7, <1>8

\* What the bins that malloc looks at hold, and that the others keep their marks.
LEMMA FullBinsHold ==
    ASSUME NEW a, NEW e, NEW used, LhGood(a.hd, e, a.big, a.binmap, used, -1), NEW sz
    PROVE  /\ FullBins(a, sz) \subseteq Nat
           /\ \A i \in FullBins(a, sz) : /\ i >= BigClass(sz) /\ i \in DOMAIN a.big /\ a.big[i] # <<>>
                                         /\ LhIn(a.big, i, Head(a.big[i]))
           /\ \A j, g : LhIn(a.big, j, g) => j \in a.binmap \ Unmarked(a, sz)
<1>1. LhLayout(a.hd, e) /\ LhFiled(a.hd, e, a.big, a.binmap, used)
    BY DEF LhGood
<1>2. ASSUME NEW i \in FullBins(a, sz)
      PROVE  i \in Nat /\ i >= BigClass(sz) /\ i \in DOMAIN a.big /\ a.big[i] # <<>> /\ LhIn(a.big, i, Head(a.big[i]))
    <2>1. i >= BigClass(sz) /\ i \in DOMAIN a.big /\ a.big[i] # <<>>
        BY DEF FullBins, BigList
    <2>2. PICK s : s = a.big[i]
        OBVIOUS
    <2>3. s \in Seq(Nat) /\ LhNoTwice(s) /\ s # <<>>
        BY <1>1, <2>1, <2>2 DEF LhFiled, LhLists
    <2>4. Head(s) \in ToSet(s)
        BY <2>3, TailIs
    <2>5. LhIn(a.big, i, Head(a.big[i]))
        BY <2>1, <2>2, <2>4 DEF LhIn
    <2>6. PICK h : h = Head(a.big[i])
        OBVIOUS
    <2>7. h \in DOMAIN a.hd \ {e} /\ i = BigBin(a.hd[h].size)
        BY <1>1, <2>5, <2>6 DEF LhFiled
    <2>8. a.hd[h].size \in Nat /\ a.hd[h].size >= 8 /\ a.hd[h].size <= LhLargest
        BY <1>1, <2>7, NxIs
    <2>9. i \in Nat
        <3>1. PICK b \in 0 .. 131 : b = BigBin(a.hd[h].size)
            BY <2>8, BigBinIs
        <3>2. QED BY ONLY <2>7, <3>1
    <2>10. QED BY <2>1, <2>5, <2>9
<1>3. ASSUME NEW j, NEW g, LhIn(a.big, j, g) PROVE j \in a.binmap \ Unmarked(a, sz)
    <2>1. j \in a.binmap
        BY <1>1, <1>3 DEF LhFiled
    <2>2. PICK s : s = a.big[j] /\ s \in Seq(Nat) /\ g \in ToSet(s) /\ j \in DOMAIN a.big
        BY <1>1, <1>3 DEF LhIn, LhFiled, LhLists
    <2>3. PICK k \in 1 .. Len(s) : s[k] = g
        BY <2>2, ToSetIs
    <2>4. s # <<>>
        BY <2>3
    <2>5. BigList(a, j) # <<>>
        BY <2>2, <2>4 DEF BigList
    <2>6. QED BY <2>1, <2>5 DEF Unmarked
<1>4. QED BY <1>2, <1>3

\* Extended: an object of the size where the last header was, and a header behind it.
LEMMA ExtendedIs ==
    ASSUME NEW a, LhShape(a), NEW e, LhLayout(a.hd, e), NEW sz \in Nat, sz >= 8, sz % 8 = 0, NEW e2, e2 = LhBehind(e, sz),
           NEW b, b = Extended(a, sz)
    PROVE  LhSame(a, b) /\ b.big = a.big /\ b.binmap = a.binmap /\ LhIsExtended(a.hd, b.hd, e, e2, sz)
<1>1. Brk(a) = e
    BY TopIs DEF Brk
<1>2. PICK hd : hd = a.hd
    OBVIOUS
<1>3. e \in DOMAIN hd /\ e \in Nat /\ hd[e] \in LhHeaderType /\ \A g \in DOMAIN hd : g \in Nat /\ g <= e
      /\ hd[g] \in LhHeaderType
    BY <1>2, LhNumbers DEF LhLayout
<1>4. e2 = e + 8 + sz /\ e2 \notin DOMAIN hd /\ e2 # e
    <2>1. e2 = e + 8 + sz
        BY DEF LhBehind
    <2>2. QED BY <1>3, <2>1
<1>5. PICK v, w : v = [hd[e] EXCEPT !.size = sz] /\ w = [size |-> 0, prevSize |-> sz, prevFree |-> FALSE]
    OBVIOUS
<1>6. v \in LhHeaderType /\ v.size = sz /\ v.prevSize = hd[e].prevSize /\ v.prevFree = hd[e].prevFree
    BY <1>3, <1>5 DEF LhHeaderType
<1>7. w \in LhHeaderType /\ w.size = 0 /\ w.prevSize = sz /\ w.prevFree = FALSE
    BY <1>5 DEF LhHeaderType
<1>8. PICK m, hd2 : m = LhPut(hd, e, v) /\ hd2 = LhPut(m, e2, w)
    OBVIOUS
<1>9. LhSame(a, b) /\ b.big = a.big /\ b.binmap = a.binmap /\ b.hd = hd2
    <2>1. b = [a EXCEPT !.hd = hd2]
        BY <1>1, <1>2, <1>4, <1>5, <1>8 DEF Extended, LhHeader
    <2>2. QED BY <2>1 DEF LhShape, LhSame
<1>10. DOMAIN m = DOMAIN hd /\ m[e] = v /\ \A g \in DOMAIN hd : g # e => m[g] = hd[g]
    BY <1>3, <1>8 DEF LhPut
<1>11. DOMAIN hd2 = DOMAIN hd \cup {e2} /\ hd2[e2] = w /\ \A g \in DOMAIN hd : hd2[g] = m[g]
    BY <1>4, <1>8, <1>10 DEF LhPut
<1>12. ASSUME NEW g \in DOMAIN hd2
       PROVE  /\ hd2[g] \in LhHeaderType
              /\ hd2[g].prevFree = IF g = e2 THEN FALSE ELSE hd[g].prevFree
              /\ hd2[g].size = IF g = e THEN sz ELSE IF g = e2 THEN 0 ELSE hd[g].size
              /\ hd2[g].prevSize = IF g = e2 THEN sz ELSE hd[g].prevSize
    <2>1. CASE g = e2
        BY <1>4, <1>7, <1>11, <2>1
    <2>2. CASE g = e
        BY <1>3, <1>4, <1>6, <1>10, <1>11, <2>2
    <2>3. CASE g # e /\ g # e2
        BY <1>3, <1>10, <1>11, <2>3
    <2>4. QED BY <2>1, <2>2, <2>3
<1>13. LhIsExtended(hd, hd2, e, e2, sz)
    BY <1>11, <1>12 DEF LhIsExtended
<1>14. QED BY <1>2, <1>9, <1>13

\* malloc of the big heap gives an object that was not used and is large enough, or none.
LEMMA BigMallocGood ==
    ASSUME NEW a, LhShape(a), NEW e, NEW used, LhGood(a.hd, e, a.big, a.binmap, used, -1),
           NEW sz \in 1 .. LhLargest, sz % 8 = 0, sz >= 8, NEW r, r = BigMalloc(a, sz)
    PROVE  /\ LhSame(a, r.to)
           /\ \/ r.obj = -1 /\ LhGood(r.to.hd, e, r.to.big, r.to.binmap, used, -1) /\ r.to.hd = a.hd
              \/ /\ r.obj \in Nat /\ r.obj \notin used /\ LhSizesKept(a.hd, r.to.hd, used) /\ r.to.hd[r.obj].size >= sz
                 /\ \E e2 : LhGood(r.to.hd, e2, r.to.big, r.to.binmap, used \cup {r.obj}, -1)
<1>1. LhLayout(a.hd, e) /\ LhFiled(a.hd, e, a.big, a.binmap, used) /\ sz \in Nat
    BY LhNumbers DEF LhGood
<1>2. PICK F : F = FullBins(a, sz)
    OBVIOUS
<1>3. /\ F \subseteq Nat
      /\ \A i \in F : /\ i >= BigClass(sz) /\ i \in DOMAIN a.big /\ a.big[i] # <<>> /\ LhIn(a.big, i, Head(a.big[i]))
      /\ \A j, g : LhIn(a.big, j, g) => j \in a.binmap \ Unmarked(a, sz)
    BY <1>2, FullBinsHold
<1>4. PICK seen : seen = [a EXCEPT !.binmap = @ \ Unmarked(a, sz)]
    OBVIOUS
<1>5. LhSame(a, seen) /\ seen.big = a.big /\ seen.hd = a.hd /\ seen.binmap = a.binmap \ Unmarked(a, sz)
    BY <1>4 DEF LhShape, LhSame
<1>6. CASE F # {}
    <2>1. PICK i \in F : i = Min(F)
        BY <1>3, <1>6, LeastIs
    <2>2. PICK h : h = Head(a.big[i])
        OBVIOUS
    <2>3. i >= BigClass(sz) /\ i \in DOMAIN a.big /\ a.big[i] # <<>> /\ LhIn(a.big, i, h)
        BY <1>3, <2>2
    <2>4. PICK taken : taken = [seen EXCEPT !.big[i] = Tail(@)]
        OBVIOUS
    <2>5. PICK c : c = LhUsed1(taken, h)
        OBVIOUS
    <2>6. r = [obj |-> h, to |-> LeaSplit(c, h, sz)]
        BY <1>2, <1>4, <1>6, <2>1, <2>2, <2>4, <2>5 DEF BigMalloc, LhUsed1
    <2>7. PICK b : b = LeaSplit(c, h, sz)
        OBVIOUS
    <2>8. r.obj = h /\ r.to = b
        BY <2>6, <2>7
    <2>9. LhSame(a, taken) /\ taken.hd = a.hd /\ taken.binmap = seen.binmap /\ LhTakes(a.big, taken.big, i, h)
        <3>1. PICK s, t : s = a.big[i] /\ t = Tail(s)
            OBVIOUS
        <3>2. s \in Seq(Nat) /\ LhNoTwice(s) /\ s # <<>>
            BY <1>1, <2>3, <3>1 DEF LhFiled, LhLists
        <3>3. t \in Seq(Nat) /\ LhNoTwice(t) /\ \A g : g \in ToSet(t) <=> (g \in ToSet(s) /\ g # h)
            BY <2>2, <3>1, <3>2, TailIs
        <3>4. taken = [seen EXCEPT !.big[i] = t]
            BY <1>5, <2>4, <3>1
        <3>5. LhSame(seen, taken) /\ taken.hd = seen.hd /\ taken.binmap = seen.binmap
              /\ taken.big = [seen.big EXCEPT ![i] = t]
            <4>1. LhShape(seen)
                BY <1>5 DEF LhSame
            <4>2. QED BY <3>4, <4>1 DEF LhShape, LhSame
        <3>6. PICK f, f2 : f = a.big /\ f2 = taken.big
            OBVIOUS
        <3>7. LhTakes(f, f2, i, h)
            <4>1. i \in DOMAIN f /\ LhLists(f) /\ f2 = [f EXCEPT ![i] = t]
                  /\ \A g : g \in ToSet(t) <=> (g \in ToSet(f[i]) /\ g # h)
                BY <1>1, <1>5, <2>3, <3>1, <3>3, <3>5, <3>6 DEF LhFiled
            <4>2. QED BY <3>3, <4>1, ListReduced
        <3>8. QED BY <1>5, <3>5, <3>6, <3>7 DEF LhSame
    <2>10. h \in DOMAIN a.hd \ {e} /\ h \notin used /\ i = BigBin(a.hd[h].size)
        BY <1>1, <2>3 DEF LhFiled
    <2>11. a.hd[h].size \in Nat /\ a.hd[h].size >= 8 /\ a.hd[h].size <= LhLargest /\ h \in Nat
        BY <1>1, <2>10, NxIs
    <2>12. sz <= a.hd[h].size
        <3>1. BigClass(sz) <= BigBin(a.hd[h].size)
            <4>1. BigBin(a.hd[h].size) \in 0 .. 131 /\ BigClass(sz) \in 0 .. 131
                BY <2>11, BigBinIs, ClassesHold
            <4>2. QED BY <2>3, <2>10, <4>1
        <3>2. QED BY <2>11, <3>1, BinServes
    <2>13. LhSame(taken, c) /\ c.big = taken.big /\ c.binmap = taken.binmap /\ LhIsTaken(taken.hd, c.hd, h)
        <3>1. LhShape(taken) /\ LhLayout(taken.hd, e) /\ h \in DOMAIN taken.hd \ {e}
            BY <1>1, <2>9, <2>10 DEF LhSame
        <3>2. QED BY <2>5, <3>1, UsedIs
    <2>14. PICK used2 : used2 = used \cup {h}
        OBVIOUS
    <2>15. PICK hd, hd2, big, big2, binmap, binmap2 :
              hd = a.hd /\ hd2 = c.hd /\ big = a.big /\ big2 = c.big /\ binmap = a.binmap /\ binmap2 = c.binmap
        OBVIOUS
    <2>16. /\ LhGood(hd2, e, big2, binmap2, used2, -1) /\ LhSizesKept(hd, hd2, used2)
           /\ LhUsedAfter(hd2, e, used2, h)
        <3>1. /\ LhGood(hd, e, big, binmap, used, -1) /\ LhIn(big, i, h) /\ LhIsTaken(hd, hd2, h)
              /\ LhTakes(big, big2, i, h) /\ \A j, g : LhIn(big, j, g) => j \in binmap2
            BY <1>3, <1>5, <2>3, <2>9, <2>13, <2>15
        <3>2. QED BY ONLY <2>14, <3>1, TakeGood
    <2>17. /\ LhSame(c, b) /\ LhGood(b.hd, e, b.big, b.binmap, used2, -1)
           /\ LhSizesKept(c.hd, b.hd, used2 \ {h}) /\ b.hd[h].size >= sz
        <3>1. c.hd[h].size = a.hd[h].size
            BY <2>14, <2>15, <2>16 DEF LhSizesKept
        <3>2. /\ LhShape(c) /\ LhGood(c.hd, e, c.big, c.binmap, used2, -1) /\ h \in used2 /\ LhUsedAfter(c.hd, e, used2, h)
              /\ sz <= c.hd[h].size
            BY <2>12, <2>13, <2>14, <2>15, <2>16, <3>1 DEF LhSame
        <3>3. QED BY <1>1, <2>7, <3>2, LeaSplitGood
    <2>18. LhSame(a, b)
        BY <2>9, <2>13, <2>17 DEF LhSame
    <2>19. LhSizesKept(a.hd, b.hd, used)
        <3>1. LhSizesKept(hd, hd2, used2) /\ LhSizesKept(hd2, b.hd, used)
            <4>1. used2 \ {h} = used
                BY <2>10, <2>14
            <4>2. QED BY <2>15, <2>16, <2>17, <4>1
        <3>2. LhSizesKept(hd, b.hd, used)
            BY <2>14, <3>1 DEF LhSizesKept
        <3>3. QED BY <2>15, <3>2
    <2>20. QED BY <2>8, <2>10, <2>11, <2>14, <2>17, <2>18, <2>19
<1>7. CASE F = {} /\ CanExtend(a, sz)
    <2>1. Brk(a) = e
        BY <1>1, TopIs DEF Brk
    <2>2. PICK c : c = Extended(seen, sz)
        OBVIOUS
    <2>3. PICK b : b = LhUsed1(c, e)
        OBVIOUS
    <2>4. r.obj = e /\ r.to = b
        BY <1>2, <1>4, <1>7, <2>1, <2>2, <2>3 DEF BigMalloc, LhUsed1
    <2>5. PICK e2 : e2 = LhBehind(e, sz)
        OBVIOUS
    <2>6. e2 <= LhEnd /\ e \in Nat
        <3>1. e \in Nat
            BY <1>1, LhNumbers DEF LhLayout
        <3>2. QED BY <1>7, <2>1, <2>5, <3>1 DEF CanExtend, LhHeader, LhBehind
    <2>7. LhSame(seen, c) /\ c.big = seen.big /\ c.binmap = seen.binmap /\ LhIsExtended(seen.hd, c.hd, e, e2, sz)
        <3>1. LhShape(seen) /\ LhLayout(seen.hd, e)
            BY <1>1, <1>5 DEF LhSame
        <3>2. QED BY <1>1, <2>2, <2>5, <3>1, ExtendedIs
    <2>8. PICK hd, hd1, hd2 : hd = a.hd /\ hd1 = c.hd /\ hd2 = b.hd
        OBVIOUS
    <2>9. LhIsExtended(hd, hd1, e, e2, sz) /\ LhLayout(hd, e)
        BY <1>1, <1>5, <2>7, <2>8
    <2>10. LhLayout(hd1, e2) /\ e \in DOMAIN hd1 \ {e2} /\ LhNx(hd1, e) = e2
        BY <1>1, <2>5, <2>6, <2>9, ExtendedLayout
    <2>11. LhSame(c, b) /\ b.big = c.big /\ b.binmap = c.binmap /\ LhIsTaken(hd1, hd2, e)
        <3>1. LhShape(c) /\ LhLayout(c.hd, e2) /\ e \in DOMAIN c.hd \ {e2}
            BY <2>7, <2>8, <2>10 DEF LhSame
        <3>2. LhSame(c, b) /\ b.big = c.big /\ b.binmap = c.binmap /\ LhIsTaken(c.hd, b.hd, e)
            BY <2>3, <3>1, UsedIs
        <3>3. QED BY <2>8, <3>2
    <2>12. LhIsExtended(hd, hd2, e, e2, sz)
        <3>1. DOMAIN hd2 = DOMAIN hd \cup {e2} /\ DOMAIN hd1 = DOMAIN hd2
            BY <2>9, <2>11 DEF LhIsExtended, LhIsTaken, LhIsMarked
        <3>2. ASSUME NEW g \in DOMAIN hd2
              PROVE  /\ hd2[g] \in LhHeaderType
                     /\ hd2[g].prevFree = IF g = e2 THEN FALSE ELSE hd[g].prevFree
                     /\ hd2[g].size = IF g = e THEN sz ELSE IF g = e2 THEN 0 ELSE hd[g].size
                     /\ hd2[g].prevSize = IF g = e2 THEN sz ELSE hd[g].prevSize
            <4>1. /\ hd1[g].prevFree = IF g = e2 THEN FALSE ELSE hd[g].prevFree
                  /\ hd1[g].size = IF g = e THEN sz ELSE IF g = e2 THEN 0 ELSE hd[g].size
                  /\ hd1[g].prevSize = IF g = e2 THEN sz ELSE hd[g].prevSize
                BY <2>9, <3>1 DEF LhIsExtended
            <4>2. /\ hd2[g] \in LhHeaderType /\ hd2[g].size = hd1[g].size /\ hd2[g].prevSize = hd1[g].prevSize
                  /\ hd2[g].prevFree = IF g = e2 THEN FALSE ELSE hd1[g].prevFree
                BY <2>10, <2>11 DEF LhIsTaken, LhIsMarked
            <4>3. QED BY <4>1, <4>2
        <3>3. QED BY <3>1, <3>2 DEF LhIsExtended
    <2>13. PICK big, binmap, binmap2, used2 : big = a.big /\ binmap = a.binmap /\ binmap2 = b.binmap
                /\ used2 = used \cup {e}
        OBVIOUS
    <2>14. /\ LhGood(hd2, e2, big, binmap2, used2, -1) /\ LhSizesKept(hd, hd2, used)
           /\ e \notin used /\ hd2[e].size = sz
        <3>1. LhGood(hd, e, big, binmap, used, -1) /\ \A j, g : LhIn(big, j, g) => j \in binmap2
            BY <1>3, <1>5, <2>7, <2>8, <2>11, <2>13
        <3>2. QED BY <1>1, <2>5, <2>6, <2>12, <2>13, <3>1, ExtendGood, SMTT(30)
    <2>15. LhSame(a, b) /\ b.big = big
        BY <1>5, <2>7, <2>11, <2>13 DEF LhSame
    <2>16. b.hd[e].size >= sz
        BY <1>1, <2>8, <2>14
    <2>17. QED BY <2>4, <2>6, <2>8, <2>13, <2>14, <2>15, <2>16
<1>8. CASE F = {} /\ ~CanExtend(a, sz)
    <2>1. r.obj = -1 /\ r.to = seen
        BY <1>2, <1>4, <1>8 DEF BigMalloc
    <2>2. LhFiled(seen.hd, e, seen.big, seen.binmap, used)
        <3>1. LhFiled(a.hd, e, a.big, seen.binmap, used)
            BY <1>1, <1>3, <1>5 DEF LhFiled
        <3>2. QED BY <1>5, <3>1
    <2>3. LhGood(seen.hd, e, seen.big, seen.binmap, used, -1)
        BY <1>5, <2>2 DEF LhGood
    <2>4. QED BY <1>5, <2>1, <2>3
<1>9. QED BY <1>6, <1>7, <1>8

\* free up to the merge with the object in front: it has met a null pointer, or this
\* is a used object, with a used one in front of it.
LhBackward(a, e, used, h, merged, this, used1) ==
    /\ LhSame(a, merged) /\ LhGood(merged.hd, e, merged.big, merged.binmap, used1, this)
    /\ this \in used1 /\ used1 \ {this} = used \ {h}
    /\ LhUsedBefore(merged.hd, e, used1, this) /\ (this # 0 \/ lhFirst = 0)
    /\ LhSizesKept(a.hd, merged.hd, used \ {h})
    /\ LhNx(merged.hd, this) = LhNx(a.hd, h)
    /\ \A n \in DOMAIN merged.hd \ {e} : n = LhNx(a.hd, h) =>
          /\ LhNx(merged.hd, n) = LhNx(a.hd, n)
          /\ merged.hd[LhNx(merged.hd, n)].prevFree = a.hd[LhNx(a.hd, n)].prevFree

LhFront(a, h, prev, removed, merged, this) ==
    /\ prev = LhPrev(a, h)
    /\ removed = IF IsPrevFree(a, h) THEN Removed(a, prev) ELSE a
    /\ merged = IF IsPrevFree(a, h) THEN LhMerged(removed, prev, h) ELSE a
    /\ this = IF IsPrevFree(a, h) THEN prev ELSE h

\* BigFree, so far as it has to do with the object in front.
LEMMA BackwardGood ==
    ASSUME NEW a, LhShape(a), a.crashed = FALSE, NEW e, NEW used, LhGood(a.hd, e, a.big, a.binmap, used, -1),
           NEW h \in used, ~Disagrees(h), NEW prev, NEW removed, NEW merged, NEW this,
           LhFront(a, h, prev, removed, merged, this)
    PROVE  \/ removed.crashed = TRUE /\ LhShape(removed) /\ removed.small = a.small
           \/ removed.crashed = FALSE /\ \E used1 : LhBackward(a, e, used, h, merged, this, used1)
<1>1. LhLayout(a.hd, e) /\ LhTagged(a.hd, e, used, -1) /\ LhApart(a.hd, e, used)
      /\ LhFiled(a.hd, e, a.big, a.binmap, used)
    BY DEF LhGood
<1>2. PICK hd : hd = a.hd
    OBVIOUS
<1>3. h \in DOMAIN hd \ {e} /\ h \in Nat /\ LhNx(hd, h) > h /\ used \subseteq DOMAIN hd \ {e}
    <2>1. h \in DOMAIN hd \ {e} /\ used \subseteq DOMAIN hd \ {e}
        BY <1>1, <1>2 DEF LhFiled
    <2>2. h \in Nat /\ hd[h].size \in Nat /\ LhNx(hd, h) = h + 8 + hd[h].size
        BY <1>1, <1>2, <2>1, NxIs
    <2>3. QED BY <2>1, <2>2
<1>4. hd[h] \in LhHeaderType /\ hd[h].prevFree \in BOOLEAN
    BY <1>1, <1>2, <1>3 DEF LhLayout, LhHeaderType
<1>5. PICK front : front = hd[h].prevFree
    OBVIOUS
<1>9. /\ prev = LhPrev(a, h) /\ removed = (IF front THEN Removed(a, prev) ELSE a)
      /\ merged = (IF front THEN LhMerged(removed, prev, h) ELSE a) /\ this = IF front THEN prev ELSE h
    BY <1>2, <1>5 DEF LhFront, IsPrevFree
<1>6. CASE front = FALSE
    <2>1. removed = a /\ merged = a /\ this = h /\ hd[h].prevFree = FALSE
        BY <1>5, <1>6, <1>9
    <2>2. LhUsedBefore(hd, e, used, h)
        <3>1. SUFFICES ASSUME lhFirst = 0, NEW g \in DOMAIN hd \ {e}, LhNx(hd, g) = h PROVE g \in used
            BY DEF LhUsedBefore
        <3>2. g \in Nat
            BY <1>1, <1>2, NxIs
        <3>3. g # -1
            BY <3>2
        <3>4. hd[LhNx(hd, g)].prevFree <=> (g \notin used /\ (g # 0 \/ lhFirst = 0))
            BY <1>1, <1>2, <3>3 DEF LhTagged
        <3>5. QED BY <2>1, <3>1, <3>4
    <2>3. h # 0 \/ lhFirst = 0
        BY DEF Disagrees
    <2>4. LhSizesKept(hd, hd, used \ {h})
        BY <1>3 DEF LhSizesKept
    <2>5. LhGood(hd, e, a.big, a.binmap, used, h)
        <3>1. LhTagged(hd, e, used, h)
            <4>1. SUFFICES ASSUME NEW g \in DOMAIN hd \ {e}
                           PROVE  hd[LhNx(hd, g)].prevFree <=> (g \notin used /\ (g # 0 \/ lhFirst = 0))
                BY DEF LhTagged
            <4>2. g \in Nat
                BY <1>1, <1>2, NxIs
            <4>3. g # -1
                BY <4>2
            <4>4. QED BY <1>1, <1>2, <4>3 DEF LhTagged
        <3>2. QED BY <1>1, <1>2, <3>1 DEF LhGood
    <2>6. LhBackward(a, e, used, h, merged, this, used)
        BY <1>2, <2>1, <2>2, <2>3, <2>4, <2>5 DEF LhBackward, LhSame
    <2>7. QED BY <2>1, <2>6
<1>7. CASE front = TRUE
    <2>1. hd[h].prevFree = TRUE /\ removed = Removed(a, prev) /\ merged = LhMerged(removed, prev, h) /\ this = prev
        BY <1>5, <1>7, <1>9
    <2>2. h # 0
        BY <1>1, <1>2, <2>1 DEF LhLayout
    <2>3. prev \in DOMAIN hd \ {e} /\ LhNx(hd, prev) = h
        <3>1. PICK p \in DOMAIN hd \ {e} : LhNx(hd, p) = h /\ h - LhHeader - hd[h].prevSize = p
            BY <1>1, <1>2, <1>3, <2>2, BeforeIs
        <3>2. prev = h - LhHeader - hd[h].prevSize
            BY <1>2, <1>9 DEF LhPrev
        <3>3. QED BY <3>1, <3>2
    <2>4. prev \in Nat
        BY <1>1, <1>2, <2>3, NxIs
    <2>5. prev \notin used /\ (prev # 0 \/ lhFirst = 0)
        <3>1. prev # -1
            BY <2>4
        <3>2. QED BY <1>1, <1>2, <2>1, <2>3, <3>1 DEF LhTagged
    <2>6. PICK i : i = BigBin(hd[prev].size)
        OBVIOUS
    <2>7. LhIn(a.big, i, prev) /\ \A j : LhIn(a.big, j, prev) => j = i
        BY <1>1, <1>2, <2>3, <2>5, <2>6 DEF LhFiled
    <2>8. /\ LhShape(removed) /\ removed.small = a.small /\ removed.hd = a.hd /\ removed.binmap = a.binmap
          /\ removed.crashed = TRUE \/ (removed.crashed = a.crashed /\ LhTakes(a.big, removed.big, i, prev))
        <3>1. LhLists(a.big)
            BY <1>1 DEF LhFiled
        <3>2. removed = Removed(a, prev)
            BY <2>1
        <3>3. QED BY ONLY LhShape(a), <2>7, <3>1, <3>2, RemovedIs
    <2>9. CASE removed.crashed = TRUE
        BY <2>8, <2>9
    <2>10. CASE removed.crashed # TRUE
        <3>1. removed.crashed = a.crashed /\ LhTakes(a.big, removed.big, i, prev)
            BY <2>8, <2>10
        <3>2. LhSame(removed, merged) /\ merged.big = removed.big /\ merged.binmap = removed.binmap
              /\ LhIsMerged(hd, merged.hd, prev, h)
            <4>1. LhLayout(removed.hd, e) /\ prev \in DOMAIN removed.hd \ {e} /\ h \in DOMAIN removed.hd \ {e}
                  /\ h = LhNx(removed.hd, prev)
                BY <1>1, <1>2, <1>3, <2>3, <2>8
            <4>2. LhSame(removed, merged) /\ merged.big = removed.big /\ merged.binmap = removed.binmap
                  /\ LhIsMerged(removed.hd, merged.hd, prev, h)
                BY <2>1, <2>8, <4>1, MergedIs
            <4>3. QED BY <1>2, <2>8, <4>2
        <3>3. LhGood(hd, e, a.big, a.binmap, used, h)
            <4>1. LhTagged(hd, e, used, h)
                <5>1. SUFFICES ASSUME NEW g \in DOMAIN hd \ {e}
                               PROVE  hd[LhNx(hd, g)].prevFree <=> (g \notin used /\ (g # 0 \/ lhFirst = 0))
                    BY DEF LhTagged
                <5>2. g \in Nat
                    BY <1>1, <1>2, NxIs
                <5>3. g # -1
                    BY <5>2
                <5>4. QED BY <1>1, <1>2, <5>3 DEF LhTagged
            <4>2. QED BY <1>1, <1>2, <4>1 DEF LhGood
        <3>4. PICK used1 : used1 = (used \ {h}) \cup {prev}
            OBVIOUS
        <3>5. PICK hd2, big, big2, binmap : hd2 = merged.hd /\ big = a.big /\ big2 = merged.big /\ binmap = a.binmap
            OBVIOUS
        <3>6. /\ LhGood(hd2, e, big2, binmap, used1, prev)
              /\ LhNx(hd2, prev) = LhNx(hd, h) /\ \A g \in DOMAIN hd2 \ {prev} : LhNx(hd2, g) = LhNx(hd, g)
              /\ LhSizesKept(hd, hd2, used \ {prev, h}) /\ DOMAIN hd2 = DOMAIN hd \ {h} /\ used1 \ {prev} = used \ {prev, h}
            <4>1. LhGood(hd, e, big, binmap, used, h) /\ LhIsMerged(hd, hd2, prev, h)
                  /\ LhTakes(big, big2, BigBin(hd[prev].size), prev)
                BY <2>6, <3>1, <3>2, <3>3, <3>5
            <4>2. /\ h \in used /\ prev \in DOMAIN hd \ {e} /\ h \in DOMAIN hd \ {e} /\ h = LhNx(hd, prev) /\ prev \notin used
                  /\ used1 = (used \ {h}) \cup {prev} /\ LhEither(prev, h, prev, h)
                BY <1>3, <2>3, <2>5, <3>4 DEF LhEither
            <4>3. LhJoined(hd, hd2, e, big2, binmap, used, used1, prev, h)
                BY ONLY <4>1, <4>2, MergeGood
            <4>4. QED BY <4>3 DEF LhJoined
        <3>7. used \ {prev, h} = used \ {h} /\ prev \in used1
            BY <2>5, <3>4
        <3>8. LhUsedBefore(hd2, e, used1, prev)
            <4>1. SUFFICES ASSUME lhFirst = 0, NEW g \in DOMAIN hd2 \ {e}, LhNx(hd2, g) = prev PROVE g \in used1
                BY DEF LhUsedBefore
            <4>2. CASE g = prev
                BY <3>7, <4>2
            <4>3. CASE g # prev
                <5>1. g \in DOMAIN hd \ {e} /\ g # h /\ LhNx(hd, g) = prev
                    BY <3>6, <4>1, <4>3
                <5>2. g \in used \/ prev \in used
                    BY <1>1, <1>2, <2>3, <4>1, <5>1 DEF LhApart
                <5>3. QED BY <2>5, <3>4, <5>1, <5>2
            <4>4. QED BY <4>2, <4>3
        <3>9. ASSUME NEW n \in DOMAIN hd2 \ {e}, n = LhNx(hd, h)
              PROVE  LhNx(hd2, n) = LhNx(hd, n) /\ hd2[LhNx(hd2, n)].prevFree = hd[LhNx(hd, n)].prevFree
            <4>1. n # prev
                <5>1. LhNx(hd, prev) = prev + 8 + hd[prev].size /\ hd[prev].size \in Nat
                    BY <1>1, <1>2, <2>3, NxIs
                <5>2. n > h /\ h > prev
                    BY <1>3, <2>3, <2>4, <3>9, <5>1
                <5>3. n \in Nat
                    BY <1>1, <1>2, <3>6, NxIs
                <5>4. QED BY <1>3, <2>4, <5>2, <5>3
            <4>2. LhNx(hd2, n) = LhNx(hd, n)
                BY <3>6, <4>1
            <4>3. LhNx(hd2, n) \in DOMAIN hd2
                BY <3>6, NxIs DEF LhGood
            <4>4. QED BY <3>2, <3>5, <4>2, <4>3 DEF LhIsMerged
        <3>10. LhSame(a, merged)
            BY <2>8, <3>1, <3>2 DEF LhSame
        <3>11. merged.binmap = a.binmap
            BY <2>8, <3>2
        <3>12. LhBackward(a, e, used, h, merged, this, used1)
            BY <1>2, <2>1, <2>5, <3>5, <3>6, <3>7, <3>8, <3>9, <3>10, <3>11 DEF LhBackward
        <3>13. QED BY <3>1, <3>12
    <2>11. QED BY <2>9, <2>10
<1>8. front \in BOOLEAN
    BY <1>4, <1>5
<1>10. QED BY <1>6, <1>7, <1>8

\* What free makes of a record: it has met a null pointer, or the object is free.
LhFreed(a, e, used, h, b) ==
    /\ LhShape(b) /\ b.small = a.small
    /\ b.crashed = FALSE => /\ LhGood(b.hd, e, b.big, b.binmap, used \ {h}, -1)
                            /\ LhSizesKept(a.hd, b.hd, used \ {h})

\* BigFree: the object is used no more, and no two free ones are neighbours.
LEMMA BigFreeGood ==
    ASSUME NEW a, LhShape(a), a.crashed = FALSE, NEW e, NEW used, LhGood(a.hd, e, a.big, a.binmap, used, -1),
           NEW h \in used, NEW b, b = BigFree(a, h)
    PROVE  LhFreed(a, e, used, h, b)
<1>1. LhLayout(a.hd, e) /\ LhTagged(a.hd, e, used, -1) /\ LhApart(a.hd, e, used)
      /\ LhFiled(a.hd, e, a.big, a.binmap, used)
    BY DEF LhGood
<1>2. h \in DOMAIN a.hd \ {e} /\ h \in Nat
    <2>1. h \in DOMAIN a.hd \ {e}
        BY <1>1 DEF LhFiled
    <2>2. QED BY <1>1, <2>1, NxIs
<1>3. Brk(a) = e
    BY <1>1, TopIs DEF Brk
<1>4. CASE Disagrees(h)
    <2>1. b = SegInsert(a, h) /\ h = 0 /\ lhFirst # 0
        BY <1>4 DEF BigFree, Disagrees
    <2>2. PICK i : i = BigBin(a.hd[h].size)
        OBVIOUS
    <2>3. LhSame(a, b) /\ b.hd = a.hd /\ b.binmap = a.binmap \cup {i} /\ LhAdds(a.big, b.big, i, h)
        <3>1. LhLists(a.big) /\ ~LhIn(a.big, i, h)
            BY <1>1 DEF LhFiled
        <3>2. QED BY <1>2, <2>1, <2>2, <3>1, SegInsertIs
    <2>4. PICK hd, big, big2, binmap, binmap2, used2 :
             hd = a.hd /\ big = a.big /\ big2 = b.big /\ binmap = a.binmap /\ binmap2 = b.binmap /\ used2 = used \ {0}
        OBVIOUS
    <2>5. LhGood(hd, e, big2, binmap2, used2, -1)
        <3>1. /\ 0 \in used /\ LhGood(hd, e, big, binmap, used, -1) /\ lhFirst # 0
              /\ LhAdds(big, big2, BigBin(hd[0].size), 0) /\ binmap2 = binmap \cup {BigBin(hd[0].size)}
            BY <2>1, <2>2, <2>3, <2>4
        <3>2. QED BY <2>4, <3>1, FileGood
    <2>6. LhSizesKept(a.hd, a.hd, used \ {h})
        BY <1>1 DEF LhSizesKept, LhFiled
    <2>7. QED BY <2>1, <2>3, <2>4, <2>5, <2>6 DEF LhFreed, LhSame
<1>5. CASE ~Disagrees(h)
    <2>0. PICK front : front = IsPrevFree(a, h)
        OBVIOUS
    <2>1. PICK prev : prev = LhPrev(a, h)
        OBVIOUS
    <2>2. PICK removed, this : removed = (IF front THEN Removed(a, prev) ELSE a) /\ this = (IF front THEN prev ELSE h)
        OBVIOUS
    <2>3. PICK merged : merged = IF front THEN LhMerged(removed, prev, h) ELSE a
        OBVIOUS
    <2>4. PICK next, behind : next = LhNext(a, h) /\ behind = IsFree(a, next)
        OBVIOUS
    <2>5. PICK clear : clear = IF behind THEN Removed(merged, next) ELSE merged
        OBVIOUS
    <2>6. PICK whole : whole = IF behind THEN LhMerged(clear, this, next) ELSE merged
        OBVIOUS
    <2>7. b = IF removed.crashed THEN removed
              ELSE IF next # e /\ clear.crashed THEN clear
              ELSE IF next = e THEN SegInsert(LhFree1(merged, this), this)
              ELSE SegInsert(LhFree1(whole, this), this)
        BY <1>3, <1>5, <2>0, <2>1, <2>2, <2>3, <2>4, <2>5, <2>6 DEF BigFree, LhFree1
    <2>8. \/ removed.crashed = TRUE /\ LhShape(removed) /\ removed.small = a.small
          \/ removed.crashed = FALSE /\ \E used1 : LhBackward(a, e, used, h, merged, this, used1)
        <3>1. LhFront(a, h, prev, removed, merged, this)
            BY <2>0, <2>1, <2>2, <2>3 DEF LhFront
        <3>2. /\ LhShape(a) /\ a.crashed = FALSE /\ LhGood(a.hd, e, a.big, a.binmap, used, -1) /\ h \in used /\ ~Disagrees(h)
            BY <1>5
        <3>3. QED BY ONLY <3>1, <3>2, BackwardGood
    <2>9. CASE removed.crashed = TRUE
        BY <2>7, <2>8, <2>9 DEF LhFreed
    <2>10. CASE removed.crashed = FALSE
        <3>1. PICK used1 : LhBackward(a, e, used, h, merged, this, used1)
            BY <2>8, <2>10
        <3>2. /\ LhSame(a, merged) /\ LhGood(merged.hd, e, merged.big, merged.binmap, used1, this)
              /\ this \in used1 /\ used1 \ {this} = used \ {h}
              /\ LhUsedBefore(merged.hd, e, used1, this) /\ (this # 0 \/ lhFirst = 0)
              /\ LhSizesKept(a.hd, merged.hd, used \ {h}) /\ LhNx(merged.hd, this) = LhNx(a.hd, h)
            BY <3>1 DEF LhBackward
        <3>3. next = LhNx(a.hd, h) /\ next = LhNx(merged.hd, this)
            BY <2>4, <3>2 DEF LhNext, LhNx
        <3>4. /\ LhLayout(merged.hd, e) /\ LhTagged(merged.hd, e, used1, this) /\ LhApart(merged.hd, e, used1)
              /\ LhFiled(merged.hd, e, merged.big, merged.binmap, used1)
            BY <3>2 DEF LhGood
        <3>5. PICK hd : hd = merged.hd
            OBVIOUS
        <3>6. this \in DOMAIN hd \ {e} /\ next \in DOMAIN hd /\ next # 0 /\ next \in Nat /\ next # this
            <4>1. this \in DOMAIN hd \ {e}
                BY <3>2, <3>4, <3>5 DEF LhFiled
            <4>2. next \in DOMAIN hd /\ next # 0 /\ next \in Nat /\ next = this + 8 + hd[this].size
                  /\ hd[this].size \in Nat /\ this \in Nat
                BY <3>3, <3>4, <3>5, <4>1, NxIs
            <4>3. QED BY <4>1, <4>2
        <3>7. LhShape(merged) /\ merged.crashed = FALSE /\ merged.small = a.small
            BY <3>2 DEF LhSame
        <3>8. ASSUME NEW c, LhShape(c), c.small = a.small, LhGood(c.hd, e, c.big, c.binmap, used1, this),
                     LhUsedBefore(c.hd, e, used1, this), LhUsedAfter(c.hd, e, used1, this),
                     LhSizesKept(a.hd, c.hd, used \ {h}), b = SegInsert(LhFree1(c, this), this)
              PROVE  LhFreed(a, e, used, h, b)
            <4>1. /\ LhSame(c, b) /\ LhGood(b.hd, e, b.big, b.binmap, used1 \ {this}, -1)
                  /\ LhSizesKept(c.hd, b.hd, used1 \ {this})
                BY <3>2, <3>8, GiveBackGood
            <4>2. LhSizesKept(a.hd, b.hd, used \ {h})
                <5>1. PICK d1, d2, d3 : d1 = a.hd /\ d2 = c.hd /\ d3 = b.hd
                    OBVIOUS
                <5>2. LhSizesKept(d1, d2, used \ {h}) /\ LhSizesKept(d2, d3, used \ {h})
                    BY <3>2, <3>8, <4>1, <5>1
                <5>3. LhSizesKept(d1, d3, used \ {h})
                    BY <5>2 DEF LhSizesKept
                <5>4. QED BY <5>1, <5>3
            <4>3. QED BY <3>2, <3>8, <4>1, <4>2 DEF LhFreed, LhSame
        <3>9. CASE next = e
            <4>1. b = SegInsert(LhFree1(merged, this), this)
                BY <2>7, <2>10, <3>9
            <4>2. LhUsedAfter(merged.hd, e, used1, this)
                BY <3>3, <3>9 DEF LhUsedAfter
            <4>3. QED BY <3>2, <3>7, <3>8, <4>1, <4>2
        <3>10. CASE next # e
            <4>1. next \in DOMAIN hd \ {e} /\ behind = hd[LhNx(hd, next)].prevFree
                <5>1. next \in DOMAIN hd \ {e}
                    BY <3>6, <3>10
                <5>2. LhNx(hd, next) = LhNx(a.hd, next) /\ hd[LhNx(hd, next)].prevFree = a.hd[LhNx(a.hd, next)].prevFree
                    BY <3>1, <3>3, <3>5, <5>1 DEF LhBackward
                <5>3. behind = a.hd[LhNx(a.hd, next)].prevFree
                    BY <2>4 DEF IsFree, LhNext, LhNx
                <5>4. QED BY <5>1, <5>2, <5>3
            <4>2. behind <=> next \notin used1
                BY <3>4, <3>5, <3>6, <4>1 DEF LhTagged
            <4>3. LhNx(hd, next) \in DOMAIN hd /\ behind \in BOOLEAN
                <5>1. LhNx(hd, next) \in DOMAIN hd
                    BY <3>4, <3>5, <4>1, NxIs
                <5>2. QED BY <3>4, <3>5, <4>1, <5>1 DEF LhLayout, LhHeaderType
            <4>4. CASE behind = FALSE
                <5>1. clear = merged /\ whole = merged
                    BY <2>5, <2>6, <4>4
                <5>2. b = SegInsert(LhFree1(merged, this), this)
                    BY <2>7, <2>10, <3>7, <3>10, <5>1
                <5>3. LhUsedAfter(merged.hd, e, used1, this)
                    BY <3>3, <4>2, <4>4 DEF LhUsedAfter
                <5>4. QED BY <3>2, <3>7, <3>8, <5>2, <5>3
            <4>5. CASE behind = TRUE
                <5>1. clear = Removed(merged, next) /\ whole = LhMerged(clear, this, next) /\ next \notin used1
                    BY <2>5, <2>6, <4>2, <4>5
                <5>2. PICK i : i = BigBin(hd[next].size)
                    OBVIOUS
                <5>3. LhIn(merged.big, i, next) /\ \A j : LhIn(merged.big, j, next) => j = i
                    BY <3>4, <3>5, <4>1, <5>1, <5>2 DEF LhFiled
                <5>4. /\ LhShape(clear) /\ clear.small = merged.small /\ clear.hd = merged.hd /\ clear.binmap = merged.binmap
                      /\ clear.crashed = TRUE \/ (clear.crashed = merged.crashed /\ LhTakes(merged.big, clear.big, i, next))
                    <6>1. LhLists(merged.big)
                        BY <3>4 DEF LhFiled
                    <6>2. QED BY <3>7, <5>1, <5>3, <6>1, RemovedIs, ZenonT(40)
                <5>5. CASE clear.crashed = TRUE
                    <6>1. b = clear
                        BY <2>7, <2>10, <3>10, <5>5
                    <6>2. QED BY <3>7, <5>4, <5>5, <6>1 DEF LhFreed
                <5>6. CASE clear.crashed # TRUE
                    <6>1. clear.crashed = FALSE /\ LhTakes(merged.big, clear.big, i, next)
                        BY <3>7, <5>4, <5>6
                    <6>2. b = SegInsert(LhFree1(whole, this), this)
                        BY <2>7, <2>10, <3>10, <6>1
                    <6>3. LhSame(clear, whole) /\ whole.big = clear.big /\ whole.binmap = clear.binmap
                          /\ LhIsMerged(hd, whole.hd, this, next)
                        <7>1. LhLayout(clear.hd, e) /\ this \in DOMAIN clear.hd \ {e} /\ next \in DOMAIN clear.hd \ {e}
                              /\ next = LhNx(clear.hd, this)
                            BY <3>3, <3>4, <3>5, <3>6, <4>1, <5>4
                        <7>2. /\ LhSame(clear, whole) /\ whole.big = clear.big /\ whole.binmap = clear.binmap
                              /\ LhIsMerged(clear.hd, whole.hd, this, next)
                            BY <5>1, <5>4, <7>1, MergedIs
                        <7>3. QED BY <3>5, <5>4, <7>2
                    <6>4. PICK hd2, big, big2, binmap : hd2 = whole.hd /\ big = merged.big /\ big2 = whole.big
                               /\ binmap = merged.binmap
                        OBVIOUS
                    <6>5. PICK used2 : used2 = (used1 \ {next}) \cup {this}
                        OBVIOUS
                    <6>6. used2 = used1
                        BY <3>2, <5>1, <6>5
                    <6>7. /\ LhGood(hd2, e, big2, binmap, used2, this)
                          /\ LhNx(hd2, this) = LhNx(hd, next) /\ \A g \in DOMAIN hd2 \ {this} : LhNx(hd2, g) = LhNx(hd, g)
                          /\ LhSizesKept(hd, hd2, used1 \ {this, next}) /\ DOMAIN hd2 = DOMAIN hd \ {next}
                        <7>1. LhGood(hd, e, big, binmap, used1, this) /\ LhIsMerged(hd, hd2, this, next)
                              /\ LhTakes(big, big2, BigBin(hd[next].size), next) /\ next = LhNx(hd, this)
                            BY <3>2, <3>3, <3>5, <5>2, <6>1, <6>3, <6>4
                        <7>2. /\ this \in used1 /\ this \in DOMAIN hd \ {e} /\ next \in DOMAIN hd \ {e} /\ next \notin used1
                              /\ used2 = (used1 \ {next}) \cup {this} /\ LhEither(this, next, next, this)
                            BY <3>2, <3>6, <4>1, <5>1, <6>5 DEF LhEither
                        <7>3. LhJoined(hd, hd2, e, big2, binmap, used1, used2, this, next)
                            BY ONLY <7>1, <7>2, MergeGood
                        <7>4. QED BY <7>3 DEF LhJoined
                    <6>8. LhUsedBefore(hd2, e, used1, this)
                        <7>1. SUFFICES ASSUME lhFirst = 0, NEW g \in DOMAIN hd2 \ {e}, LhNx(hd2, g) = this PROVE g \in used1
                            BY DEF LhUsedBefore
                        <7>2. CASE g = this
                            BY <3>2, <7>2
                        <7>3. CASE g # this
                            <8>1. g \in DOMAIN hd \ {e} /\ LhNx(hd, g) = this
                                BY <6>7, <7>1, <7>3
                            <8>2. QED BY <3>2, <3>5, <7>1, <8>1 DEF LhUsedBefore
                        <7>4. QED BY <7>2, <7>3
                    <6>9. LhUsedAfter(hd2, e, used1, this)
                        <7>1. SUFFICES ASSUME lhFirst = 0, LhNx(hd, next) # e PROVE LhNx(hd, next) \in used1
                            BY <6>7 DEF LhUsedAfter
                        <7>2. QED BY <3>4, <3>5, <4>1, <5>1, <7>1 DEF LhApart
                    <6>10. LhSizesKept(a.hd, whole.hd, used \ {h})
                        <7>1. PICK d : d = a.hd
                            OBVIOUS
                        <7>2. used1 \ {this, next} = used \ {h}
                            BY <3>2, <5>1
                        <7>3. LhSizesKept(d, hd, used \ {h}) /\ LhSizesKept(hd, hd2, used \ {h})
                            BY <3>2, <3>5, <6>7, <7>1, <7>2
                        <7>4. LhSizesKept(d, hd2, used \ {h})
                            BY <7>3 DEF LhSizesKept
                        <7>5. QED BY <6>4, <7>1, <7>4
                    <6>11. LhShape(whole) /\ whole.small = a.small /\ whole.binmap = merged.binmap
                        BY <3>7, <5>4, <6>3 DEF LhSame
                    <6>12. LhGood(whole.hd, e, whole.big, whole.binmap, used1, this)
                           /\ LhUsedBefore(whole.hd, e, used1, this)
                           /\ LhUsedAfter(whole.hd, e, used1, this)
                        BY <6>4, <6>6, <6>7, <6>8, <6>9, <6>11
                    <6>13. QED BY <3>8, <6>2, <6>10, <6>11, <6>12
                <5>7. QED BY <5>5, <5>6
            <4>6. QED BY <4>3, <4>4, <4>5
        <3>11. QED BY <3>9, <3>10
    <2>11. QED BY <2>8, <2>9, <2>10
<1>6. QED BY <1>4, <1>5

\* What freeAll frees, in its order.
LhOrder(a) ==
    SmallList(a, 8) \o SmallList(a, 16) \o SmallList(a, 24) \o SmallList(a, 32)
    \o SmallList(a, 40) \o SmallList(a, 48) \o SmallList(a, 56) \o SmallList(a, SmallMax)

LhSmallSizes == {8, 16, 24, 32, 40, 48, 56, 64}

LhInBin(a, n) == {h : h \in ToSet(SmallList(a, n))}

LhListed(s, S) == s \in Seq(Nat) /\ LhNoTwice(s) /\ \A g : g \in ToSet(s) <=> g \in S

\* A list of one set and a list of another make a list of both.
LEMMA JoinListed ==
    ASSUME NEW s, NEW S, LhListed(s, S), NEW t, NEW T, LhListed(t, T), S \cap T = {}
    PROVE  LhListed(s \o t, S \cup T)
<1>1. /\ s \in Seq(Nat) /\ LhNoTwice(s) /\ t \in Seq(Nat) /\ LhNoTwice(t)
      /\ \A g : g \in ToSet(s) <=> g \in S
      /\ \A g : g \in ToSet(t) <=> g \in T
    BY DEF LhListed
<1>2. \A g : ~(g \in ToSet(s) /\ g \in ToSet(t))
    BY <1>1
<1>3. PICK r : r = s \o t
    OBVIOUS
<1>4. r \in Seq(Nat) /\ LhNoTwice(r) /\ \A g : g \in ToSet(r) <=> (g \in ToSet(s) \/ g \in ToSet(t))
    BY <1>1, <1>2, <1>3, JoinIs
<1>5. LhListed(r, S \cup T)
    BY <1>1, <1>4 DEF LhListed
<1>6. QED BY <1>3, <1>5

\* The small bins: lists of headers, of which none is in two bins.
LhSmallLists(a) ==
    /\ LhLists(a.small) /\ DOMAIN a.small \subseteq LhSmallSizes
    /\ \A m, n, h : LhIn(a.small, m, h) /\ LhIn(a.small, n, h) => m = n

\* A small bin lists what is in it.
LEMMA BinListed ==
    ASSUME NEW a, LhSmallLists(a), NEW n
    PROVE  LhListed(SmallList(a, n), LhInBin(a, n)) /\ \A g : g \in LhInBin(a, n) <=> LhIn(a.small, n, g)
<1>1. LhLists(a.small)
    BY DEF LhSmallLists
<1>2. PICK s : s = SmallList(a, n)
    OBVIOUS
<1>3. s \in Seq(Nat) /\ LhNoTwice(s) /\ \A g : g \in ToSet(s) <=> LhIn(a.small, n, g)
    <2>1. CASE n \in DOMAIN a.small
        BY <1>1, <1>2, <2>1 DEF SmallList, LhLists, LhIn
    <2>2. CASE n \notin DOMAIN a.small
        <3>1. s = <<>> /\ s \in Seq(Nat) /\ Len(s) = 0
            BY <1>2, <2>2 DEF SmallList
        <3>2. 1 .. Len(s) = {}
            BY <3>1
        <3>3. \A g : g \notin ToSet(s)
            BY <3>1, <3>2, ToSetIs
        <3>4. LhNoTwice(s)
            BY <3>2 DEF LhNoTwice
        <3>5. QED BY <2>2, <3>1, <3>3, <3>4 DEF LhIn
    <2>3. QED BY <2>1, <2>2
<1>4. LhInBin(a, n) = {h : h \in ToSet(s)}
    BY <1>2 DEF LhInBin
<1>5. QED BY <1>2, <1>3, <1>4 DEF LhListed

\* The order in which FreeAll goes through the bins lists all that is in them, once.
LEMMA OrderIs ==
    ASSUME NEW a, LhSmallLists(a), NEW order, order = LhOrder(a)
    PROVE  /\ order \in Seq(Nat) /\ LhNoTwice(order)
           /\ \A g : g \in ToSet(order) <=> \E n : LhIn(a.small, n, g)
<1>1. \A n : LhListed(SmallList(a, n), LhInBin(a, n))
    BY BinListed
<1>2. \A n, g : g \in LhInBin(a, n) <=> LhIn(a.small, n, g)
    BY BinListed
<1>3. \A m, n : m # n => LhInBin(a, m) \cap LhInBin(a, n) = {}
    BY <1>2 DEF LhSmallLists
<1>4. PICK s1, s2, s3, s4, s5, s6, s7, s8 :
          /\ s1 = SmallList(a, 8) /\ s2 = SmallList(a, 16) /\ s3 = SmallList(a, 24) /\ s4 = SmallList(a, 32)
          /\ s5 = SmallList(a, 40) /\ s6 = SmallList(a, 48) /\ s7 = SmallList(a, 56) /\ s8 = SmallList(a, 64)
    OBVIOUS
<1>5. PICK S1, S2, S3, S4, S5, S6, S7, S8 :
          /\ S1 = LhInBin(a, 8) /\ S2 = LhInBin(a, 16) /\ S3 = LhInBin(a, 24) /\ S4 = LhInBin(a, 32)
          /\ S5 = LhInBin(a, 40) /\ S6 = LhInBin(a, 48) /\ S7 = LhInBin(a, 56) /\ S8 = LhInBin(a, 64)
    OBVIOUS
<1>6. /\ LhListed(s1, S1) /\ LhListed(s2, S2) /\ LhListed(s3, S3) /\ LhListed(s4, S4)
      /\ LhListed(s5, S5) /\ LhListed(s6, S6) /\ LhListed(s7, S7) /\ LhListed(s8, S8)
    BY <1>1, <1>4, <1>5
<1>7. /\ S1 \cap S2 = {} /\ S1 \cap S3 = {} /\ S1 \cap S4 = {} /\ S1 \cap S5 = {} /\ S1 \cap S6 = {}
      /\ S1 \cap S7 = {} /\ S1 \cap S8 = {}
    BY <1>3, <1>5
<1>8. /\ S2 \cap S3 = {} /\ S2 \cap S4 = {} /\ S2 \cap S5 = {} /\ S2 \cap S6 = {} /\ S2 \cap S7 = {} /\ S2 \cap S8 = {}
    BY <1>3, <1>5
<1>9. /\ S3 \cap S4 = {} /\ S3 \cap S5 = {} /\ S3 \cap S6 = {} /\ S3 \cap S7 = {} /\ S3 \cap S8 = {}
      /\ S4 \cap S5 = {} /\ S4 \cap S6 = {} /\ S4 \cap S7 = {} /\ S4 \cap S8 = {}
    BY <1>3, <1>5
<1>10. /\ S5 \cap S6 = {} /\ S5 \cap S7 = {} /\ S5 \cap S8 = {} /\ S6 \cap S7 = {} /\ S6 \cap S8 = {} /\ S7 \cap S8 = {}
    BY <1>3, <1>5
<1>11. PICK r2, r3, r4, r5, r6, r7, r8 :
          /\ r2 = s1 \o s2 /\ r3 = r2 \o s3 /\ r4 = r3 \o s4 /\ r5 = r4 \o s5 /\ r6 = r5 \o s6 /\ r7 = r6 \o s7
          /\ r8 = r7 \o s8
    OBVIOUS
<1>12. order = r8
    BY <1>4, <1>11 DEF LhOrder, SmallMax
<1>13. PICK R2, R3, R4, R5, R6, R7, R8 :
          /\ R2 = S1 \cup S2 /\ R3 = R2 \cup S3 /\ R4 = R3 \cup S4 /\ R5 = R4 \cup S5 /\ R6 = R5 \cup S6
          /\ R7 = R6 \cup S7 /\ R8 = R7 \cup S8
    OBVIOUS
<1>14. LhListed(r2, R2)
    BY <1>6, <1>7, <1>11, <1>13, JoinListed
<1>15. LhListed(r3, R3)
    <2>1. R2 \cap S3 = {}
        BY <1>7, <1>8, <1>13
    <2>2. QED BY <1>6, <1>11, <1>13, <1>14, <2>1, JoinListed
<1>16. LhListed(r4, R4)
    <2>1. R3 \cap S4 = {}
        BY <1>7, <1>8, <1>9, <1>13
    <2>2. QED BY <1>6, <1>11, <1>13, <1>15, <2>1, JoinListed
<1>17. LhListed(r5, R5)
    <2>1. R4 \cap S5 = {}
        BY <1>7, <1>8, <1>9, <1>13
    <2>2. QED BY <1>6, <1>11, <1>13, <1>16, <2>1, JoinListed
<1>18. LhListed(r6, R6)
    <2>1. R5 \cap S6 = {}
        BY <1>7, <1>8, <1>9, <1>10, <1>13
    <2>2. QED BY <1>6, <1>11, <1>13, <1>17, <2>1, JoinListed
<1>19. LhListed(r7, R7)
    <2>1. R6 \cap S7 = {}
        BY <1>7, <1>8, <1>9, <1>10, <1>13
    <2>2. QED BY <1>6, <1>11, <1>13, <1>18, <2>1, JoinListed
<1>20. LhListed(r8, R8)
    <2>1. R7 \cap S8 = {}
        BY <1>7, <1>8, <1>9, <1>10, <1>13
    <2>2. QED BY <1>6, <1>11, <1>13, <1>19, <2>1, JoinListed
<1>21. \A g : g \in R8 <=> \E n : LhIn(a.small, n, g)
    <2>1. ASSUME NEW g, NEW n, LhIn(a.small, n, g) PROVE g \in R8
        <3>1. n \in LhSmallSizes /\ g \in LhInBin(a, n)
            BY <1>2, <2>1 DEF LhSmallLists, LhIn
        <3>2. n = 8 \/ n = 16 \/ n = 24 \/ n = 32 \/ n = 40 \/ n = 48 \/ n = 56 \/ n = 64
            BY <3>1 DEF LhSmallSizes
        <3>3. QED BY <1>5, <1>13, <3>1, <3>2
    <2>2. ASSUME NEW g \in R8 PROVE \E n : LhIn(a.small, n, g)
        <3>1. g \in S1 \/ g \in S2 \/ g \in S3 \/ g \in S4 \/ g \in S5 \/ g \in S6 \/ g \in S7 \/ g \in S8
            BY <1>13
        <3>2. QED BY <1>2, <1>5, <3>1
    <2>3. QED BY <2>1, <2>2
<1>22. QED BY <1>12, <1>20, <1>21 DEF LhListed

\* The big heap frees one object after the other.
LhRepeat(f, first, order, k) == [i \in 0 .. k |-> IF i = 0 THEN first ELSE BigFree(f[i - 1], order[i])]

\* The repetition that FreeAll defines exists.
LEMMA RepeatExists ==
    ASSUME NEW first, NEW order, NEW k \in Nat
    PROVE  \E f : f = LhRepeat(f, first, order, k)
<1> DEFINE S == {n \in Nat : \E f : f = LhRepeat(f, first, order, n)}
<1>1. 0 \in S
    <2>1. PICK f : f = [i \in 0 .. 0 |-> first]
        OBVIOUS
    <2>2. LhRepeat(f, first, order, 0) = [i \in 0 .. 0 |-> first]
        <3>1. \A i \in 0 .. 0 : i = 0
            OBVIOUS
        <3>2. QED BY <3>1 DEF LhRepeat
    <2>3. QED BY <2>1, <2>2
<1>2. ASSUME NEW n \in Nat, n \in S PROVE n + 1 \in S
    <2>1. PICK f : f = LhRepeat(f, first, order, n)
        BY <1>2
    <2>2. PICK D, v : D = 0 .. n + 1 /\ v = BigFree(f[n], order[n + 1])
        OBVIOUS
    <2>3. PICK g : g = [i \in D |-> IF i = n + 1 THEN v ELSE f[i]]
        OBVIOUS
    <2>4. ASSUME NEW i \in D PROVE g[i] = IF i = 0 THEN first ELSE BigFree(g[i - 1], order[i])
        <3>1. CASE i = n + 1
            <4>1. n \in D /\ n # n + 1 /\ (n + 1) - 1 = n /\ n + 1 # 0
                BY <2>2
            <4>2. g[n] = f[n] /\ g[n + 1] = v
                BY <2>2, <2>3, <3>1, <4>1
            <4>3. QED BY <2>2, <3>1, <4>1, <4>2
        <3>2. CASE i # n + 1
            <4>1. i \in 0 .. n
                BY <2>2, <3>2
            <4>2. f[i] = IF i = 0 THEN first ELSE BigFree(f[i - 1], order[i])
                BY <2>1, <4>1 DEF LhRepeat
            <4>3. g[i] = f[i]
                BY <2>3, <3>2
            <4>4. CASE i = 0
                BY <4>2, <4>3, <4>4
            <4>5. CASE i # 0
                <5>1. i - 1 \in D /\ i - 1 # n + 1
                    BY <2>2, <4>1, <4>5
                <5>2. g[i - 1] = f[i - 1]
                    BY <2>3, <5>1
                <5>3. QED BY <4>2, <4>3, <4>5, <5>2
            <4>6. QED BY <4>4, <4>5
        <3>3. QED BY <3>1, <3>2
    <2>5. g = LhRepeat(g, first, order, n + 1)
        <3>1. LhRepeat(g, first, order, n + 1) = [i \in D |-> IF i = 0 THEN first ELSE BigFree(g[i - 1], order[i])]
            BY <2>2 DEF LhRepeat
        <3>2. QED BY <2>3, <2>4, <3>1
    <2>6. n + 1 \in Nat
        OBVIOUS
    <2>7. QED BY <2>5, <2>6
<1>3. 0 .. k \subseteq S
    <2> HIDE DEF S
    <2>1. QED BY <1>1, <1>2, OneMore
<1>4. k \in S
    <2>1. k \in 0 .. k
        OBVIOUS
    <2>2. QED BY <1>3, <2>1
<1>5. QED BY <1>4

LhEmptied(a) == [a EXCEPT !.small = <<>>, !.held = 0]

\* FreeAll is that repetition.
LEMMA FreeAllIs ==
    ASSUME NEW a, NEW order \in Seq(Nat), order = LhOrder(a), NEW b, b = FreeAll(a)
    PROVE  \E f : /\ f[0] = LhEmptied(a) /\ b = f[Len(order)]
                  /\ \A i \in 1 .. Len(order) : f[i] = BigFree(f[i - 1], order[i])
<1>1. Len(order) \in Nat
    OBVIOUS
<1>2. PICK first, k : first = LhEmptied(a) /\ k = Len(order)
    OBVIOUS
<1>3. PICK f : f = CHOOSE g : g = LhRepeat(g, first, order, k)
    OBVIOUS
<1>4. \E g : g = LhRepeat(g, first, order, k)
    BY <1>1, <1>2, RepeatExists
<1>5. f = LhRepeat(f, first, order, k)
    BY ONLY <1>3, <1>4, Zenon
<1>6. f[0] = first /\ \A i \in 1 .. k : f[i] = BigFree(f[i - 1], order[i])
    <2>1. ASSUME NEW i \in 0 .. k PROVE f[i] = IF i = 0 THEN first ELSE BigFree(f[i - 1], order[i])
        BY <1>5 DEF LhRepeat
    <2>2. 0 \in 0 .. k /\ \A i \in 1 .. k : i \in 0 .. k /\ i # 0
        BY <1>1, <1>2
    <2>3. QED BY <2>1, <2>2
<1>7. b = f[k]
    BY <1>2, <1>3 DEF FreeAll, LhRepeat, LhOrder, LhEmptied
<1>8. QED BY <1>2, <1>6, <1>7

LhLeft(used, order, k) == {h \in used : \A i \in 1 .. k : order[i] # h}

\* When so many have been freed.
LhStage(a, e, used, order, k, b) ==
    /\ LhShape(b) /\ b.small = <<>>
    /\ b.crashed = FALSE => /\ LhGood(b.hd, e, b.big, b.binmap, LhLeft(used, order, k), -1)
                            /\ LhSizesKept(a.hd, b.hd, LhLeft(used, order, k))

\* A list of used objects, each once.
LhUsedOnce(order, used) == order \in Seq(Nat) /\ LhNoTwice(order) /\ \A i \in 1 .. Len(order) : order[i] \in used

\* One more of the order is freed.
LEMMA StageNext ==
    ASSUME NEW a, NEW e, NEW used, NEW order, LhUsedOnce(order, used), NEW n \in Nat, NEW m \in 1 .. Len(order), m = n + 1,
           NEW b, LhStage(a, e, used, order, n, b), NEW c, c = BigFree(b, order[m])
    PROVE  LhStage(a, e, used, order, m, c)
<1>1. LhShape(b) /\ b.small = <<>>
    BY DEF LhStage
<1>2. order \in Seq(Nat) /\ LhNoTwice(order) /\ order[m] \in used /\ Len(order) \in Nat
    BY DEF LhUsedOnce
<1>3. CASE b.crashed = TRUE
    <2>1. c = b
        BY <1>3 DEF BigFree
    <2>2. QED BY <1>1, <1>3, <2>1 DEF LhStage
<1>4. CASE b.crashed = FALSE
    <2>1. PICK h, left, left2 : h = order[m] /\ left = LhLeft(used, order, n) /\ left2 = LhLeft(used, order, m)
        OBVIOUS
    <2>2. LhGood(b.hd, e, b.big, b.binmap, left, -1) /\ LhSizesKept(a.hd, b.hd, left)
        BY <1>4, <2>1 DEF LhStage
    <2>3. h \in left
        <3>1. ASSUME NEW i \in 1 .. n PROVE order[i] # h
            <4>1. i \in 1 .. Len(order) /\ i # m
                BY <1>2
            <4>2. QED BY <2>1, <4>1, <1>2 DEF LhNoTwice
        <3>2. QED BY <1>2, <2>1, <3>1 DEF LhLeft
    <2>4. left2 = left \ {h}
        <3>1. \A i : i \in 1 .. m <=> (i \in 1 .. n \/ i = m)
            OBVIOUS
        <3>2. ASSUME NEW g PROVE g \in left2 <=> g \in left \ {h}
            BY <2>1, <3>1 DEF LhLeft
        <3>3. QED BY <3>2
    <2>5. LhFreed(b, e, left, h, c)
        <3>1. c = BigFree(b, h)
            BY <2>1
        <3>2. QED BY ONLY <1>1, <1>4, <2>2, <2>3, <3>1, BigFreeGood
    <2>6. /\ LhShape(c) /\ c.small = <<>>
          /\ c.crashed = FALSE => LhGood(c.hd, e, c.big, c.binmap, left2, -1) /\ LhSizesKept(b.hd, c.hd, left2)
        BY <1>1, <2>4, <2>5 DEF LhFreed
    <2>7. LhSizesKept(b.hd, c.hd, left2) => LhSizesKept(a.hd, c.hd, left2)
        <3>1. PICK d1, d2, d3 : d1 = a.hd /\ d2 = b.hd /\ d3 = c.hd
            OBVIOUS
        <3>2. LhSizesKept(d1, d2, left)
            BY <2>2, <3>1
        <3>3. LhSizesKept(d2, d3, left2) => LhSizesKept(d1, d3, left2)
            BY <2>4, <3>2 DEF LhSizesKept
        <3>4. QED BY <3>1, <3>3
    <2>8. QED BY <2>1, <2>6, <2>7 DEF LhStage
<1>5. b.crashed \in BOOLEAN
    BY <1>1 DEF LhShape
<1>6. QED BY <1>3, <1>4, <1>5

\* freeAll gives all that is in the small bins back.
LEMMA FreeAllGood ==
    ASSUME NEW a, LhShape(a), a.crashed = FALSE, NEW e, NEW used, LhGood(a.hd, e, a.big, a.binmap, used, -1),
           LhSmallLists(a), \A n, h : LhIn(a.small, n, h) => h \in used, NEW rest,
           \A h : h \in rest <=> (h \in used /\ \A n : ~LhIn(a.small, n, h)), NEW b, b = FreeAll(a)
    PROVE  /\ LhShape(b) /\ b.small = <<>>
           /\ b.crashed = FALSE => LhGood(b.hd, e, b.big, b.binmap, rest, -1) /\ LhSizesKept(a.hd, b.hd, rest)
<1>1. PICK order : order = LhOrder(a)
    OBVIOUS
<1>2. order \in Seq(Nat) /\ LhNoTwice(order) /\ \A g : g \in ToSet(order) <=> \E n : LhIn(a.small, n, g)
    BY <1>1, OrderIs
<1>3. LhUsedOnce(order, used)
    <2>1. ASSUME NEW i \in 1 .. Len(order) PROVE order[i] \in used
        <3>1. order[i] \in ToSet(order)
            BY <1>2, ToSetIs
        <3>2. QED BY <1>2, <3>1
    <2>2. QED BY <1>2, <2>1 DEF LhUsedOnce
<1>4. PICK f : /\ f[0] = LhEmptied(a) /\ b = f[Len(order)]
               /\ \A i \in 1 .. Len(order) : f[i] = BigFree(f[i - 1], order[i])
    BY <1>1, <1>2, FreeAllIs
<1>5. PICK k \in Nat : k = Len(order)
    BY <1>2
<1> DEFINE S == {n \in Nat : n <= k => LhStage(a, e, used, order, n, f[n])}
<1>6. 0 \in S
    <2>1. PICK z : z = LhEmptied(a)
        OBVIOUS
    <2>2. LhShape(z) /\ z.small = <<>> /\ z.hd = a.hd /\ z.big = a.big /\ z.binmap = a.binmap
        <3>1. PICK y : y = [a EXCEPT !.small = <<>>]
            OBVIOUS
        <3>2. z = [y EXCEPT !.held = 0]
            BY <2>1, <3>1 DEF LhEmptied
        <3>3. LhShape(y) /\ y.small = <<>> /\ y.hd = a.hd /\ y.big = a.big /\ y.binmap = a.binmap
            BY <3>1 DEF LhShape
        <3>4. QED BY <3>2, <3>3 DEF LhShape
    <2>3. LhLeft(used, order, 0) = used
        <3>1. 1 .. 0 = {}
            OBVIOUS
        <3>2. QED BY <3>1 DEF LhLeft
    <2>4. LhSizesKept(a.hd, a.hd, used)
        BY DEF LhSizesKept, LhGood, LhFiled
    <2>5. LhStage(a, e, used, order, 0, z)
        BY <2>2, <2>3, <2>4 DEF LhStage
    <2>6. QED BY <1>4, <2>1, <2>5
<1>7. ASSUME NEW n \in Nat, n < k, n \in S PROVE n + 1 \in S
    <2>1. PICK m \in 1 .. Len(order) : m = n + 1 /\ m - 1 = n /\ m \in Nat
        BY <1>5, <1>7
    <2>2. f[m] = BigFree(f[n], order[m])
        BY <1>4, <2>1
    <2>3. LhStage(a, e, used, order, n, f[n])
        BY <1>7
    <2>4. PICK c, d : c = f[n] /\ d = f[m]
        OBVIOUS
    <2>5. LhStage(a, e, used, order, m, d)
        <3>1. LhStage(a, e, used, order, n, c) /\ d = BigFree(c, order[m]) /\ m = n + 1
            BY <2>1, <2>2, <2>3, <2>4
        <3>2. QED BY ONLY <1>3, <3>1, n \in Nat, m \in 1 .. Len(order), StageNext
    <2>6. QED BY <2>1, <2>4, <2>5
<1>8. LhStage(a, e, used, order, k, b)
    <2>1. k \in S
        <3> HIDE DEF S
        <3>1. k \in 0 .. k
            BY <1>5
        <3>2. QED BY <1>6, <1>7, <3>1, OneMore
    <2>2. QED BY <1>4, <1>5, <2>1
<1>9. LhLeft(used, order, k) = rest
    <2>1. ASSUME NEW g PROVE g \in LhLeft(used, order, k) <=> g \in rest
        <3>1. g \in ToSet(order) <=> \E i \in 1 .. k : order[i] = g
            BY <1>2, <1>5, ToSetIs
        <3>2. QED BY <1>2, <3>1 DEF LhLeft
    <2>2. QED BY <2>1
<1>10. QED BY <1>8, <1>9 DEF LhStage

\* What is used is either held by the program or in the small bin of its size.
LhKept(a, objs, used) ==
    /\ LhSmallLists(a)
    /\ \A n, h : LhIn(a.small, n, h) => h \in used /\ h \notin DOMAIN objs /\ a.hd[h].size = n
    /\ \A h : h \in used => h \in DOMAIN objs \/ \E n : LhIn(a.small, n, h)
    /\ DOMAIN objs \subseteq used
    /\ \A h \in DOMAIN objs : a.hd[h].size >= objs[h]

LhFine(a, objs) ==
    /\ LhShape(a)
    /\ a.crashed = FALSE => \E e, used : LhGood(a.hd, e, a.big, a.binmap, used, -1) /\ LhKept(a, objs, used)

\* What the program and the small bins hold does not depend on where the bins are.
LEMMA KeptMoves ==
    ASSUME NEW a, NEW objs, NEW used, LhKept(a, objs, used), NEW b, b.small = a.small, LhSizesKept(a.hd, b.hd, used)
    PROVE  LhKept(b, objs, used)
<1>1. \A h \in used : b.hd[h].size = a.hd[h].size
    BY DEF LhSizesKept
<1>2. LhSmallLists(b)
    BY DEF LhKept, LhSmallLists
<1>3. ASSUME NEW n, NEW h, LhIn(b.small, n, h) PROVE h \in used /\ h \notin DOMAIN objs /\ b.hd[h].size = n
    BY <1>1, <1>3 DEF LhKept
<1>4. \A h \in DOMAIN objs : b.hd[h].size >= objs[h]
    BY <1>1 DEF LhKept
<1>5. QED BY <1>2, <1>3, <1>4 DEF LhKept

\* What is used has a header.
LEMMA SizesStay == ASSUME NEW hd, NEW e, NEW big, NEW binmap, NEW used, NEW x, LhGood(hd, e, big, binmap, used, x)
                   PROVE  LhSizesKept(hd, hd, used)
BY DEF LhSizesKept, LhGood, LhFiled

\* What an allocation makes of the record.
LhServes(a, objs, sz, r) ==
    /\ r.to.crashed = FALSE
    /\ \/ r.obj = -1 /\ LhFine(r.to, objs)
       \/ r.obj # -1 /\ LhFine(r.to, LhPut(objs, r.obj, sz))

LhSizeFits(sz) == sz \in 1 .. LhLargest /\ sz % 8 = 0 /\ sz >= 8

\* malloc of the big heap: an object that was not used and is large enough, or none.
LEMMA BigServes ==
    ASSUME NEW a, LhShape(a), a.crashed = FALSE, NEW e, NEW used, LhGood(a.hd, e, a.big, a.binmap, used, -1), NEW objs,
           LhKept(a, objs, used), NEW sz, LhSizeFits(sz), NEW r, r = BigMalloc(a, sz)
    PROVE  LhServes(a, objs, sz, r)
<1>1. sz \in 1 .. LhLargest /\ sz % 8 = 0 /\ sz >= 8
    BY DEF LhSizeFits
<1>2. /\ LhSame(a, r.to)
      /\ \/ r.obj = -1 /\ LhGood(r.to.hd, e, r.to.big, r.to.binmap, used, -1) /\ r.to.hd = a.hd
         \/ /\ r.obj \in Nat /\ r.obj \notin used /\ LhSizesKept(a.hd, r.to.hd, used) /\ r.to.hd[r.obj].size >= sz
            /\ \E e2 : LhGood(r.to.hd, e2, r.to.big, r.to.binmap, used \cup {r.obj}, -1)
    BY <1>1, BigMallocGood
<1>3. PICK b, h : b = r.to /\ h = r.obj
    OBVIOUS
<1>4. LhShape(b) /\ b.small = a.small /\ b.crashed = FALSE
    BY <1>2, <1>3 DEF LhSame
<1>5. CASE r.obj = -1 /\ LhGood(r.to.hd, e, r.to.big, r.to.binmap, used, -1) /\ r.to.hd = a.hd
    <2>1. LhSizesKept(a.hd, b.hd, used)
        BY <1>3, <1>5, SizesStay
    <2>2. LhKept(b, objs, used)
        BY <1>4, <2>1, KeptMoves
    <2>3. LhFine(b, objs)
        BY <1>3, <1>4, <1>5, <2>2 DEF LhFine
    <2>4. QED BY <1>3, <1>4, <1>5, <2>3 DEF LhServes
<1>6. CASE /\ r.obj \in Nat /\ r.obj \notin used /\ LhSizesKept(a.hd, r.to.hd, used) /\ r.to.hd[r.obj].size >= sz
           /\ \E e2 : LhGood(r.to.hd, e2, r.to.big, r.to.binmap, used \cup {r.obj}, -1)
    <2>1. h \in Nat /\ h \notin used /\ LhSizesKept(a.hd, b.hd, used) /\ b.hd[h].size >= sz
        BY <1>3, <1>6
    <2>2. PICK used2 : used2 = used \cup {h}
        OBVIOUS
    <2>3. PICK e2 : LhGood(b.hd, e2, b.big, b.binmap, used2, -1)
        BY <1>3, <1>6, <2>2
    <2>4. LhKept(b, objs, used)
        BY <1>4, <2>1, KeptMoves
    <2>5. PICK objs2 : objs2 = LhPut(objs, h, sz)
        OBVIOUS
    <2>6. DOMAIN objs2 = DOMAIN objs \cup {h} /\ objs2[h] = sz /\ \A g \in DOMAIN objs : g # h => objs2[g] = objs[g]
        BY <2>5 DEF LhPut
    <2>7. h \notin DOMAIN objs /\ \A n : ~LhIn(b.small, n, h)
        BY <2>1, <2>4 DEF LhKept
    <2>8. LhKept(b, objs2, used2)
        <3>1. \A n, g : LhIn(b.small, n, g) => g \in used2 /\ g \notin DOMAIN objs2 /\ b.hd[g].size = n
            BY <2>2, <2>4, <2>6, <2>7 DEF LhKept
        <3>2. \A g : g \in used2 => g \in DOMAIN objs2 \/ \E n : LhIn(b.small, n, g)
            BY <2>2, <2>4, <2>6 DEF LhKept
        <3>3. DOMAIN objs2 \subseteq used2 /\ LhSmallLists(b)
            BY <2>2, <2>4, <2>6 DEF LhKept
        <3>4. \A g \in DOMAIN objs2 : b.hd[g].size >= objs2[g]
            BY <2>1, <2>4, <2>6, <2>7 DEF LhKept
        <3>5. QED BY <3>1, <3>2, <3>3, <3>4 DEF LhKept
    <2>9. LhFine(b, objs2)
        BY <1>4, <2>3, <2>8 DEF LhFine
    <2>10. r.obj # -1
        BY <1>6
    <2>11. QED BY <1>3, <1>4, <2>5, <2>9, <2>10 DEF LhServes
<1>7. QED BY <1>2, <1>5, <1>6

\* A multiple of 8 is its own small class.
LEMMA ClassIsSize ==
    ASSUME NEW sz \in Nat, sz % 8 = 0, sz >= 8
    PROVE  SmallClassSize(sz) = sz /\ (sz <= SmallMax => sz \in LhSmallSizes)
<1>1. PICK q \in Nat : q = sz \div 8 /\ sz = 8 * q /\ q >= 1
    BY SMT
<1>2. (sz - 1) \div 8 = q - 1
    BY <1>1, SMT
<1>3. SmallClassSize(sz) = sz
    BY <1>1, <1>2, SMT DEF SmallClassSize
<1>4. ASSUME sz <= SmallMax PROVE sz \in LhSmallSizes
    <2>1. q = 1 \/ q = 2 \/ q = 3 \/ q = 4 \/ q = 5 \/ q = 6 \/ q = 7 \/ q = 8
        BY <1>1, <1>4, SMT DEF SmallMax
    <2>2. QED BY <1>1, <2>1, SMT DEF LhSmallSizes
<1>5. QED BY <1>3, <1>4

\* malloc of the small heap: from the bin of the class, or from the big heap.
LEMMA SmallServes ==
    ASSUME NEW a, LhShape(a), a.crashed = FALSE, NEW e, NEW used, LhGood(a.hd, e, a.big, a.binmap, used, -1), NEW objs,
           LhKept(a, objs, used), NEW sz, LhSizeFits(sz), NEW r, r = SmallMalloc(a, sz)
    PROVE  LhServes(a, objs, sz, r)
<1>1. sz \in Nat /\ sz % 8 = 0 /\ sz >= 8
    BY LhNumbers DEF LhSizeFits
<1>2. SmallClassSize(sz) = sz /\ (sz <= SmallMax => sz \in LhSmallSizes)
    BY <1>1, ClassIsSize
<1>3. PICK s : s = SmallList(a, sz)
    OBVIOUS
<1>4. CASE sz <= SmallMax /\ s # <<>>
    <2>1. sz \in DOMAIN a.small /\ s = a.small[sz]
        BY <1>3, <1>4 DEF SmallList
    <2>2. PICK h, t : h = Head(s) /\ t = Tail(s)
        OBVIOUS
    <2>3. s \in Seq(Nat) /\ LhNoTwice(s)
        BY <2>1 DEF LhKept, LhSmallLists, LhLists
    <2>4. /\ h \in Nat /\ h \in ToSet(s) /\ t \in Seq(Nat) /\ LhNoTwice(t)
          /\ \A g : g \in ToSet(t) <=> (g \in ToSet(s) /\ g # h)
        BY <1>4, <2>2, <2>3, TailIs
    <2>5. PICK b : b = [a EXCEPT !.small[sz] = t]
        OBVIOUS
    <2>6. r.obj = h /\ r.to = b
        <3>1. ~(sz > SmallMax)
            BY <1>1, <1>4 DEF SmallMax
        <3>2. r = [obj |-> h, to |-> b]
            BY <1>2, <1>3, <1>4, <2>1, <2>2, <2>5, <3>1 DEF SmallMalloc
        <3>3. QED BY <3>2
    <2>7. /\ LhShape(b) /\ b.hd = a.hd /\ b.big = a.big /\ b.binmap = a.binmap /\ b.crashed = FALSE
          /\ b.small = [a.small EXCEPT ![sz] = t]
        BY <2>5 DEF LhShape
    <2>8. PICK f, f2 : f = a.small /\ f2 = b.small
        OBVIOUS
    <2>9. LhTakes(f, f2, sz, h)
        <3>1. sz \in DOMAIN f /\ LhLists(f) /\ f2 = [f EXCEPT ![sz] = t]
              /\ \A g : g \in ToSet(t) <=> (g \in ToSet(f[sz]) /\ g # h)
            BY <2>1, <2>4, <2>7, <2>8 DEF LhKept, LhSmallLists
        <3>2. QED BY ONLY <2>4, <3>1, ListReduced
    <2>10. LhIn(f, sz, h) /\ h \in used /\ h \notin DOMAIN objs /\ a.hd[h].size = sz
        <3>1. LhIn(f, sz, h)
            BY <2>1, <2>4, <2>8 DEF LhIn
        <3>2. QED BY <2>8, <3>1 DEF LhKept
    <2>11. PICK objs2 : objs2 = LhPut(objs, h, sz)
        OBVIOUS
    <2>12. DOMAIN objs2 = DOMAIN objs \cup {h} /\ objs2[h] = sz /\ \A g \in DOMAIN objs : g # h => objs2[g] = objs[g]
        BY <2>11 DEF LhPut
    <2>13. LhKept(b, objs2, used)
        <3>1. LhSmallLists(b)
            <4>1. LhLists(f2) /\ DOMAIN f2 = DOMAIN f /\ \A n, g : LhIn(f2, n, g) => LhIn(f, n, g)
                BY <2>9 DEF LhTakes
            <4>2. QED BY <2>8, <4>1 DEF LhKept, LhSmallLists
        <3>2. ASSUME NEW n, NEW g, LhIn(f2, n, g) PROVE g \in used /\ g \notin DOMAIN objs2 /\ b.hd[g].size = n
            <4>1. LhIn(f, n, g) /\ ~(n = sz /\ g = h)
                BY <2>9, <3>2 DEF LhTakes
            <4>2. g \in used /\ g \notin DOMAIN objs /\ b.hd[g].size = n
                BY <2>7, <2>8, <4>1 DEF LhKept
            <4>3. g # h
                BY <2>7, <2>10, <4>1, <4>2
            <4>4. QED BY <2>12, <4>2, <4>3
        <3>3. ASSUME NEW g \in used PROVE g \in DOMAIN objs2 \/ \E n : LhIn(f2, n, g)
            <4>1. g \in DOMAIN objs \/ \E n : LhIn(f, n, g)
                BY <2>8 DEF LhKept
            <4>2. QED BY <2>9, <2>12, <4>1 DEF LhTakes
        <3>4. DOMAIN objs2 \subseteq used
            BY <2>10, <2>12 DEF LhKept
        <3>5. ASSUME NEW g \in DOMAIN objs2 PROVE b.hd[g].size >= objs2[g]
            <4>1. CASE g = h
                BY <1>1, <2>7, <2>10, <2>12, <4>1
            <4>2. CASE g # h
                BY <2>7, <2>12, <4>2 DEF LhKept
            <4>3. QED BY <4>1, <4>2
        <3>6. QED BY <2>8, <3>1, <3>2, <3>3, <3>4, <3>5 DEF LhKept
    <2>14. LhFine(b, objs2)
        BY <2>7, <2>13 DEF LhFine
    <2>15. h # -1
        BY <2>4
    <2>16. QED BY <2>6, <2>7, <2>11, <2>14, <2>15 DEF LhServes
<1>5. CASE ~(sz <= SmallMax /\ s # <<>>)
    <2>1. r = BigMalloc(a, sz)
        <3>1. sz > SmallMax <=> ~(sz <= SmallMax)
            BY <1>1 DEF SmallMax
        <3>2. QED BY <1>2, <1>3, <1>5, <3>1 DEF SmallMalloc
    <2>2. QED BY <2>1, BigServes
<1>6. QED BY <1>4, <1>5

\* free of the small heap: into the bin of the size, or to the big heap.
LEMMA SmallFreeFine ==
    ASSUME NEW a, LhShape(a), a.crashed = FALSE, NEW e, NEW used, LhGood(a.hd, e, a.big, a.binmap, used, -1), NEW objs,
           LhKept(a, objs, used), NEW h \in DOMAIN objs, NEW b, b = SmallFree(a, h)
    PROVE  LhFine(b, LhDrop(objs, h))
<1>1. LhLayout(a.hd, e) /\ LhFiled(a.hd, e, a.big, a.binmap, used)
    BY DEF LhGood
<1>2. h \in used /\ h \in DOMAIN a.hd \ {e} /\ \A n : ~LhIn(a.small, n, h)
    BY <1>1 DEF LhKept, LhFiled
<1>3. PICK n \in Nat : n = a.hd[h].size /\ n % 8 = 0 /\ n >= 8
    BY <1>1, <1>2, NxIs
<1>4. h \in Nat
    BY <1>1, <1>2, NxIs
<1>5. PICK objs2 : objs2 = LhDrop(objs, h)
    OBVIOUS
<1>6. DOMAIN objs2 = DOMAIN objs \ {h} /\ \A g \in DOMAIN objs2 : objs2[g] = objs[g]
    BY <1>5 DEF LhDrop
<1>7. CASE n > SmallMax
    <2>1. b = BigFree(a, h)
        BY <1>3, <1>7 DEF SmallFree
    <2>2. LhFreed(a, e, used, h, b)
        BY <1>2, <2>1, BigFreeGood
    <2>3. PICK used2 : used2 = used \ {h}
        OBVIOUS
    <2>4. LhShape(b) /\ b.small = a.small /\ (b.crashed = FALSE => LhGood(b.hd, e, b.big, b.binmap, used2, -1)
          /\ LhSizesKept(a.hd, b.hd, used2))
        BY <2>2, <2>3 DEF LhFreed
    <2>5. LhKept(a, objs2, used2)
        <3>1. \A m, g : LhIn(a.small, m, g) => g \in used2 /\ g \notin DOMAIN objs2 /\ a.hd[g].size = m
            BY <1>2, <1>6, <2>3 DEF LhKept
        <3>2. \A g : g \in used2 => g \in DOMAIN objs2 \/ \E m : LhIn(a.small, m, g)
            BY <1>6, <2>3 DEF LhKept
        <3>3. DOMAIN objs2 \subseteq used2 /\ \A g \in DOMAIN objs2 : a.hd[g].size >= objs2[g]
            BY <1>6, <2>3 DEF LhKept
        <3>4. QED BY <3>1, <3>2, <3>3 DEF LhKept
    <2>6. b.crashed = FALSE => LhKept(b, objs2, used2)
        BY <2>4, <2>5, KeptMoves
    <2>7. QED BY <1>5, <2>4, <2>6 DEF LhFine
<1>8. CASE ~(n > SmallMax)
    <2>1. n \in LhSmallSizes
        <3>1. n <= SmallMax
            BY <1>3, <1>8 DEF SmallMax
        <3>2. QED BY <1>3, <3>1, ClassIsSize
    <2>2. PICK small : small = LhPut(a.small, n, <<h>> \o SmallList(a, n))
        OBVIOUS
    <2>3. PICK held : held = a.held + n
        OBVIOUS
    <2>4. b = [a EXCEPT !.small = small, !.held = held]
        BY <1>3, <1>8, <2>2, <2>3 DEF SmallFree
    <2>5. /\ LhShape(b) /\ b.hd = a.hd /\ b.big = a.big /\ b.binmap = a.binmap /\ b.crashed = FALSE /\ b.small = small
        <3>1. PICK y : y = [a EXCEPT !.small = small]
            OBVIOUS
        <3>2. b = [y EXCEPT !.held = held]
            BY <2>4, <3>1
        <3>3. LhShape(y) /\ y.hd = a.hd /\ y.big = a.big /\ y.binmap = a.binmap /\ y.crashed = FALSE /\ y.small = small
            BY <3>1 DEF LhShape
        <3>4. QED BY <3>2, <3>3 DEF LhShape
    <2>6. PICK f : f = a.small
        OBVIOUS
    <2>7. LhLists(f) /\ ~LhIn(f, n, h)
        BY <1>2, <2>6 DEF LhKept, LhSmallLists
    <2>8. LhAdds(f, small, n, h)
        <3>1. small = LhPut(f, n, <<h>> \o (IF n \in DOMAIN f THEN f[n] ELSE <<>>))
            BY <2>2, <2>6 DEF SmallList
        <3>2. QED BY ONLY <1>4, <2>7, <3>1, ListPushed
    <2>9. \A m, g : LhIn(small, m, g) <=> (LhIn(f, m, g) \/ (m = n /\ g = h))
        BY <2>8 DEF LhAdds
    <2>10. LhKept(b, objs2, used)
        <3>1. LhSmallLists(b)
            <4>1. LhLists(small) /\ DOMAIN small = DOMAIN f \cup {n}
                BY <2>8 DEF LhAdds
            <4>2. DOMAIN f \subseteq LhSmallSizes /\ \A m, k, g : LhIn(f, m, g) /\ LhIn(f, k, g) => m = k
                BY <2>6 DEF LhKept, LhSmallLists
            <4>3. \A m, k, g : LhIn(small, m, g) /\ LhIn(small, k, g) => m = k
                BY <1>2, <2>6, <2>9, <4>2
            <4>4. QED BY <2>1, <2>5, <4>1, <4>2, <4>3 DEF LhSmallLists
        <3>2. ASSUME NEW m, NEW g, LhIn(small, m, g) PROVE g \in used /\ g \notin DOMAIN objs2 /\ b.hd[g].size = m
            <4>1. LhIn(f, m, g) \/ (m = n /\ g = h)
                BY <2>9, <3>2
            <4>2. CASE LhIn(f, m, g)
                BY <1>6, <2>5, <2>6, <4>2 DEF LhKept
            <4>3. CASE m = n /\ g = h
                BY <1>2, <1>3, <1>6, <2>5, <4>3
            <4>4. QED BY <4>1, <4>2, <4>3
        <3>3. ASSUME NEW g \in used PROVE g \in DOMAIN objs2 \/ \E m : LhIn(small, m, g)
            <4>1. g \in DOMAIN objs \/ \E m : LhIn(f, m, g)
                BY <2>6 DEF LhKept
            <4>2. QED BY <1>6, <2>9, <4>1
        <3>4. DOMAIN objs2 \subseteq used /\ \A g \in DOMAIN objs2 : b.hd[g].size >= objs2[g]
            BY <1>6, <2>5 DEF LhKept
        <3>5. QED BY <2>5, <3>1, <3>2, <3>3, <3>4 DEF LhKept
    <2>11. QED BY <1>5, <2>5, <2>10 DEF LhFine
<1>9. QED BY <1>7, <1>8

\* FreeAll leaves what the program holds alone.
LEMMA FreeAllFine ==
    ASSUME NEW a, a.crashed = FALSE, NEW objs, LhFine(a, objs), NEW b, b = FreeAll(a)
    PROVE  LhFine(b, objs)
<1>1. PICK e, used : LhGood(a.hd, e, a.big, a.binmap, used, -1) /\ LhKept(a, objs, used)
    BY DEF LhFine
<1>2. LhShape(a) /\ LhSmallLists(a) /\ \A n, h : LhIn(a.small, n, h) => h \in used
    BY <1>1 DEF LhFine, LhKept
<1>3. PICK rest : rest = DOMAIN objs
    OBVIOUS
<1>4. \A h : h \in rest <=> (h \in used /\ \A n : ~LhIn(a.small, n, h))
    BY <1>1, <1>3 DEF LhKept
<1>5. /\ LhShape(b) /\ b.small = <<>>
      /\ b.crashed = FALSE => LhGood(b.hd, e, b.big, b.binmap, rest, -1) /\ LhSizesKept(a.hd, b.hd, rest)
    BY <1>1, <1>2, <1>4, FreeAllGood
<1>6. ASSUME b.crashed = FALSE PROVE LhKept(b, objs, rest)
    <2>1. DOMAIN b.small = {}
        BY <1>5
    <2>2. LhSmallLists(b) /\ \A n, h : ~LhIn(b.small, n, h)
        BY <2>1 DEF LhSmallLists, LhLists, LhIn
    <2>3. \A h \in DOMAIN objs : b.hd[h].size >= objs[h]
        BY <1>1, <1>3, <1>5, <1>6 DEF LhSizesKept, LhKept
    <2>4. QED BY <1>3, <2>2, <2>3 DEF LhKept
<1>7. QED BY <1>5, <1>6 DEF LhFine

\* The counters of Threshold do not matter.
LhLike(a, b) ==
    LhShape(b) /\ b.hd = a.hd /\ b.big = a.big /\ b.binmap = a.binmap /\ b.small = a.small
    /\ b.crashed = a.crashed

LEMMA LikeFine ==
    ASSUME NEW a, NEW objs, LhFine(a, objs), NEW b, LhLike(a, b)
    PROVE  LhFine(b, objs)
<1>1. CASE a.crashed = FALSE
    <2>1. PICK e, used : LhGood(a.hd, e, a.big, a.binmap, used, -1) /\ LhKept(a, objs, used)
        BY <1>1 DEF LhFine
    <2>2. LhKept(b, objs, used)
        BY <2>1 DEF LhKept, LhSmallLists, LhLike
    <2>3. QED BY <2>1, <2>2 DEF LhFine, LhLike
<1>2. CASE a.crashed # FALSE
    BY <1>2 DEF LhFine, LhLike
<1>3. QED BY <1>1, <1>2

LEMMA CountedFine ==
    ASSUME NEW a, NEW objs, LhFine(a, objs), NEW h, NEW b, b = Counted(a, h)
    PROVE  LhFine(b, objs)
<1>1. PICK use, top : use = a.inUse + a.hd[h].size /\ top = Max({use, a.maxInUse})
    OBVIOUS
<1>2. PICK y : y = [a EXCEPT !.inUse = use]
    OBVIOUS
<1>3. LhShape(a)
    BY DEF LhFine
<1>4. LhLike(a, y) /\ y.maxInUse = a.maxInUse
    BY <1>2, <1>3 DEF LhShape, LhLike
<1>5. b = [y EXCEPT !.maxInUse = top]
    BY <1>1, <1>2, <1>4 DEF Counted
<1>6. LhLike(y, b)
    BY <1>4, <1>5 DEF LhShape, LhLike
<1>7. QED BY <1>4, <1>6, LikeFine

\* free of Threshold, which may end in FreeAll.
LEMMA ThresholdFreeFine ==
    ASSUME NEW a, a.crashed = FALSE, NEW objs, LhFine(a, objs), NEW h \in DOMAIN objs, NEW b, b = ThresholdFree(a, h)
    PROVE  LhFine(b, LhDrop(objs, h))
<1>1. PICK use, objs2 : use = a.inUse - a.hd[h].size /\ objs2 = LhDrop(objs, h)
    OBVIOUS
<1>2. PICK y : y = [a EXCEPT !.inUse = use]
    OBVIOUS
<1>3. LhLike(a, y) /\ y.crashed = FALSE
    BY <1>2 DEF LhFine, LhShape, LhLike
<1>4. LhFine(y, objs)
    BY <1>3, LikeFine
<1>5. PICK freed : freed = SmallFree(y, h)
    OBVIOUS
<1>6. b = IF ~freed.crashed /\ freed.held > LhThreshold(freed) THEN FreeAll(freed) ELSE freed
    BY <1>1, <1>2, <1>5 DEF ThresholdFree
<1>7. PICK e, used : LhGood(y.hd, e, y.big, y.binmap, used, -1) /\ LhKept(y, objs, used)
    BY <1>3, <1>4 DEF LhFine
<1>8. LhFine(freed, objs2)
    <2>1. LhShape(y)
        BY <1>3 DEF LhLike
    <2>2. LhFine(freed, LhDrop(objs, h))
        BY <1>3, <1>5, <1>7, <2>1, SmallFreeFine
    <2>3. QED BY <1>1, <2>2
<1>9. freed.crashed \in BOOLEAN
    BY <1>8 DEF LhFine, LhShape
<1>10. b = freed \/ (freed.crashed = FALSE /\ b = FreeAll(freed))
    BY <1>6, <1>9
<1>11. LhFine(b, objs2)
    BY <1>8, <1>10, FreeAllFine
<1>12. QED BY <1>1, <1>11

\* The inductive invariant: the record is fine, for the objects that are held.
LhInv == LhFine(lea, lhLive)

\* What is said of the new record is said of the next state.
LEMMA FinePrimed == ASSUME LhFine(lea', lhLive'), lhFirst' = lhFirst PROVE LhInv'
BY DEF LhInv, LhFine, LhGood, LhTagged, LhApart

\* Initially there is one header, and no object.
LEMMA LhInitially == LhInit => LhInv
<1>1. SUFFICES ASSUME LhInit PROVE LhInv
    OBVIOUS
<1>2. PICK hd : hd = [h \in {0} |-> [size |-> 0, prevSize |-> 0, prevFree |-> FALSE]]
    OBVIOUS
<1>3. PICK none : none = {}
    OBVIOUS
<1>4. /\ lea.hd = hd /\ lea.big = <<>> /\ lea.binmap = {} /\ lea.small = <<>> /\ lea.crashed = FALSE
      /\ LhShape(lea) /\ lhLive = <<>>
    BY <1>1, <1>2 DEF LhInit, LhShape
<1>5. DOMAIN lea.big = {} /\ DOMAIN lea.small = {} /\ DOMAIN lhLive = {}
    BY <1>4
<1>6. DOMAIN hd = {0} /\ hd[0] \in LhHeaderType /\ hd[0].size = 0 /\ hd[0].prevFree = FALSE
    BY <1>2 DEF LhHeaderType
<1>7. LhLayout(hd, 0)
    <2>1. LhEnd \in Nat
        BY LhNumbers
    <2>2. DOMAIN hd \subseteq 0 .. LhEnd
        BY <1>6, <2>1
    <2>3. QED BY <1>6, <2>2 DEF LhLayout
<1>8. LhGood(hd, 0, lea.big, lea.binmap, none, -1)
    BY <1>3, <1>5, <1>6, <1>7 DEF LhGood, LhTagged, LhApart, LhFiled, LhLists, LhIn
<1>9. LhKept(lea, lhLive, none)
    BY <1>3, <1>5 DEF LhKept, LhSmallLists, LhLists, LhIn
<1>10. QED BY <1>4, <1>8, <1>9 DEF LhInv, LhFine

\* The steps keep the invariant.
LEMMA LhMallocKeeps ==
    ASSUME LhInv, NEW sz \in LhSizes, LhMalloc(sz)
    PROVE  LhFine(lea', lhLive') /\ lhFirst' = lhFirst
<1>1. LhShape(lea) /\ lea.crashed = FALSE
    BY DEF LhInv, LhFine, LhShape, LhMalloc
<1>2. PICK e, used : LhGood(lea.hd, e, lea.big, lea.binmap, used, -1) /\ LhKept(lea, lhLive, used)
    BY <1>1 DEF LhInv, LhFine
<1>3. LhSizeFits(sz)
    <2>1. sz \in Nat \ {0} /\ sz % 8 = 0 /\ LhLargest \in Nat /\ LhMmapAbove \in Nat /\ LhMmapAbove <= LhLargest
        BY LhNumbers
    <2>2. sz <= LhMmapAbove
        BY DEF LhMalloc
    <2>3. sz >= 8
        BY <2>1, SMT
    <2>4. QED BY <2>1, <2>2, <2>3 DEF LhSizeFits
<1>4. PICK r : r = SmallMalloc(lea, sz)
    OBVIOUS
<1>5. LhServes(lea, lhLive, sz, r)
    BY <1>1, <1>2, <1>3, <1>4, SmallServes
<1>6. /\ r.obj # -1 /\ lea' = Counted(r.to, r.obj) /\ lhLive' = LhPut(lhLive, r.obj, sz) /\ lhFirst' = lhFirst
    BY <1>4 DEF LhMalloc
<1>7. LhFine(r.to, lhLive')
    BY <1>5, <1>6 DEF LhServes
<1>8. PICK b, h, objs2, a2 : b = r.to /\ h = r.obj /\ objs2 = lhLive' /\ a2 = lea'
    OBVIOUS
<1>9. LhFine(a2, objs2)
    <2>1. LhFine(b, objs2) /\ a2 = Counted(b, h)
        BY <1>6, <1>7, <1>8
    <2>2. QED BY ONLY <2>1, CountedFine
<1>10. QED BY <1>6, <1>8, <1>9

\* A record that may have crashed since.
LEMMA MayCrash ==
    ASSUME NEW a, NEW objs, LhFine(a, objs), a.crashed = FALSE, NEW c \in BOOLEAN, NEW b, b = [a EXCEPT !.crashed = c]
    PROVE  LhFine(b, objs)
<1>1. LhShape(a)
    BY DEF LhFine
<1>2. LhShape(b) /\ b.crashed = c /\ (c = FALSE => LhLike(a, b))
    BY <1>1 DEF LhShape, LhLike
<1>3. CASE c = FALSE
    BY <1>2, <1>3, LikeFine
<1>4. CASE c = TRUE
    BY <1>2, <1>4 DEF LhFine
<1>5. QED BY <1>3, <1>4

LEMMA LhMallocMappedKeeps ==
    ASSUME LhInv, NEW sz \in LhSizes, LhMallocMapped(sz)
    PROVE  LhFine(lea', lhLive') /\ lhFirst' = lhFirst
<1>1. LhShape(lea) /\ lea.crashed = FALSE
    BY DEF LhInv, LhFine, LhShape, LhMallocMapped
<1>2. PICK e, used : LhGood(lea.hd, e, lea.big, lea.binmap, used, -1) /\ LhKept(lea, lhLive, used)
    BY <1>1 DEF LhInv, LhFine
<1>3. PICK a : a = IF sz <= LhMmapAbove THEN SmallMalloc(lea, sz).to ELSE lea
    OBVIOUS
<1>4. LhFine(a, lhLive) /\ a.crashed = FALSE
    <2>1. CASE sz <= LhMmapAbove
        <3>1. LhSizeFits(sz)
            <4>1. sz \in Nat \ {0} /\ sz % 8 = 0 /\ LhLargest \in Nat /\ LhMmapAbove \in Nat /\ LhMmapAbove <= LhLargest
                BY LhNumbers
            <4>2. sz >= 8
                BY <4>1, SMT
            <4>3. QED BY <2>1, <4>1, <4>2 DEF LhSizeFits
        <3>2. PICK r : r = SmallMalloc(lea, sz)
            OBVIOUS
        <3>3. LhServes(lea, lhLive, sz, r)
            BY <1>1, <1>2, <3>1, <3>2, SmallServes
        <3>4. r.obj = -1 /\ a = r.to
            BY <1>3, <2>1, <3>2 DEF LhMallocMapped
        <3>5. QED BY <3>3, <3>4 DEF LhServes
    <2>2. CASE ~(sz <= LhMmapAbove)
        BY <1>1, <1>3, <2>2 DEF LhInv
    <2>3. QED BY <2>1, <2>2
<1>5. PICK c \in BOOLEAN : lea' = [a EXCEPT !.crashed = c]
    <2>1. \E c \in BOOLEAN : lea' = [IF sz <= LhMmapAbove THEN SmallMalloc(lea, sz).to ELSE lea EXCEPT !.crashed = c]
        BY DEF LhMallocMapped
    <2>2. QED BY ONLY <1>3, <2>1, Zenon
<1>6. PICK b, objs : b = lea' /\ objs = lhLive
    OBVIOUS
<1>7. LhFine(b, objs)
    <2>1. b = [a EXCEPT !.crashed = c] /\ LhFine(a, objs) /\ c \in BOOLEAN
        BY <1>4, <1>5, <1>6
    <2>2. QED BY ONLY <1>4, <2>1, MayCrash
<1>8. lhLive' = lhLive /\ lhFirst' = lhFirst
    BY DEF LhMallocMapped
<1>9. QED BY <1>6, <1>7, <1>8

LEMMA LhFreeKeeps ==
    ASSUME LhInv, NEW h \in DOMAIN lhLive, LhFree(h)
    PROVE  LhFine(lea', lhLive') /\ lhFirst' = lhFirst
<1>1. lea.crashed = FALSE
    BY DEF LhInv, LhFine, LhShape, LhFree
<1>2. lea' = ThresholdFree(lea, h) /\ lhLive' = LhDrop(lhLive, h) /\ lhFirst' = lhFirst
    BY DEF LhFree
<1>3. PICK b : b = lea'
    OBVIOUS
<1>4. LhFine(lea, lhLive)
    BY DEF LhInv
<1>5. LhFine(b, LhDrop(lhLive, h))
    <2>1. b = ThresholdFree(lea, h)
        BY <1>2, <1>3
    <2>2. QED BY <1>1, <1>4, <2>1, ThresholdFreeFine
<1>6. QED BY <1>2, <1>3, <1>5

LEMMA LhStepKeeps == LhInv /\ [LhStep]_lhVars => LhInv'
<1>1. SUFFICES ASSUME LhInv, [LhStep]_lhVars PROVE LhFine(lea', lhLive') /\ lhFirst' = lhFirst
    BY FinePrimed
<1>2. ASSUME NEW sz \in LhSizes, LhMalloc(sz) PROVE LhFine(lea', lhLive') /\ lhFirst' = lhFirst
    BY <1>1, <1>2, LhMallocKeeps
<1>3. ASSUME NEW sz \in LhSizes, LhMallocMapped(sz) PROVE LhFine(lea', lhLive') /\ lhFirst' = lhFirst
    BY <1>1, <1>3, LhMallocMappedKeeps
<1>4. ASSUME NEW h \in DOMAIN lhLive, LhFree(h) PROVE LhFine(lea', lhLive') /\ lhFirst' = lhFirst
    BY <1>1, <1>4, LhFreeKeeps
<1>5. CASE LhFreeMapped
    BY <1>1, <1>5 DEF LhFreeMapped, LhInv
<1>6. CASE UNCHANGED lhVars
    BY <1>1, <1>6 DEF lhVars, LhInv
<1>7. QED BY <1>1, <1>2, <1>3, <1>4, <1>5, <1>6 DEF LhStep

\* The bin of a header that is in one bin only.
LEMMA InBinIs ==
    ASSUME NEW a, NEW i, NEW h, LhIn(a.big, i, h), \A j : LhIn(a.big, j, h) => j = i
    PROVE  InBin(a, h) = i
<1>1. \E j \in DOMAIN a.big : h \in ToSet(a.big[j])
    BY DEF LhIn
<1>2. PICK j : j = InBin(a, h)
    OBVIOUS
<1>3. j = CHOOSE k \in DOMAIN a.big : h \in ToSet(a.big[k])
    BY <1>2 DEF InBin
<1>4. j \in DOMAIN a.big /\ h \in ToSet(a.big[j])
    BY ONLY <1>1, <1>3, Zenon
<1>5. LhIn(a.big, j, h)
    BY <1>4 DEF LhIn
<1>6. QED BY <1>2, <1>5

\* The invariant implies the property: what is used is what the program or a small bin holds.
LEMMA FineAgrees == LhInv => BoundaryTagsAgree
<1>1. SUFFICES ASSUME LhInv, ~lea.crashed PROVE BoundaryTagsAgree
    BY DEF BoundaryTagsAgree
<1>2. lea.crashed = FALSE
    BY <1>1 DEF LhInv, LhFine, LhShape
<1>3. PICK hd, big, binmap : hd = lea.hd /\ big = lea.big /\ binmap = lea.binmap
    OBVIOUS
<1>4. PICK e, used : LhGood(hd, e, big, binmap, used, -1) /\ LhKept(lea, lhLive, used)
    BY <1>1, <1>2, <1>3 DEF LhInv, LhFine
<1>5. LhLayout(hd, e) /\ LhTagged(hd, e, used, -1) /\ LhApart(hd, e, used) /\ LhFiled(hd, e, big, binmap, used)
    BY <1>4 DEF LhGood
<1>6. Brk(lea) = e /\ LhObjects(lea) = DOMAIN hd \ {e}
    BY <1>3, <1>5, TopIs DEF Brk, LhObjects
<1>7. \A h : LhNext(lea, h) = LhNx(hd, h)
    BY <1>3 DEF LhNext, LhNx
<1>8. PICK small, binned : small = UNION {ToSet(lea.small[n]) : n \in DOMAIN lea.small} /\ binned = BigBinned(lea)
    OBVIOUS
<1>9. \A h : h \in small <=> \E n : LhIn(lea.small, n, h)
    BY <1>8 DEF LhIn
<1>10. \A h : h \in binned <=> \E i : LhIn(big, i, h)
    BY <1>3, <1>8 DEF BigBinned, LhIn
<1>11. \A h : h \in binned <=> (h \in DOMAIN hd \ {e} /\ h \notin used)
    BY <1>5, <1>10 DEF LhFiled
<1>12. \A h : h \in used <=> (h \in DOMAIN lhLive \/ h \in small)
    BY <1>4, <1>9 DEF LhKept
<1>13. used \subseteq DOMAIN hd \ {e}
    BY <1>5 DEF LhFiled
<1>14. ASSUME NEW h \in DOMAIN hd \ {e}
       PROVE  /\ LhNx(hd, h) \in DOMAIN hd /\ hd[LhNx(hd, h)].prevSize = hd[h].size
              /\ hd[LhNx(hd, h)].prevFree <=> (h \notin used /\ (h # 0 \/ lhFirst = 0))
    <2>1. /\ LhNx(hd, h) \in DOMAIN hd /\ hd[LhNx(hd, h)].prevSize = hd[h].size /\ h \in Nat
        BY <1>5, NxIs
    <2>2. h # -1
        BY <2>1
    <2>3. QED BY <1>5, <2>1, <2>2 DEF LhTagged
<1>15. \A h : IsFree(lea, h) = hd[LhNx(hd, h)].prevFree
    BY <1>3, <1>7 DEF IsFree
<1>16. ASSUME NEW h \in DOMAIN hd \ {e}
       PROVE  /\ LhNext(lea, h) \in DOMAIN lea.hd
              /\ lea.hd[LhNext(lea, h)].prevSize = lea.hd[h].size
              /\ h # 0 => (IsFree(lea, h) <=> h \in binned)
              /\ lhFirst = 0 /\ LhNext(lea, h) # Brk(lea) => ~(IsFree(lea, h) /\ IsFree(lea, LhNext(lea, h)))
    <2>1. LhNext(lea, h) \in DOMAIN lea.hd /\ lea.hd[LhNext(lea, h)].prevSize = lea.hd[h].size
        BY <1>3, <1>7, <1>14
    <2>2. h # 0 => (IsFree(lea, h) <=> h \in binned)
        BY <1>11, <1>14, <1>15
    <2>3. ASSUME lhFirst = 0, LhNext(lea, h) # Brk(lea) PROVE ~(IsFree(lea, h) /\ IsFree(lea, LhNext(lea, h)))
        <3>1. PICK g : g = LhNx(hd, h)
            OBVIOUS
        <3>2. g \in DOMAIN hd \ {e}
            BY <1>6, <1>7, <1>14, <2>3, <3>1
        <3>3. h \in used \/ g \in used
            BY <1>5, <2>3, <3>1, <3>2 DEF LhApart
        <3>4. ~hd[LhNx(hd, h)].prevFree \/ ~hd[LhNx(hd, g)].prevFree
            BY <1>14, <3>2, <3>3
        <3>5. QED BY <1>7, <1>15, <3>1, <3>4
    <2>4. QED BY <2>1, <2>2, <2>3
<1>17. DOMAIN lhLive \cap small = {} /\ binned \cap (small \cup DOMAIN lhLive) = {}
    <2>1. \A h \in DOMAIN lhLive : h \notin small
        BY <1>4, <1>9 DEF LhKept
    <2>2. \A h \in small \cup DOMAIN lhLive : h \notin binned
        BY <1>11, <1>12
    <2>3. QED BY <2>1, <2>2
<1>18. (DOMAIN lhLive \cup small) \cup binned = LhObjects(lea)
    BY <1>6, <1>11, <1>12, <1>13
<1>19. ASSUME NEW h \in binned PROVE InBin(lea, h) = BigBin(lea.hd[h].size) /\ InBin(lea, h) \in lea.binmap
    <2>1. PICK i : LhIn(big, i, h)
        BY <1>10
    <2>2. i = BigBin(hd[h].size) /\ i \in binmap /\ \A j : LhIn(big, j, h) => j = i
        BY <1>5, <2>1 DEF LhFiled
    <2>3. InBin(lea, h) = i
        BY <1>3, <2>1, <2>2, InBinIs
    <2>4. QED BY <1>3, <2>2, <2>3
<1>20. \A h \in DOMAIN lhLive : lea.hd[h].size >= lhLive[h]
    BY <1>4 DEF LhKept
<1>21. QED BY <1>6, <1>8, <1>16, <1>17, <1>18, <1>19, <1>20 DEF BoundaryTagsAgree

\* Of the Lea heap, whatever is asked for and freed and however far the memory goes:
\* up to a crash, headers lead from object to object and back, every object is either
\* held by the program, in a small bin or in the marked big bin of its size, the marks
\* say which are in a big bin, no two of these are neighbours (if the word in front of
\* the heap is 0), and no held object is smaller than what was asked for.
THEOREM BoundaryTagsHold == LhSpec => []BoundaryTagsAgree
<1>1. QED BY LhInitially, LhStepKeeps, FineAgrees, PTL DEF LhSpec
=============================================================================
