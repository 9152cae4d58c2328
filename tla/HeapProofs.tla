----------------------------- MODULE HeapProofs -----------------------------
(***************************************************************************)
(* Heap layers: the lock of a LockedHeap excludes (HeapLocks), MmapHeap's  *)
(* map knows every region it has given out (MmapHeap), the bitmaps of      *)
(* AlignedSlotHeap's chunks are the slots given out (AlignedSlotHeap), the *)
(* lists of freed objects lead through what was freed (FreeLists), and     *)
(* the chunks of slot heaps are listed by how full they are                *)
(* (LooseSlotHeap).                                                        *)
(***************************************************************************)
EXTENDS ProofFacts, FiniteSetTheorems, HeapLocks, MmapHeap, AlignedSlotHeap, FreeLists,
        LooseSlotHeap

-----------------------------------------------------------------------------
\* HeapLocks: HlInv is inductive and implies OneThreadInside.

\* The lock is free and nobody is on the way to it.
LEMMA HlInitInv == HlInit => HlInv
<1>1. ASSUME HlInit PROVE HlTypeOK
  <2>1. hlMutex = FALSE /\ hlCreated = FALSE /\ hlTid = HlNone /\ hlCount = 0
    BY <1>1 DEF HlInit
  <2>2. hlPc = [t \in HlThreads |-> "idle"] /\ hlDepth = [t \in HlThreads |-> 0]
    BY <1>1 DEF HlInit
  <2>3. hlMutex \in BOOLEAN /\ hlCreated \in BOOLEAN
    BY <2>1, Zenon
  <2>4. hlTid \in HlThreads \cup {HlNone} /\ hlCount \in Nat
    BY <2>1, SMT
  <2>5. /\ hlPc \in [HlThreads -> {"idle", "exchange", "spin", "own", "count", "disown", "unlock"}]
        /\ hlDepth \in [HlThreads -> Nat]
    BY <2>2, SMT
  <2>. QED BY <2>3, <2>4, <2>5, Zenon DEF HlTypeOK
<1>2. ASSUME HlInit, NEW t \in HlThreads
      PROVE  hlPc[t] = "idle" /\ hlDepth[t] = 0 /\ hlTid # t
  BY <1>2, HlAssumption, Zenon DEF HlInit
<1>3. ASSUME HlInit, NEW t \in HlThreads PROVE ~HasSpinLock(t)
  BY <1>2, <1>3, SMT DEF HasSpinLock
<1>4. ASSUME HlInit PROVE HlInv
  <2>1. hlMutex = FALSE /\ hlCount = 0
    BY <1>4 DEF HlInit
  <2>2. \A t \in HlThreads : hlPc[t] = "idle" /\ hlDepth[t] = 0 /\ hlTid # t /\ ~HasSpinLock(t)
    BY <1>2, <1>3, <1>4
  <2>. QED BY <1>1, <1>4, <2>1, <2>2, SMT DEF HlInv
<1>. QED BY <1>4

\* What a thread's move to another place of lock or unlock leaves alone.
LEMMA HlCreateInv == HlInv /\ HlCreate => HlInv'
BY HlAssumption, SMT DEF HlCreate, HlInv, HlTypeOK, HasSpinLock

\* A step of the lock that does not touch the spin lock, the owner or the count.
LEMMA HlLookInv ==
    ASSUME HlInv, NEW t \in HlThreads, CheckOwner(t) \/ SpinEnds(t)
    PROVE  HlInv'
<1>1. CASE CheckOwner(t)
  BY <1>1, HlAssumption, SMT DEF CheckOwner, Runs, HlInv, HlTypeOK, HasSpinLock
<1>2. CASE SpinEnds(t)
  BY <1>2, HlAssumption, SMT DEF SpinEnds, HlInv, HlTypeOK, HasSpinLock
<1>. QED BY <1>1, <1>2

\* The exchange: whoever finds the lock unset has it alone.
LEMMA HlExchangeInv ==
    ASSUME HlInv, NEW t \in HlThreads, Exchange(t)
    PROVE  HlInv'
BY HlAssumption, SMT DEF Exchange, HlInv, HlTypeOK, HasSpinLock

\* The owner's name and the count are written by the thread that has the lock.
LEMMA HlOwnerInv ==
    ASSUME HlInv, NEW t \in HlThreads, BecomeOwner(t) \/ CountUp(t) \/ CountDown(t) \/ Disown(t)
    PROVE  HlInv'
<1>1. CASE BecomeOwner(t)
  BY <1>1, HlAssumption, SMT DEF BecomeOwner, HlInv, HlTypeOK, HasSpinLock
<1>2. CASE CountUp(t)
  BY <1>2, HlAssumption, SMT DEF CountUp, HlInv, HlTypeOK, HasSpinLock
<1>3. CASE CountDown(t)
  BY <1>3, HlAssumption, SMT DEF CountDown, HlInv, HlTypeOK, HasSpinLock
<1>4. CASE Disown(t)
  BY <1>4, HlAssumption, SMT DEF Disown, HlInv, HlTypeOK, HasSpinLock
<1>. QED BY <1>1, <1>2, <1>3, <1>4

\* The spin lock is unset by the only thread that has it.
LEMMA HlUnlockInv ==
    ASSUME HlInv, NEW t \in HlThreads, SpinUnlock(t)
    PROVE  HlInv'
<1>1. HlTypeOK'
  <2>1. hlMutex' \in BOOLEAN /\ hlCreated' \in BOOLEAN
    BY Zenon DEF SpinUnlock, HlInv, HlTypeOK
  <2>2. hlTid' \in HlThreads \cup {HlNone} /\ hlCount' \in Nat
    BY DEF SpinUnlock, HlInv, HlTypeOK
  <2>3. /\ hlPc' \in [HlThreads -> {"idle", "exchange", "spin", "own", "count", "disown", "unlock"}]
        /\ hlDepth' \in [HlThreads -> Nat]
    BY SMT DEF SpinUnlock, HlInv, HlTypeOK
  <2>. QED BY <2>1, <2>2, <2>3, Zenon DEF HlTypeOK
<1>2. hlCount = 0 /\ hlDepth[t] = 0 /\ hlTid # t
  BY SMT DEF SpinUnlock, HlInv, HlTypeOK, HasSpinLock
<1>3. \A u \in HlThreads : ~HasSpinLock(u)'
  BY <1>2, SMT DEF SpinUnlock, HlInv, HlTypeOK, HasSpinLock
<1>4. \A u \in HlThreads : hlPc'[u] = IF u = t THEN "idle" ELSE hlPc[u]
  BY SMT DEF SpinUnlock, HlInv, HlTypeOK
<1>. QED
  BY <1>1, <1>2, <1>3, <1>4, SMT DEF SpinUnlock, HlInv, HlTypeOK

\* HlInv holds in every reachable state (the induction).
THEOREM HlInvariant == HlSpec => []HlInv
<1>1. HlInit => HlInv
  BY HlInitInv
<1>2. HlInv /\ [HlNext]_hlVars => HlInv'
  <2>. SUFFICES ASSUME HlInv, [HlNext]_hlVars PROVE HlInv'
    OBVIOUS
  <2>1. CASE HlCreate
    BY <2>1, HlCreateInv
  <2>2. ASSUME NEW t \in HlThreads, HlStep(t)
        PROVE  HlInv'
    BY <2>2, HlLookInv, HlExchangeInv, HlOwnerInv, HlUnlockInv DEF HlStep
  <2>3. CASE UNCHANGED hlVars
    BY <2>3 DEF hlVars, HlInv, HlTypeOK, HasSpinLock
  <2>. QED BY <2>1, <2>2, <2>3 DEF HlNext
<1>. QED BY <1>1, <1>2, PTL DEF HlSpec

\* At most one thread is inside the locked heap, its name is the owner's and the
\* count is what it owes, and the spin lock is set only while somebody has it: for
\* RecursiveLockType over SpinLockType, whatever the threads and the depth.
THEOREM HeapLockExcludes == HlSpec => []OneThreadInside
<1>1. HlInv => OneThreadInside
  BY SMT DEF HlInv, OneThreadInside, HasSpinLock
<1>. QED BY <1>1, HlInvariant, PTL

-----------------------------------------------------------------------------
\* MmapHeap.

\* The first node with a key in a bin.
MhNodes == [key : Nat, value : Nat]
MhTables == [0 .. MhBins - 1 -> Seq(MhNodes)]

FirstNode(bin, key, i) ==
    i \in 1 .. Len(bin) /\ bin[i].key = key /\ \A j \in 1 .. i - 1 : bin[j].key # key
NoNode(bin, key) == \A j \in 1 .. Len(bin) : bin[j].key # key

LEMMA BinsAre ==
    ASSUME NEW T \in MhTables, NEW k \in Nat
    PROVE  BinIn(k) \in 0 .. MhBins - 1 /\ T[BinIn(k)] \in Seq(MhNodes) /\ Len(T[BinIn(k)]) \in Nat
<1>1. MhBins \in Nat \ {0}
    BY MhAssumption
<1>2. k % MhBins \in 0 .. MhBins - 1
    BY <1>1
<1>3. QED BY <1>2 DEF BinIn, MhTables

LEMMA NodeAtIsFirst ==
    ASSUME NEW T \in MhTables, NEW k \in Nat
    PROVE  \/ NodeAt(T, k) = 0 /\ NoNode(T[BinIn(k)], k)
           \/ FirstNode(T[BinIn(k)], k, NodeAt(T, k))
<1> DEFINE bin == T[BinIn(k)]
           I == {i \in 1 .. Len(bin) : bin[i].key = k}
<1>1. NodeAt(T, k) = IF I # {} THEN Min(I) ELSE 0
    BY DEF NodeAt, SelectInSeq
<1>2. Len(bin) \in Nat
    BY BinsAre
<1> HIDE DEF bin
<1>3. CASE I = {}
    BY <1>1, <1>3 DEF NoNode, bin
<1>4. CASE I # {}
    <2>1. I \subseteq Nat
        BY <1>2
    <2>2. \E n \in I : \A m \in I : n <= m
        BY <1>4, <2>1, LeastNatural
    <2>3. Min(I) \in I /\ \A m \in I : Min(I) <= m
        BY <2>2 DEF Min
    <2>4. PICK n \in I : n = Min(I) /\ \A m \in I : n <= m
        BY <2>3
    <2>5. \A j \in 1 .. n - 1 : bin[j].key # k
        <3> SUFFICES ASSUME NEW j \in 1 .. n - 1, bin[j].key = k PROVE FALSE
            OBVIOUS
        <3>1. n \in Nat /\ n <= Len(bin) /\ j \in 1 .. Len(bin)
            BY <1>2
        <3>2. j \in I
            BY <3>1
        <3>3. n <= j
            BY <2>4, <3>2
        <3>4. QED BY <3>1, <3>3
    <2>6. QED BY <1>1, <1>4, <2>4, <2>5 DEF FirstNode, bin
<1>5. QED BY <1>3, <1>4

LEMMA FirstNodeIsOne ==
    ASSUME NEW bin \in Seq(MhNodes), NEW k, NEW i, NEW j, FirstNode(bin, k, i)
    PROVE  ~NoNode(bin, k) /\ (FirstNode(bin, k, j) => i = j)
<1>1. i \in 1 .. Len(bin) /\ Len(bin) \in Nat /\ bin[i].key = k /\ \A m \in 1 .. i - 1 : bin[m].key # k
    BY DEF FirstNode
<1>2. ~NoNode(bin, k)
    BY <1>1 DEF NoNode
<1>3. ASSUME FirstNode(bin, k, j) PROVE i = j
    <2>1. j \in 1 .. Len(bin) /\ bin[j].key = k /\ \A m \in 1 .. j - 1 : bin[m].key # k
        BY <1>3 DEF FirstNode
    <2>2. i \notin 1 .. j - 1 /\ j \notin 1 .. i - 1
        BY <1>1, <2>1
    <2>3. QED BY <1>1, <2>1, <2>2
<1>4. QED BY <1>2, <1>3

\* What get returns.
LEMMA MapGetIs ==
    ASSUME NEW T \in MhTables, NEW k \in Nat
    PROVE  /\ NoNode(T[BinIn(k)], k) => MapGet(T, k) = 0 /\ NodeAt(T, k) = 0
           /\ \A i : FirstNode(T[BinIn(k)], k, i) =>
                        MapGet(T, k) = T[BinIn(k)][i].value /\ NodeAt(T, k) = i /\ i # 0
<1>1. T[BinIn(k)] \in Seq(MhNodes)
    BY BinsAre
<1>2. ASSUME NoNode(T[BinIn(k)], k) PROVE MapGet(T, k) = 0 /\ NodeAt(T, k) = 0
    <2>1. NodeAt(T, k) = 0
        BY <1>1, <1>2, NodeAtIsFirst, FirstNodeIsOne
    <2>2. QED BY <2>1 DEF MapGet
<1>3. ASSUME NEW i, FirstNode(T[BinIn(k)], k, i)
      PROVE  MapGet(T, k) = T[BinIn(k)][i].value /\ NodeAt(T, k) = i /\ i # 0
    <2>1. NodeAt(T, k) = i
        BY <1>1, <1>3, NodeAtIsFirst, FirstNodeIsOne
    <2>2. i # 0
        BY <1>3 DEF FirstNode
    <2>3. QED BY <2>1, <2>2 DEF MapGet
<1>4. QED BY <1>2, <1>3

\* If a key has the same node in two bins, or none in either, get finds the same.
LEMMA SameGet ==
    ASSUME NEW T \in MhTables, NEW U \in MhTables, NEW k \in Nat,
           \/ NoNode(T[BinIn(k)], k) /\ NoNode(U[BinIn(k)], k)
           \/ \E i, j : /\ FirstNode(T[BinIn(k)], k, i) /\ FirstNode(U[BinIn(k)], k, j)
                        /\ T[BinIn(k)][i].value = U[BinIn(k)][j].value
    PROVE  MapGet(T, k) = MapGet(U, k)
BY MapGetIs

LEMMA InsertGets ==
    ASSUME NEW T \in MhTables, NEW k \in Nat, NEW v \in Nat
    PROVE  /\ MapInsert(T, k, v) \in MhTables
           /\ MapGet(MapInsert(T, k, v), k) = v
           /\ \A j \in Nat \ {k} : MapGet(MapInsert(T, k, v), j) = MapGet(T, j)
<1> DEFINE node == [key |-> k, value |-> v]
           b == BinIn(k)
           bin == T[b]
           new == <<node>> \o bin
           U == MapInsert(T, k, v)
<1>1. b \in 0 .. MhBins - 1 /\ bin \in Seq(MhNodes) /\ Len(bin) \in Nat
    BY BinsAre
<1>2. node \in MhNodes /\ node.key = k /\ node.value = v
    BY DEF MhNodes
<1>3. U = [T EXCEPT ![b] = new]
    BY DEF MapInsert
<1> HIDE DEF node, b, bin, U
<1>4. new \in Seq(MhNodes) /\ Len(new) = Len(bin) + 1 /\ new[1] = node
      /\ \A i \in 1 .. Len(bin) : new[i + 1] = bin[i]
    <2>1. <<node>> \in Seq(MhNodes) /\ Len(<<node>>) = 1 /\ <<node>>[1] = node
        BY <1>2
    <2>2. new \in Seq(MhNodes) /\ Len(new) = 1 + Len(bin)
          /\ \A i \in 1 .. 1 + Len(bin) : new[i] = IF i <= 1 THEN <<node>>[i] ELSE bin[i - 1]
        <3> HIDE DEF new
        <3>1. new = <<node>> \o bin
            BY DEF new
        <3>2. QED BY <1>1, <2>1, <3>1, ConcatProperties
    <2> HIDE DEF new
    <2>3. 1 \in 1 .. 1 + Len(bin) /\ \A i \in 1 .. Len(bin) : i + 1 \in 1 .. 1 + Len(bin) /\ ~(i + 1 <= 1) /\ i + 1 - 1 = i
        BY <1>1
    <2>4. QED BY <1>1, <2>1, <2>2, <2>3
<1> HIDE DEF new
<1>5. U \in MhTables /\ U[b] = new /\ \A c \in (0 .. MhBins - 1) \ {b} : U[c] = T[c]
    BY <1>1, <1>3, <1>4 DEF MhTables
<1>6. MapGet(U, k) = v
    <2>1. FirstNode(new, k, 1)
        BY <1>1, <1>2, <1>4 DEF FirstNode
    <2>2. QED BY <1>2, <1>4, <1>5, <2>1, MapGetIs DEF b
<1>7. ASSUME NEW j \in Nat \ {k} PROVE MapGet(U, j) = MapGet(T, j)
    <2>1. CASE BinIn(j) # b
        <3>1. U[BinIn(j)] = T[BinIn(j)]
            BY <1>5, <2>1, BinsAre
        <3>2. NoNode(T[BinIn(j)], j) \/ \E i : FirstNode(T[BinIn(j)], j, i)
            BY NodeAtIsFirst
        <3>3. QED BY <1>5, <3>1, <3>2, SameGet
    <2>2. CASE BinIn(j) = b
        <3>1. CASE NoNode(bin, j)
            <4>1. \A i \in 1 .. Len(new) : i = 1 \/ (i - 1 \in 1 .. Len(bin) /\ i - 1 + 1 = i)
                BY <1>1, <1>4
            <4>2. NoNode(new, j)
                <5> SUFFICES ASSUME NEW i \in 1 .. Len(new) PROVE new[i].key # j
                    BY DEF NoNode
                <5>1. CASE i = 1
                    BY <1>2, <1>4, <5>1
                <5>2. CASE i # 1
                    BY <1>4, <3>1, <4>1, <5>2 DEF NoNode
                <5>3. QED BY <5>1, <5>2
            <4>3. QED BY <1>5, <2>2, <3>1, <4>2, SameGet DEF bin
        <3>2. CASE ~NoNode(bin, j)
            <4>1. PICK i : FirstNode(bin, j, i)
                BY <2>2, <3>2, NodeAtIsFirst DEF bin
            <4>2. i \in 1 .. Len(bin) /\ bin[i].key = j /\ \A m \in 1 .. i - 1 : bin[m].key # j
                BY <4>1 DEF FirstNode
            <4>3. i + 1 \in 1 .. Len(new) /\ new[i + 1] = bin[i]
                BY <1>1, <1>4, <4>2
            <4>4. \A m \in 1 .. i + 1 - 1 : new[m].key # j
                <5> SUFFICES ASSUME NEW m \in 1 .. i PROVE new[m].key # j
                    BY <4>2
                <5>1. CASE m = 1
                    BY <1>2, <1>4, <5>1
                <5>2. CASE m # 1
                    <6>1. m - 1 \in 1 .. i - 1 /\ m - 1 \in 1 .. Len(bin) /\ m - 1 + 1 = m
                        BY <1>1, <4>2, <5>2
                    <6>2. QED BY <1>4, <4>2, <6>1
                <5>3. QED BY <5>1, <5>2
            <4>5. FirstNode(new, j, i + 1)
                BY <4>2, <4>3, <4>4 DEF FirstNode
            <4>6. FirstNode(T[BinIn(j)], j, i) /\ FirstNode(U[BinIn(j)], j, i + 1)
                  /\ T[BinIn(j)][i].value = U[BinIn(j)][i + 1].value
                BY <1>5, <2>2, <4>1, <4>3, <4>5 DEF bin
            <4>7. QED BY <1>5, <4>6, SameGet
        <3>3. QED BY <3>1, <3>2
    <2>3. QED BY <2>1, <2>2
<1>8. QED BY <1>5, <1>6, <1>7 DEF U

LEMMA SetGets ==
    ASSUME NEW T \in MhTables, NEW k \in Nat, NEW v \in Nat
    PROVE  /\ MapSet(T, k, v) \in MhTables
           /\ MapGet(MapSet(T, k, v), k) = v
           /\ \A j \in Nat \ {k} : MapGet(MapSet(T, k, v), j) = MapGet(T, j)
<1>1. CASE ~FindBool(T, k)
    BY <1>1, InsertGets DEF MapSet
<1>2. CASE FindBool(T, k)
    <2> DEFINE b == BinIn(k)
               bin == T[b]
               i == NodeAt(T, k)
               node == [bin[i] EXCEPT !.value = v]
               new == [bin EXCEPT ![i] = node]
               U == MapSet(T, k, v)
    <2>1. b \in 0 .. MhBins - 1 /\ bin \in Seq(MhNodes) /\ Len(bin) \in Nat
        BY BinsAre
    <2>2. FirstNode(bin, k, i)
        BY <1>2, NodeAtIsFirst DEF FindBool
    <2>3. U = [T EXCEPT ![b] = new]
        BY <1>2 DEF MapSet
    <2>4. i \in 1 .. Len(bin) /\ bin[i].key = k
        BY <2>2 DEF FirstNode
    <2> HIDE DEF b, bin, i, U
    <2>5. node \in MhNodes /\ node.key = k /\ node.value = v
        <3>1. bin[i] \in MhNodes
            BY <2>1, <2>4
        <3>2. QED BY <2>4, <3>1 DEF MhNodes
    <2> HIDE DEF node
    <2>6. /\ new \in Seq(MhNodes) /\ Len(new) = Len(bin) /\ new[i] = node
          /\ \A m \in 1 .. Len(bin) : m # i => new[m] = bin[m]
        BY <2>1, <2>4, <2>5, ExceptSeq
    <2> HIDE DEF new
    <2>7. \A m \in 1 .. Len(bin) : new[m].key = bin[m].key
        BY <2>4, <2>5, <2>6
    <2>8. U \in MhTables /\ U[b] = new /\ \A c \in (0 .. MhBins - 1) \ {b} : U[c] = T[c]
        BY <2>1, <2>3, <2>6 DEF MhTables
    <2>9. \A j, n : FirstNode(bin, j, n) => FirstNode(new, j, n)
        <3> SUFFICES ASSUME NEW j, NEW n, FirstNode(bin, j, n) PROVE FirstNode(new, j, n)
            OBVIOUS
        <3>1. n \in 1 .. Len(bin) /\ bin[n].key = j /\ \A m \in 1 .. n - 1 : bin[m].key # j
            BY DEF FirstNode
        <3>2. \A m \in 1 .. n - 1 : m \in 1 .. Len(bin)
            BY <2>1, <3>1
        <3>3. QED BY <2>6, <2>7, <3>1, <3>2 DEF FirstNode
    <2>10. MapGet(U, k) = v
        <3>1. FirstNode(U[BinIn(k)], k, i)
            BY <2>2, <2>8, <2>9 DEF b
        <3>2. QED BY <2>5, <2>6, <2>8, <3>1, MapGetIs DEF b
    <2>11. ASSUME NEW j \in Nat \ {k} PROVE MapGet(U, j) = MapGet(T, j)
        <3>1. NoNode(T[BinIn(j)], j) \/ \E n : FirstNode(T[BinIn(j)], j, n)
            BY NodeAtIsFirst
        <3>2. CASE BinIn(j) # b
            <4>1. U[BinIn(j)] = T[BinIn(j)]
                BY <2>8, <3>2, BinsAre
            <4>2. QED BY <2>8, <3>1, <4>1, SameGet
        <3>3. CASE BinIn(j) = b /\ NoNode(bin, j)
            <4>1. NoNode(new, j)
                BY <2>6, <2>7, <3>3 DEF NoNode
            <4>2. QED BY <2>8, <3>3, <4>1, SameGet DEF bin
        <3>4. CASE BinIn(j) = b /\ \E n : FirstNode(bin, j, n)
            <4>1. PICK n : FirstNode(bin, j, n)
                BY <3>4
            <4>2. n \in 1 .. Len(bin) /\ n # i
                BY <2>4, <4>1 DEF FirstNode
            <4>3. FirstNode(T[BinIn(j)], j, n) /\ FirstNode(U[BinIn(j)], j, n)
                  /\ T[BinIn(j)][n].value = U[BinIn(j)][n].value
                BY <2>6, <2>8, <2>9, <3>4, <4>1, <4>2 DEF bin
            <4>4. QED BY <2>8, <4>3, SameGet
        <3>5. QED BY <3>1, <3>2, <3>3, <3>4 DEF bin
    <2>12. QED BY <2>8, <2>10, <2>11 DEF U
<1>3. QED BY <1>1, <1>2

LEMMA EraseGets ==
    ASSUME NEW T \in MhTables, NEW k \in Nat
    PROVE  /\ MapErase(T, k) \in MhTables
           /\ \A j \in Nat \ {k} : MapGet(MapErase(T, k), j) = MapGet(T, j)
<1>1. CASE NodeAt(T, k) = 0
    BY <1>1 DEF MapErase
<1>2. CASE NodeAt(T, k) # 0
    <2> DEFINE b == BinIn(k)
               bin == T[b]
               i == NodeAt(T, k)
               new == RemoveAt(bin, i)
               U == MapErase(T, k)
    <2>1. b \in 0 .. MhBins - 1 /\ bin \in Seq(MhNodes) /\ Len(bin) \in Nat
        BY BinsAre
    <2>2. i \in 1 .. Len(bin) /\ bin[i].key = k
        BY <1>2, NodeAtIsFirst DEF FirstNode
    <2>3. U = [T EXCEPT ![b] = new]
        BY <1>2 DEF MapErase
    <2> HIDE DEF b, bin, i, U
    <2>4. new \in Seq(MhNodes) /\ Len(new) = Len(bin) - 1
          /\ (\A j \in 1 .. i - 1 : new[j] = bin[j])
          /\ \A j \in i .. Len(bin) - 1 : new[j] = bin[j + 1]
        BY <2>1, <2>2, RemoveAtIs
    <2> HIDE DEF new
    <2>5. U \in MhTables /\ U[b] = new /\ \A c \in (0 .. MhBins - 1) \ {b} : U[c] = T[c]
        BY <2>1, <2>3, <2>4 DEF MhTables
    <2>6. \A m \in 1 .. Len(new) : \/ m \in 1 .. Len(bin) /\ new[m] = bin[m]
                                   \/ m + 1 \in 1 .. Len(bin) /\ new[m] = bin[m + 1]
        <3> SUFFICES ASSUME NEW m \in 1 .. Len(new)
                     PROVE  \/ m \in 1 .. Len(bin) /\ new[m] = bin[m]
                            \/ m + 1 \in 1 .. Len(bin) /\ new[m] = bin[m + 1]
            OBVIOUS
        <3>1. CASE m < i
            <4>1. m \in 1 .. i - 1 /\ m \in 1 .. Len(bin)
                BY <2>1, <2>2, <2>4, <3>1
            <4>2. QED BY <2>4, <4>1
        <3>2. CASE ~(m < i)
            <4>1. m \in i .. Len(bin) - 1 /\ m + 1 \in 1 .. Len(bin)
                BY <2>1, <2>2, <2>4, <3>2
            <4>2. QED BY <2>4, <4>1
        <3>3. QED BY <3>1, <3>2
    <2>7. ASSUME NEW j \in Nat \ {k} PROVE MapGet(U, j) = MapGet(T, j)
        <3>1. NoNode(T[BinIn(j)], j) \/ \E n : FirstNode(T[BinIn(j)], j, n)
            BY NodeAtIsFirst
        <3>2. CASE BinIn(j) # b
            <4>1. U[BinIn(j)] = T[BinIn(j)]
                BY <2>5, <3>2, BinsAre
            <4>2. QED BY <2>5, <3>1, <4>1, SameGet
        <3>3. CASE BinIn(j) = b /\ NoNode(bin, j)
            <4>1. NoNode(new, j)
                BY <2>6, <3>3 DEF NoNode
            <4>2. QED BY <2>5, <3>3, <4>1, SameGet DEF bin
        <3>4. CASE BinIn(j) = b /\ \E n : FirstNode(bin, j, n)
            <4>1. PICK n : FirstNode(bin, j, n)
                BY <3>4
            <4>2. n \in 1 .. Len(bin) /\ bin[n].key = j /\ n # i /\ \A m \in 1 .. n - 1 : bin[m].key # j
                BY <2>2, <4>1 DEF FirstNode
            <4>3. PICK p \in 1 .. Len(new) : FirstNode(new, j, p) /\ new[p].value = bin[n].value
                <5>1. CASE n < i
                    <6>1. n \in 1 .. i - 1 /\ n \in 1 .. Len(new) /\ \A m \in 1 .. n - 1 : m \in 1 .. i - 1
                        BY <2>1, <2>2, <2>4, <4>2, <5>1
                    <6>2. FirstNode(new, j, n) /\ new[n].value = bin[n].value
                        BY <2>4, <4>2, <6>1 DEF FirstNode
                    <6>3. QED BY <6>1, <6>2
                <5>2. CASE n > i
                    <6>1. n - 1 \in i .. Len(bin) - 1 /\ n - 1 \in 1 .. Len(new) /\ n - 1 + 1 = n
                        BY <2>1, <2>2, <2>4, <4>2, <5>2
                    <6>2. new[n - 1] = bin[n]
                        BY <2>4, <6>1
                    <6>3. \A m \in 1 .. n - 1 - 1 : new[m].key # j
                        <7> SUFFICES ASSUME NEW m \in 1 .. n - 1 - 1 PROVE new[m].key # j
                            OBVIOUS
                        <7>1. m \in 1 .. n - 1 /\ m + 1 \in 1 .. n - 1 /\ m \in 1 .. Len(new)
                            BY <2>1, <2>4, <4>2
                        <7>2. QED BY <2>6, <4>2, <7>1
                    <6>4. FirstNode(new, j, n - 1) /\ new[n - 1].value = bin[n].value
                        BY <4>2, <6>1, <6>2, <6>3 DEF FirstNode
                    <6>5. QED BY <6>1, <6>4
                <5>3. QED BY <2>1, <2>2, <4>2, <5>1, <5>2
            <4>4. FirstNode(T[BinIn(j)], j, n) /\ FirstNode(U[BinIn(j)], j, p)
                  /\ T[BinIn(j)][n].value = U[BinIn(j)][p].value
                BY <2>5, <3>4, <4>1, <4>3 DEF bin
            <4>5. QED BY <2>5, <4>4, SameGet
        <3>5. QED BY <3>1, <3>2, <3>3, <3>4 DEF bin
    <2>8. QED BY <2>5, <2>7 DEF U
<1>3. QED BY <1>1, <1>2

-----------------------------------------------------------------------------
Recording(t) == mhPc[t].at = "record"
LiveAt(p)    == Region(p, mhLive[p])
NewOf(t)     == Region(mhPc[t].ptr, mhPc[t].size)

MhTypes ==
    /\ mhTable \in MhTables
    /\ mhLock \in MhThreads \cup {MhNone}
    /\ mhPc \in [MhThreads -> [at : {"idle", "record", "erase"}, ptr : Nat, size : Nat]]
    /\ DOMAIN mhLive \subseteq Nat
    /\ mhLive \in [DOMAIN mhLive -> Nat \ {0}]
    /\ \A t \in MhThreads : Recording(t) => mhPc[t].size # 0

\* Only the thread that erases has the lock, and what it erases nobody holds.
ErasesAlone ==
    /\ \A t \in MhThreads : mhPc[t].at = "erase" <=> mhLock = t
    /\ \A t \in MhThreads : mhPc[t].at = "erase" => mhPc[t].ptr \notin DOMAIN mhLive

\* A page is in one region at most.
RegionsApart ==
    /\ \A p, q \in DOMAIN mhLive : \A x : x \in LiveAt(p) /\ x \in LiveAt(q) => p = q
    /\ \A t, u \in MhThreads : \A x :
            Recording(t) /\ Recording(u) /\ x \in NewOf(t) /\ x \in NewOf(u) => t = u
    /\ \A p \in DOMAIN mhLive : \A t \in MhThreads : \A x :
            ~(Recording(t) /\ x \in LiveAt(p) /\ x \in NewOf(t))

MappedAreHeld ==
    \A x : x \in mhMapped <=> \/ \E p \in DOMAIN mhLive : x \in LiveAt(p)
                              \/ \E t \in MhThreads : Recording(t) /\ x \in NewOf(t)

\* The invariant.
MhInv ==
    /\ MhTypes /\ ErasesAlone /\ RegionsApart /\ MappedAreHeld
    /\ \A p \in DOMAIN mhLive : MapGet(mhTable, p) = mhLive[p]

LEMMA RegionsStart == ASSUME NEW p \in Nat, NEW n \in Nat \ {0} PROVE p \in Region(p, n)
BY DEF Region

LEMMA MhMapKeeps ==
    ASSUME MhInv, NEW t \in MhThreads, NEW p \in 1 .. MhPages, NEW n \in MhSizes, MhMap(t, p, n)
    PROVE  MhInv'
<1> DEFINE new == [at |-> "record", ptr |-> p, size |-> n]
<1>1. /\ mhPc[t].at = "idle" /\ n \in Nat \ {0} /\ p \in Nat
      /\ \A x \in Region(p, n) : x \notin mhMapped
      /\ mhMapped' = mhMapped \cup Region(p, n)
      /\ mhPc' = [mhPc EXCEPT ![t] = new]
      /\ mhTable' = mhTable /\ mhLock' = mhLock /\ mhLive' = mhLive
    BY MhAssumption DEF MhMap
<1>2. mhPc'[t] = new /\ \A u \in MhThreads \ {t} : mhPc'[u] = mhPc[u]
    BY <1>1 DEF MhInv, MhTypes
<1>3. mhPc' \in [MhThreads -> [at : {"idle", "record", "erase"}, ptr : Nat, size : Nat]]
    BY <1>1 DEF MhInv, MhTypes
<1>4. /\ \A q : LiveAt(q)' = LiveAt(q)
      /\ \A u \in MhThreads \ {t} : (NewOf(u)' = NewOf(u)) /\ (Recording(u)' <=> Recording(u))
      /\ NewOf(t)' = Region(p, n) /\ Recording(t)' /\ ~Recording(t)
    BY <1>1, <1>2 DEF LiveAt, NewOf, Recording
<1>5. MhTypes'
    BY <1>1, <1>2, <1>3 DEF MhInv, MhTypes, Recording
<1>6. ErasesAlone'
    BY <1>1, <1>2, <1>3 DEF MhInv, ErasesAlone
<1>7. RegionsApart'
    BY <1>1, <1>4 DEF MhInv, RegionsApart, MappedAreHeld
<1>8. MappedAreHeld'
    BY <1>1, <1>4 DEF MhInv, MappedAreHeld
<1>9. QED BY <1>1, <1>5, <1>6, <1>7, <1>8 DEF MhInv

LEMMA MhRecordKeeps ==
    ASSUME MhInv, NEW t \in MhThreads, MhRecord(t)
    PROVE  MhInv'
<1>p. PICK p : p = mhPc[t].ptr
    OBVIOUS
<1>n. PICK n : n = mhPc[t].size
    OBVIOUS
<1>1. /\ Recording(t) /\ mhLock = MhNone /\ p \in Nat /\ n \in Nat \ {0}
      /\ mhTable' = MapSet(mhTable, p, n)
      /\ mhLive' = [q \in DOMAIN mhLive \cup {p} |-> IF q = p THEN n ELSE mhLive[q]]
      /\ mhPc' = [mhPc EXCEPT ![t] = MhIdle]
      /\ mhLock' = mhLock /\ mhMapped' = mhMapped
    BY <1>p, <1>n DEF MhRecord, Recording, MhInv, MhTypes
<1>2. mhPc'[t] = MhIdle /\ \A u \in MhThreads \ {t} : mhPc'[u] = mhPc[u]
    BY <1>1 DEF MhInv, MhTypes
<1>3. mhPc' \in [MhThreads -> [at : {"idle", "record", "erase"}, ptr : Nat, size : Nat]]
    BY <1>1 DEF MhInv, MhTypes, MhIdle
<1>4. p \notin DOMAIN mhLive
    <2>1. SUFFICES ASSUME p \in DOMAIN mhLive PROVE FALSE
        OBVIOUS
    <2>2. p \in LiveAt(p) /\ p \in NewOf(t)
        BY <1>p, <1>n, <1>1, <2>1, RegionsStart DEF LiveAt, NewOf, MhInv, MhTypes
    <2>3. QED BY <1>1, <2>1, <2>2 DEF MhInv, RegionsApart
<1>5. /\ DOMAIN mhLive' = DOMAIN mhLive \cup {p} /\ mhLive'[p] = n
      /\ \A q \in DOMAIN mhLive : mhLive'[q] = mhLive[q] /\ q # p
    BY <1>1, <1>4
<1>6. /\ \A q \in DOMAIN mhLive : LiveAt(q)' = LiveAt(q)
      /\ LiveAt(p)' = NewOf(t)
      /\ \A u \in MhThreads \ {t} : (NewOf(u)' = NewOf(u)) /\ (Recording(u)' <=> Recording(u))
      /\ ~Recording(t)'
    <2>1. ~Recording(t)'
        BY <1>2 DEF Recording, MhIdle
    <2>2. QED BY <1>p, <1>n, <1>2, <1>5, <2>1 DEF LiveAt, NewOf, Recording
<1>7. /\ mhTable' \in MhTables /\ MapGet(mhTable', p) = n
      /\ \A q \in Nat \ {p} : MapGet(mhTable', q) = MapGet(mhTable, q)
    BY <1>1, SetGets DEF MhInv, MhTypes
<1>8. MhTypes'
    <2>1. mhLive' \in [DOMAIN mhLive' -> Nat \ {0}] /\ DOMAIN mhLive' \subseteq Nat
        BY <1>1, <1>5 DEF MhInv, MhTypes
    <2>2. \A u \in MhThreads : Recording(u)' => mhPc'[u].size # 0
        BY <1>2, <1>6 DEF MhInv, MhTypes, Recording
    <2>3. QED BY <1>1, <1>3, <1>7, <2>1, <2>2 DEF MhInv, MhTypes
<1>9. ErasesAlone'
    <2>1. \A u \in MhThreads : mhPc[u].at # "erase"
        BY <1>1, MhAssumption DEF MhInv, ErasesAlone
    <2>2. \A u \in MhThreads : mhPc'[u].at # "erase"
        BY <1>2, <2>1 DEF MhIdle
    <2>3. QED BY <1>1, <2>2, MhAssumption DEF ErasesAlone
<1>10. RegionsApart'
    BY <1>1, <1>5, <1>6 DEF MhInv, RegionsApart
<1>11. MappedAreHeld'
    BY <1>1, <1>5, <1>6 DEF MhInv, MappedAreHeld
<1>12. \A q \in DOMAIN mhLive' : MapGet(mhTable', q) = mhLive'[q]
    BY <1>5, <1>7 DEF MhInv, MhTypes
<1>13. QED BY <1>8, <1>9, <1>10, <1>11, <1>12 DEF MhInv

\* Both frees let go of a region.
LEMMA ReleaseKeeps ==
    ASSUME MhInv, NEW p \in DOMAIN mhLive,
           mhMapped' = mhMapped \ Region(p, mhLive[p]), mhLive' = Released(p),
           \A t \in MhThreads : (Recording(t)' <=> Recording(t)) /\ (Recording(t) => NewOf(t)' = NewOf(t))
    PROVE  RegionsApart' /\ MappedAreHeld'
<1>1. DOMAIN mhLive' = DOMAIN mhLive \ {p} /\ \A q \in DOMAIN mhLive' : mhLive'[q] = mhLive[q]
    BY DEF Released
<1>2. \A q \in DOMAIN mhLive' : LiveAt(q)' = LiveAt(q)
    BY <1>1 DEF LiveAt
<1>3. mhMapped' = mhMapped \ LiveAt(p)
    BY DEF LiveAt
<1>4. RegionsApart'
    BY <1>1, <1>2 DEF MhInv, RegionsApart
<1>5. MappedAreHeld'
    <2> SUFFICES ASSUME NEW x
                 PROVE  x \in mhMapped' <=> \/ \E q \in DOMAIN mhLive' : x \in LiveAt(q)'
                                            \/ \E t \in MhThreads : Recording(t)' /\ x \in NewOf(t)'
        BY DEF MappedAreHeld
    <2>1. CASE x \in LiveAt(p)
        BY <1>1, <1>2, <1>3, <2>1 DEF MhInv, RegionsApart
    <2>2. CASE x \notin LiveAt(p)
        <3>1. x \in mhMapped' <=> x \in mhMapped
            BY <1>3, <2>2
        <3>2. x \in mhMapped <=> \/ \E q \in DOMAIN mhLive : x \in LiveAt(q)
                                 \/ \E t \in MhThreads : Recording(t) /\ x \in NewOf(t)
            BY DEF MhInv, MappedAreHeld
        <3>3. (\E q \in DOMAIN mhLive : x \in LiveAt(q)) <=> (\E q \in DOMAIN mhLive' : x \in LiveAt(q)')
            BY <1>1, <1>2, <2>2
        <3>4. QED BY <3>1, <3>2, <3>3
    <2>3. QED BY <2>1, <2>2
<1>6. QED BY <1>4, <1>5

LEMMA MhUnmapKeeps ==
    ASSUME MhInv, NEW t \in MhThreads, NEW p, MhUnmap(t, p)
    PROVE  MhInv'
<1> DEFINE new == [at |-> "erase", ptr |-> p, size |-> 0]
<1>1. /\ mhPc[t].at = "idle" /\ p \in DOMAIN mhLive /\ p \in Nat /\ mhLock = MhNone /\ mhLock' = t
      /\ mhMapped' = mhMapped \ Region(p, mhLive[p])
      /\ mhLive' = Released(p) /\ mhTable' = mhTable
      /\ mhPc' = [mhPc EXCEPT ![t] = new]
    BY DEF MhUnmap, MhInv, MhTypes
<1>2. mhPc'[t] = new /\ \A u \in MhThreads \ {t} : mhPc'[u] = mhPc[u]
    BY <1>1 DEF MhInv, MhTypes
<1>3. mhPc' \in [MhThreads -> [at : {"idle", "record", "erase"}, ptr : Nat, size : Nat]]
    BY <1>1 DEF MhInv, MhTypes
<1>4. \A u \in MhThreads : (Recording(u)' <=> Recording(u)) /\ (Recording(u) => NewOf(u)' = NewOf(u))
    BY <1>1, <1>2 DEF Recording, NewOf
<1>5. DOMAIN mhLive' = DOMAIN mhLive \ {p} /\ \A q \in DOMAIN mhLive' : mhLive'[q] = mhLive[q]
    BY <1>1 DEF Released
<1>6. RegionsApart' /\ MappedAreHeld'
    <2>1. mhMapped' = mhMapped \ Region(p, mhLive[p]) /\ mhLive' = Released(p)
        BY <1>1 DEF MhInv
    <2>2. QED BY <1>1, <1>4, <2>1, ReleaseKeeps
<1>7. MhTypes'
    <2>1. mhLive' \in [DOMAIN mhLive' -> Nat \ {0}] /\ DOMAIN mhLive' \subseteq Nat
        BY <1>1 DEF MhInv, MhTypes, Released
    <2>2. \A u \in MhThreads : Recording(u)' => mhPc'[u].size # 0
        BY <1>1, <1>2 DEF MhInv, MhTypes, Recording
    <2>3. QED BY <1>1, <1>3, <2>1, <2>2 DEF MhInv, MhTypes
<1>8. ErasesAlone'
    <2>1. \A u \in MhThreads : mhPc[u].at # "erase"
        BY <1>1, MhAssumption DEF MhInv, ErasesAlone
    <2>2. \A u \in MhThreads : mhPc'[u].at = "erase" <=> u = t
        BY <1>2, <2>1
    <2>3. QED BY <1>1, <1>2, <1>5, <2>2 DEF ErasesAlone
<1>9. \A q \in DOMAIN mhLive' : MapGet(mhTable', q) = mhLive'[q]
    BY <1>1, <1>5 DEF MhInv
<1>10. QED BY <1>6, <1>7, <1>8, <1>9 DEF MhInv

LEMMA MhFreeSizedKeeps ==
    ASSUME MhInv, NEW t \in MhThreads, NEW p, MhFreeSized(t, p)
    PROVE  MhInv'
<1>1. /\ p \in DOMAIN mhLive
      /\ mhMapped' = mhMapped \ Region(p, mhLive[p]) /\ mhLive' = Released(p)
      /\ mhTable' = mhTable /\ mhLock' = mhLock /\ mhPc' = mhPc
    BY DEF MhFreeSized
<1>2. DOMAIN mhLive' = DOMAIN mhLive \ {p} /\ \A q \in DOMAIN mhLive' : mhLive'[q] = mhLive[q]
    BY <1>1 DEF Released
<1>3. \A u \in MhThreads : (Recording(u)' <=> Recording(u)) /\ (Recording(u) => NewOf(u)' = NewOf(u))
    BY <1>1 DEF Recording, NewOf
<1>4. RegionsApart' /\ MappedAreHeld'
    BY <1>1, <1>3, ReleaseKeeps
<1>5. MhTypes'
    <2>1. mhLive' \in [DOMAIN mhLive' -> Nat \ {0}] /\ DOMAIN mhLive' \subseteq Nat
        BY <1>1 DEF MhInv, MhTypes, Released
    <2>2. QED BY <1>1, <2>1 DEF MhInv, MhTypes, Recording
<1>6. ErasesAlone'
    BY <1>1, <1>2 DEF MhInv, ErasesAlone
<1>7. \A q \in DOMAIN mhLive' : MapGet(mhTable', q) = mhLive'[q]
    BY <1>1, <1>2 DEF MhInv
<1>8. QED BY <1>4, <1>5, <1>6, <1>7 DEF MhInv

LEMMA MhEraseKeeps ==
    ASSUME MhInv, NEW t \in MhThreads, MhErase(t)
    PROVE  MhInv'
<1>p. PICK p : p = mhPc[t].ptr
    OBVIOUS
<1>1. /\ mhPc[t].at = "erase" /\ p \in Nat /\ mhTable' = MapErase(mhTable, p)
      /\ mhLock' = MhNone /\ mhPc' = [mhPc EXCEPT ![t] = MhIdle]
      /\ mhMapped' = mhMapped /\ mhLive' = mhLive
    BY <1>p DEF MhErase, MhInv, MhTypes
<1>2. mhPc'[t] = MhIdle /\ \A u \in MhThreads \ {t} : mhPc'[u] = mhPc[u]
    BY <1>1 DEF MhInv, MhTypes
<1>3. mhPc' \in [MhThreads -> [at : {"idle", "record", "erase"}, ptr : Nat, size : Nat]]
    BY <1>1 DEF MhInv, MhTypes, MhIdle
<1>4. /\ \A u \in MhThreads : (Recording(u)' <=> Recording(u)) /\ (Recording(u) => NewOf(u)' = NewOf(u))
      /\ \A q : LiveAt(q)' = LiveAt(q)
    BY <1>1, <1>2 DEF Recording, NewOf, LiveAt, MhIdle
<1>5. /\ mhTable' \in MhTables
      /\ \A q \in Nat \ {p} : MapGet(mhTable', q) = MapGet(mhTable, q)
    BY <1>1, EraseGets DEF MhInv, MhTypes
<1>6. p \notin DOMAIN mhLive /\ mhLock = t
    BY <1>p, <1>1 DEF MhInv, ErasesAlone
<1>7. MhTypes'
    <2>1. \A u \in MhThreads : Recording(u)' => mhPc'[u].size # 0
        BY <1>2, <1>4 DEF MhInv, MhTypes, Recording, MhIdle
    <2>2. QED BY <1>1, <1>3, <1>5, <2>1 DEF MhInv, MhTypes
<1>8. ErasesAlone'
    <2>1. \A u \in MhThreads : mhPc'[u].at # "erase"
        <3>1. \A u \in MhThreads \ {t} : mhPc[u].at # "erase"
            BY <1>6 DEF MhInv, ErasesAlone
        <3>2. QED BY <1>2, <3>1 DEF MhIdle
    <2>2. QED BY <1>1, <2>1, MhAssumption DEF ErasesAlone
<1>9. RegionsApart'
    BY <1>1, <1>4 DEF MhInv, RegionsApart
<1>10. MappedAreHeld'
    BY <1>1, <1>4 DEF MhInv, MappedAreHeld
<1>11. \A q \in DOMAIN mhLive' : MapGet(mhTable', q) = mhLive'[q]
    BY <1>1, <1>5, <1>6 DEF MhInv, MhTypes
<1>12. QED BY <1>7, <1>8, <1>9, <1>10, <1>11 DEF MhInv

LEMMA MhInitGood == MhInit => MhInv
<1> SUFFICES ASSUME MhInit PROVE MhInv
    OBVIOUS
<1>1. mhPc = [t \in MhThreads |-> MhIdle] /\ mhLock = MhNone /\ mhLive = <<>> /\ DOMAIN mhLive = {} /\ mhMapped = {}
    BY DEF MhInit
<1>2. mhTable \in MhTables
    BY DEF MhInit, MhTables
<1>3. mhPc \in [MhThreads -> [at : {"idle", "record", "erase"}, ptr : Nat, size : Nat]]
    BY <1>1 DEF MhIdle
<1>4. \A t \in MhThreads : mhPc[t].at = "idle"
    BY <1>1 DEF MhIdle
<1>5. mhLive \in [DOMAIN mhLive -> Nat \ {0}]
    BY <1>1
<1>6. MhTypes
    BY <1>1, <1>2, <1>3, <1>4, <1>5 DEF MhTypes, Recording
<1>7. ErasesAlone
    BY <1>1, <1>4, MhAssumption DEF ErasesAlone
<1>8. RegionsApart /\ MappedAreHeld
    BY <1>1, <1>4 DEF RegionsApart, MappedAreHeld, Recording
<1>9. QED BY <1>1, <1>6, <1>7, <1>8 DEF MhInv

LEMMA MhStepsGood == MhInv /\ [MhNext]_mhVars => MhInv'
<1> SUFFICES ASSUME MhInv, [MhNext]_mhVars PROVE MhInv'
    OBVIOUS
<1>1. CASE UNCHANGED mhVars
    BY <1>1 DEF mhVars, MhInv, MhTypes, ErasesAlone, RegionsApart, MappedAreHeld, Recording, LiveAt, NewOf
<1>2. CASE MhNext
    BY <1>2, MhMapKeeps, MhRecordKeeps, MhUnmapKeeps, MhFreeSizedKeeps, MhEraseKeeps DEF MhNext
<1>3. QED BY <1>1, <1>2

\* Whatever the threads, the number of bins and the regions, MmapHeap's map has
\* the size of every region that is held, and no page stays mapped for nobody.
THEOREM HeldRegionsAreRecorded == MhSpec => []HeldRegionsRecorded
<1>1. MhInv => HeldRegionsRecorded
    <2> SUFFICES ASSUME MhInv PROVE HeldRegionsRecorded
        OBVIOUS
    <2>1. \A p \in DOMAIN mhLive : MapGet(mhTable, p) = mhLive[p]
        BY DEF MhInv
    <2>2. mhMapped = (UNION {Region(p, mhLive[p]) : p \in DOMAIN mhLive})
                     \cup (UNION {Region(mhPc[t].ptr, mhPc[t].size) :
                                  t \in {s \in MhThreads : mhPc[s].at = "record"}})
        <3> SUFFICES ASSUME NEW x
                     PROVE  x \in mhMapped <=>
                            \/ x \in UNION {Region(p, mhLive[p]) : p \in DOMAIN mhLive}
                            \/ x \in UNION {Region(mhPc[t].ptr, mhPc[t].size) :
                                            t \in {s \in MhThreads : mhPc[s].at = "record"}}
            OBVIOUS
        <3>1. x \in UNION {Region(p, mhLive[p]) : p \in DOMAIN mhLive} <=> \E p \in DOMAIN mhLive : x \in LiveAt(p)
            BY DEF LiveAt
        <3>2. x \in UNION {Region(mhPc[t].ptr, mhPc[t].size) : t \in {s \in MhThreads : mhPc[s].at = "record"}}
                <=> \E t \in MhThreads : Recording(t) /\ x \in NewOf(t)
            BY DEF NewOf, Recording
        <3>3. QED BY <3>1, <3>2 DEF MhInv, MappedAreHeld
    <2>3. QED BY <2>1, <2>2 DEF HeldRegionsRecorded
<1>2. QED BY <1>1, MhInitGood, MhStepsGood, PTL DEF MhSpec

-----------------------------------------------------------------------------
\* AlignedSlotHeap.

AsPcs == [at : {"idle", "get", "reget", "release", "put", "reput", "check"}, chunk : AsChunks \cup {AsNone},
          bit : 0 .. AsSlots, seen : SUBSET (0 .. AsSlots)]

AsTypes ==
    /\ asBitmap \in [AsChunks -> SUBSET (0 .. AsSlots)]
    /\ asReleased \in [AsChunks -> BOOLEAN]
    /\ asMine \in AsChunks \cup {AsNone}
    /\ asList \in Seq(AsChunks)
    /\ asMade \subseteq AsChunks
    /\ asPc \in [AsThreads -> AsPcs]
    /\ asHeld \subseteq AsChunks \X (1 .. AsSlots)

BitsAreSlots ==
    \A c \in asMade : /\ 0 \in asBitmap[c]
                      /\ \A b \in 1 .. AsSlots : b \in asBitmap[c] <=> TakenOut(c, b)

\* Slots are of chunks that are made, and are given back once.
SlotsApart ==
    /\ \A c, b : TakenOut(c, b) => c \in asMade /\ b \in 1 .. AsSlots
    /\ \A t, u \in AsThreads : \A c, b : Putting(t, c, b) /\ Putting(u, c, b) => t = u
    /\ \A t \in AsThreads : \A c, b : Putting(t, c, b) => <<c, b>> \notin asHeld

ListedAreFree ==
    /\ \A i \in 1 .. Len(asList) :
            /\ asList[i] \in asMade /\ asBitmap[asList[i]] = {0} /\ asReleased[asList[i]]
            /\ asList[i] # asMine
            /\ \A j \in 1 .. Len(asList) : asList[i] = asList[j] => i = j
    /\ Len(asList) <= AsMaxFree + 1

\* The owner's chunk is in use, and only the owner takes slots.
OwnerAllocates ==
    /\ asMine # AsNone => asMine \in asMade /\ ~asReleased[asMine]
    /\ asPc[AsOwner].at = "get" =>
            /\ asMine # AsNone /\ asPc[AsOwner].chunk = asMine
            /\ asPc[AsOwner].bit \in 1 .. AsSlots /\ asPc[AsOwner].bit \notin asPc[AsOwner].seen
    /\ asPc[AsOwner].at = "release" => asMine # AsNone
    /\ \A t \in AsThreads \ {AsOwner} : asPc[t].at \notin {"get", "release"}

AsGood == AsTypes /\ BitsAreSlots /\ SlotsApart /\ ListedAreFree /\ OwnerAllocates

\* What the lock gives: one thread at a time is between the reading of a bitmap
\* and what follows from it ...
OneInHeap == \A t, u \in AsThreads : asPc[t].at # "idle" /\ asPc[u].at # "idle" => t = u

\* ... so the bitmap that is exchanged is the one that was read, nobody has to try
\* again, and a chunk found empty is still empty and nowhere on the list when it
\* goes back.
Fresh(t) ==
    /\ asPc[t].at \notin {"reget", "reput"}
    /\ asPc[t].at \in {"get", "put"} => asBitmap[asPc[t].chunk] = asPc[t].seen
    /\ asPc[t].at = "check" =>
            /\ asPc[t].chunk \in asMade /\ asBitmap[asPc[t].chunk] = {0}
            /\ \A i \in 1 .. Len(asList) : asList[i] # asPc[t].chunk

NothingStale == \A t \in AsThreads : Fresh(t)

\* The invariant.
AsInv == AsGood /\ OneInHeap /\ NothingStale

LEMMA FirstUnsetIs ==
    ASSUME NEW bits \in SUBSET (0 .. AsSlots), bits # AllBits, 0 \in bits
    PROVE  FirstUnset(bits) \in 1 .. AsSlots /\ FirstUnset(bits) \notin bits
<1>0. AsSlots \in Nat
    BY AsAssumption
<1> DEFINE unset == (0 .. AsSlots) \ bits
<1>1. unset \subseteq Nat /\ unset # {}
    <2>1. unset \subseteq Nat
        BY <1>0
    <2>2. SUFFICES ASSUME unset = {} PROVE FALSE
        BY <2>1
    <2>3. \A b : b \in bits <=> b \in 0 .. AsSlots
        BY <2>2
    <2>4. bits = 0 .. AsSlots
        BY <2>3
    <2>5. QED BY <2>4 DEF AllBits
<1>2. PICK b \in unset : \A a \in unset : b <= a
    BY <1>1, LeastNatural
<1>3. \A a \in 0 .. b - 1 : a \in bits
    <2> SUFFICES ASSUME NEW a \in 0 .. b - 1, a \notin bits PROVE FALSE
        OBVIOUS
    <2>1. b \in 0 .. AsSlots /\ a \in 0 .. AsSlots
        BY <1>0, <1>2
    <2>2. b <= a
        BY <1>2, <2>1
    <2>3. QED BY <1>0, <2>1, <2>2
<1>4. \E d \in 0 .. AsSlots : d \notin bits /\ \A a \in 0 .. d - 1 : a \in bits
    BY <1>2, <1>3
<1>5. FirstUnset(bits) \in 0 .. AsSlots /\ FirstUnset(bits) \notin bits
    BY <1>4 DEF FirstUnset
<1>6. FirstUnset(bits) # 0
    BY <1>5
<1>7. QED BY <1>0, <1>5, <1>6

\* What a thread that starts or stops nothing changes.
LEMMA SamePuts ==
    ASSUME asHeld' = asHeld, \A t \in AsThreads : \A c, b : Putting(t, c, b)' <=> Putting(t, c, b)
    PROVE  /\ \A c, b : TakenOut(c, b)' <=> TakenOut(c, b)
           /\ SlotsApart /\ asMade \subseteq asMade' => SlotsApart'
<1>1. \A c, b : TakenOut(c, b)' <=> TakenOut(c, b)
    BY DEF TakenOut
<1>2. ASSUME SlotsApart, asMade \subseteq asMade' PROVE SlotsApart'
    BY <1>1, <1>2 DEF SlotsApart
<1>3. QED BY <1>1, <1>2

LEMMA TakeListedKeeps == ASSUME AsGood, TakeListed PROVE AsGood'
<1> DEFINE c == Head(asList)
           rest == Tail(asList)
<1>1. /\ asPc[AsOwner].at = "idle" /\ asMine = AsNone /\ asList # <<>>
      /\ asList \in Seq(AsChunks) /\ asReleased \in [AsChunks -> BOOLEAN]
      /\ asMine' = c /\ asList' = rest /\ asReleased' = [asReleased EXCEPT ![c] = FALSE]
      /\ asBitmap' = asBitmap /\ asMade' = asMade /\ asPc' = asPc /\ asHeld' = asHeld
    BY DEF TakeListed, AsGood, AsTypes
<1>2. /\ c \in AsChunks /\ rest \in Seq(AsChunks) /\ Len(rest) = Len(asList) - 1 /\ c = asList[1]
      /\ Len(asList) \in Nat /\ 1 \in 1 .. Len(asList)
      /\ \A i \in 1 .. Len(rest) : rest[i] = asList[i + 1] /\ i + 1 \in 1 .. Len(asList)
    BY <1>1, HeadTailProperties
<1>3. asReleased' \in [AsChunks -> BOOLEAN] /\ ~asReleased'[c]
      /\ \A d \in AsChunks \ {c} : asReleased'[d] = asReleased[d]
    BY <1>1, <1>2
<1>4. AsTypes'
    BY <1>1, <1>2, <1>3 DEF AsGood, AsTypes
<1>5. \A t \in AsThreads : \A d, b : Putting(t, d, b)' <=> Putting(t, d, b)
    BY <1>1 DEF Putting
<1>6. BitsAreSlots' /\ SlotsApart'
    BY <1>1, <1>5, SamePuts DEF AsGood, BitsAreSlots
<1> HIDE DEF c, rest
<1>7. ListedAreFree'
    <2>1. Len(rest) <= AsMaxFree + 1
        BY <1>2, AsAssumption DEF AsGood, ListedAreFree
    <2>2. ASSUME NEW i \in 1 .. Len(rest)
          PROVE  /\ rest[i] \in asMade /\ asBitmap[rest[i]] = {0} /\ asReleased[rest[i]] /\ rest[i] # c
                 /\ \A j \in 1 .. Len(rest) : rest[i] = rest[j] => i = j
        <3>1. rest[i] = asList[i + 1] /\ i + 1 \in 1 .. Len(asList)
            BY <1>2
        <3>2. asList[i + 1] \in asMade /\ asBitmap[asList[i + 1]] = {0} /\ asReleased[asList[i + 1]]
            BY <3>1 DEF AsGood, ListedAreFree
        <3>3. rest[i] # c
            <4>1. SUFFICES ASSUME asList[i + 1] = asList[1] PROVE FALSE
                BY <1>2, <3>1
            <4>2. i + 1 = 1
                BY <1>2, <3>1, <4>1 DEF AsGood, ListedAreFree
            <4>3. QED BY <4>2
        <3>4. ASSUME NEW j \in 1 .. Len(rest), rest[i] = rest[j] PROVE i = j
            <4>1. asList[i + 1] = asList[j + 1] /\ j + 1 \in 1 .. Len(asList)
                BY <1>2, <3>1, <3>4
            <4>2. i + 1 = j + 1
                BY <3>1, <4>1 DEF AsGood, ListedAreFree
            <4>3. QED BY <4>2
        <3>5. QED BY <3>1, <3>2, <3>3, <3>4
    <2>3. \A i \in 1 .. Len(rest) : rest[i] \in AsChunks /\ asReleased'[rest[i]]
        BY <1>2, <1>3, <2>2
    <2>4. QED BY <1>1, <2>1, <2>2, <2>3 DEF ListedAreFree
<1>8. OwnerAllocates'
    <2>1. c \in asMade
        BY <1>2 DEF AsGood, ListedAreFree
    <2>2. QED BY <1>1, <1>3, <2>1 DEF AsGood, OwnerAllocates
<1>9. QED BY <1>4, <1>6, <1>7, <1>8 DEF AsGood

LEMMA MakeAlignedKeeps == ASSUME AsGood, NEW c \in AsChunks, MakeAligned(c) PROVE AsGood'
<1>1. /\ asPc[AsOwner].at = "idle" /\ asMine = AsNone /\ c \notin asMade /\ asList = <<>>
      /\ asMine' = c /\ asMade' = asMade \cup {c}
      /\ asBitmap' = [asBitmap EXCEPT ![c] = {0}]
      /\ asReleased' = [asReleased EXCEPT ![c] = FALSE]
      /\ asList' = asList /\ asPc' = asPc /\ asHeld' = asHeld
    BY DEF MakeAligned
<1>2. /\ asBitmap' \in [AsChunks -> SUBSET (0 .. AsSlots)] /\ asBitmap'[c] = {0}
      /\ \A d \in AsChunks \ {c} : asBitmap'[d] = asBitmap[d]
      /\ asReleased' \in [AsChunks -> BOOLEAN] /\ ~asReleased'[c]
    <2>1. 0 \in 0 .. AsSlots
        BY AsAssumption
    <2>2. QED BY <1>1, <2>1 DEF AsGood, AsTypes
<1>3. AsTypes'
    BY <1>1, <1>2 DEF AsGood, AsTypes
<1>4. \A t \in AsThreads : \A d, b : Putting(t, d, b)' <=> Putting(t, d, b)
    BY <1>1 DEF Putting
<1>5. SlotsApart' /\ \A d, b : TakenOut(d, b)' <=> TakenOut(d, b)
    BY <1>1, <1>4, SamePuts DEF AsGood
<1>6. BitsAreSlots'
    <2>1. \A b : ~TakenOut(c, b)
        BY <1>1 DEF AsGood, SlotsApart
    <2>2. \A b \in 1 .. AsSlots : b \notin {0}
        OBVIOUS
    <2>3. asMade \subseteq AsChunks
        BY DEF AsGood, AsTypes
    <2>4. QED BY <1>1, <1>2, <1>5, <2>1, <2>2, <2>3 DEF AsGood, BitsAreSlots
<1>7. ListedAreFree'
    <2>1. Len(asList') = 0
        BY <1>1
    <2>2. QED BY <2>1, AsAssumption DEF ListedAreFree
<1>8. OwnerAllocates'
    BY <1>1, <1>2 DEF AsGood, OwnerAllocates
<1>9. QED BY <1>3, <1>5, <1>6, <1>7, <1>8 DEF AsGood

LEMMA GetReadsKeeps == ASSUME AsGood, GetReads PROVE AsGood'
<1> DEFINE seen == asBitmap[asMine]
<1>1. /\ asPc[AsOwner].at \in {"idle", "reget"} /\ asMine # AsNone
      /\ asPc' = [asPc EXCEPT ![AsOwner] =
                IF seen = AllBits
                THEN [at |-> "release", chunk |-> asMine, bit |-> 0, seen |-> {}]
                ELSE [at |-> "get", chunk |-> asMine, bit |-> FirstUnset(seen), seen |-> seen]]
      /\ asBitmap' = asBitmap /\ asReleased' = asReleased /\ asMine' = asMine /\ asList' = asList
      /\ asMade' = asMade /\ asHeld' = asHeld
    BY DEF GetReads
<1>2. asMine \in asMade /\ asMine \in AsChunks /\ AsOwner \in AsThreads /\ asPc \in [AsThreads -> AsPcs]
    BY <1>1, AsAssumption DEF AsGood, OwnerAllocates, AsTypes
<1>3. seen \in SUBSET (0 .. AsSlots) /\ 0 \in seen
    BY <1>2 DEF AsGood, AsTypes, BitsAreSlots
<1> HIDE DEF seen
<1>4. PICK q : q = asPc'[AsOwner]
    OBVIOUS
<1>5. /\ q \in AsPcs /\ q.at \in {"get", "release"} /\ q.chunk = asMine
      /\ q.at = "get" => q.bit \in 1 .. AsSlots /\ q.bit \notin q.seen
    <2>1. CASE seen = AllBits
        <3>1. q = [at |-> "release", chunk |-> asMine, bit |-> 0, seen |-> {}]
            BY <1>1, <1>2, <1>4, <2>1
        <3>2. 0 \in 0 .. AsSlots
            BY AsAssumption
        <3>3. QED BY <1>2, <3>1, <3>2 DEF AsPcs
    <2>2. CASE seen # AllBits
        <3>1. q = [at |-> "get", chunk |-> asMine, bit |-> FirstUnset(seen), seen |-> seen]
            BY <1>1, <1>2, <1>4, <2>2
        <3>2. FirstUnset(seen) \in 1 .. AsSlots /\ FirstUnset(seen) \notin seen
            BY <1>3, <2>2, FirstUnsetIs
        <3>3. FirstUnset(seen) \in 0 .. AsSlots
            BY <3>2, AsAssumption
        <3>4. QED BY <1>2, <1>3, <3>1, <3>2, <3>3 DEF AsPcs
    <2>3. QED BY <2>1, <2>2
<1>6. /\ asPc' \in [AsThreads -> AsPcs] /\ asPc'[AsOwner] = q
      /\ \A t \in AsThreads \ {AsOwner} : asPc'[t] = asPc[t]
    BY <1>1, <1>2, <1>4, <1>5
<1>7. AsTypes'
    BY <1>1, <1>6 DEF AsGood, AsTypes
<1>8. \A t \in AsThreads : \A d, b : Putting(t, d, b)' <=> Putting(t, d, b)
    BY <1>1, <1>5, <1>6 DEF Putting
<1>9. BitsAreSlots' /\ SlotsApart'
    BY <1>1, <1>8, SamePuts DEF AsGood, BitsAreSlots
<1>10. ListedAreFree'
    BY <1>1 DEF AsGood, ListedAreFree
<1>11. OwnerAllocates'
    BY <1>1, <1>5, <1>6 DEF AsGood, OwnerAllocates
<1>12. QED BY <1>7, <1>9, <1>10, <1>11 DEF AsGood

LEMMA GetExchangesKeeps == ASSUME AsGood, NothingStale, GetExchanges PROVE AsGood'
<1>0. AsOwner \in AsThreads /\ asPc \in [AsThreads -> AsPcs]
    BY AsAssumption DEF AsGood, AsTypes
<1>1. PICK p \in AsPcs : p = asPc[AsOwner]
    BY <1>0
<1>2. /\ p.at = "get"
      /\ asBitmap' = [asBitmap EXCEPT ![p.chunk] = p.seen \cup {p.bit}]
      /\ asPc' = [asPc EXCEPT ![AsOwner] = AsIdle]
      /\ asBitmap[p.chunk] = p.seen
      /\ asHeld' = asHeld \cup {<<p.chunk, p.bit>>}
      /\ asReleased' = asReleased /\ asMine' = asMine /\ asList' = asList /\ asMade' = asMade
    BY <1>0, <1>1 DEF GetExchanges, NothingStale, Fresh
<1>3. PICK c, b : c = p.chunk /\ b = p.bit
    OBVIOUS
<1>4. /\ c = asMine /\ c \in asMade /\ c \in AsChunks /\ b \in 1 .. AsSlots /\ b \in 0 .. AsSlots
      /\ b \notin p.seen /\ p.seen \in SUBSET (0 .. AsSlots)
    BY <1>1, <1>2, <1>3, AsAssumption DEF AsGood, OwnerAllocates, AsTypes, AsPcs
<1>5. ~TakenOut(c, b)
    BY <1>2, <1>3, <1>4 DEF AsGood, BitsAreSlots
<1>6. /\ asBitmap' \in [AsChunks -> SUBSET (0 .. AsSlots)] /\ asBitmap'[c] = p.seen \cup {b}
      /\ \A d \in AsChunks \ {c} : asBitmap'[d] = asBitmap[d]
    BY <1>2, <1>3, <1>4 DEF AsGood, AsTypes
<1>7. AsIdle \in AsPcs /\ AsIdle.at = "idle"
    <2>1. 0 \in 0 .. AsSlots
        BY AsAssumption
    <2>2. QED BY <2>1 DEF AsIdle, AsPcs
<1>8. /\ asPc' \in [AsThreads -> AsPcs] /\ asPc'[AsOwner] = AsIdle
      /\ \A t \in AsThreads \ {AsOwner} : asPc'[t] = asPc[t]
    BY <1>0, <1>2, <1>7
<1>9. AsTypes'
    BY <1>2, <1>3, <1>4, <1>6, <1>8 DEF AsGood, AsTypes
<1>10. \A t \in AsThreads : \A d, e : Putting(t, d, e)' <=> Putting(t, d, e)
    BY <1>1, <1>2, <1>7, <1>8 DEF Putting
<1>11. \A d, e : TakenOut(d, e)' <=> TakenOut(d, e) \/ (d = c /\ e = b)
    BY <1>2, <1>3, <1>10 DEF TakenOut
<1>12. BitsAreSlots'
    <2> SUFFICES ASSUME NEW d \in asMade
                 PROVE  0 \in asBitmap'[d] /\ \A e \in 1 .. AsSlots : e \in asBitmap'[d] <=> TakenOut(d, e)'
        BY <1>2 DEF BitsAreSlots
    <2>1. d \in AsChunks /\ 0 \in asBitmap[d] /\ \A e \in 1 .. AsSlots : e \in asBitmap[d] <=> TakenOut(d, e)
        BY DEF AsGood, AsTypes, BitsAreSlots
    <2>2. CASE d = c
        BY <1>2, <1>3, <1>6, <1>11, <2>1, <2>2
    <2>3. CASE d # c
        BY <1>6, <1>11, <2>1, <2>3
    <2>4. QED BY <2>2, <2>3
<1>13. SlotsApart'
    <2>1. \A t \in AsThreads : ~Putting(t, c, b)
        BY <1>5 DEF TakenOut
    <2>2. \A t \in AsThreads : \A d, e : Putting(t, d, e) => <<d, e>> \notin asHeld'
        BY <1>2, <1>3, <2>1 DEF AsGood, SlotsApart
    <2>3. QED BY <1>2, <1>4, <1>10, <1>11, <2>2 DEF AsGood, SlotsApart
<1>14. ListedAreFree'
    <2>1. \A i \in 1 .. Len(asList) : asList[i] # c /\ asList[i] \in AsChunks
        BY <1>4 DEF AsGood, ListedAreFree, AsTypes
    <2>2. QED BY <1>2, <1>6, <2>1 DEF AsGood, ListedAreFree
<1>15. OwnerAllocates'
    BY <1>2, <1>7, <1>8 DEF AsGood, OwnerAllocates
<1>16. QED BY <1>9, <1>12, <1>13, <1>14, <1>15 DEF AsGood

LEMMA AsReleaseKeeps == ASSUME AsGood, AsRelease PROVE AsGood'
<1>0. AsOwner \in AsThreads /\ asPc \in [AsThreads -> AsPcs] /\ asMine \in asMade /\ asMine \in AsChunks
    BY AsAssumption DEF AsGood, AsTypes, OwnerAllocates, AsRelease
<1>1. /\ asPc[AsOwner].at = "release"
      /\ asReleased' = [asReleased EXCEPT ![asMine] = TRUE]
      /\ asMine' = AsNone /\ asPc' = [asPc EXCEPT ![AsOwner] = AsIdle]
      /\ asBitmap' = asBitmap /\ asList' = asList /\ asMade' = asMade /\ asHeld' = asHeld
    BY DEF AsRelease
<1>2. AsIdle \in AsPcs /\ AsIdle.at = "idle"
    <2>1. 0 \in 0 .. AsSlots
        BY AsAssumption
    <2>2. QED BY <2>1 DEF AsIdle, AsPcs
<1>3. /\ asPc' \in [AsThreads -> AsPcs] /\ asPc'[AsOwner] = AsIdle
      /\ \A t \in AsThreads \ {AsOwner} : asPc'[t] = asPc[t]
    BY <1>0, <1>1, <1>2
<1>4. /\ asReleased' \in [AsChunks -> BOOLEAN]
      /\ \A d \in AsChunks : asReleased[d] => asReleased'[d]
    BY <1>0, <1>1 DEF AsGood, AsTypes
<1>5. AsTypes'
    BY <1>1, <1>3, <1>4 DEF AsGood, AsTypes
<1>6. \A t \in AsThreads : \A d, b : Putting(t, d, b)' <=> Putting(t, d, b)
    BY <1>1, <1>2, <1>3 DEF Putting
<1>7. BitsAreSlots' /\ SlotsApart'
    BY <1>1, <1>6, SamePuts DEF AsGood, BitsAreSlots
<1>8. ListedAreFree'
    <2>1. \A i \in 1 .. Len(asList) : asList[i] \in AsChunks /\ asReleased'[asList[i]] /\ asList[i] # AsNone
        BY <1>4, AsAssumption DEF AsGood, ListedAreFree, AsTypes
    <2>2. QED BY <1>1, <2>1 DEF AsGood, ListedAreFree
<1>9. OwnerAllocates'
    BY <1>1, <1>2, <1>3 DEF AsGood, OwnerAllocates
<1>10. QED BY <1>5, <1>7, <1>8, <1>9 DEF AsGood

LEMMA PutReadsKeeps ==
    ASSUME AsGood, NothingStale, NEW t \in AsThreads, NEW c \in AsChunks, NEW b \in 1 .. AsSlots, PutReads(t, c, b)
    PROVE  AsGood'
<1>1. /\ asPc[t].at = "idle" /\ <<c, b>> \in asHeld /\ asHeld' = asHeld \ {<<c, b>>}
      /\ asPc' = [asPc EXCEPT ![t] = [at |-> "put", chunk |-> c, bit |-> b, seen |-> asBitmap[c]]]
      /\ asBitmap' = asBitmap /\ asReleased' = asReleased /\ asMine' = asMine
      /\ asList' = asList /\ asMade' = asMade
    BY DEF PutReads, NothingStale, Fresh
<1>2. PICK q : q = [at |-> "put", chunk |-> c, bit |-> b, seen |-> asBitmap[c]]
    OBVIOUS
<1>3. q \in AsPcs /\ q.at = "put" /\ q.chunk = c /\ q.bit = b
    BY <1>2, AsAssumption DEF AsPcs, AsGood, AsTypes
<1>4. /\ asPc' \in [AsThreads -> AsPcs] /\ asPc'[t] = q
      /\ \A u \in AsThreads \ {t} : asPc'[u] = asPc[u]
    BY <1>1, <1>2, <1>3 DEF AsGood, AsTypes
<1>5. AsTypes'
    BY <1>1, <1>4 DEF AsGood, AsTypes
<1>6. \A u \in AsThreads : \A d, e : Putting(u, d, e)' <=> Putting(u, d, e) \/ (u = t /\ d = c /\ e = b)
    BY <1>1, <1>3, <1>4 DEF Putting
<1>7. \A d, e : <<d, e>> \in asHeld <=> <<d, e>> \in asHeld' \/ (d = c /\ e = b)
    BY <1>1
<1>8. \A d, e : TakenOut(d, e)' <=> TakenOut(d, e)
    <2> TAKE d, e
    <2>1. CASE d = c /\ e = b
        BY <1>6, <1>7, <2>1 DEF TakenOut
    <2>2. CASE ~ (d = c /\ e = b)
        <3>1. \A u \in AsThreads : Putting(u, d, e)' <=> Putting(u, d, e)
            BY <1>6, <2>2
        <3>2. <<d, e>> \in asHeld <=> <<d, e>> \in asHeld'
            BY <1>7, <2>2
        <3>3. QED BY <3>1, <3>2 DEF TakenOut
    <2>3. QED BY <2>1, <2>2
<1>9. BitsAreSlots'
    BY <1>1, <1>8 DEF AsGood, BitsAreSlots
<1>10. SlotsApart'
    <2>1. \A u \in AsThreads : ~Putting(u, c, b)
        BY <1>1 DEF AsGood, SlotsApart
    <2>2. <<c, b>> \notin asHeld'
        BY <1>1
    <2>3. \A u \in AsThreads : \A d, e : Putting(u, d, e)' => <<d, e>> \notin asHeld'
        BY <1>6, <1>7, <2>2 DEF AsGood, SlotsApart
    <2>4. \A u, v \in AsThreads : \A d, e : Putting(u, d, e)' /\ Putting(v, d, e)' => u = v
        BY <1>6, <2>1 DEF AsGood, SlotsApart
    <2>5. QED BY <1>1, <1>8, <2>3, <2>4 DEF AsGood, SlotsApart
<1>11. ListedAreFree'
    BY <1>1 DEF AsGood, ListedAreFree
<1>12. OwnerAllocates'
    BY <1>1, <1>3, <1>4 DEF AsGood, OwnerAllocates
<1>13. QED BY <1>5, <1>9, <1>10, <1>11, <1>12 DEF AsGood

LEMMA PutExchangesKeeps ==
    ASSUME AsGood, NothingStale, NEW t \in AsThreads, PutExchanges(t)
    PROVE  AsGood'
<1>0. asPc \in [AsThreads -> AsPcs]
    BY DEF AsGood, AsTypes
<1>1. PICK p \in AsPcs : p = asPc[t]
    BY <1>0
<1>2. PICK c, b : c = p.chunk /\ b = p.bit
    OBVIOUS
<1>3. PICK bits : bits = p.seen \ {b}
    OBVIOUS
<1>4. PICK q : q = IF bits = {0} THEN [at |-> "check", chunk |-> c, bit |-> 0, seen |-> {}] ELSE AsIdle
    OBVIOUS
<1>5. /\ p.at = "put" /\ asBitmap[c] = p.seen
      /\ asBitmap' = [asBitmap EXCEPT ![c] = bits]
      /\ asPc' = [asPc EXCEPT ![t] = q]
      /\ asReleased' = asReleased /\ asMine' = asMine /\ asList' = asList /\ asMade' = asMade
      /\ asHeld' = asHeld
    BY <1>1, <1>2, <1>3, <1>4 DEF PutExchanges, NothingStale, Fresh
<1>6. Putting(t, c, b) /\ TakenOut(c, b)
    BY <1>1, <1>2, <1>5 DEF Putting, TakenOut
<1>7. /\ c \in asMade /\ c \in AsChunks /\ b \in 1 .. AsSlots /\ <<c, b>> \notin asHeld
      /\ \A u \in AsThreads : Putting(u, c, b) => u = t
    BY <1>6 DEF AsGood, SlotsApart, AsTypes
<1>8. b \in asBitmap[c] /\ 0 \in bits /\ bits \in SUBSET (0 .. AsSlots)
    <2>1. b \in asBitmap[c] /\ 0 \in asBitmap[c] /\ asBitmap[c] \in SUBSET (0 .. AsSlots) /\ b # 0
        BY <1>6, <1>7 DEF AsGood, BitsAreSlots, AsTypes
    <2>2. QED BY <1>3, <1>5, <2>1
<1>9. q \in AsPcs /\ q.at \in {"check", "idle"}
    <2>1. 0 \in 0 .. AsSlots
        BY AsAssumption
    <2>2. QED BY <1>4, <1>7, <2>1 DEF AsPcs, AsIdle
<1>10. /\ asPc' \in [AsThreads -> AsPcs] /\ asPc'[t] = q
       /\ \A u \in AsThreads \ {t} : asPc'[u] = asPc[u]
    BY <1>0, <1>5, <1>9
<1>11. /\ asBitmap' \in [AsChunks -> SUBSET (0 .. AsSlots)] /\ asBitmap'[c] = bits
       /\ \A d \in AsChunks \ {c} : asBitmap'[d] = asBitmap[d]
    BY <1>5, <1>7, <1>8 DEF AsGood, AsTypes
<1>12. AsTypes'
    BY <1>5, <1>10, <1>11 DEF AsGood, AsTypes
<1>13. \A u \in AsThreads : \A d, e : Putting(u, d, e)' <=> Putting(u, d, e) /\ u # t
    BY <1>9, <1>10 DEF Putting
<1>14. \A d, e : Putting(t, d, e) => d = c /\ e = b
    BY <1>1, <1>2 DEF Putting
<1>15. \A d, e : TakenOut(d, e)' <=> TakenOut(d, e) /\ ~(d = c /\ e = b)
    BY <1>5, <1>7, <1>13, <1>14 DEF TakenOut
<1>16. BitsAreSlots'
    <2> SUFFICES ASSUME NEW d \in asMade
                 PROVE  0 \in asBitmap'[d] /\ \A e \in 1 .. AsSlots : e \in asBitmap'[d] <=> TakenOut(d, e)'
        BY <1>5 DEF BitsAreSlots
    <2>1. d \in AsChunks /\ 0 \in asBitmap[d] /\ \A e \in 1 .. AsSlots : e \in asBitmap[d] <=> TakenOut(d, e)
        BY DEF AsGood, AsTypes, BitsAreSlots
    <2>2. CASE d = c
        BY <1>3, <1>5, <1>8, <1>11, <1>15, <2>1, <2>2
    <2>3. CASE d # c
        BY <1>11, <1>15, <2>1, <2>3
    <2>4. QED BY <2>2, <2>3
<1>17. SlotsApart'
    BY <1>5, <1>13, <1>15 DEF AsGood, SlotsApart
<1>18. ListedAreFree'
    <2>1. \A i \in 1 .. Len(asList) : asList[i] # c /\ asList[i] \in AsChunks
        <3>1. asBitmap[c] # {0}
            BY <1>7, <1>8
        <3>2. QED BY <3>1 DEF AsGood, ListedAreFree, AsTypes
    <2>2. QED BY <1>5, <1>11, <2>1 DEF AsGood, ListedAreFree
<1>19. OwnerAllocates'
    BY <1>1, <1>5, <1>9, <1>10 DEF AsGood, OwnerAllocates
<1>20. QED BY <1>12, <1>16, <1>17, <1>18, <1>19 DEF AsGood

LEMMA PutChecksKeeps ==
    ASSUME AsGood, NothingStale, NEW t \in AsThreads, PutChecks(t)
    PROVE  AsGood'
<1>0. asPc \in [AsThreads -> AsPcs]
    BY DEF AsGood, AsTypes
<1>1. PICK c : c = asPc[t].chunk
    OBVIOUS
<1>2. /\ asPc[t].at = "check" /\ asPc' = [asPc EXCEPT ![t] = AsIdle]
      /\ IF GoesBack(c) THEN ChunkFreed(c) ELSE asList' = asList /\ asMade' = asMade
      /\ asBitmap' = asBitmap /\ asReleased' = asReleased /\ asMine' = asMine /\ asHeld' = asHeld
      /\ asBitmap[c] = {0} /\ c \in asMade /\ \A i \in 1 .. Len(asList) : asList[i] # c
    BY <1>1 DEF PutChecks, NothingStale, Fresh
<1>3. AsIdle \in AsPcs /\ AsIdle.at = "idle"
    <2>1. 0 \in 0 .. AsSlots
        BY AsAssumption
    <2>2. QED BY <2>1 DEF AsIdle, AsPcs
<1>4. /\ asPc' \in [AsThreads -> AsPcs] /\ asPc'[t] = AsIdle
      /\ \A u \in AsThreads \ {t} : asPc'[u] = asPc[u]
    BY <1>0, <1>2, <1>3
<1>5. \A u \in AsThreads : \A d, e : Putting(u, d, e)' <=> Putting(u, d, e)
    BY <1>2, <1>3, <1>4 DEF Putting
<1>6. \A d, e : TakenOut(d, e)' <=> TakenOut(d, e)
    BY <1>2, <1>5 DEF TakenOut
<1>7. CASE ~GoesBack(c)
    <2>1. asList' = asList /\ asMade' = asMade
        BY <1>2, <1>7
    <2>2. AsTypes' /\ BitsAreSlots' /\ SlotsApart'
        BY <1>2, <1>4, <1>5, <1>6, <2>1, SamePuts DEF AsGood, AsTypes, BitsAreSlots
    <2>3. ListedAreFree'
        BY <1>2, <2>1 DEF AsGood, ListedAreFree
    <2>4. OwnerAllocates'
        BY <1>2, <1>3, <1>4, <2>1 DEF AsGood, OwnerAllocates
    <2>5. QED BY <2>2, <2>3, <2>4 DEF AsGood
<1>8. CASE GoesBack(c)
    <2>1. /\ asReleased[c] /\ asBitmap[c] = {0} /\ c \in asMade /\ c \in AsChunks /\ asMine # c
          /\ \A i \in 1 .. Len(asList) : asList[i] # c
          /\ asList \in Seq(AsChunks) /\ Len(asList) \in Nat
        BY <1>2, <1>8, AsAssumption DEF GoesBack, AsGood, AsTypes, OwnerAllocates
    <2>2. \A e : ~TakenOut(c, e)
        <3> SUFFICES ASSUME NEW e, TakenOut(c, e) PROVE FALSE
            OBVIOUS
        <3>1. e \in 1 .. AsSlots
            BY DEF AsGood, SlotsApart
        <3>2. e \in asBitmap[c]
            BY <2>1, <3>1 DEF AsGood, BitsAreSlots
        <3>3. QED BY <2>1, <3>1, <3>2
    <2>3. CASE Len(asList) > AsMaxFree
        <3>1. asMade' = asMade \ {c} /\ asList' = asList
            BY <1>2, <1>8, <2>3 DEF ChunkFreed
        <3>2. AsTypes'
            BY <1>2, <1>4, <3>1 DEF AsGood, AsTypes
        <3>3. BitsAreSlots'
            BY <1>2, <1>6, <3>1 DEF AsGood, BitsAreSlots
        <3>4. SlotsApart'
            BY <1>2, <1>5, <1>6, <2>2, <3>1 DEF AsGood, SlotsApart
        <3>5. ListedAreFree'
            BY <1>2, <2>1, <3>1 DEF AsGood, ListedAreFree
        <3>6. OwnerAllocates'
            BY <1>2, <1>3, <1>4, <2>1, <3>1 DEF AsGood, OwnerAllocates
        <3>7. QED BY <3>2, <3>3, <3>4, <3>5, <3>6 DEF AsGood
    <2>4. CASE ~ (Len(asList) > AsMaxFree)
        <3>1. asMade' = asMade /\ asList' = <<c>> \o asList
            BY <1>2, <1>8, <2>4 DEF ChunkFreed
        <3>2. PICK l : l = <<c>> \o asList
            OBVIOUS
        <3>3. /\ l \in Seq(AsChunks) /\ Len(l) = Len(asList) + 1 /\ l[1] = c
              /\ \A i \in 1 .. Len(l) : i # 1 => l[i] = asList[i - 1] /\ i - 1 \in 1 .. Len(asList)
            <4>1. <<c>> \in Seq(AsChunks) /\ Len(<<c>>) = 1 /\ <<c>>[1] = c
                BY <2>1
            <4>2. l \in Seq(AsChunks) /\ Len(l) = 1 + Len(asList)
                BY <2>1, <3>2, <4>1, ConcatProperties
            <4>3. \A i \in 1 .. 1 + Len(asList) : l[i] = IF i <= 1 THEN <<c>>[i] ELSE asList[i - 1]
                BY <2>1, <3>2, <4>1, ConcatProperties
            <4>4. QED BY <2>1, <4>1, <4>2, <4>3
        <3>4. AsTypes'
            BY <1>2, <1>4, <3>1, <3>2, <3>3 DEF AsGood, AsTypes
        <3>5. BitsAreSlots' /\ SlotsApart'
            BY <1>2, <1>5, <1>6, <3>1, SamePuts DEF AsGood, BitsAreSlots
        <3>6. ListedAreFree'
            <4>1. Len(l) <= AsMaxFree + 1
                BY <2>1, <2>4, <3>3, AsAssumption
            <4>2. ASSUME NEW i \in 1 .. Len(l)
                  PROVE  /\ l[i] \in asMade /\ asBitmap[l[i]] = {0} /\ asReleased[l[i]] /\ l[i] # asMine
                         /\ \A j \in 1 .. Len(l) : l[i] = l[j] => i = j
                <5>1. CASE i = 1
                    <6>1. ASSUME NEW j \in 1 .. Len(l), l[i] = l[j] PROVE i = j
                        BY <2>1, <3>3, <5>1, <6>1
                    <6>2. QED BY <2>1, <3>3, <5>1, <6>1
                <5>2. CASE i # 1
                    <6>1. l[i] = asList[i - 1] /\ i - 1 \in 1 .. Len(asList)
                        BY <3>3, <5>2
                    <6>2. /\ l[i] \in asMade /\ asBitmap[l[i]] = {0} /\ asReleased[l[i]] /\ l[i] # asMine
                          /\ l[i] # c
                        BY <2>1, <6>1 DEF AsGood, ListedAreFree
                    <6>3. ASSUME NEW j \in 1 .. Len(l), l[i] = l[j] PROVE i = j
                        <7>1. j # 1
                            BY <3>3, <6>2, <6>3
                        <7>2. l[j] = asList[j - 1] /\ j - 1 \in 1 .. Len(asList)
                            BY <3>3, <7>1
                        <7>3. i - 1 = j - 1
                            BY <6>1, <6>3, <7>2 DEF AsGood, ListedAreFree
                        <7>4. QED BY <7>3
                    <6>4. QED BY <6>2, <6>3
                <5>3. QED BY <5>1, <5>2
            <4>3. asList' = l
                BY <3>1, <3>2
            <4>4. QED BY <1>2, <3>1, <4>1, <4>2, <4>3 DEF ListedAreFree
        <3>7. OwnerAllocates'
            BY <1>2, <1>3, <1>4, <3>1 DEF AsGood, OwnerAllocates
        <3>8. QED BY <3>4, <3>5, <3>6, <3>7 DEF AsGood
    <2>5. QED BY <2>3, <2>4
<1>9. QED BY <1>7, <1>8

LEMMA AsInitInv == AsInit => AsInv
<1> SUFFICES ASSUME AsInit PROVE AsGood /\ OneInHeap /\ NothingStale
    BY DEF AsInv
<1>1. /\ asBitmap = [c \in AsChunks |-> {0}] /\ asReleased = [c \in AsChunks |-> FALSE]
      /\ asMine = AsNone /\ asList = <<>> /\ asMade = {} /\ asHeld = {}
      /\ asPc = [t \in AsThreads |-> AsIdle]
    BY DEF AsInit
<1>2. AsIdle \in AsPcs /\ AsIdle.at = "idle" /\ 0 \in 0 .. AsSlots
    <2>1. 0 \in 0 .. AsSlots
        BY AsAssumption
    <2>2. QED BY <2>1 DEF AsIdle, AsPcs
<1>3. AsTypes
    BY <1>1, <1>2 DEF AsTypes
<1>4. \A c, b : ~TakenOut(c, b) /\ \A t \in AsThreads : ~Putting(t, c, b)
    BY <1>1, <1>2 DEF TakenOut, Putting
<1>5. BitsAreSlots /\ SlotsApart
    BY <1>1, <1>4 DEF BitsAreSlots, SlotsApart
<1>6. ListedAreFree
    <2>1. Len(asList) = 0
        BY <1>1
    <2>2. QED BY <2>1, AsAssumption DEF ListedAreFree
<1>7. OwnerAllocates
    BY <1>1, <1>2, AsAssumption DEF OwnerAllocates
<1>8. OneInHeap /\ NothingStale
    BY <1>1, <1>2 DEF OneInHeap, NothingStale, Fresh
<1>9. QED BY <1>3, <1>5, <1>6, <1>7, <1>8 DEF AsGood

\* Under the lock, a thread that begins or goes on is alone in the heap: what it
\* has read stays as it is until it is done.
LEMMA AloneInside ==
    ASSUME AsLocked, AsGood, OneInHeap, NothingStale, AsNext
    PROVE  OneInHeap' /\ NothingStale'
<1>0. AsOwner \in AsThreads /\ asPc \in [AsThreads -> AsPcs]
    BY AsAssumption DEF AsGood, AsTypes
<1>1. ASSUME NEW t \in AsThreads, asPc[t].at # "idle" \/ MayUse(t)
      PROVE  \A u \in AsThreads \ {t} : asPc[u].at = "idle"
    BY <1>1 DEF MayUse, OneInHeap
<1>2. ASSUME NEW t \in AsThreads, \A u \in AsThreads \ {t} : asPc[u].at = "idle" /\ asPc'[u] = asPc[u],
             Fresh(t)'
      PROVE  OneInHeap' /\ NothingStale'
    <2>1. \A u \in AsThreads \ {t} : asPc'[u].at = "idle"
        BY <1>2
    <2>2. OneInHeap'
        BY <2>1 DEF OneInHeap
    <2>3. \A u \in AsThreads \ {t} : Fresh(u)'
        BY <2>1 DEF Fresh
    <2>4. QED BY <1>2, <2>2, <2>3 DEF NothingStale
<1>3. ASSUME NEW t \in AsThreads, NEW q, asPc' = [asPc EXCEPT ![t] = q]
      PROVE  asPc'[t] = q /\ \A u \in AsThreads \ {t} : asPc'[u] = asPc[u]
    BY <1>0, <1>3
<1>4. AsIdle.at = "idle"
    BY DEF AsIdle
<1>5. CASE TakeListed \/ \E c \in AsChunks : MakeAligned(c)
    <2>1. asPc[AsOwner].at = "idle" /\ MayUse(AsOwner) /\ asPc' = asPc
        BY <1>5 DEF TakeListed, MakeAligned
    <2>2. Fresh(AsOwner)'
        BY <2>1 DEF Fresh
    <2>3. QED BY <1>0, <1>1, <1>2, <2>1, <2>2
<1>6. CASE GetReads
    <2>1. PICK q : q = IF asBitmap[asMine] = AllBits
                       THEN [at |-> "release", chunk |-> asMine, bit |-> 0, seen |-> {}]
                       ELSE [at |-> "get", chunk |-> asMine, bit |-> FirstUnset(asBitmap[asMine]),
                             seen |-> asBitmap[asMine]]
        OBVIOUS
    <2>2. MayUse(AsOwner) /\ asBitmap' = asBitmap /\ asPc' = [asPc EXCEPT ![AsOwner] = q]
        BY <1>6, <2>1 DEF GetReads
    <2>3. q.at \in {"get", "release"} /\ (q.at = "get" => asBitmap[q.chunk] = q.seen)
        BY <2>1
    <2>4. asPc'[AsOwner] = q /\ \A u \in AsThreads \ {AsOwner} : asPc'[u] = asPc[u]
        BY <1>0, <1>3, <2>2
    <2>5. Fresh(AsOwner)'
        BY <2>2, <2>3, <2>4 DEF Fresh
    <2>6. QED BY <1>0, <1>1, <1>2, <2>2, <2>4, <2>5
<1>7. ASSUME NEW t \in AsThreads, asPc[t].at # "idle", asPc' = [asPc EXCEPT ![t] = AsIdle]
      PROVE  OneInHeap' /\ NothingStale'
    <2>1. asPc'[t] = AsIdle /\ \A u \in AsThreads \ {t} : asPc'[u] = asPc[u]
        BY <1>3, <1>7
    <2>2. Fresh(t)'
        BY <1>4, <2>1 DEF Fresh
    <2>3. QED BY <1>1, <1>2, <1>7, <2>1, <2>2
<1>8. CASE GetExchanges
    <2>1. asPc[AsOwner].at = "get" /\ asPc' = [asPc EXCEPT ![AsOwner] = AsIdle]
        BY <1>0, <1>8 DEF GetExchanges, NothingStale, Fresh
    <2>2. QED BY <1>0, <1>7, <2>1
<1>9. CASE AsRelease
    <2>1. asPc[AsOwner].at = "release" /\ asPc' = [asPc EXCEPT ![AsOwner] = AsIdle]
        BY <1>9 DEF AsRelease
    <2>2. QED BY <1>0, <1>7, <2>1
<1>10. ASSUME NEW t \in AsThreads, PutChecks(t)
       PROVE  OneInHeap' /\ NothingStale'
    <2>1. asPc[t].at = "check" /\ asPc' = [asPc EXCEPT ![t] = AsIdle]
        BY <1>10 DEF PutChecks
    <2>2. QED BY <1>7, <2>1
<1>11. ASSUME NEW t \in AsThreads, NEW c \in AsChunks, NEW b \in 1 .. AsSlots, PutReads(t, c, b)
       PROVE  OneInHeap' /\ NothingStale'
    <2>1. PICK q : q = [at |-> "put", chunk |-> c, bit |-> b, seen |-> asBitmap[c]]
        OBVIOUS
    <2>2. MayUse(t) /\ asBitmap' = asBitmap /\ asPc' = [asPc EXCEPT ![t] = q]
        BY <1>11, <2>1 DEF PutReads
    <2>3. q.at = "put" /\ asBitmap[q.chunk] = q.seen
        BY <2>1
    <2>4. asPc'[t] = q /\ \A u \in AsThreads \ {t} : asPc'[u] = asPc[u]
        BY <1>3, <2>2
    <2>5. Fresh(t)'
        BY <2>2, <2>3, <2>4 DEF Fresh
    <2>6. QED BY <1>1, <1>2, <2>2, <2>4, <2>5
<1>12. ASSUME NEW t \in AsThreads, PutExchanges(t)
       PROVE  OneInHeap' /\ NothingStale'
    <2>1. PICK c, b, bits : c = asPc[t].chunk /\ b = asPc[t].bit /\ bits = asPc[t].seen \ {b}
        OBVIOUS
    <2>2. PICK q : q = IF bits = {0} THEN [at |-> "check", chunk |-> c, bit |-> 0, seen |-> {}] ELSE AsIdle
        OBVIOUS
    <2>3. /\ asPc[t].at = "put" /\ asBitmap[c] = asPc[t].seen
          /\ asBitmap' = [asBitmap EXCEPT ![c] = bits] /\ asPc' = [asPc EXCEPT ![t] = q]
          /\ asList' = asList /\ asMade' = asMade
        BY <1>12, <2>1, <2>2 DEF PutExchanges, NothingStale, Fresh
    <2>4. asPc'[t] = q /\ \A u \in AsThreads \ {t} : asPc'[u] = asPc[u]
        BY <1>3, <2>3
    <2>5. TakenOut(c, b)
        BY <2>1, <2>3 DEF TakenOut, Putting
    <2>6. c \in asMade /\ c \in AsChunks /\ b \in 1 .. AsSlots /\ b \in asBitmap[c]
        BY <2>5 DEF AsGood, SlotsApart, AsTypes, BitsAreSlots
    <2>7. \A i \in 1 .. Len(asList) : asList[i] # c
        <3>1. asBitmap[c] # {0}
            BY <2>6
        <3>2. QED BY <3>1 DEF AsGood, ListedAreFree
    <2>8. asBitmap'[c] = bits
        BY <2>3, <2>6 DEF AsGood, AsTypes
    <2>9. q.at \in {"check", "idle"} /\ (q.at = "check" => q.chunk = c /\ bits = {0})
        BY <1>4, <2>2
    <2>10. Fresh(t)'
        BY <2>3, <2>4, <2>6, <2>7, <2>8, <2>9 DEF Fresh
    <2>11. QED BY <1>1, <1>2, <2>3, <2>4, <2>10
<1>13. QED BY <1>5, <1>6, <1>8, <1>9, <1>10, <1>11, <1>12 DEF AsNext

LEMMA AsNextInv == ASSUME AsLocked PROVE AsInv /\ [AsNext]_asVars => AsInv'
<1> SUFFICES ASSUME AsInv, [AsNext]_asVars PROVE AsInv'
    OBVIOUS
<1>1. CASE UNCHANGED asVars
    <2>1. AsGood'
        BY <1>1 DEF asVars, AsInv, AsGood, AsTypes, BitsAreSlots, SlotsApart, TakenOut, Putting,
            ListedAreFree, OwnerAllocates
    <2>2. OneInHeap' /\ NothingStale'
        BY <1>1 DEF asVars, AsInv, OneInHeap, NothingStale, Fresh
    <2>3. QED BY <2>1, <2>2 DEF AsInv
<1>2. CASE AsNext
    <2>1. AsGood /\ OneInHeap /\ NothingStale
        BY DEF AsInv
    <2>2. AsGood'
        BY <1>2, <2>1, TakeListedKeeps, MakeAlignedKeeps, GetReadsKeeps, GetExchangesKeeps, AsReleaseKeeps,
            PutReadsKeeps, PutExchangesKeeps, PutChecksKeeps DEF AsNext
    <2>3. QED BY <1>2, <2>1, <2>2, AloneInside DEF AsInv
<1>3. QED BY <1>1, <1>2

LEMMA BitsOfGoodHeap == ASSUME AsInv PROVE BitmapsMatchSlots
<1>1. AsGood
    BY DEF AsInv
<1>2. ASSUME NEW c \in asMade
      PROVE  asBitmap[c] = {0} \cup {b \in 1 .. AsSlots : TakenOut(c, b)}
    <2>1. asBitmap[c] \subseteq 0 .. AsSlots /\ 0 \in asBitmap[c]
        BY <1>1 DEF AsGood, AsTypes, BitsAreSlots
    <2>2. \A b \in 1 .. AsSlots : b \in asBitmap[c] <=> TakenOut(c, b)
        BY <1>1 DEF AsGood, BitsAreSlots
    <2>3. \A b \in 0 .. AsSlots : b = 0 \/ b \in 1 .. AsSlots
        BY AsAssumption
    <2>4. QED BY <2>1, <2>2, <2>3
<1>3. \A c \in AsChunks \ asMade : \A b \in 1 .. AsSlots : ~TakenOut(c, b)
    BY <1>1 DEF AsGood, SlotsApart
<1>4. ASSUME NEW i \in 1 .. Len(asList)
      PROVE  /\ asBitmap[asList[i]] = {0} /\ asReleased[asList[i]] /\ asList[i] # asMine
             /\ \A j \in 1 .. i - 1 : asList[i] # asList[j]
    <2>1. Len(asList) \in Nat
        BY <1>1 DEF AsGood, AsTypes
    <2>2. \A j \in 1 .. i - 1 : j \in 1 .. Len(asList) /\ i # j
        BY <2>1
    <2>3. QED BY <1>1, <2>2 DEF AsGood, ListedAreFree
<1>5. Len(asList) <= AsMaxFree + 1
    BY <1>1 DEF AsGood, ListedAreFree
<1>6. QED BY <1>2, <1>3, <1>4, <1>5 DEF BitmapsMatchSlots

\* Under a lock, bitmaps and slots agree and chunks go back empty and once, for
\* any number of threads, chunks and slots.  (Without one they do not.)
THEOREM BitmapsFollowSlots == ASSUME AsLocked PROVE AsSpec => []BitmapsMatchSlots
<1>1. AsInit => AsInv
    BY AsInitInv
<1>2. AsInv /\ [AsNext]_asVars => AsInv'
    BY AsNextInv
<1>3. AsInv => BitmapsMatchSlots
    BY BitsOfGoodHeap
<1>4. QED BY <1>1, <1>2, <1>3, PTL DEF AsSpec

-----------------------------------------------------------------------------
(* FreeLists *)

\* A list of objects that leads from a to b.
On(a, s, b, i) == IF i = 0 THEN a ELSE IF i = Len(s) + 1 THEN b ELSE s[i]

FlList(s) ==
    /\ s \in Seq(FlObject)
    /\ \A i, j \in 1 .. Len(s) : i # j => s[i] # s[j]

\* The links f lead from a along the list to b; and the links g lead back.
Links(f, a, s, b) == \A i \in 0 .. Len(s) : f[On(a, s, b, i)] = On(a, s, b, i + 1)

Back(g, a, s, b) == \A i \in 0 .. Len(s) : g[On(a, s, b, i + 1)] = On(a, s, b, i)

Ends(a, b) == a # b /\ a \in head .. tail /\ b \in head .. tail /\ a \notin FlObject /\ b \notin FlObject

FlLinks == [head .. tail -> head .. tail]

IsRemoved(t, s, i) ==
    /\ Len(t) = Len(s) - 1
    /\ \A j \in 1 .. i - 1 : t[j] = s[j]
    /\ \A j \in i .. Len(s) - 1 : t[j] = s[j + 1]

\* Facts about any sequences and sets.
LEMMA SingleIs == ASSUME NEW S, NEW x \in S PROVE <<x>> \in Seq(S) /\ Len(<<x>>) = 1 /\ <<x>>[1] = x
OBVIOUS

LEMMA LastIsOne == ASSUME NEW S, NEW s \in Seq(S), s # <<>> PROVE Len(s) \in 1 .. Len(s) /\ Last(s) \in S
<1>1. Len(s) \in Nat /\ Len(s) # 0
    OBVIOUS
<1>2. Len(s) \in 1 .. Len(s)
    BY <1>1
<1>3. QED BY <1>2, ElementOfSeq DEF Last

LEMMA WiderSeq == ASSUME NEW S, NEW T, S \subseteq T, NEW s \in Seq(S) PROVE s \in Seq(T)
<1>1. Len(s) \in Nat /\ s \in [1 .. Len(s) -> S]
    BY LenProperties
<1>2. s \in [1 .. Len(s) -> T]
    BY <1>1
<1>3. QED BY <1>1, <1>2, SeqDef

LEMMA NumbersUpTo == ASSUME NEW n \in Nat PROVE IsFiniteSet(1 .. n) /\ Cardinality(1 .. n) = n
<1>1. 1 \in Int /\ n \in Int
    OBVIOUS
<1>2. IsFiniteSet(1 .. n) /\ Cardinality(1 .. n) = IF 1 > n THEN 0 ELSE n - 1 + 1
    BY <1>1, FS_Interval
<1>3. QED BY <1>2

LEMMA HeadAndTail ==
    /\ head \in Nat /\ tail \in Nat /\ head # tail /\ Ends(head, tail) /\ Ends(tail, head)
    /\ FlObject \subseteq Nat /\ FlObject \subseteq head .. tail /\ FlObjects \in Nat
    /\ head \notin FlObject /\ tail \notin FlObject
BY FlAssumption DEF head, tail, FlObject, Ends

LEMMA OnIs ==
    ASSUME NEW a, NEW b, Ends(a, b), NEW s, FlList(s)
    PROVE  /\ Len(s) \in Nat
           /\ On(a, s, b, 0) = a /\ On(a, s, b, Len(s) + 1) = b
           /\ \A i \in 1 .. Len(s) : On(a, s, b, i) = s[i] /\ s[i] \in FlObject
           /\ \A i \in 0 .. Len(s) + 1 : On(a, s, b, i) \in head .. tail
<1>1. Len(s) \in Nat /\ \A i \in 1 .. Len(s) : s[i] \in FlObject
    BY DEF FlList
<1>2. \A i \in 1 .. Len(s) : On(a, s, b, i) = s[i]
    BY <1>1 DEF On
<1>3. On(a, s, b, 0) = a /\ On(a, s, b, Len(s) + 1) = b
    BY <1>1 DEF On
<1>4. \A i \in 0 .. Len(s) + 1 : i = 0 \/ i = Len(s) + 1 \/ i \in 1 .. Len(s)
    BY <1>1
<1>5. \A i \in 0 .. Len(s) + 1 : On(a, s, b, i) \in head .. tail
    BY <1>1, <1>2, <1>3, <1>4, HeadAndTail DEF Ends
<1>6. QED BY <1>1, <1>2, <1>3, <1>5

LEMMA OnApart ==
    ASSUME NEW a, NEW b, Ends(a, b), NEW s, FlList(s),
           NEW i \in 0 .. Len(s) + 1, NEW j \in 0 .. Len(s) + 1, i # j
    PROVE  On(a, s, b, i) # On(a, s, b, j)
<1>1. Len(s) \in Nat /\ \A k \in 1 .. Len(s) : s[k] \in FlObject
    BY DEF FlList
<1>2. /\ On(a, s, b, 0) = a /\ On(a, s, b, Len(s) + 1) = b
      /\ \A k \in 1 .. Len(s) : On(a, s, b, k) = s[k]
    BY OnIs
<1>3. /\ i = 0 \/ i = Len(s) + 1 \/ i \in 1 .. Len(s)
      /\ j = 0 \/ j = Len(s) + 1 \/ j \in 1 .. Len(s)
    BY <1>1
<1>4. CASE i \in 1 .. Len(s) /\ j \in 1 .. Len(s)
    BY <1>2, <1>4 DEF FlList
<1>5. CASE ~(i \in 1 .. Len(s) /\ j \in 1 .. Len(s))
    BY <1>1, <1>2, <1>3, <1>5 DEF Ends
<1>6. QED BY <1>4, <1>5

LEMMA RemovedOn ==
    ASSUME NEW a, NEW b, Ends(a, b), NEW s, FlList(s), NEW i \in 1 .. Len(s), NEW t, IsRemoved(t, s, i)
    PROVE  \A j \in 0 .. Len(s) : On(a, t, b, j) = IF j < i THEN On(a, s, b, j) ELSE On(a, s, b, j + 1)
<1>1. Len(s) \in Nat
    BY DEF FlList
<1> SUFFICES ASSUME NEW j \in 0 .. Len(s)
             PROVE  On(a, t, b, j) = IF j < i THEN On(a, s, b, j) ELSE On(a, s, b, j + 1)
    OBVIOUS
<1>2. Len(t) = Len(s) - 1
    BY DEF IsRemoved
<1>3. CASE j = 0
    BY <1>1, <1>3 DEF On
<1>4. CASE j = Len(s)
    BY <1>1, <1>2, <1>4 DEF On
<1>5. CASE j \in 1 .. Len(s) - 1 /\ j < i
    <2>1. t[j] = s[j]
        BY <1>1, <1>5 DEF IsRemoved
    <2>2. QED BY <1>1, <1>2, <1>5, <2>1 DEF On
<1>6. CASE j \in 1 .. Len(s) - 1 /\ ~(j < i)
    <2>1. t[j] = s[j + 1]
        BY <1>1, <1>6 DEF IsRemoved
    <2>2. QED BY <1>1, <1>2, <1>6, <2>1 DEF On
<1>7. QED BY <1>1, <1>3, <1>4, <1>5, <1>6

LEMMA InsertedOn ==
    ASSUME NEW a, NEW b, Ends(a, b), NEW s, FlList(s), NEW i \in 1 .. Len(s) + 1,
           NEW t, NEW o, IsInserted(t, s, i, o)
    PROVE  \A j \in 0 .. Len(s) + 2 : On(a, t, b, j) = IF j = i THEN o
                                                       ELSE IF j < i THEN On(a, s, b, j)
                                                       ELSE On(a, s, b, j - 1)
<1>1. Len(s) \in Nat
    BY DEF FlList
<1> SUFFICES ASSUME NEW j \in 0 .. Len(s) + 2
             PROVE  On(a, t, b, j) = IF j = i THEN o ELSE IF j < i THEN On(a, s, b, j)
                                                     ELSE On(a, s, b, j - 1)
    OBVIOUS
<1>2. Len(t) = Len(s) + 1
    BY DEF IsInserted
<1>3. CASE j = 0
    BY <1>1, <1>3 DEF On
<1>4. CASE j = Len(s) + 2
    BY <1>1, <1>2, <1>4 DEF On
<1>5. CASE j = i
    <2>1. t[j] = o
        BY <1>5 DEF IsInserted
    <2>2. QED BY <1>1, <1>2, <1>5, <2>1 DEF On
<1>6. CASE j \in 1 .. Len(s) + 1 /\ j < i
    <2>1. t[j] = s[j]
        BY <1>1, <1>6 DEF IsInserted
    <2>2. QED BY <1>1, <1>2, <1>6, <2>1 DEF On
<1>7. CASE j \in 1 .. Len(s) + 1 /\ i < j
    <2>1. t[j] = s[j - 1]
        BY <1>1, <1>7 DEF IsInserted
    <2>2. QED BY <1>1, <1>2, <1>7, <2>1 DEF On
<1>8. QED BY <1>1, <1>3, <1>4, <1>5, <1>6, <1>7

\* Links without an object of the list.
LEMMA LinksRemoved ==
    ASSUME NEW a, NEW b, Ends(a, b), NEW s, FlList(s), NEW i \in 1 .. Len(s), NEW t, IsRemoved(t, s, i),
           NEW f, Links(f, a, s, b), NEW g,
           g[On(a, s, b, i - 1)] = On(a, s, b, i + 1),
           \A j \in 0 .. Len(s) : j # i - 1 /\ j # i => g[On(a, s, b, j)] = f[On(a, s, b, j)]
    PROVE  Links(g, a, t, b)
<1>1. Len(s) \in Nat /\ Len(t) = Len(s) - 1
    BY DEF FlList, IsRemoved
<1> SUFFICES ASSUME NEW j \in 0 .. Len(s) - 1 PROVE g[On(a, t, b, j)] = On(a, t, b, j + 1)
    BY <1>1 DEF Links
<1>9. \A k \in 0 .. Len(s) : On(a, t, b, k) = IF k < i THEN On(a, s, b, k) ELSE On(a, s, b, k + 1)
    BY RemovedOn
<1>2. On(a, t, b, j) = IF j < i THEN On(a, s, b, j) ELSE On(a, s, b, j + 1)
    BY <1>1, <1>9
<1>3. On(a, t, b, j + 1) = IF j + 1 < i THEN On(a, s, b, j + 1) ELSE On(a, s, b, j + 2)
    <2>1. PICK k : k = j + 1
        OBVIOUS
    <2>2. k \in 0 .. Len(s) /\ k + 1 = j + 2
        BY <1>1, <2>1
    <2>3. On(a, t, b, k) = IF k < i THEN On(a, s, b, k) ELSE On(a, s, b, k + 1)
        BY <2>2, <1>9
    <2>4. QED BY <2>1, <2>2, <2>3
<1>4. CASE j < i - 1
    <2>1. On(a, t, b, j) = On(a, s, b, j) /\ On(a, t, b, j + 1) = On(a, s, b, j + 1)
        BY <1>1, <1>2, <1>3, <1>4
    <2>2. j \in 0 .. Len(s) /\ j # i - 1 /\ j # i
        BY <1>1, <1>4
    <2>3. g[On(a, s, b, j)] = f[On(a, s, b, j)]
        BY <2>2
    <2>4. f[On(a, s, b, j)] = On(a, s, b, j + 1)
        BY <2>2 DEF Links
    <2>5. QED BY <2>1, <2>3, <2>4
<1>5. CASE j = i - 1
    <2>1. On(a, t, b, j) = On(a, s, b, i - 1) /\ On(a, t, b, j + 1) = On(a, s, b, i + 1)
        BY <1>1, <1>2, <1>3, <1>5
    <2>2. QED BY <2>1
<1>6. CASE i <= j
    <2>1. On(a, t, b, j) = On(a, s, b, j + 1) /\ On(a, t, b, j + 1) = On(a, s, b, j + 2)
        BY <1>1, <1>2, <1>3, <1>6
    <2>2. j + 1 \in 0 .. Len(s) /\ j + 1 # i - 1 /\ j + 1 # i /\ (j + 1) + 1 = j + 2
        BY <1>1, <1>6
    <2>3. g[On(a, s, b, j + 1)] = f[On(a, s, b, j + 1)] /\ f[On(a, s, b, j + 1)] = On(a, s, b, j + 2)
        BY <2>2 DEF Links
    <2>4. QED BY <2>1, <2>3
<1>7. QED BY <1>1, <1>4, <1>5, <1>6

LEMMA BackRemoved ==
    ASSUME NEW a, NEW b, Ends(a, b), NEW s, FlList(s), NEW i \in 1 .. Len(s), NEW t, IsRemoved(t, s, i),
           NEW f, Back(f, a, s, b), NEW g,
           g[On(a, s, b, i + 1)] = On(a, s, b, i - 1),
           \A j \in 1 .. Len(s) + 1 : j # i + 1 /\ j # i => g[On(a, s, b, j)] = f[On(a, s, b, j)]
    PROVE  Back(g, a, t, b)
<1>1. Len(s) \in Nat /\ Len(t) = Len(s) - 1
    BY DEF FlList, IsRemoved
<1> SUFFICES ASSUME NEW j \in 0 .. Len(s) - 1 PROVE g[On(a, t, b, j + 1)] = On(a, t, b, j)
    BY <1>1 DEF Back
<1>9. \A k \in 0 .. Len(s) : On(a, t, b, k) = IF k < i THEN On(a, s, b, k) ELSE On(a, s, b, k + 1)
    BY RemovedOn
<1>2. On(a, t, b, j) = IF j < i THEN On(a, s, b, j) ELSE On(a, s, b, j + 1)
    BY <1>1, <1>9
<1>3. On(a, t, b, j + 1) = IF j + 1 < i THEN On(a, s, b, j + 1) ELSE On(a, s, b, j + 2)
    <2>1. PICK k : k = j + 1
        OBVIOUS
    <2>2. k \in 0 .. Len(s) /\ k + 1 = j + 2
        BY <1>1, <2>1
    <2>3. On(a, t, b, k) = IF k < i THEN On(a, s, b, k) ELSE On(a, s, b, k + 1)
        BY <2>2, <1>9
    <2>4. QED BY <2>1, <2>2, <2>3
<1>4. CASE j < i - 1
    <2>1. On(a, t, b, j) = On(a, s, b, j) /\ On(a, t, b, j + 1) = On(a, s, b, j + 1)
        BY <1>1, <1>2, <1>3, <1>4
    <2>2. g[On(a, s, b, j + 1)] = f[On(a, s, b, j + 1)]
        BY <1>1, <1>4
    <2>3. j \in 0 .. Len(s)
        BY <1>1, <1>4
    <2>4. f[On(a, s, b, j + 1)] = On(a, s, b, j)
        BY <2>3 DEF Back
    <2>5. QED BY <2>1, <2>2, <2>4
<1>5. CASE j = i - 1
    <2>1. On(a, t, b, j) = On(a, s, b, i - 1) /\ On(a, t, b, j + 1) = On(a, s, b, i + 1)
        BY <1>1, <1>2, <1>3, <1>5
    <2>2. QED BY <2>1
<1>6. CASE i <= j
    <2>1. On(a, t, b, j) = On(a, s, b, j + 1) /\ On(a, t, b, j + 1) = On(a, s, b, j + 2)
        BY <1>1, <1>2, <1>3, <1>6
    <2>2. j + 1 \in 0 .. Len(s) /\ j + 2 \in 1 .. Len(s) + 1 /\ j + 2 # i + 1 /\ j + 2 # i
          /\ (j + 1) + 1 = j + 2
        BY <1>1, <1>6
    <2>3. g[On(a, s, b, j + 2)] = f[On(a, s, b, j + 2)]
        BY <2>2
    <2>4. f[On(a, s, b, j + 2)] = On(a, s, b, j + 1)
        BY <2>2 DEF Back
    <2>5. QED BY <2>1, <2>3, <2>4
<1>7. QED BY <1>1, <1>4, <1>5, <1>6

\* Links with one more object on the list.
LEMMA LinksInserted ==
    ASSUME NEW a, NEW b, Ends(a, b), NEW s, FlList(s), NEW i \in 1 .. Len(s) + 1,
           NEW t, NEW o, IsInserted(t, s, i, o),
           NEW f, Links(f, a, s, b), NEW g,
           g[On(a, s, b, i - 1)] = o, g[o] = On(a, s, b, i),
           \A j \in 0 .. Len(s) : j # i - 1 => g[On(a, s, b, j)] = f[On(a, s, b, j)]
    PROVE  Links(g, a, t, b)
<1>1. Len(s) \in Nat /\ Len(t) = Len(s) + 1
    BY DEF FlList, IsInserted
<1> SUFFICES ASSUME NEW j \in 0 .. Len(s) + 1 PROVE g[On(a, t, b, j)] = On(a, t, b, j + 1)
    BY <1>1 DEF Links
<1>9. \A k \in 0 .. Len(s) + 2 : On(a, t, b, k) = IF k = i THEN o ELSE IF k < i THEN On(a, s, b, k)
                                                                         ELSE On(a, s, b, k - 1)
    BY InsertedOn
<1>2. On(a, t, b, j) = IF j = i THEN o ELSE IF j < i THEN On(a, s, b, j) ELSE On(a, s, b, j - 1)
    BY <1>1, <1>9
<1>3. On(a, t, b, j + 1) = IF j + 1 = i THEN o ELSE IF j + 1 < i THEN On(a, s, b, j + 1) ELSE On(a, s, b, j)
    <2>1. PICK k : k = j + 1
        OBVIOUS
    <2>2. k \in 0 .. Len(s) + 2 /\ k - 1 = j
        BY <1>1, <2>1
    <2>3. On(a, t, b, k) = IF k = i THEN o ELSE IF k < i THEN On(a, s, b, k) ELSE On(a, s, b, k - 1)
        BY <2>2, <1>9
    <2>4. QED BY <2>1, <2>2, <2>3
<1>4. CASE j < i - 1
    <2>1. On(a, t, b, j) = On(a, s, b, j) /\ On(a, t, b, j + 1) = On(a, s, b, j + 1)
        BY <1>1, <1>2, <1>3, <1>4
    <2>2. j \in 0 .. Len(s) /\ j # i - 1 /\ j # i
        BY <1>1, <1>4
    <2>3. g[On(a, s, b, j)] = f[On(a, s, b, j)]
        BY <2>2
    <2>4. f[On(a, s, b, j)] = On(a, s, b, j + 1)
        BY <2>2 DEF Links
    <2>5. QED BY <2>1, <2>3, <2>4
<1>5. CASE j = i - 1
    <2>1. On(a, t, b, j) = On(a, s, b, i - 1) /\ On(a, t, b, j + 1) = o
        BY <1>1, <1>2, <1>3, <1>5
    <2>2. QED BY <2>1
<1>6. CASE j = i
    <2>1. On(a, t, b, j) = o /\ On(a, t, b, j + 1) = On(a, s, b, i)
        BY <1>1, <1>2, <1>3, <1>6
    <2>2. QED BY <2>1
<1>7. CASE i < j
    <2>1. On(a, t, b, j) = On(a, s, b, j - 1) /\ On(a, t, b, j + 1) = On(a, s, b, j)
        BY <1>1, <1>2, <1>3, <1>7
    <2>2. j - 1 \in 0 .. Len(s) /\ j - 1 # i - 1 /\ (j - 1) + 1 = j
        BY <1>1, <1>7
    <2>3. g[On(a, s, b, j - 1)] = f[On(a, s, b, j - 1)] /\ f[On(a, s, b, j - 1)] = On(a, s, b, j)
        BY <2>2 DEF Links
    <2>4. QED BY <2>1, <2>3
<1>8. QED BY <1>1, <1>4, <1>5, <1>6, <1>7

LEMMA BackInserted ==
    ASSUME NEW a, NEW b, Ends(a, b), NEW s, FlList(s), NEW i \in 1 .. Len(s) + 1,
           NEW t, NEW o, IsInserted(t, s, i, o),
           NEW f, Back(f, a, s, b), NEW g,
           g[On(a, s, b, i)] = o, g[o] = On(a, s, b, i - 1),
           \A j \in 1 .. Len(s) + 1 : j # i => g[On(a, s, b, j)] = f[On(a, s, b, j)]
    PROVE  Back(g, a, t, b)
<1>1. Len(s) \in Nat /\ Len(t) = Len(s) + 1
    BY DEF FlList, IsInserted
<1> SUFFICES ASSUME NEW j \in 0 .. Len(s) + 1 PROVE g[On(a, t, b, j + 1)] = On(a, t, b, j)
    BY <1>1 DEF Back
<1>9. \A k \in 0 .. Len(s) + 2 : On(a, t, b, k) = IF k = i THEN o ELSE IF k < i THEN On(a, s, b, k)
                                                                         ELSE On(a, s, b, k - 1)
    BY InsertedOn
<1>2. On(a, t, b, j) = IF j = i THEN o ELSE IF j < i THEN On(a, s, b, j) ELSE On(a, s, b, j - 1)
    BY <1>1, <1>9
<1>3. On(a, t, b, j + 1) = IF j + 1 = i THEN o ELSE IF j + 1 < i THEN On(a, s, b, j + 1) ELSE On(a, s, b, j)
    <2>1. PICK k : k = j + 1
        OBVIOUS
    <2>2. k \in 0 .. Len(s) + 2 /\ k - 1 = j
        BY <1>1, <2>1
    <2>3. On(a, t, b, k) = IF k = i THEN o ELSE IF k < i THEN On(a, s, b, k) ELSE On(a, s, b, k - 1)
        BY <2>2, <1>9
    <2>4. QED BY <2>1, <2>2, <2>3
<1>4. CASE j < i - 1
    <2>1. On(a, t, b, j) = On(a, s, b, j) /\ On(a, t, b, j + 1) = On(a, s, b, j + 1)
        BY <1>1, <1>2, <1>3, <1>4
    <2>2. g[On(a, s, b, j + 1)] = f[On(a, s, b, j + 1)]
        BY <1>1, <1>4
    <2>3. j \in 0 .. Len(s)
        BY <1>1, <1>4
    <2>4. f[On(a, s, b, j + 1)] = On(a, s, b, j)
        BY <2>3 DEF Back
    <2>5. QED BY <2>1, <2>2, <2>4
<1>5. CASE j = i - 1
    <2>1. On(a, t, b, j) = On(a, s, b, i - 1) /\ On(a, t, b, j + 1) = o
        BY <1>1, <1>2, <1>3, <1>5
    <2>2. QED BY <2>1
<1>6. CASE j = i
    <2>1. On(a, t, b, j) = o /\ On(a, t, b, j + 1) = On(a, s, b, i)
        BY <1>1, <1>2, <1>3, <1>6
    <2>2. QED BY <2>1
<1>7. CASE i < j
    <2>1. On(a, t, b, j) = On(a, s, b, j - 1) /\ On(a, t, b, j + 1) = On(a, s, b, j)
        BY <1>1, <1>2, <1>3, <1>7
    <2>2. j \in 1 .. Len(s) + 1 /\ j # i /\ j - 1 \in 0 .. Len(s) /\ (j - 1) + 1 = j
        BY <1>1, <1>7
    <2>3. g[On(a, s, b, j)] = f[On(a, s, b, j)]
        BY <2>2
    <2>4. f[On(a, s, b, (j - 1) + 1)] = On(a, s, b, j - 1)
        BY <2>2 DEF Back
    <2>5. QED BY <2>1, <2>2, <2>3, <2>4
<1>8. QED BY <1>1, <1>4, <1>5, <1>6, <1>7

\* The walk down a list, by the links: so many objects, if there are as many.
Walking(f, w) ==
    [n \in 0 .. FlObjects |->
        IF n = 0 THEN <<head>>
        ELSE IF f[Last(w[n - 1])] = tail THEN w[n - 1] ELSE Append(w[n - 1], f[Last(w[n - 1])])]

LEMMA WalkExists == ASSUME NEW f \in FlLinks PROVE \E w : w = Walking(f, w)
<1>1. PICK V : V = {s \in Seq(head .. tail) : s # <<>>}
    OBVIOUS
<1>2. <<head>> \in V
    <2>1. head \in head .. tail
        BY HeadAndTail DEF Ends
    <2>2. <<head>> \in Seq(head .. tail) /\ Len(<<head>>) = 1
        BY <2>1, SingleIs
    <2>3. <<head>> # <<>>
        OBVIOUS
    <2>4. QED BY <1>1, <2>2, <2>3
<1>3. ASSUME NEW s \in V PROVE Last(s) \in head .. tail /\ f[Last(s)] \in head .. tail
                               /\ Append(s, f[Last(s)]) \in V
    <2>1. s \in Seq(head .. tail) /\ s # <<>> /\ Len(s) \in Nat /\ Len(s) # 0
        BY <1>1, <1>3
    <2>2. Last(s) \in head .. tail
        BY <2>1, LastIsOne
    <2>3. f[Last(s)] \in head .. tail
        BY <2>2 DEF FlLinks
    <2>4. Append(s, f[Last(s)]) \in Seq(head .. tail) /\ Append(s, f[Last(s)]) # <<>>
        BY <2>1, <2>3
    <2>5. QED BY <1>1, <2>2, <2>3, <2>4
<1>4. PICK next : next = [x \in V \X (1 .. FlObjects) |->
                            IF f[Last(x[1])] = tail THEN x[1] ELSE Append(x[1], f[Last(x[1])])]
    OBVIOUS
<1>5. next \in [V \X (1 .. FlObjects) -> V]
    BY <1>3, <1>4
<1>6. FlObjects \in Nat
    BY HeadAndTail
<1> PICK w : Iterates(w, FlObjects, V, <<head>>, next)
    BY <1>2, <1>5, <1>6, IterationExists
<1>7. w \in [0 .. FlObjects -> V] /\ w[0] = <<head>> /\ \A i \in 1 .. FlObjects : w[i] = next[<<w[i - 1], i>>]
    BY DEF Iterates
<1>8. ASSUME NEW n \in 0 .. FlObjects
      PROVE  w[n] = IF n = 0 THEN <<head>>
                    ELSE IF f[Last(w[n - 1])] = tail THEN w[n - 1] ELSE Append(w[n - 1], f[Last(w[n - 1])])
    <2>1. CASE n = 0
        BY <1>7, <2>1
    <2>2. CASE n # 0
        <3>1. n \in 1 .. FlObjects /\ n - 1 \in 0 .. FlObjects
            BY <1>6, <2>2
        <3>2. <<w[n - 1], n>> \in V \X (1 .. FlObjects)
            BY <1>7, <3>1
        <3>3. QED BY <1>4, <1>7, <2>2, <3>1, <3>2
    <2>3. QED BY <2>1, <2>2
<1>9. w = Walking(f, w)
    BY <1>7, <1>8 DEF Walking
<1>10. QED BY <1>9

LEMMA FlListLength == ASSUME NEW s, FlList(s) PROVE Len(s) \in 0 .. FlObjects
<1>1. s \in [1 .. Len(s) -> FlObject] /\ Len(s) \in Nat
    BY DEF FlList
<1>2. s \in Injection(1 .. Len(s), FlObject)
    BY <1>1 DEF FlList, Injection, IsInjective
<1>3. IsFiniteSet(FlObject) /\ Cardinality(FlObject) = FlObjects
    BY NumbersUpTo, HeadAndTail DEF FlObject
<1>4. Cardinality(1 .. Len(s)) = Len(s)
    BY <1>1, NumbersUpTo
<1>5. Cardinality(1 .. Len(s)) <= Cardinality(FlObject)
    BY <1>2, <1>3, FS_Injection
<1>6. QED BY <1>1, <1>3, <1>4, <1>5, HeadAndTail

\* The first so many of a list, behind head.
IsWalked(w, s, m) ==
    /\ w \in Seq(head .. tail) /\ Len(w) = m + 1
    /\ \A i \in 0 .. m : w[i + 1] = On(head, s, tail, i)

LEMMA FlWalkIs ==
    ASSUME flNext \in FlLinks, NEW s, FlList(s), Links(flNext, head, s, tail)
    PROVE  FlWalk = s
<1> DEFINE w == CHOOSE w : w = [n \in 0 .. FlObjects |->
                  IF n = 0 THEN <<head>>
                  ELSE LET list == w[n - 1]
                           o == flNext[Last(list)]
                       IN  IF o = tail THEN list ELSE Append(list, o)]
<1>1. w = Walking(flNext, w)
    BY WalkExists DEF Walking
<1>2. FlWalk = Tail(w[FlObjects])
    BY DEF FlWalk
<1> HIDE DEF w
<1>3. Len(s) \in 0 .. FlObjects /\ FlObjects \in Nat
    BY FlListLength, HeadAndTail
<1>4. w[0] = <<head>>
    BY <1>1, <1>3 DEF Walking
<1>5. \A n \in 1 .. FlObjects : w[n] = IF flNext[Last(w[n - 1])] = tail THEN w[n - 1]
                                       ELSE Append(w[n - 1], flNext[Last(w[n - 1])])
    <2>1. ASSUME NEW n \in 1 .. FlObjects
          PROVE  w[n] = IF flNext[Last(w[n - 1])] = tail THEN w[n - 1]
                                       ELSE Append(w[n - 1], flNext[Last(w[n - 1])])
        <3>1. w[n] = Walking(flNext, w)[n] /\ n \in 0 .. FlObjects /\ n # 0
            BY <1>1
        <3>2. QED BY <3>1 DEF Walking
    <2>2. QED BY <2>1
<1>6. /\ \A i \in 0 .. Len(s) + 1 : On(head, s, tail, i) \in head .. tail
      /\ On(head, s, tail, 0) = head /\ On(head, s, tail, Len(s) + 1) = tail
      /\ \A i \in 1 .. Len(s) : On(head, s, tail, i) = s[i] /\ s[i] \in FlObject
    BY OnIs, HeadAndTail
<1> DEFINE upTo(n) == IF n < Len(s) THEN n ELSE Len(s)
           S == {n \in Nat : n <= FlObjects => IsWalked(w[n], s, upTo(n))}
<1>7. 0 \in S
    <2>1. upTo(0) = 0
        BY <1>3
    <2>2. w[0] \in Seq(head .. tail) /\ Len(w[0]) = 1 /\ w[0][1] = head
        <3>1. head \in head .. tail
            BY HeadAndTail DEF Ends
        <3>2. QED BY <1>4, <3>1, SingleIs
    <2>3. IsWalked(w[0], s, 0)
        BY <1>6, <2>2 DEF IsWalked
    <2>4. QED BY <2>1, <2>3
<1>8. ASSUME NEW n \in Nat, n < FlObjects, n \in S PROVE n + 1 \in S
    <2>1. PICK m : m = upTo(n) /\ m \in 0 .. Len(s)
        BY <1>3
    <2>2. IsWalked(w[n], s, m)
        BY <1>3, <1>8, <2>1
    <2>3. PICK v : v = w[n]
        OBVIOUS
    <2>4. /\ v \in Seq(head .. tail) /\ Len(v) = m + 1
          /\ \A i \in 0 .. m : v[i + 1] = On(head, s, tail, i)
        BY <2>2, <2>3 DEF IsWalked
    <2>5. Last(v) = On(head, s, tail, m) /\ flNext[On(head, s, tail, m)] = On(head, s, tail, m + 1)
        BY <2>1, <2>4 DEF Last, Links
    <2>6. PICK o : o = On(head, s, tail, m + 1)
        OBVIOUS
    <2>7. w[n + 1] = IF o = tail THEN v ELSE Append(v, o)
        <3>1. n + 1 \in 1 .. FlObjects /\ n + 1 - 1 = n
            BY <1>3, <1>8
        <3>2. QED BY <1>5, <2>3, <2>5, <2>6, <3>1
    <2>8. CASE m = Len(s)
        <3>1. upTo(n + 1) = m
            BY <1>3, <2>1, <2>8
        <3>2. o = tail
            BY <1>6, <2>6, <2>8
        <3>3. QED BY <2>2, <2>3, <2>7, <3>1, <3>2
    <2>9. CASE m # Len(s)
        <3>1. m = n /\ upTo(n + 1) = m + 1 /\ m + 1 \in 1 .. Len(s)
            BY <1>3, <2>1, <2>9
        <3>2. o \in FlObject /\ o # tail /\ o \in head .. tail
            BY <1>6, <2>6, <3>1, HeadAndTail
        <3>3. w[n + 1] = Append(v, o)
            BY <2>7, <3>2
        <3>4. w[n + 1] \in Seq(head .. tail) /\ Len(w[n + 1]) = m + 2
            BY <2>1, <2>4, <3>2, <3>3
        <3>5. ASSUME NEW i \in 0 .. m + 1 PROVE w[n + 1][i + 1] = On(head, s, tail, i)
            <4>1. CASE i = m + 1
                BY <2>1, <2>4, <2>6, <3>2, <3>3, <4>1
            <4>2. CASE i # m + 1
                <5>1. i \in 0 .. m /\ i + 1 \in 1 .. Len(v)
                    BY <2>1, <2>4, <3>5, <4>2
                <5>2. w[n + 1][i + 1] = v[i + 1]
                    BY <2>4, <3>2, <3>3, <5>1
                <5>3. QED BY <2>4, <5>1, <5>2
            <4>3. QED BY <4>1, <4>2
        <3>6. IsWalked(w[n + 1], s, m + 1)
            <4>1. Len(w[n + 1]) = (m + 1) + 1
                BY <2>1, <3>4
            <4>2. QED BY <3>4, <3>5, <4>1 DEF IsWalked
        <3>7. QED BY <3>1, <3>6
    <2>10. QED BY <2>8, <2>9
<1>9. FlObjects \in S
    <2> HIDE DEF S
    <2>1. 0 .. FlObjects \subseteq S
        BY <1>3, <1>7, <1>8, OneMore
    <2>2. QED BY <1>3, <2>1
<1>10. IsWalked(w[FlObjects], s, Len(s))
    BY <1>3, <1>9
<1>11. PICK v : v = w[FlObjects]
    OBVIOUS
<1>12. v \in Seq(head .. tail) /\ Len(v) = Len(s) + 1 /\ \A i \in 0 .. Len(s) : v[i + 1] = On(head, s, tail, i)
    BY <1>10, <1>11 DEF IsWalked
<1>13. Tail(v) \in Seq(head .. tail) /\ Len(Tail(v)) = Len(s) /\ \A i \in 1 .. Len(s) : Tail(v)[i] = v[i + 1]
    BY <1>3, <1>12
<1>14. \A i \in 1 .. Len(s) : Tail(v)[i] = s[i]
    BY <1>3, <1>6, <1>12, <1>13
<1>15. s \in Seq(head .. tail)
    <2>1. s \in Seq(FlObject)
        BY DEF FlList
    <2>2. FlObject \subseteq head .. tail
        BY HeadAndTail
    <2>3. QED BY <2>1, <2>2, WiderSeq
<1>16. Tail(v) = s
    BY <1>13, <1>14, <1>15, SeqEqual
<1>17. QED BY <1>2, <1>11, <1>16
-----------------------------------------------------------------------------
(* A list that loses an object or gets one *)

LEMMA MembersAre == \A s : FlList(s) => \A x : x \in ToSet(s) <=> \E i \in 1 .. Len(s) : x = s[i]
<1> SUFFICES ASSUME NEW s, FlList(s) PROVE \A x : x \in ToSet(s) <=> \E i \in 1 .. Len(s) : x = s[i]
    OBVIOUS
<1>1. DOMAIN s = 1 .. Len(s)
    BY DEF FlList
<1>2. QED BY <1>1 DEF ToSet

LEMMA WithoutIs ==
    ASSUME NEW s, FlList(s), NEW i \in 1 .. Len(s), NEW t \in Seq(FlObject), IsRemoved(t, s, i)
    PROVE  FlList(t) /\ ToSet(t) = ToSet(s) \ {s[i]} /\ Len(s) \in Nat
<1>1. s \in Seq(FlObject) /\ Len(s) \in Nat
    BY DEF FlList
<1>2. /\ t \in Seq(FlObject) /\ Len(t) = Len(s) - 1
      /\ \A j \in 1 .. i - 1 : t[j] = s[j]
      /\ \A j \in i .. Len(s) - 1 : t[j] = s[j + 1]
    BY DEF IsRemoved
<1>3. \A j \in 1 .. Len(t) : \E x \in 1 .. Len(s) : t[j] = s[x] /\ x = IF j < i THEN j ELSE j + 1
    <2>1. ASSUME NEW j \in 1 .. Len(t), j < i
          PROVE  \E x \in 1 .. Len(s) : t[j] = s[x] /\ x = IF j < i THEN j ELSE j + 1
        <3>1. j \in 1 .. Len(s) /\ j \in 1 .. i - 1
            BY <1>1, <1>2, <2>1
        <3>2. t[j] = s[j]
            BY <1>2, <3>1
        <3>3. QED BY <2>1, <3>1, <3>2
    <2>2. ASSUME NEW j \in 1 .. Len(t), ~(j < i)
          PROVE  \E x \in 1 .. Len(s) : t[j] = s[x] /\ x = IF j < i THEN j ELSE j + 1
        <3>1. j + 1 \in 1 .. Len(s) /\ t[j] = s[j + 1]
            BY <1>1, <1>2, <2>2
        <3>2. QED BY <2>2, <3>1
    <2>3. QED BY <2>1, <2>2
<1>4. ASSUME NEW j \in 1 .. Len(t), NEW k \in 1 .. Len(t), j # k PROVE t[j] # t[k]
    <2>1. PICK x \in 1 .. Len(s) : t[j] = s[x] /\ x = IF j < i THEN j ELSE j + 1
        BY <1>3
    <2>2. PICK y \in 1 .. Len(s) : t[k] = s[y] /\ y = IF k < i THEN k ELSE k + 1
        BY <1>3
    <2>3. x # y
        BY <1>1, <1>2, <1>4, <2>1, <2>2
    <2>4. QED BY <2>1, <2>2, <2>3 DEF FlList
<1>5. FlList(t)
    BY <1>2, <1>4 DEF FlList
<1>6. ASSUME NEW x \in ToSet(t) PROVE x \in ToSet(s) \ {s[i]}
    <2>1. PICK j \in 1 .. Len(t) : x = t[j]
        BY <1>5, <1>6, MembersAre
    <2>2. PICK k \in 1 .. Len(s) : x = s[k] /\ k = IF j < i THEN j ELSE j + 1
        BY <1>3, <2>1
    <2>3. k # i
        BY <1>1, <2>2
    <2>4. QED BY <2>2, <2>3, MembersAre DEF FlList
<1>7. ASSUME NEW x \in ToSet(s) \ {s[i]} PROVE x \in ToSet(t)
    <2>1. PICK k \in 1 .. Len(s) : x = s[k]
        BY <1>7, MembersAre
    <2>2. k # i
        BY <1>7, <2>1
    <2>3. CASE k < i
        <3>1. k \in 1 .. Len(t) /\ t[k] = s[k]
            BY <1>1, <1>2, <2>3
        <3>2. QED BY <1>5, <2>1, <3>1, MembersAre
    <2>4. CASE k > i
        <3>1. k - 1 \in 1 .. Len(t) /\ k - 1 \in i .. Len(s) - 1 /\ (k - 1) + 1 = k
            BY <1>1, <1>2, <2>4
        <3>2. t[k - 1] = s[(k - 1) + 1]
            BY <1>2, <3>1
        <3>3. QED BY <1>5, <2>1, <3>1, <3>2, MembersAre
    <2>5. QED BY <1>1, <2>2, <2>3, <2>4
<1>8. QED BY <1>1, <1>5, <1>6, <1>7

LEMMA ListRemoved ==
    ASSUME NEW s, FlList(s), NEW i \in 1 .. Len(s), NEW t, t = RemoveAt(s, i)
    PROVE  FlList(t) /\ IsRemoved(t, s, i) /\ ToSet(t) = ToSet(s) \ {s[i]} /\ Len(s) \in Nat
<1>1. s \in Seq(FlObject)
    BY DEF FlList
<1>2. t \in Seq(FlObject) /\ IsRemoved(t, s, i)
    BY <1>1, RemoveAtIs DEF IsRemoved
<1>3. QED BY <1>2, WithoutIs

LEMMA ListInserted ==
    ASSUME NEW s, FlList(s), NEW i \in 1 .. Len(s) + 1, NEW o \in FlObject \ ToSet(s),
           NEW t \in Seq(FlObject), IsInserted(t, s, i, o)
    PROVE  FlList(t) /\ ToSet(t) = ToSet(s) \cup {o} /\ Len(s) \in Nat
<1>1. s \in Seq(FlObject) /\ Len(s) \in Nat /\ \A j \in 1 .. Len(s) : s[j] # o
    BY MembersAre DEF FlList
<1>2. /\ Len(t) = Len(s) + 1 /\ t[i] = o
      /\ \A j \in 1 .. i - 1 : t[j] = s[j]
      /\ \A j \in i + 1 .. Len(s) + 1 : t[j] = s[j - 1]
    BY DEF IsInserted
<1>3. \A j \in 1 .. Len(t) : j # i => \E x \in 1 .. Len(s) : t[j] = s[x] /\ x = IF j < i THEN j ELSE j - 1
    <2>1. ASSUME NEW j \in 1 .. Len(t), j < i
          PROVE  \E x \in 1 .. Len(s) : t[j] = s[x] /\ x = IF j < i THEN j ELSE j - 1
        <3>1. j \in 1 .. Len(s) /\ t[j] = s[j]
            BY <1>1, <1>2, <2>1
        <3>2. QED BY <2>1, <3>1
    <2>2. ASSUME NEW j \in 1 .. Len(t), i < j
          PROVE  \E x \in 1 .. Len(s) : t[j] = s[x] /\ x = IF j < i THEN j ELSE j - 1
        <3>1. j - 1 \in 1 .. Len(s) /\ t[j] = s[j - 1] /\ ~(j < i)
            BY <1>1, <1>2, <2>2
        <3>2. QED BY <3>1
    <2>3. \A j \in 1 .. Len(t) : j # i => j < i \/ i < j
        OBVIOUS
    <2>4. QED BY <2>1, <2>2, <2>3
<1>4. ASSUME NEW j \in 1 .. Len(t), NEW k \in 1 .. Len(t), j # k PROVE t[j] # t[k]
    <2>1. CASE j # i /\ k # i
        <3>1. PICK x \in 1 .. Len(s) : t[j] = s[x] /\ x = IF j < i THEN j ELSE j - 1
            BY <1>3, <2>1
        <3>2. PICK y \in 1 .. Len(s) : t[k] = s[y] /\ y = IF k < i THEN k ELSE k - 1
            BY <1>3, <2>1
        <3>3. x # y
            BY <1>1, <1>2, <1>4, <2>1, <3>1, <3>2
        <3>4. QED BY <3>1, <3>2, <3>3 DEF FlList
    <2>2. CASE j = i
        <3>1. PICK y \in 1 .. Len(s) : t[k] = s[y]
            BY <1>3, <1>4, <2>2
        <3>2. QED BY <1>1, <1>2, <2>2, <3>1
    <2>3. CASE k = i
        <3>1. PICK y \in 1 .. Len(s) : t[j] = s[y]
            BY <1>3, <1>4, <2>3
        <3>2. QED BY <1>1, <1>2, <2>3, <3>1
    <2>4. QED BY <2>1, <2>2, <2>3
<1>5. FlList(t)
    BY <1>4 DEF FlList
<1>6. ASSUME NEW x \in ToSet(t) PROVE x \in ToSet(s) \cup {o}
    <2>1. PICK j \in 1 .. Len(t) : x = t[j]
        BY <1>5, <1>6, MembersAre
    <2>2. CASE j = i
        BY <1>2, <2>1, <2>2
    <2>3. CASE j # i
        <3>1. PICK k \in 1 .. Len(s) : x = s[k]
            BY <1>3, <2>1, <2>3
        <3>2. QED BY <3>1, MembersAre
    <2>4. QED BY <2>2, <2>3
<1>7. o \in ToSet(t)
    <2>1. i \in 1 .. Len(t)
        BY <1>2
    <2>2. QED BY <1>2, <1>5, <2>1, MembersAre
<1>8. ASSUME NEW x \in ToSet(s) PROVE x \in ToSet(t)
    <2>1. PICK k \in 1 .. Len(s) : x = s[k]
        BY <1>8, MembersAre
    <2>2. CASE k < i
        <3>1. k \in 1 .. Len(t) /\ t[k] = s[k]
            BY <1>1, <1>2, <2>2
        <3>2. QED BY <1>5, <2>1, <3>1, MembersAre
    <2>3. CASE k >= i
        <3>1. k + 1 \in 1 .. Len(t) /\ k + 1 \in i + 1 .. Len(s) + 1 /\ (k + 1) - 1 = k
            BY <1>1, <1>2, <2>3
        <3>2. t[k + 1] = s[(k + 1) - 1]
            BY <1>2, <3>1
        <3>3. QED BY <1>5, <2>1, <3>1, <3>2, MembersAre
    <2>4. QED BY <1>1, <2>2, <2>3
<1>9. QED BY <1>1, <1>5, <1>6, <1>7, <1>8

LEMMA AppendInserts ==
    ASSUME NEW s, FlList(s), NEW o \in FlObject
    PROVE  Append(s, o) \in Seq(FlObject) /\ IsInserted(Append(s, o), s, Len(s) + 1, o)
<1>1. s \in Seq(FlObject) /\ Len(s) \in Nat
    BY DEF FlList
<1>2. /\ Append(s, o) \in Seq(FlObject) /\ Len(Append(s, o)) = Len(s) + 1
      /\ Append(s, o)[Len(s) + 1] = o /\ \A j \in 1 .. Len(s) : Append(s, o)[j] = s[j]
    BY <1>1
<1>3. QED BY <1>1, <1>2 DEF IsInserted
-----------------------------------------------------------------------------
(* The objects *)

\* Each object that has been got is held or listed, and listed once.
Accounts(held, freed, size) ==
    /\ FlList(freed) /\ held \subseteq FlObject
    /\ held \cap ToSet(freed) = {}
    /\ held \cup ToSet(freed) = DOMAIN size

LEMMA ListedGiven ==
    ASSUME Accounts(flHeld, flFreed, flSize), NEW i \in 1 .. Len(flFreed), NEW o, o = flFreed[i],
           FlGive(o), UNCHANGED flSize
    PROVE  /\ Accounts(flHeld', flFreed', flSize')
           /\ FlList(flFreed') /\ IsRemoved(flFreed', flFreed, i) /\ ToSet(flFreed') = ToSet(flFreed) \ {o}
<1>1. FlList(flFreed)
    BY DEF Accounts
<1> DEFINE I == {j \in 1 .. Len(flFreed) : flFreed[j] = o}
<1>2. flFreed' = LET j == SelectInSeq(flFreed, LAMBDA p : p = o)
                 IN  IF j = 0 THEN flFreed ELSE RemoveAt(flFreed, j)
    BY DEF FlGive
<1>3. flFreed' = LET j == IF I # {} THEN Min(I) ELSE 0
                 IN  IF j = 0 THEN flFreed ELSE RemoveAt(flFreed, j)
    BY <1>2 DEF SelectInSeq
<1>4. I = {i}
    BY <1>1 DEF FlList
<1> HIDE DEF I
<1>5. Min(I) = i
    <2>1. i \in I /\ \A y \in I : i =< y
        BY <1>4
    <2>2. QED BY <1>4, <2>1 DEF Min
<1>6. i # 0
    OBVIOUS
<1>7. flFreed' = RemoveAt(flFreed, i)
    BY <1>3, <1>4, <1>5, <1>6
<1>8. FlList(flFreed') /\ IsRemoved(flFreed', flFreed, i) /\ ToSet(flFreed') = ToSet(flFreed) \ {o}
    BY <1>1, <1>7, ListRemoved
<1>9. flHeld' = flHeld \cup {o} /\ o \in ToSet(flFreed) /\ o \in FlObject /\ flSize' = flSize
    BY <1>1, MembersAre DEF FlGive, FlList
<1>10. QED BY <1>8, <1>9 DEF Accounts

LEMMA FreshGiven ==
    ASSUME Accounts(flHeld, flFreed, flSize), NEW sz, FlFresh(sz)
    PROVE  Accounts(flHeld', flFreed', flSize') /\ flFreed' = flFreed
<1>1. PICK o \in FlObject \ DOMAIN flSize :
         /\ flSize' = [p \in DOMAIN flSize \cup {o} |-> IF p = o THEN sz ELSE flSize[p]]
         /\ FlGive(o)
    BY DEF FlFresh
<1>2. FlList(flFreed) /\ o \notin ToSet(flFreed)
    BY DEF Accounts
<1> DEFINE I == {j \in 1 .. Len(flFreed) : flFreed[j] = o}
<1>3. flFreed' = LET j == SelectInSeq(flFreed, LAMBDA p : p = o)
                 IN  IF j = 0 THEN flFreed ELSE RemoveAt(flFreed, j)
    BY <1>1 DEF FlGive
<1>4. flFreed' = LET j == IF I # {} THEN Min(I) ELSE 0
                 IN  IF j = 0 THEN flFreed ELSE RemoveAt(flFreed, j)
    BY <1>3 DEF SelectInSeq
<1>5. I = {}
    BY <1>2, MembersAre
<1>6. flFreed' = flFreed
    BY <1>4, <1>5
<1>7. DOMAIN flSize' = DOMAIN flSize \cup {o} /\ flHeld' = flHeld \cup {o}
    BY <1>1 DEF FlGive
<1>8. QED BY <1>2, <1>6, <1>7 DEF Accounts

LEMMA HeldTaken ==
    ASSUME Accounts(flHeld, flFreed, flSize), NEW o \in flHeld, FlTake(o), UNCHANGED flSize
    PROVE  /\ Accounts(flHeld', flFreed', flSize')
           /\ FlList(flFreed') /\ IsInserted(flFreed', flFreed, Len(flFreed) + 1, o)
           /\ ToSet(flFreed') = ToSet(flFreed) \cup {o} /\ o \in FlObject \ ToSet(flFreed)
<1>1. FlList(flFreed) /\ o \in FlObject \ ToSet(flFreed)
    BY DEF Accounts
<1>2. flFreed' = Append(flFreed, o) /\ flHeld' = flHeld \ {o} /\ flSize' = flSize
    BY DEF FlTake
<1>3. flFreed' \in Seq(FlObject) /\ IsInserted(flFreed', flFreed, Len(flFreed) + 1, o)
    BY <1>1, <1>2, AppendInserts
<1>4. Len(flFreed) + 1 \in 1 .. Len(flFreed) + 1
    BY <1>1 DEF FlList
<1>5. FlList(flFreed') /\ ToSet(flFreed') = ToSet(flFreed) \cup {o}
    BY <1>1, <1>3, <1>4, ListInserted
<1>6. QED BY <1>1, <1>2, <1>3, <1>5 DEF Accounts
-----------------------------------------------------------------------------
(* The three lists *)

\* FIFOFreelistHeap: the place of the last object is in tail.
Queue(f, s) ==
    /\ Links(f, head, s, tail)
    /\ f[tail] = IF Len(s) = 0 THEN tail ELSE s[Len(s)]

\* FIFODLFreelistHeap: from tail on, in both directions.
TwoWays(f, g, s) == Links(g, tail, s, head) /\ Back(f, tail, s, head)

\* FirstFitHeap: by address.
ByAddress(f, s, count) ==
    /\ \E list : FlList(list) /\ Ascending(list) /\ ToSet(list) = ToSet(s) /\ Links(f, head, list, tail)
    /\ count = Len(s)

FlInv ==
    /\ flKind \in {"FIFO", "FIFODL", "FirstFit"}
    /\ flNext \in FlLinks /\ flPrev \in FlLinks
    /\ Accounts(flHeld, flFreed, flSize) /\ ~flTrampled
    /\ flKind = "FIFO" => Queue(flNext, flFreed)
    /\ flKind = "FIFODL" => TwoWays(flNext, flPrev, flFreed)
    /\ flKind = "FirstFit" => ByAddress(flNext, flFreed, flCount)

LEMMA FifoMallocKeeps ==
    ASSUME FlInv, flKind = "FIFO", FifoMalloc, UNCHANGED flKind
    PROVE  FlInv'
<1>1. /\ flNext \in FlLinks /\ flPrev \in FlLinks /\ Accounts(flHeld, flFreed, flSize)
      /\ Queue(flNext, flFreed) /\ ~flTrampled
    BY DEF FlInv
<1> PICK s : s = flFreed
    OBVIOUS
<1> PICK n : n = Len(s)
    OBVIOUS
<1> PICK o : o = flNext[head]
    OBVIOUS
<1> DEFINE at(i) == On(head, s, tail, i)
<1>2. FlList(s) /\ Links(flNext, head, s, tail) /\ n \in Nat
    BY <1>1 DEF Accounts, Queue, FlList
<1>3. /\ at(0) = head /\ at(n + 1) = tail
      /\ \A i \in 1 .. n : at(i) = s[i] /\ s[i] \in FlObject
      /\ \A i \in 0 .. n + 1 : at(i) \in head .. tail
    BY <1>2, HeadAndTail, OnIs
<1>4. \A i \in 0 .. n : flNext[at(i)] = at(i + 1)
    BY <1>2 DEF Links
<1>5. o # tail /\ o = at(1)
    <2>1. 0 \in 0 .. n /\ 0 + 1 = 1
        BY <1>2
    <2>2. QED BY <1>3, <1>4, <2>1 DEF FifoMalloc
<1>6. n # 0 /\ 1 \in 1 .. n /\ o = s[1] /\ o \in FlObject
    <2>1. n # 0
        BY <1>3, <1>5
    <2>2. 1 \in 1 .. n
        BY <1>2, <2>1
    <2>3. QED BY <1>3, <1>5, <2>1, <2>2
<1>7. flNext[o] = at(2) /\ at(2) \in head .. tail
    <2>1. 1 \in 0 .. n /\ 2 \in 0 .. n + 1 /\ 1 + 1 = 2
        BY <1>2, <1>6
    <2>2. QED BY <1>3, <1>4, <1>5, <2>1
<1>8. flNext' = [flNext EXCEPT ![head] = at(2), ![o] = tail, ![tail] = IF at(2) = tail THEN tail ELSE @]
    BY <1>7 DEF FifoMalloc
<1>9. flPrev' = flPrev /\ flSize' = flSize /\ flTrampled' = flTrampled /\ FlGive(o)
    BY DEF FifoMalloc
<1>10. Accounts(flHeld', flFreed', flSize') /\ IsRemoved(flFreed', s, 1)
    BY <1>1, <1>6, <1>9, ListedGiven
<1> HIDE DEF at
<1>11. PICK g : g = flNext'
    OBVIOUS
<1>12. /\ g \in FlLinks /\ g[head] = at(2) /\ g[tail] = IF at(2) = tail THEN tail ELSE flNext[tail]
       /\ \A x \in FlObject : x # o => g[x] = flNext[x]
    <2>1. head \in head .. tail /\ tail \in head .. tail /\ o \in head .. tail /\ FlObject \subseteq head .. tail
          /\ head # tail /\ o # head /\ o # tail /\ head \notin FlObject /\ tail \notin FlObject
        BY <1>6, HeadAndTail DEF Ends
    <2>2. flNext \in [head .. tail -> head .. tail]
        BY <1>1 DEF FlLinks
    <2>3. g \in [head .. tail -> head .. tail]
        BY <1>7, <1>8, <1>11, <2>1, <2>2
    <2>4. g[head] = at(2) /\ g[tail] = IF at(2) = tail THEN tail ELSE flNext[tail]
        BY <1>8, <1>11, <2>1, <2>2
    <2>5. \A x \in FlObject : x # o => g[x] = flNext[x]
        BY <1>8, <1>11, <2>1, <2>2
    <2>6. QED BY <2>3, <2>4, <2>5 DEF FlLinks
<1>13. \A j \in 0 .. n : j # 0 /\ j # 1 => g[at(j)] = flNext[at(j)]
    <2>1. ASSUME NEW j \in 0 .. n, j # 0, j # 1 PROVE g[at(j)] = flNext[at(j)]
        <3>1. j \in 1 .. n /\ at(j) = s[j] /\ s[j] \in FlObject
            BY <1>2, <1>3, <2>1
        <3>2. s[j] # s[1]
            BY <1>2, <1>6, <2>1, <3>1 DEF FlList
        <3>3. QED BY <1>6, <1>12, <3>1, <3>2
    <2>2. QED BY <2>1
<1>14. PICK t : t = flFreed'
    OBVIOUS
<1>15. Links(g, head, t, tail)
    <2>1. 1 - 1 = 0 /\ 1 + 1 = 2
        OBVIOUS
    <2>2. g[On(head, s, tail, 1 - 1)] = On(head, s, tail, 1 + 1)
        BY <1>3, <1>12, <2>1 DEF at
    <2>3. \A j \in 0 .. Len(s) : j # 1 - 1 /\ j # 1 => g[On(head, s, tail, j)] = flNext[On(head, s, tail, j)]
        BY <1>13, <2>1 DEF at
    <2>4. IsRemoved(t, s, 1) /\ Ends(head, tail) /\ 1 \in 1 .. Len(s)
        BY <1>6, <1>10, <1>14, HeadAndTail
    <2>5. QED BY <1>2, <2>2, <2>3, <2>4, LinksRemoved
<1>16. g[tail] = IF Len(t) = 0 THEN tail ELSE t[Len(t)]
    <2>1. Len(t) = n - 1 /\ \A j \in 1 .. n - 1 : t[j] = s[j + 1]
        BY <1>10, <1>14 DEF IsRemoved
    <2>2. CASE n = 1
        <3>1. at(2) = tail
            BY <1>3, <2>2
        <3>2. QED BY <1>12, <2>1, <2>2, <3>1
    <2>3. CASE n # 1
        <3>1. n - 1 \in 1 .. n - 1 /\ (n - 1) + 1 = n /\ 2 \in 1 .. n /\ n - 1 # 0
            BY <1>2, <1>6, <2>3
        <3>2. at(2) # tail
            BY <1>3, <3>1, HeadAndTail
        <3>3. flNext[tail] = s[n]
            BY <1>1, <1>6 DEF Queue
        <3>4. t[n - 1] = s[n]
            BY <2>1, <3>1
        <3>5. QED BY <1>12, <2>1, <3>1, <3>2, <3>3, <3>4
    <2>4. QED BY <2>2, <2>3
<1>17. Queue(flNext', flFreed')
    BY <1>11, <1>14, <1>15, <1>16 DEF Queue
<1>18. flNext' \in FlLinks
    BY <1>11, <1>12
<1>19. QED BY <1>1, <1>9, <1>10, <1>17, <1>18 DEF FlInv

LEMMA FifoFreeKeeps ==
    ASSUME FlInv, flKind = "FIFO", NEW o \in flHeld, FifoFree(o), UNCHANGED flKind
    PROVE  FlInv'
<1>1. /\ flNext \in FlLinks /\ flPrev \in FlLinks /\ Accounts(flHeld, flFreed, flSize)
      /\ Queue(flNext, flFreed) /\ ~flTrampled
    BY DEF FlInv
<1> PICK s : s = flFreed
    OBVIOUS
<1> PICK n : n = Len(s)
    OBVIOUS
<1> PICK last : last = flNext[tail]
    OBVIOUS
<1> DEFINE at(i) == On(head, s, tail, i)
<1>2. FlList(s) /\ Links(flNext, head, s, tail) /\ n \in Nat
    BY <1>1 DEF Accounts, Queue, FlList
<1>3. /\ at(0) = head /\ at(n + 1) = tail
      /\ \A i \in 1 .. n : at(i) = s[i] /\ s[i] \in FlObject
    BY <1>2, HeadAndTail, OnIs
<1>4. \A i \in 0 .. n : flNext[at(i)] = at(i + 1)
    BY <1>2 DEF Links
<1>5. flPrev' = flPrev /\ flSize' = flSize /\ FlTake(o)
    BY DEF FifoFree
<1>6. /\ Accounts(flHeld', flFreed', flSize') /\ IsInserted(flFreed', s, n + 1, o)
      /\ o \in FlObject \ ToSet(s)
    BY <1>1, <1>5, HeldTaken
<1>7. last = IF n = 0 THEN tail ELSE s[n]
    BY <1>1 DEF Queue
<1>8. ~flTrampled'
    <2>1. n # 0 => n \in 1 .. n
        BY <1>2
    <2>2. n # 0 => s[n] \in ToSet(s)
        BY <1>2, <2>1, MembersAre
    <2>3. last \notin flHeld
        BY <1>1, <1>7, <2>2, HeadAndTail DEF Accounts
    <2>4. QED BY <1>1, <2>3 DEF FifoFree
<1> DEFINE linked == [flNext EXCEPT ![o] = tail, ![last] = o]
<1>9. flNext' = [linked EXCEPT ![tail] = o, ![head] = IF linked[head] = tail THEN o ELSE @]
    BY DEF FifoFree
<1>10. PICK g : g = flNext'
    OBVIOUS
<1>11. PICK t : t = flFreed'
    OBVIOUS
<1> HIDE DEF at
<1>12. /\ head \in head .. tail /\ tail \in head .. tail /\ o \in head .. tail /\ FlObject \subseteq head .. tail
       /\ head # tail /\ o # head /\ o # tail /\ head \notin FlObject /\ tail \notin FlObject
    BY <1>6, HeadAndTail DEF Ends
<1>13. flNext \in [head .. tail -> head .. tail]
    BY <1>1 DEF FlLinks
<1>14. \A j \in 1 .. n : s[j] # o
    BY <1>2, <1>6, MembersAre
<1>15. /\ g \in FlLinks /\ g[tail] = o /\ g[o] = tail /\ g[at(n)] = o
       /\ \A j \in 0 .. n : j # n => g[at(j)] = flNext[at(j)]
    <2>1. CASE n = 0
        <3>1. last = tail
            BY <1>7, <2>1
        <3>2. flNext[head] = tail
            BY <1>2, <1>3, <1>4, <2>1
        <3>3. linked = [flNext EXCEPT ![o] = tail, ![tail] = o]
            BY <3>1
        <3>4. linked \in [head .. tail -> head .. tail] /\ linked[head] = tail /\ linked[o] = tail
            BY <1>12, <1>13, <3>2, <3>3
        <3> HIDE DEF linked
        <3>5. g = [linked EXCEPT ![tail] = o, ![head] = o]
            BY <1>9, <1>10, <3>4
        <3>6. g \in [head .. tail -> head .. tail] /\ g[tail] = o /\ g[o] = tail /\ g[head] = o
            BY <1>12, <3>4, <3>5
        <3>7. QED BY <1>3, <2>1, <3>6 DEF FlLinks
    <2>2. CASE n # 0
        <3>1. n \in 1 .. n /\ 1 \in 1 .. n /\ last = s[n] /\ last \in FlObject /\ last # o
            BY <1>2, <1>3, <1>7, <1>14, <2>2
        <3>2. linked \in [head .. tail -> head .. tail] /\ linked[head] = flNext[head]
              /\ linked[o] = tail /\ linked[last] = o
              /\ \A x \in FlObject : x # o /\ x # last => linked[x] = flNext[x]
            BY <1>12, <1>13, <3>1
        <3>3. flNext[head] # tail
            <4>1. 0 \in 0 .. n /\ 0 + 1 = 1
                BY <1>2
            <4>2. flNext[head] = s[1] /\ s[1] \in FlObject
                BY <1>3, <1>4, <3>1, <4>1
            <4>3. QED BY <1>12, <4>2
        <3> HIDE DEF linked
        <3>4. g = [linked EXCEPT ![tail] = o, ![head] = linked[head]]
            BY <1>9, <1>10, <3>2, <3>3
        <3>5. g \in [head .. tail -> head .. tail] /\ g[tail] = o /\ g[o] = tail /\ g[head] = flNext[head]
              /\ g[last] = o /\ \A x \in FlObject : x # o /\ x # last => g[x] = flNext[x]
            BY <1>12, <3>1, <3>2, <3>4
        <3>6. at(n) = last
            BY <1>3, <3>1
        <3>7. ASSUME NEW j \in 0 .. n, j # n PROVE g[at(j)] = flNext[at(j)]
            <4>1. CASE j = 0
                BY <1>3, <3>5, <4>1
            <4>2. CASE j # 0
                <5>1. j \in 1 .. n /\ at(j) = s[j] /\ s[j] \in FlObject
                    BY <1>2, <1>3, <3>7, <4>2
                <5>2. s[j] # s[n] /\ s[j] # o
                    BY <1>2, <1>14, <3>1, <3>7, <5>1 DEF FlList
                <5>3. QED BY <3>1, <3>5, <5>1, <5>2
            <4>3. QED BY <4>1, <4>2
        <3>8. QED BY <3>5, <3>6, <3>7 DEF FlLinks
    <2>3. QED BY <2>1, <2>2
<1>16. Links(g, head, t, tail)
    <2>1. (n + 1) - 1 = n /\ n + 1 \in 1 .. n + 1
        BY <1>2
    <2>2. g[On(head, s, tail, (n + 1) - 1)] = o /\ g[o] = On(head, s, tail, n + 1)
        BY <1>3, <1>15, <2>1 DEF at
    <2>3. \A j \in 0 .. Len(s) : j # (n + 1) - 1 => g[On(head, s, tail, j)] = flNext[On(head, s, tail, j)]
        BY <1>15, <2>1 DEF at
    <2>4. IsInserted(t, s, n + 1, o) /\ Ends(head, tail) /\ n + 1 \in 1 .. Len(s) + 1
        BY <1>6, <1>11, <2>1, HeadAndTail
    <2>5. PICK m : m = n + 1
        OBVIOUS
    <2>6. QED BY <1>2, <2>2, <2>3, <2>4, <2>5, LinksInserted
<1>17. Len(t) = n + 1 /\ t[n + 1] = o
    BY <1>6, <1>11 DEF IsInserted
<1>18. Queue(flNext', flFreed')
    BY <1>2, <1>10, <1>11, <1>15, <1>16, <1>17 DEF Queue
<1>19. flNext' \in FlLinks
    BY <1>10, <1>15
<1>20. QED BY <1>1, <1>5, <1>6, <1>8, <1>18, <1>19 DEF FlInv

\* An object that is linked both ways leaves the list.
LEMMA UnlinkedKeeps ==
    ASSUME FlInv, flKind = "FIFODL", NEW i \in 1 .. Len(flFreed), NEW o, o = flFreed[i],
           flNext' = [flNext EXCEPT ![flPrev[o]] = flNext[o], ![o] = tail],
           flPrev' = [flPrev EXCEPT ![flNext[o]] = flPrev[o], ![o] = head],
           FlGive(o), UNCHANGED <<flKind, flSize, flTrampled>>
    PROVE  FlInv'
<1>1. /\ flNext \in FlLinks /\ flPrev \in FlLinks /\ Accounts(flHeld, flFreed, flSize)
      /\ TwoWays(flNext, flPrev, flFreed) /\ ~flTrampled
    BY DEF FlInv
<1> PICK s : s = flFreed
    OBVIOUS
<1> PICK n : n = Len(s)
    OBVIOUS
<1> DEFINE at(k) == On(tail, s, head, k)
<1>2. FlList(s) /\ Links(flPrev, tail, s, head) /\ Back(flNext, tail, s, head) /\ n \in Nat /\ i \in 1 .. n
    BY <1>1 DEF Accounts, TwoWays, FlList
<1>3. /\ at(0) = tail /\ at(n + 1) = head
      /\ \A k \in 1 .. n : at(k) = s[k] /\ s[k] \in FlObject
      /\ \A k \in 0 .. n + 1 : at(k) \in head .. tail
    BY <1>2, HeadAndTail, OnIs
<1>4. at(i) = o /\ o \in FlObject
    BY <1>2, <1>3
<1>5. flPrev[o] = at(i + 1) /\ flNext[o] = at(i - 1)
    <2>1. i \in 0 .. n /\ i - 1 \in 0 .. n /\ (i - 1) + 1 = i
        BY <1>2
    <2>2. flPrev[at(i)] = at(i + 1)
        BY <1>2, <2>1 DEF Links
    <2>3. flNext[at((i - 1) + 1)] = at(i - 1)
        BY <1>2, <2>1 DEF Back
    <2>4. QED BY <1>4, <2>1, <2>2, <2>3
<1>6. \A j \in 0 .. n + 1 : \A k \in 0 .. n + 1 : j # k => at(j) # at(k)
    BY <1>2, HeadAndTail, OnApart
<1> HIDE DEF at
<1>7. Accounts(flHeld', flFreed', flSize') /\ IsRemoved(flFreed', s, i)
    BY <1>1, <1>2, ListedGiven
<1>8. PICK g : g = flNext'
    OBVIOUS
<1>9. PICK p : p = flPrev'
    OBVIOUS
<1>10. PICK t : t = flFreed'
    OBVIOUS
<1>11. /\ i \in 0 .. n + 1 /\ i - 1 \in 0 .. n + 1 /\ i + 1 \in 0 .. n + 1
       /\ i # i - 1 /\ i # i + 1
    BY <1>2
<1>12. /\ at(i - 1) \in head .. tail /\ at(i + 1) \in head .. tail /\ at(i) \in head .. tail
       /\ at(i) # at(i - 1) /\ at(i) # at(i + 1) /\ head \in head .. tail /\ tail \in head .. tail
    BY <1>3, <1>6, <1>11, HeadAndTail DEF Ends
<1>13. /\ flNext \in [head .. tail -> head .. tail] /\ flPrev \in [head .. tail -> head .. tail]
    BY <1>1 DEF FlLinks
<1>14. g = [flNext EXCEPT ![at(i + 1)] = at(i - 1), ![at(i)] = tail]
    BY <1>4, <1>5, <1>8
<1>15. p = [flPrev EXCEPT ![at(i - 1)] = at(i + 1), ![at(i)] = head]
    BY <1>4, <1>5, <1>9
<1>16. /\ g \in [head .. tail -> head .. tail] /\ g[at(i + 1)] = at(i - 1)
       /\ \A x \in head .. tail : x # at(i + 1) /\ x # at(i) => g[x] = flNext[x]
    BY <1>12, <1>13, <1>14
<1>17. /\ p \in [head .. tail -> head .. tail] /\ p[at(i - 1)] = at(i + 1)
       /\ \A x \in head .. tail : x # at(i - 1) /\ x # at(i) => p[x] = flPrev[x]
    BY <1>12, <1>13, <1>15
<1>18. \A j \in 1 .. n + 1 : j # i + 1 /\ j # i => g[at(j)] = flNext[at(j)]
    <2>1. ASSUME NEW j \in 1 .. n + 1, j # i + 1, j # i PROVE g[at(j)] = flNext[at(j)]
        <3>1. j \in 0 .. n + 1
            BY <1>2, <2>1
        <3>2. at(j) \in head .. tail /\ at(j) # at(i + 1) /\ at(j) # at(i)
            BY <1>3, <1>6, <1>11, <2>1, <3>1
        <3>3. QED BY <1>16, <3>2
    <2>2. QED BY <2>1
<1>19. \A j \in 0 .. n : j # i - 1 /\ j # i => p[at(j)] = flPrev[at(j)]
    <2>1. ASSUME NEW j \in 0 .. n, j # i - 1, j # i PROVE p[at(j)] = flPrev[at(j)]
        <3>1. j \in 0 .. n + 1
            BY <1>2, <2>1
        <3>2. at(j) \in head .. tail /\ at(j) # at(i - 1) /\ at(j) # at(i)
            BY <1>3, <1>6, <1>11, <2>1, <3>1
        <3>3. QED BY <1>17, <3>2
    <2>2. QED BY <2>1
<1>20. IsRemoved(t, s, i) /\ Ends(tail, head) /\ i \in 1 .. Len(s)
    BY <1>2, <1>7, <1>10, HeadAndTail
<1>21. Links(p, tail, t, head)
    <2>1. p[On(tail, s, head, i - 1)] = On(tail, s, head, i + 1)
        BY <1>17 DEF at
    <2>2. \A j \in 0 .. Len(s) : j # i - 1 /\ j # i => p[On(tail, s, head, j)] = flPrev[On(tail, s, head, j)]
        BY <1>19 DEF at
    <2>3. QED BY <1>2, <1>20, <2>1, <2>2, LinksRemoved
<1>22. Back(g, tail, t, head)
    <2>1. g[On(tail, s, head, i + 1)] = On(tail, s, head, i - 1)
        BY <1>16 DEF at
    <2>2. \A j \in 1 .. Len(s) + 1 : j # i + 1 /\ j # i =>
              g[On(tail, s, head, j)] = flNext[On(tail, s, head, j)]
        BY <1>18 DEF at
    <2>3. QED BY <1>2, <1>20, <2>1, <2>2, BackRemoved
<1>23. TwoWays(flNext', flPrev', flFreed')
    BY <1>8, <1>9, <1>10, <1>21, <1>22 DEF TwoWays
<1>24. flNext' \in FlLinks /\ flPrev' \in FlLinks
    BY <1>8, <1>9, <1>16, <1>17 DEF FlLinks
<1>25. QED BY <1>1, <1>7, <1>23, <1>24 DEF FlInv

LEMMA FifoDlMallocKeeps ==
    ASSUME FlInv, flKind = "FIFODL", FifoDlMalloc, UNCHANGED flKind
    PROVE  FlInv'
<1>1. Accounts(flHeld, flFreed, flSize) /\ TwoWays(flNext, flPrev, flFreed)
    BY DEF FlInv
<1> PICK s : s = flFreed
    OBVIOUS
<1> PICK o : o = flPrev[tail]
    OBVIOUS
<1>2. FlList(s) /\ Links(flPrev, tail, s, head) /\ Back(flNext, tail, s, head) /\ Len(s) \in Nat
    BY <1>1 DEF Accounts, TwoWays, FlList
<1>3. /\ On(tail, s, head, 0) = tail /\ On(tail, s, head, Len(s) + 1) = head
      /\ \A k \in 1 .. Len(s) : On(tail, s, head, k) = s[k]
    BY <1>2, HeadAndTail, OnIs
<1>4. 0 \in 0 .. Len(s) /\ 0 + 1 = 1
    BY <1>2
<1>5. o = On(tail, s, head, 1) /\ flNext[On(tail, s, head, 1)] = tail
    BY <1>2, <1>3, <1>4 DEF Links, Back
<1>6. o # head
    BY DEF FifoDlMalloc
<1>7. Len(s) # 0
    BY <1>3, <1>5, <1>6
<1>8. 1 \in 1 .. Len(s) /\ o = s[1] /\ flNext[o] = tail
    BY <1>2, <1>3, <1>5, <1>7
<1>9. /\ flNext' = [flNext EXCEPT ![flPrev[o]] = flNext[o], ![o] = tail]
      /\ flPrev' = [flPrev EXCEPT ![flNext[o]] = flPrev[o], ![o] = head]
      /\ FlGive(o) /\ UNCHANGED <<flKind, flSize, flTrampled>>
    BY <1>8 DEF FifoDlMalloc
<1>10. QED BY <1>8, <1>9, UnlinkedKeeps

LEMMA FifoDlRemoveKeeps ==
    ASSUME FlInv, flKind = "FIFODL", NEW o \in ToSet(flFreed), FifoDlRemove(o), UNCHANGED flKind
    PROVE  FlInv'
<1>1. FlList(flFreed)
    BY DEF FlInv, Accounts
<1>2. PICK i \in 1 .. Len(flFreed) : o = flFreed[i]
    BY <1>1, MembersAre
<1>3. /\ flNext' = [flNext EXCEPT ![flPrev[o]] = flNext[o], ![o] = tail]
      /\ flPrev' = [flPrev EXCEPT ![flNext[o]] = flPrev[o], ![o] = head]
      /\ FlGive(o) /\ UNCHANGED <<flKind, flSize, flTrampled>>
    BY DEF FifoDlRemove
<1>4. QED BY <1>2, <1>3, UnlinkedKeeps

LEMMA FifoDlFreeKeeps ==
    ASSUME FlInv, flKind = "FIFODL", NEW o \in flHeld, FifoDlFree(o), UNCHANGED flKind
    PROVE  FlInv'
<1>1. /\ flNext \in FlLinks /\ flPrev \in FlLinks /\ Accounts(flHeld, flFreed, flSize)
      /\ TwoWays(flNext, flPrev, flFreed) /\ ~flTrampled
    BY DEF FlInv
<1> PICK s : s = flFreed
    OBVIOUS
<1> PICK n : n = Len(s)
    OBVIOUS
<1> DEFINE at(k) == On(tail, s, head, k)
<1>2. FlList(s) /\ Links(flPrev, tail, s, head) /\ Back(flNext, tail, s, head) /\ n \in Nat
    BY <1>1 DEF Accounts, TwoWays, FlList
<1>3. /\ at(0) = tail /\ at(n + 1) = head
      /\ \A k \in 1 .. n : at(k) = s[k] /\ s[k] \in FlObject
      /\ \A k \in 0 .. n + 1 : at(k) \in head .. tail
    BY <1>2, HeadAndTail, OnIs
<1>4. flNext[head] = at(n)
    <2>1. n \in 0 .. n
        BY <1>2
    <2>2. QED BY <1>2, <1>3, <2>1 DEF Back
<1>5. flSize' = flSize /\ FlTake(o)
    BY DEF FifoDlFree
<1>6. /\ Accounts(flHeld', flFreed', flSize') /\ IsInserted(flFreed', s, n + 1, o)
      /\ o \in FlObject \ ToSet(s)
    BY <1>1, <1>5, HeldTaken
<1>7. n # 0 => n \in 1 .. n
    BY <1>2
<1>8. ~flTrampled'
    <2>1. n # 0 => s[n] \in ToSet(s)
        BY <1>2, <1>7, MembersAre
    <2>2. at(n) \notin flHeld
        BY <1>1, <1>3, <1>7, <2>1, HeadAndTail DEF Accounts
    <2>3. QED BY <1>1, <1>4, <2>2 DEF FifoDlFree
<1>9. \A j \in 0 .. n + 1 : \A k \in 0 .. n + 1 : j # k => at(j) # at(k)
    BY <1>2, HeadAndTail, OnApart
<1> HIDE DEF at
<1>10. PICK g : g = flNext'
    OBVIOUS
<1>11. PICK p : p = flPrev'
    OBVIOUS
<1>12. PICK t : t = flFreed'
    OBVIOUS
<1>13. g = [flNext EXCEPT ![o] = at(n), ![head] = o] /\ p = [flPrev EXCEPT ![o] = head, ![at(n)] = o]
    BY <1>4, <1>10, <1>11 DEF FifoDlFree
<1>14. /\ head \in head .. tail /\ tail \in head .. tail /\ o \in head .. tail /\ o # head /\ o # tail
       /\ at(n) \in head .. tail
    <2>1. n \in 0 .. n + 1
        BY <1>2
    <2>2. QED BY <1>3, <1>6, <2>1, HeadAndTail DEF Ends
<1>15. flNext \in [head .. tail -> head .. tail] /\ flPrev \in [head .. tail -> head .. tail]
    BY <1>1 DEF FlLinks
<1>16. \A j \in 0 .. n + 1 : at(j) # o
    <2>1. \A j \in 1 .. n : s[j] # o
        BY <1>2, <1>6, MembersAre
    <2>2. \A j \in 0 .. n + 1 : j = 0 \/ j = n + 1 \/ j \in 1 .. n
        BY <1>2
    <2>3. QED BY <1>3, <1>14, <2>1, <2>2
<1>17. n \in 0 .. n + 1 /\ n + 1 \in 0 .. n + 1 /\ n # n + 1 /\ n + 1 \in 1 .. n + 1 /\ (n + 1) - 1 = n
    BY <1>2
<1>18. /\ g \in [head .. tail -> head .. tail] /\ g[head] = o /\ g[o] = at(n)
       /\ \A x \in head .. tail : x # o /\ x # head => g[x] = flNext[x]
    BY <1>13, <1>14, <1>15
<1>19. /\ p \in [head .. tail -> head .. tail] /\ p[at(n)] = o /\ p[o] = head
       /\ \A x \in head .. tail : x # o /\ x # at(n) => p[x] = flPrev[x]
    BY <1>13, <1>14, <1>15, <1>16, <1>17
<1>20. \A j \in 1 .. n + 1 : j # n + 1 => g[at(j)] = flNext[at(j)]
    <2>1. ASSUME NEW j \in 1 .. n + 1, j # n + 1 PROVE g[at(j)] = flNext[at(j)]
        <3>1. j \in 0 .. n + 1
            BY <1>2, <2>1
        <3>2. at(j) \in head .. tail /\ at(j) # o /\ at(j) # head
            BY <1>3, <1>9, <1>16, <1>17, <2>1, <3>1
        <3>3. QED BY <1>18, <3>2
    <2>2. QED BY <2>1
<1>21. \A j \in 0 .. n : j # n => p[at(j)] = flPrev[at(j)]
    <2>1. ASSUME NEW j \in 0 .. n, j # n PROVE p[at(j)] = flPrev[at(j)]
        <3>1. j \in 0 .. n + 1
            BY <1>2, <2>1
        <3>2. at(j) \in head .. tail /\ at(j) # o /\ at(j) # at(n)
            BY <1>3, <1>9, <1>16, <1>17, <2>1, <3>1
        <3>3. QED BY <1>19, <3>2
    <2>2. QED BY <2>1
<1>22. PICK m : m = n + 1
    OBVIOUS
<1>23. IsInserted(t, s, m, o) /\ Ends(tail, head) /\ m \in 1 .. Len(s) + 1 /\ m - 1 = n
    BY <1>6, <1>12, <1>17, <1>22, HeadAndTail
<1>24. Links(p, tail, t, head)
    <2>1. p[On(tail, s, head, m - 1)] = o /\ p[o] = On(tail, s, head, m)
        BY <1>3, <1>19, <1>22, <1>23 DEF at
    <2>2. \A j \in 0 .. Len(s) : j # m - 1 => p[On(tail, s, head, j)] = flPrev[On(tail, s, head, j)]
        BY <1>21, <1>23 DEF at
    <2>3. QED BY <1>2, <1>23, <2>1, <2>2, LinksInserted
<1>25. Back(g, tail, t, head)
    <2>1. g[On(tail, s, head, m)] = o /\ g[o] = On(tail, s, head, m - 1)
        BY <1>3, <1>18, <1>22, <1>23 DEF at
    <2>2. \A j \in 1 .. Len(s) + 1 : j # m => g[On(tail, s, head, j)] = flNext[On(tail, s, head, j)]
        BY <1>20, <1>22 DEF at
    <2>3. QED BY <1>2, <1>23, <2>1, <2>2, BackInserted
<1>26. TwoWays(flNext', flPrev', flFreed')
    BY <1>10, <1>11, <1>12, <1>24, <1>25 DEF TwoWays
<1>27. flNext' \in FlLinks /\ flPrev' \in FlLinks
    BY <1>10, <1>11, <1>18, <1>19 DEF FlLinks
<1>28. QED BY <1>1, <1>6, <1>8, <1>26, <1>27 DEF FlInv

\* A sequence of two parts: what is ahead of a list.
LEMMA AheadIs ==
    ASSUME NEW s, FlList(s)
    PROVE  /\ Len(<<head>> \o s) = Len(s) + 1 /\ Len(s) \in Nat
           /\ \A i \in 0 .. Len(s) : (<<head>> \o s)[i + 1] = On(head, s, tail, i)
<1>1. s \in Seq(head .. tail) /\ Len(s) \in Nat
    <2>1. s \in Seq(FlObject) /\ FlObject \subseteq head .. tail
        BY HeadAndTail DEF FlList
    <2>2. s \in Seq(head .. tail)
        BY <2>1, WiderSeq
    <2>3. QED BY <2>1, <2>2
<1>2. <<head>> \in Seq(head .. tail) /\ Len(<<head>>) = 1 /\ <<head>>[1] = head
    BY HeadAndTail, SingleIs DEF Ends
<1>3. Len(<<head>> \o s) = Len(s) + 1
    BY <1>1, <1>2, ConcatProperties
<1>4. ASSUME NEW i \in 0 .. Len(s) PROVE (<<head>> \o s)[i + 1] = On(head, s, tail, i)
    <2>1. CASE i = 0
        <3>1. (<<head>> \o s)[1] = <<head>>[1]
            BY <1>1, <1>2, ConcatProperties
        <3>2. QED BY <1>2, <2>1, <3>1 DEF On
    <2>2. CASE i # 0
        <3>1. i \in 1 .. Len(s) /\ (<<head>> \o s)[i + 1] = s[(i + 1) - 1]
            BY <1>1, <1>2, <2>2, ConcatProperties
        <3>2. (i + 1) - 1 = i /\ i # Len(s) + 1
            BY <1>1, <3>1
        <3>3. QED BY <2>2, <3>1, <3>2 DEF On
    <2>3. QED BY <2>1, <2>2
<1>5. QED BY <1>1, <1>3, <1>4

LEMMA FreshKeeps ==
    ASSUME FlInv, NEW sz, FlFresh(sz), UNCHANGED flKind
    PROVE  FlInv'
<1>1. Accounts(flHeld', flFreed', flSize') /\ flFreed' = flFreed
    BY FreshGiven DEF FlInv
<1>2. UNCHANGED <<flNext, flPrev, flCount, flTrampled>>
    BY DEF FlFresh
<1>3. QED BY <1>1, <1>2 DEF FlInv

LEMMA FirstFitMallocKeeps ==
    ASSUME FlInv, flKind = "FirstFit", NEW sz, FirstFitMalloc(sz), UNCHANGED flKind
    PROVE  FlInv'
<1>1. /\ flNext \in FlLinks /\ flPrev \in FlLinks /\ Accounts(flHeld, flFreed, flSize)
      /\ ByAddress(flNext, flFreed, flCount) /\ ~flTrampled
    BY DEF FlInv
<1>2. PICK s : FlList(s) /\ Ascending(s) /\ ToSet(s) = ToSet(flFreed) /\ Links(flNext, head, s, tail)
    BY <1>1 DEF ByAddress
<1>3. FlWalk = s
    BY <1>1, <1>2, FlWalkIs
<1> PICK n : n = Len(s)
    OBVIOUS
<1> DEFINE at(k) == On(head, s, tail, k)
           I == {k \in 1 .. Len(s) : flSize[s[k]] >= sz}
<1> PICK i : i = IF I # {} THEN Min(I) ELSE 0
    OBVIOUS
<1>4. SelectInSeq(FlWalk, LAMBDA o : flSize[o] >= sz) = i
    BY <1>3 DEF SelectInSeq
<1>5. CASE i = 0
    BY <1>4, <1>5, FreshKeeps DEF FirstFitMalloc
<1>6. CASE i # 0
    <2>1. i \in 1 .. n /\ n \in Nat
        <3>1. I # {} /\ I \subseteq Nat
            BY <1>6
        <3>2. Min(I) \in I
            BY <3>1, LeastIs
        <3>3. i \in I
            BY <1>6, <3>1, <3>2
        <3>4. i \in 1 .. Len(s)
            BY <3>3
        <3>5. Len(s) \in Nat
            BY <1>2 DEF FlList
        <3>6. QED BY <3>4, <3>5
    <2> HIDE DEF I
    <2> PICK o : o = s[i]
        OBVIOUS
    <2>2. /\ at(0) = head /\ at(n + 1) = tail
          /\ \A k \in 1 .. n : at(k) = s[k] /\ s[k] \in FlObject
          /\ \A k \in 0 .. n + 1 : at(k) \in head .. tail
        BY <1>2, HeadAndTail, OnIs
    <2>3. \A j \in 0 .. n + 1 : \A k \in 0 .. n + 1 : j # k => at(j) # at(k)
        BY <1>2, HeadAndTail, OnApart
    <2>4. (<<head>> \o s)[i] = at(i - 1) /\ (<<head>> \o s)[i + 1] = o
        <3>1. i - 1 \in 0 .. n /\ (i - 1) + 1 = i /\ i \in 0 .. n
            BY <2>1
        <3>2. (<<head>> \o s)[(i - 1) + 1] = at(i - 1) /\ (<<head>> \o s)[i + 1] = at(i)
            BY <1>2, <3>1, AheadIs
        <3>3. QED BY <2>1, <2>2, <3>1, <3>2
    <2>5. flNext[o] = at(i + 1)
        <3>1. i \in 0 .. n
            BY <2>1
        <3>2. flNext[at(i)] = at(i + 1)
            BY <1>2, <3>1 DEF Links
        <3>3. QED BY <2>1, <2>2, <3>2
    <2>6. /\ flNext' = [flNext EXCEPT ![at(i - 1)] = at(i + 1), ![o] = tail]
          /\ flCount' = flCount - 1 /\ FlGive(o) /\ UNCHANGED <<flPrev, flSize, flTrampled>>
        BY <1>3, <1>4, <1>6, <2>4, <2>5 DEF FirstFitMalloc
    <2> HIDE DEF at
    <2>7. o \in ToSet(flFreed)
        BY <1>2, <2>1, MembersAre
    <2>8. FlList(flFreed)
        BY <1>1 DEF Accounts
    <2>9. PICK k \in 1 .. Len(flFreed) : o = flFreed[k]
        BY <2>7, <2>8, MembersAre
    <2>10. /\ Accounts(flHeld', flFreed', flSize') /\ IsRemoved(flFreed', flFreed, k)
           /\ ToSet(flFreed') = ToSet(flFreed) \ {o}
        BY <1>1, <2>6, <2>9, ListedGiven
    <2>11. PICK t : t = RemoveAt(s, i)
        OBVIOUS
    <2>12. FlList(t) /\ IsRemoved(t, s, i) /\ ToSet(t) = ToSet(s) \ {o}
        BY <1>2, <2>1, <2>11, ListRemoved
    <2>13. PICK g : g = flNext'
        OBVIOUS
    <2>14. /\ i \in 0 .. n + 1 /\ i - 1 \in 0 .. n + 1 /\ i + 1 \in 0 .. n + 1 /\ i # i - 1
        BY <2>1
    <2>15. /\ at(i) = o /\ at(i - 1) \in head .. tail /\ at(i + 1) \in head .. tail /\ o \in head .. tail
           /\ o # at(i - 1) /\ tail \in head .. tail
        <3>1. at(i) = o
            BY <2>1, <2>2
        <3>2. QED BY <2>2, <2>3, <2>14, <3>1, HeadAndTail DEF Ends
    <2>16. flNext \in [head .. tail -> head .. tail]
        BY <1>1 DEF FlLinks
    <2>17. /\ g \in [head .. tail -> head .. tail] /\ g[at(i - 1)] = at(i + 1)
           /\ \A x \in head .. tail : x # at(i - 1) /\ x # o => g[x] = flNext[x]
        BY <2>6, <2>13, <2>15, <2>16
    <2>18. \A j \in 0 .. n : j # i - 1 /\ j # i => g[at(j)] = flNext[at(j)]
        <3>1. ASSUME NEW j \in 0 .. n, j # i - 1, j # i PROVE g[at(j)] = flNext[at(j)]
            <4>1. j \in 0 .. n + 1
                BY <2>1, <3>1
            <4>2. at(j) \in head .. tail /\ at(j) # at(i - 1) /\ at(j) # at(i)
                BY <2>2, <2>3, <2>14, <3>1, <4>1
            <4>3. QED BY <2>15, <2>17, <4>2
        <3>2. QED BY <3>1
    <2>19. Links(g, head, t, tail)
        <3>1. g[On(head, s, tail, i - 1)] = On(head, s, tail, i + 1)
            BY <2>17 DEF at
        <3>2. \A j \in 0 .. Len(s) : j # i - 1 /\ j # i => g[On(head, s, tail, j)] = flNext[On(head, s, tail, j)]
            BY <2>18 DEF at
        <3>3. i \in 1 .. Len(s) /\ Ends(head, tail)
            BY <2>1, HeadAndTail
        <3>4. QED BY <1>2, <2>12, <3>1, <3>2, <3>3, LinksRemoved
    <2>20. Ascending(t)
        <3>1. Len(t) = n - 1 /\ (\A j \in 1 .. i - 1 : t[j] = s[j]) /\ \A j \in i .. n - 1 : t[j] = s[j + 1]
            BY <2>12 DEF IsRemoved
        <3>2. \A j \in 1 .. n - 1 : s[j] < s[j + 1]
            BY <1>2 DEF Ascending
        <3>3. \A j \in 1 .. n : s[j] \in Nat
            BY <2>2, HeadAndTail
        <3>4. ASSUME NEW j \in 1 .. Len(t) - 1 PROVE t[j] < t[j + 1]
            <4>1. CASE j < i - 1
                <5>1. j \in 1 .. i - 1 /\ j + 1 \in 1 .. i - 1 /\ j \in 1 .. n - 1
                    BY <2>1, <3>1, <4>1
                <5>2. t[j] = s[j] /\ t[j + 1] = s[j + 1]
                    BY <3>1, <5>1
                <5>3. QED BY <3>2, <5>1, <5>2
            <4>2. CASE j = i - 1
                <5>1. j \in 1 .. i - 1 /\ j + 1 \in i .. n - 1 /\ (j + 1) + 1 = j + 2 /\ j \in 1 .. n - 1
                      /\ j + 1 \in 1 .. n - 1 /\ j \in 1 .. n /\ j + 1 \in 1 .. n /\ j + 2 \in 1 .. n
                    BY <2>1, <3>1, <4>2
                <5>2. t[j] = s[j] /\ t[j + 1] = s[j + 2]
                    BY <3>1, <5>1
                <5>3. s[j] < s[j + 1] /\ s[j + 1] < s[j + 2]
                    BY <3>2, <5>1
                <5>4. s[j] \in Nat /\ s[j + 1] \in Nat /\ s[j + 2] \in Nat
                    BY <3>3, <5>1
                <5>5. QED BY <5>2, <5>3, <5>4
            <4>3. CASE j >= i
                <5>1. j \in i .. n - 1 /\ j + 1 \in i .. n - 1 /\ (j + 1) + 1 = j + 2 /\ j + 1 \in 1 .. n - 1
                    BY <2>1, <3>1, <4>3
                <5>2. t[j] = s[j + 1] /\ t[j + 1] = s[j + 2]
                    BY <3>1, <5>1
                <5>3. s[j + 1] < s[j + 2]
                    BY <3>2, <5>1
                <5>4. QED BY <5>2, <5>3
            <4>4. QED BY <2>1, <4>1, <4>2, <4>3
        <3>5. QED BY <3>4 DEF Ascending
    <2>21. flCount' = Len(flFreed')
        <3>1. Len(flFreed') = Len(flFreed) - 1 /\ flCount = Len(flFreed)
            BY <1>1, <2>10 DEF IsRemoved, ByAddress
        <3>2. QED BY <2>6, <3>1
    <2>22. ByAddress(flNext', flFreed', flCount')
        BY <1>2, <2>10, <2>12, <2>13, <2>19, <2>20, <2>21 DEF ByAddress
    <2>23. flNext' \in FlLinks
        BY <2>13, <2>17 DEF FlLinks
    <2>24. QED BY <1>1, <2>6, <2>10, <2>22, <2>23 DEF FlInv
<1>7. QED BY <1>5, <1>6

LEMMA FirstFitFreeKeeps ==
    ASSUME FlInv, flKind = "FirstFit", NEW o \in flHeld, FirstFitFree(o), UNCHANGED flKind
    PROVE  FlInv'
<1>1. /\ flNext \in FlLinks /\ flPrev \in FlLinks /\ Accounts(flHeld, flFreed, flSize)
      /\ ByAddress(flNext, flFreed, flCount) /\ ~flTrampled
    BY DEF FlInv
<1>2. PICK s : FlList(s) /\ Ascending(s) /\ ToSet(s) = ToSet(flFreed) /\ Links(flNext, head, s, tail)
    BY <1>1 DEF ByAddress
<1>3. FlWalk = s
    BY <1>1, <1>2, FlWalkIs
<1> PICK n : n = Len(s)
    OBVIOUS
<1> DEFINE at(k) == On(head, s, tail, k)
           I == {k \in 1 .. Len(s) : s[k] > o}
<1> PICK f : f = IF I # {} THEN Min(I) ELSE 0
    OBVIOUS
<1> PICK i : i = IF f = 0 THEN n + 1 ELSE f
    OBVIOUS
<1>4. SelectInSeq(FlWalk, LAMBDA p : p > o) = f
    BY <1>3 DEF SelectInSeq
<1>5. flSize' = flSize /\ FlTake(o)
    BY DEF FirstFitFree
<1>6. /\ Accounts(flHeld', flFreed', flSize') /\ IsInserted(flFreed', flFreed, Len(flFreed) + 1, o)
      /\ ToSet(flFreed') = ToSet(flFreed) \cup {o} /\ o \in FlObject \ ToSet(flFreed)
    BY <1>1, <1>5, HeldTaken
<1>7. /\ at(0) = head /\ at(n + 1) = tail
      /\ \A k \in 1 .. n : at(k) = s[k] /\ s[k] \in FlObject
      /\ \A k \in 0 .. n + 1 : at(k) \in head .. tail
    BY <1>2, HeadAndTail, OnIs
<1>8. \A j \in 0 .. n + 1 : \A k \in 0 .. n + 1 : j # k => at(j) # at(k)
    BY <1>2, HeadAndTail, OnApart
<1>9. n \in Nat /\ o \in Nat /\ \A k \in 1 .. n : s[k] \in Nat /\ s[k] # o
    BY <1>2, <1>6, <1>7, HeadAndTail, MembersAre DEF FlList
<1>10. /\ i \in 1 .. n + 1
       /\ \A k \in 1 .. n : k < i => s[k] < o
       /\ i \in 1 .. n => o < s[i]
    <2>1. I \subseteq Nat
        OBVIOUS
    <2>2. CASE I = {}
        <3>1. f = 0 /\ i = n + 1 /\ \A k \in 1 .. n : ~(s[k] > o)
            BY <2>2
        <3>2. QED BY <1>9, <3>1
    <2>3. CASE I # {}
        <3>1. Min(I) \in I /\ \A m \in I : Min(I) <= m
            BY <2>1, <2>3, LeastIs
        <3>2. f \in 1 .. n /\ s[f] > o /\ f = Min(I)
            BY <2>3, <3>1
        <3>3. i = f
            BY <3>2
        <3>4. ASSUME NEW k \in 1 .. n, k < i PROVE s[k] < o
            <4>1. k \notin I
                <5> HIDE DEF I
                <5>1. f \in Nat /\ k \in Nat /\ k < f
                    BY <1>9, <3>2, <3>3, <3>4
                <5>2. k \in I => f <= k
                    BY <3>1, <3>2
                <5>3. QED BY <5>1, <5>2
            <4>2. ~(s[k] > o)
                BY <3>4, <4>1
            <4>3. s[k] \in Nat /\ s[k] # o /\ o \in Nat
                BY <1>9, <3>4
            <4>4. QED BY <4>2, <4>3
        <3>5. o < s[i] /\ i \in 1 .. n + 1
            <4> HIDE DEF I
            <4>1. i \in 1 .. n + 1
                BY <1>9, <3>2, <3>3
            <4>2. s[i] > o /\ s[i] \in Nat
                BY <1>9, <3>2, <3>3
            <4>3. o < s[i]
                BY <1>9, <4>2
            <4>4. QED BY <4>1, <4>3
        <3>6. QED BY <3>4, <3>5
    <2>4. QED BY <2>2, <2>3
<1> HIDE DEF I
<1> PICK prev : prev = IF f = 0 THEN Last(<<head>> \o s) ELSE (<<head>> \o s)[f]
    OBVIOUS
<1>11. prev = at(i - 1)
    <2>1. Len(<<head>> \o s) = n + 1 /\ \A k \in 0 .. n : (<<head>> \o s)[k + 1] = at(k)
        BY <1>2, AheadIs
    <2>2. CASE f = 0
        <3>1. i - 1 = n /\ n \in 0 .. n
            BY <1>9, <2>2
        <3>2. Last(<<head>> \o s) = (<<head>> \o s)[n + 1]
            BY <2>1 DEF Last
        <3>3. QED BY <2>1, <2>2, <3>1, <3>2
    <2>3. CASE f # 0
        <3>1. i = f /\ i - 1 \in 0 .. n /\ (i - 1) + 1 = i
            BY <1>9, <1>10, <2>3
        <3>2. (<<head>> \o s)[(i - 1) + 1] = at(i - 1)
            BY <2>1, <3>1
        <3>3. QED BY <2>3, <3>1, <3>2
    <2>4. QED BY <2>2, <2>3
<1>12. i - 1 \in 0 .. n /\ (i - 1) + 1 = i /\ i \in 0 .. n + 1 /\ i - 1 \in 0 .. n + 1
    BY <1>9, <1>10
<1>13. flNext[prev] = at(i)
    <2>1. flNext[at(i - 1)] = at((i - 1) + 1)
        BY <1>2, <1>12 DEF Links
    <2>2. QED BY <1>11, <1>12, <2>1
<1>14. /\ flNext' = [flNext EXCEPT ![o] = at(i), ![at(i - 1)] = o]
       /\ flCount' = flCount + 1 /\ UNCHANGED <<flPrev, flTrampled>>
    BY <1>3, <1>4, <1>11, <1>13 DEF FirstFitFree
<1> HIDE DEF at
<1>15. PICK t : t = InsertAt(s, i, o)
    OBVIOUS
<1>16. t \in Seq(FlObject) /\ IsInserted(t, s, i, o)
    BY <1>2, <1>6, <1>10, <1>15, InsertAtIs DEF FlList
<1>17. FlList(t) /\ ToSet(t) = ToSet(s) \cup {o}
    BY <1>2, <1>6, <1>10, <1>16, ListInserted
<1>18. PICK g : g = flNext'
    OBVIOUS
<1>19. \A j \in 0 .. n + 1 : at(j) # o
    <2>1. \A j \in 0 .. n + 1 : j = 0 \/ j = n + 1 \/ j \in 1 .. n
        BY <1>9
    <2>2. o # head /\ o # tail
        BY <1>6, HeadAndTail
    <2>3. QED BY <1>7, <1>9, <2>1, <2>2
<1>20. /\ at(i - 1) \in head .. tail /\ at(i) \in head .. tail /\ o \in head .. tail /\ o # at(i - 1)
    BY <1>6, <1>7, <1>12, <1>19, HeadAndTail
<1>21. flNext \in [head .. tail -> head .. tail]
    BY <1>1 DEF FlLinks
<1>22. /\ g \in [head .. tail -> head .. tail] /\ g[at(i - 1)] = o /\ g[o] = at(i)
       /\ \A x \in head .. tail : x # at(i - 1) /\ x # o => g[x] = flNext[x]
    BY <1>14, <1>18, <1>20, <1>21
<1>23. \A j \in 0 .. n : j # i - 1 => g[at(j)] = flNext[at(j)]
    <2>1. ASSUME NEW j \in 0 .. n, j # i - 1 PROVE g[at(j)] = flNext[at(j)]
        <3>1. j \in 0 .. n + 1
            BY <1>9, <2>1
        <3>2. at(j) \in head .. tail /\ at(j) # at(i - 1) /\ at(j) # o
            BY <1>7, <1>8, <1>12, <1>19, <2>1, <3>1
        <3>3. QED BY <1>22, <3>2
    <2>2. QED BY <2>1
<1>24. Links(g, head, t, tail)
    <2>1. g[On(head, s, tail, i - 1)] = o /\ g[o] = On(head, s, tail, i)
        BY <1>22 DEF at
    <2>2. \A j \in 0 .. Len(s) : j # i - 1 => g[On(head, s, tail, j)] = flNext[On(head, s, tail, j)]
        BY <1>23 DEF at
    <2>3. i \in 1 .. Len(s) + 1 /\ Ends(head, tail)
        BY <1>10, HeadAndTail
    <2>4. QED BY <1>2, <1>16, <2>1, <2>2, <2>3, LinksInserted
<1>25. Ascending(t)
    <2>1. /\ Len(t) = n + 1 /\ t[i] = o /\ (\A j \in 1 .. i - 1 : t[j] = s[j])
          /\ \A j \in i + 1 .. n + 1 : t[j] = s[j - 1]
        BY <1>16 DEF IsInserted
    <2>2. \A j \in 1 .. n - 1 : s[j] < s[j + 1]
        BY <1>2 DEF Ascending
    <2>3. ASSUME NEW j \in 1 .. Len(t) - 1 PROVE t[j] < t[j + 1]
        <3>1. CASE j < i - 1
            <4>1. j \in 1 .. i - 1 /\ j + 1 \in 1 .. i - 1 /\ j \in 1 .. n - 1
                BY <1>9, <1>10, <2>1, <3>1
            <4>2. t[j] = s[j] /\ t[j + 1] = s[j + 1]
                BY <2>1, <4>1
            <4>3. QED BY <2>2, <4>1, <4>2
        <3>2. CASE j = i - 1
            <4>1. j \in 1 .. i - 1 /\ j + 1 = i /\ j \in 1 .. n /\ j < i
                BY <1>9, <1>10, <2>1, <3>2
            <4>2. t[j] = s[j] /\ t[j + 1] = o /\ s[j] < o
                BY <1>10, <2>1, <4>1
            <4>3. QED BY <4>2
        <3>3. CASE j = i
            <4>1. j + 1 \in i + 1 .. n + 1 /\ (j + 1) - 1 = j /\ i \in 1 .. n
                BY <1>9, <1>10, <2>1, <3>3
            <4>2. t[j] = o /\ t[j + 1] = s[j] /\ o < s[i]
                BY <1>10, <2>1, <3>3, <4>1
            <4>3. QED BY <3>3, <4>2
        <3>4. CASE i < j
            <4>1. j \in i + 1 .. n + 1 /\ j + 1 \in i + 1 .. n + 1 /\ (j + 1) - 1 = j
                  /\ j - 1 \in 1 .. n - 1 /\ (j - 1) + 1 = j
                BY <1>9, <1>10, <2>1, <3>4
            <4>2. t[j] = s[j - 1] /\ t[j + 1] = s[j]
                BY <2>1, <4>1
            <4>3. s[j - 1] < s[(j - 1) + 1]
                BY <2>2, <4>1
            <4>4. QED BY <4>1, <4>2, <4>3
        <3>5. j \in Int /\ i \in Int
            BY <1>9, <1>10, <2>1, <2>3
        <3>6. j < i - 1 \/ j = i - 1 \/ j = i \/ i < j
            BY <3>5
        <3>7. QED BY <3>1, <3>2, <3>3, <3>4, <3>6
    <2>4. QED BY <2>3 DEF Ascending
<1>26. flCount' = Len(flFreed')
    <2>1. Len(flFreed') = Len(flFreed) + 1 /\ flCount = Len(flFreed)
        BY <1>1, <1>6 DEF IsInserted, ByAddress
    <2>2. QED BY <1>14, <2>1
<1>27. ByAddress(flNext', flFreed', flCount')
    BY <1>2, <1>6, <1>17, <1>18, <1>24, <1>25, <1>26 DEF ByAddress
<1>28. flNext' \in FlLinks
    BY <1>18, <1>22 DEF FlLinks
<1>29. QED BY <1>1, <1>6, <1>14, <1>27, <1>28 DEF FlInv

\* The other way round, a list leads the other way.
LEMMA BackReversed ==
    ASSUME NEW a, NEW b, Ends(a, b), NEW s, FlList(s), NEW g, Back(g, a, s, b)
    PROVE  FlList(Reverse(s)) /\ Links(g, b, Reverse(s), a) /\ ToSet(Reverse(s)) = ToSet(s)
<1> PICK n : n = Len(s)
    OBVIOUS
<1> PICK r : r = Reverse(s)
    OBVIOUS
<1>1. s \in Seq(FlObject) /\ n \in Nat /\ \A i \in 1 .. n : s[i] \in FlObject
    BY DEF FlList
<1>2. r = [i \in 1 .. n |-> s[(n - i) + 1]]
    BY DEF Reverse
<1>3. \A i \in 1 .. n : (n - i) + 1 \in 1 .. n /\ (n - ((n - i) + 1)) + 1 = i
    BY <1>1
<1>4. r \in [1 .. n -> FlObject] /\ \A i \in 1 .. n : r[i] = s[(n - i) + 1]
    BY <1>1, <1>2, <1>3
<1>5. r \in Seq(FlObject) /\ Len(r) = n
    BY <1>1, <1>4, SeqDef, LenProperties
<1>6. ASSUME NEW i \in 1 .. n, NEW j \in 1 .. n, i # j PROVE r[i] # r[j]
    <2>1. (n - i) + 1 # (n - j) + 1
        BY <1>1, <1>6
    <2>2. s[(n - i) + 1] # s[(n - j) + 1]
        BY <1>3, <2>1 DEF FlList
    <2>3. QED BY <1>4, <2>2
<1>7. FlList(r)
    BY <1>5, <1>6 DEF FlList
<1>8. ToSet(r) = ToSet(s)
    <2>1. ASSUME NEW x \in ToSet(r) PROVE x \in ToSet(s)
        <3>1. PICK i \in 1 .. n : x = r[i]
            BY <1>5, <1>7, <2>1, MembersAre
        <3>2. QED BY <1>3, <1>4, <3>1, MembersAre
    <2>2. ASSUME NEW x \in ToSet(s) PROVE x \in ToSet(r)
        <3>1. PICK i \in 1 .. n : x = s[i]
            BY <2>2, MembersAre
        <3>2. (n - i) + 1 \in 1 .. n /\ r[(n - i) + 1] = s[(n - ((n - i) + 1)) + 1]
            BY <1>3, <1>4
        <3>3. r[(n - i) + 1] = x
            BY <1>3, <3>1, <3>2
        <3>4. QED BY <1>5, <1>7, <3>2, <3>3, MembersAre
    <2>3. QED BY <2>1, <2>2
<1>9. ASSUME NEW i \in 0 .. n + 1 PROVE On(b, r, a, i) = On(a, s, b, (n - i) + 1)
    <2>1. CASE i = 0
        BY <1>1, <1>5, <2>1 DEF On
    <2>2. CASE i = n + 1
        BY <1>1, <1>5, <2>2 DEF On
    <2>3. CASE i \in 1 .. n
        BY <1>1, <1>3, <1>4, <1>5, <2>3 DEF On
    <2>4. QED BY <1>1, <2>1, <2>2, <2>3
<1>10. ASSUME NEW i \in 0 .. n PROVE g[On(b, r, a, i)] = On(b, r, a, i + 1)
    <2>1. PICK j \in 0 .. n : j = n - i
        BY <1>1
    <2>2. i \in 0 .. n + 1 /\ i + 1 \in 0 .. n + 1 /\ (n - i) + 1 = j + 1 /\ (n - (i + 1)) + 1 = j
        BY <1>1, <2>1
    <2>3. On(b, r, a, i) = On(a, s, b, j + 1)
        BY <1>9, <2>2
    <2>4. On(b, r, a, i + 1) = On(a, s, b, j)
        <3>1. On(b, r, a, i + 1) = On(a, s, b, (n - (i + 1)) + 1)
            BY <1>9, <2>2
        <3>2. QED BY <2>2, <3>1
    <2>5. g[On(a, s, b, j + 1)] = On(a, s, b, j)
        BY DEF Back
    <2>6. QED BY <2>3, <2>4, <2>5
<1>11. Links(g, b, r, a)
    BY <1>5, <1>10 DEF Links
<1>12. QED BY <1>7, <1>8, <1>11

\* A walk visits what is listed, in the order of the heap.
LEMMA WalkListed ==
    ASSUME FlInv
    PROVE  /\ ToSet(FlWalk) = ToSet(flFreed)
           /\ flKind = "FIFO" => FlWalk = flFreed
           /\ flKind = "FIFODL" => FlWalk = Reverse(flFreed)
           /\ flKind = "FirstFit" => Ascending(FlWalk)
<1>1. flNext \in FlLinks /\ FlList(flFreed) /\ flKind \in {"FIFO", "FIFODL", "FirstFit"}
    BY DEF FlInv, Accounts
<1>2. CASE flKind = "FIFO"
    <2>1. FlWalk = flFreed
        BY <1>1, <1>2, FlWalkIs DEF FlInv, Queue
    <2>2. QED BY <1>2, <2>1
<1>3. CASE flKind = "FIFODL"
    <2>1. Back(flNext, tail, flFreed, head)
        BY <1>3 DEF FlInv, TwoWays
    <2>2. /\ FlList(Reverse(flFreed)) /\ Links(flNext, head, Reverse(flFreed), tail)
          /\ ToSet(Reverse(flFreed)) = ToSet(flFreed)
        BY <1>1, <2>1, HeadAndTail, BackReversed
    <2>3. FlWalk = Reverse(flFreed)
        BY <1>1, <2>2, FlWalkIs
    <2>4. QED BY <1>3, <2>2, <2>3
<1>4. CASE flKind = "FirstFit"
    <2>1. PICK s : FlList(s) /\ Ascending(s) /\ ToSet(s) = ToSet(flFreed) /\ Links(flNext, head, s, tail)
        BY <1>4 DEF FlInv, ByAddress
    <2>2. FlWalk = s
        BY <1>1, <2>1, FlWalkIs
    <2>3. QED BY <1>4, <2>1, <2>2
<1>5. QED BY <1>1, <1>2, <1>3, <1>4

\* A heap that lists nothing.
LEMMA EmptyIs ==
    ASSUME NEW f, f = [o \in head .. tail |-> tail], NEW g, g = [o \in head .. tail |-> head]
    PROVE  /\ f \in FlLinks /\ g \in FlLinks /\ FlList(<<>>) /\ ToSet(<<>>) = {}
           /\ Queue(f, <<>>) /\ TwoWays(f, g, <<>>) /\ ByAddress(f, <<>>, 0)
<1>1. /\ head \in head .. tail /\ tail \in head .. tail
    BY HeadAndTail DEF Ends
<1>2. f \in FlLinks /\ g \in FlLinks /\ f[head] = tail /\ f[tail] = tail /\ g[tail] = head
    BY <1>1 DEF FlLinks
<1>3. <<>> \in Seq(FlObject) /\ Len(<<>>) = 0 /\ DOMAIN <<>> = {}
    OBVIOUS
<1>4. FlList(<<>>) /\ ToSet(<<>>) = {} /\ Ascending(<<>>)
    BY <1>3 DEF FlList, ToSet, Ascending
<1>5. On(head, <<>>, tail, 0) = head /\ On(head, <<>>, tail, 0 + 1) = tail
      /\ On(tail, <<>>, head, 0) = tail /\ On(tail, <<>>, head, 0 + 1) = head
    BY <1>3 DEF On
<1>6. \A i \in 0 .. Len(<<>>) : i = 0
    BY <1>3
<1>7. Links(f, head, <<>>, tail) /\ Links(g, tail, <<>>, head) /\ Back(f, tail, <<>>, head)
    BY <1>2, <1>5, <1>6 DEF Links, Back
<1>8. QED BY <1>2, <1>3, <1>4, <1>7 DEF Queue, TwoWays, ByAddress

LEMMA FlDestroyKeeps == ASSUME FlInv, FlDestroy, UNCHANGED flKind PROVE FlInv'
<1>1. /\ flNext' = [o \in head .. tail |-> tail] /\ flPrev' = [o \in head .. tail |-> head]
      /\ flCount' = 0 /\ flFreed' = <<>> /\ flHeld' = flHeld /\ flTrampled' = flTrampled
      /\ DOMAIN flSize' = DOMAIN flSize \ ToSet(flFreed)
    BY WalkListed DEF FlDestroy
<1>2. /\ flNext' \in FlLinks /\ flPrev' \in FlLinks /\ FlList(flFreed') /\ ToSet(flFreed') = {}
      /\ Queue(flNext', flFreed') /\ TwoWays(flNext', flPrev', flFreed')
      /\ ByAddress(flNext', flFreed', flCount')
    BY <1>1, EmptyIs
<1>3. Accounts(flHeld', flFreed', flSize')
    BY <1>1, <1>2 DEF FlInv, Accounts
<1>4. QED BY <1>1, <1>2, <1>3 DEF FlInv

LEMMA FlInitGood == FlInit => FlInv
<1> SUFFICES ASSUME FlInit PROVE FlInv
    OBVIOUS
<1>1. /\ flNext \in FlLinks /\ flPrev \in FlLinks /\ FlList(flFreed) /\ ToSet(flFreed) = {}
      /\ Queue(flNext, flFreed) /\ TwoWays(flNext, flPrev, flFreed)
      /\ ByAddress(flNext, flFreed, flCount)
    BY EmptyIs DEF FlInit
<1>2. flHeld = {} /\ DOMAIN flSize = {}
    BY DEF FlInit
<1>3. QED BY <1>1, <1>2 DEF FlInit, FlInv, Accounts

LEMMA FlStepGood == FlInv /\ FlStep => FlInv'
<1> SUFFICES ASSUME FlInv, FlStep PROVE FlInv'
    OBVIOUS
<1>1. UNCHANGED flKind
    BY DEF FlStep
<1>2. CASE FlMalloc
    BY <1>1, <1>2, FifoMallocKeeps, FifoDlMallocKeeps, FreshKeeps, FirstFitMallocKeeps DEF FlMalloc
<1>3. CASE \E o \in FlObject : FlFree(o)
    BY <1>1, <1>3, FifoFreeKeeps, FifoDlFreeKeeps, FirstFitFreeKeeps DEF FlFree
<1>4. CASE flKind = "FIFODL" /\ \E o \in ToSet(flFreed) : FifoDlRemove(o)
    BY <1>1, <1>4, FifoDlRemoveKeeps
<1>5. CASE FlDestroy
    BY <1>1, <1>5, FlDestroyKeeps
<1>6. QED BY <1>2, <1>3, <1>4, <1>5 DEF FlStep
-----------------------------------------------------------------------------
(* BatchHeap *)

\* The first list takes what the other one does not have room for, and one more.
Batches(lists, count, spare, held) ==
    /\ lists = [l \in {0, 1} |-> lists[l]] /\ FlList(lists[0]) /\ FlList(lists[1])
    /\ count \in Nat
    /\ Len(lists[0]) = (IF count <= FlBatch + 1 THEN count ELSE FlBatch + 1)
    /\ Len(lists[0]) + Len(lists[1]) = count
    /\ spare \subseteq FlObject /\ held \subseteq FlObject /\ spare \cap held = {}
    /\ ToSet(lists[0]) \cap ToSet(lists[1]) = {}
    /\ (ToSet(lists[0]) \cup ToSet(lists[1])) \cap (held \cup spare) = {}
    /\ ToSet(lists[0]) \cup ToSet(lists[1]) \cup held \cup spare = FlObject

BtInv == Batches(btLists, btCount, btSpare, btHeld)

LEMMA TailRemoves ==
    ASSUME NEW s, FlList(s), s # <<>>
    PROVE  /\ FlList(Tail(s)) /\ ToSet(Tail(s)) = ToSet(s) \ {Head(s)} /\ Len(Tail(s)) = Len(s) - 1
           /\ Head(s) \in ToSet(s) /\ Head(s) \in FlObject /\ Len(s) \in Nat \ {0}
<1>1. s \in Seq(FlObject) /\ Len(s) \in Nat /\ Len(s) # 0 /\ Head(s) = s[1]
    BY DEF FlList
<1>2. /\ Tail(s) \in Seq(FlObject) /\ Len(Tail(s)) = Len(s) - 1
      /\ \A j \in 1 .. Len(s) - 1 : Tail(s)[j] = s[j + 1]
    BY <1>1
<1>3. 1 \in 1 .. Len(s) /\ \A j \in 1 .. 1 - 1 : FALSE
    BY <1>1
<1>4. IsRemoved(Tail(s), s, 1)
    BY <1>2, <1>3 DEF IsRemoved
<1>5. FlList(Tail(s)) /\ ToSet(Tail(s)) = ToSet(s) \ {s[1]}
    BY <1>2, <1>3, <1>4, WithoutIs
<1>6. s[1] \in ToSet(s) /\ s[1] \in FlObject
    BY <1>1, <1>3, MembersAre
<1>7. QED BY <1>1, <1>2, <1>5, <1>6

LEMMA PutInFront ==
    ASSUME NEW s, FlList(s), NEW o \in FlObject \ ToSet(s)
    PROVE  /\ FlList(<<o>> \o s) /\ ToSet(<<o>> \o s) = ToSet(s) \cup {o}
           /\ Len(<<o>> \o s) = Len(s) + 1 /\ Len(s) \in Nat
<1>1. s \in Seq(FlObject) /\ Len(s) \in Nat
    BY DEF FlList
<1>2. <<o>> \in Seq(FlObject) /\ Len(<<o>>) = 1 /\ <<o>>[1] = o
    BY SingleIs
<1> PICK t : t = <<o>> \o s
    OBVIOUS
<1>3. /\ t \in Seq(FlObject) /\ Len(t) = Len(s) + 1
      /\ \A j \in 1 .. 1 + Len(s) : t[j] = IF j <= 1 THEN <<o>>[j] ELSE s[j - 1]
    BY <1>1, <1>2, ConcatProperties
<1>4. t[1] = o /\ \A j \in 1 + 1 .. Len(s) + 1 : t[j] = s[j - 1]
    BY <1>1, <1>2, <1>3
<1>5. IsInserted(t, s, 1, o) /\ 1 \in 1 .. Len(s) + 1
    BY <1>1, <1>3, <1>4 DEF IsInserted
<1>6. FlList(t) /\ ToSet(t) = ToSet(s) \cup {o}
    BY <1>3, <1>5, ListInserted
<1>7. QED BY <1>1, <1>3, <1>6

\* The first so many of a list.
LEMMA FirstOfList ==
    ASSUME NEW s, FlList(s), NEW k \in 0 .. Len(s)
    PROVE  /\ FlList(SubSeq(s, 1, k)) /\ Len(SubSeq(s, 1, k)) = k
           /\ ToSet(SubSeq(s, 1, k)) \subseteq ToSet(s)
           /\ k = Len(s) => SubSeq(s, 1, k) = s
           /\ k = 0 => ToSet(SubSeq(s, 1, k)) = {}
<1>1. s \in Seq(FlObject) /\ Len(s) \in Nat
    BY DEF FlList
<1> PICK t : t = SubSeq(s, 1, k)
    OBVIOUS
<1>2. t \in Seq(FlObject) /\ Len(t) = k /\ \A j \in 1 .. k : t[j] = s[j]
    <2>1. 1 \in 1 .. Len(s) + 1 /\ k \in 1 - 1 .. Len(s)
        BY <1>1
    <2>2. t \in Seq(FlObject) /\ Len(t) = k
        BY <1>1, <2>1, SubSeqProperties
    <2>3. ASSUME NEW j \in 1 .. k PROVE t[j] = s[j]
        <3>1. t[j] = s[1 + j - 1]
            BY <1>1, <2>1, <2>2, <2>3, SubSeqProperties
        <3>2. 1 + j - 1 = j
            OBVIOUS
        <3>3. QED BY <3>1, <3>2
    <2>4. QED BY <2>2, <2>3
<1>3. \A j \in 1 .. k : j \in 1 .. Len(s)
    BY <1>1
<1>4. FlList(t)
    <2>1. ASSUME NEW i \in 1 .. Len(t), NEW j \in 1 .. Len(t), i # j PROVE t[i] # t[j]
        <3>1. i \in 1 .. k /\ j \in 1 .. k
            BY <1>2, <2>1
        <3>2. t[i] = s[i] /\ t[j] = s[j] /\ i \in 1 .. Len(s) /\ j \in 1 .. Len(s)
            BY <1>2, <1>3, <3>1
        <3>3. QED BY <2>1, <3>2 DEF FlList
    <2>2. QED BY <1>2, <2>1 DEF FlList
<1>5. ASSUME NEW x \in ToSet(t) PROVE x \in ToSet(s) /\ k # 0
    <2>1. PICK j \in 1 .. Len(t) : x = t[j]
        BY <1>4, <1>5, MembersAre
    <2>2. j \in 1 .. k
        BY <1>2, <2>1
    <2>3. j \in 1 .. Len(s) /\ x = s[j] /\ k # 0
        BY <1>2, <1>3, <2>1, <2>2
    <2>4. QED BY <2>3, MembersAre
<1>6. k = Len(s) => t = s
    BY <1>1, <1>2, SeqEqual
<1>7. QED BY <1>2, <1>4, <1>5, <1>6

LEMMA ListOfSet ==
    ASSUME NEW S, S \subseteq FlObject
    PROVE  FlList(SetToSeq(S)) /\ ToSet(SetToSeq(S)) = S
<1>1. IsFiniteSet(FlObject)
    BY HeadAndTail, NumbersUpTo DEF FlObject
<1>2. IsFiniteSet(S)
    BY <1>1, FS_Subset
<1> PICK n : n = Cardinality(S)
    OBVIOUS
<1>3. n \in Nat /\ ExistsBijection(1 .. n, S)
    BY <1>2, FS_CardinalityType
<1>4. PICK f : f \in Bijection(1 .. n, S)
    BY <1>3 DEF ExistsBijection
<1>5. f \in [1 .. n -> S] /\ IsInjective(f)
    BY <1>4 DEF Bijection, Injection
<1>6. PICK s : s = SetToSeq(S)
    OBVIOUS
<1>7. s \in [1 .. n -> S] /\ IsInjective(s)
    BY <1>5, <1>6 DEF SetToSeq
<1>8. s \in Seq(S) /\ Len(s) = n
    BY <1>3, <1>7, SeqDef, LenProperties
<1>9. s \in Seq(FlObject)
    BY <1>8, WiderSeq
<1>10. FlList(s)
    BY <1>7, <1>8, <1>9 DEF FlList, IsInjective
<1>11. s \in Injection(1 .. n, S)
    BY <1>7 DEF Injection
<1>12. IsFiniteSet(1 .. n) /\ Cardinality(1 .. n) = n
    BY <1>3, NumbersUpTo
<1>13. s \in Surjection(1 .. n, S)
    BY <1>2, <1>11, <1>12, FS_Injection
<1>14. ToSet(s) = S
    <2>1. ASSUME NEW x \in S PROVE x \in ToSet(s)
        <3>1. PICK i \in 1 .. n : s[i] = x
            BY <1>13, <2>1 DEF Surjection
        <3>2. QED BY <1>8, <1>10, <3>1, MembersAre
    <2>2. \A x \in ToSet(s) : x \in S
        BY <1>7, <1>8, <1>10, MembersAre
    <2>3. QED BY <2>1, <2>2
<1>15. QED BY <1>6, <1>10, <1>14

LEMMA ListCardinality == ASSUME NEW s, FlList(s) PROVE Cardinality(ToSet(s)) = Len(s)
<1>1. s \in Seq(FlObject) /\ Len(s) \in Nat /\ DOMAIN s = 1 .. Len(s)
    BY DEF FlList
<1>2. s \in [1 .. Len(s) -> ToSet(s)]
    BY <1>1 DEF ToSet
<1>3. \A x \in ToSet(s) : \E i \in 1 .. Len(s) : s[i] = x
    BY MembersAre
<1>4. s \in Bijection(1 .. Len(s), ToSet(s))
    BY <1>2, <1>3 DEF FlList, Bijection, Injection, Surjection, IsInjective
<1>5. ExistsBijection(1 .. Len(s), ToSet(s))
    BY <1>4 DEF ExistsBijection
<1>6. QED BY <1>1, <1>5, NumbersUpTo, FS_Bijection

LEMMA BtMallocKeeps == ASSUME BtInv, BtMalloc PROVE BtInv'
<1> PICK l0 : l0 = btLists[0]
    OBVIOUS
<1> PICK l1 : l1 = btLists[1]
    OBVIOUS
<1> PICK c : c = btCount
    OBVIOUS
<1>1. /\ btLists = [l \in {0, 1} |-> btLists[l]] /\ FlList(l0) /\ FlList(l1) /\ c \in Nat
      /\ Len(l0) = (IF c <= FlBatch + 1 THEN c ELSE FlBatch + 1) /\ Len(l0) + Len(l1) = c
      /\ btSpare \subseteq FlObject /\ btHeld \subseteq FlObject /\ btSpare \cap btHeld = {}
      /\ ToSet(l0) \cap ToSet(l1) = {} /\ (ToSet(l0) \cup ToSet(l1)) \cap (btHeld \cup btSpare) = {}
      /\ ToSet(l0) \cup ToSet(l1) \cup btHeld \cup btSpare = FlObject
    BY DEF BtInv, Batches
<1>2. FlBatch \in Nat \ {0} /\ Len(l0) \in Nat /\ Len(l1) \in Nat
    BY <1>1, FlAssumption DEF FlList
<1> DEFINE got == IF btCount = 0 THEN MultiMalloc ELSE <<>>
           lists == IF btCount = 0 THEN [btLists EXCEPT ![0] = got] ELSE btLists
           count == IF btCount = 0 THEN Len(got) ELSE btCount
           k == BtListOf(count)
<1>3. CASE lists[k] = <<>>
    <2>1. BtCrashes
        BY <1>3 DEF BtMalloc
    <2>2. QED BY <2>1 DEF BtCrashes, BtInv
<1>4. CASE lists[k] # <<>>
    <2>1. /\ btLists' = [lists EXCEPT ![k] = Tail(lists[k])] /\ btCount' = count - 1
          /\ btSpare' = btSpare \ ToSet(got) /\ btHeld' = btHeld \cup {Head(lists[k])}
        BY <1>4 DEF BtMalloc
    <2>2. CASE c = 0
        <3>1. Len(l0) = 0 /\ Len(l1) = 0
            BY <1>1, <1>2, <2>2
        <3>2. l0 = <<>> /\ l1 = <<>> /\ ToSet(l0) = {} /\ ToSet(l1) = {}
            <4>1. l0 \in Seq(FlObject) /\ l1 \in Seq(FlObject)
                BY <1>1 DEF FlList
            <4>2. l0 = <<>> /\ l1 = <<>>
                BY <3>1, <4>1, EmptySeq
            <4>3. \A j \in 1 .. 0 : FALSE
                OBVIOUS
            <4>4. QED BY <1>1, <3>1, <4>2, <4>3, MembersAre
        <3>3. PICK all : all = SetToSeq(btSpare) /\ FlList(all) /\ ToSet(all) = btSpare
            BY <1>1, ListOfSet
        <3>4. Len(all) \in Nat
            BY <3>3 DEF FlList
        <3>5. PICK m : m = Min({FlBatch, Len(all)})
            OBVIOUS
        <3>6. m \in 0 .. Len(all) /\ m <= FlBatch
            <4>1. {FlBatch, Len(all)} \subseteq Nat /\ {FlBatch, Len(all)} # {}
                BY <1>2, <3>4
            <4>2. m \in {FlBatch, Len(all)} /\ m <= FlBatch /\ m <= Len(all)
                BY <3>5, <4>1, LeastIs
            <4>3. QED BY <4>1, <4>2
        <3>7. got = SubSeq(all, 1, m)
            BY <2>2, <3>3, <3>5 DEF MultiMalloc
        <3> HIDE DEF got
        <3>8. FlList(got) /\ Len(got) = m /\ ToSet(got) \subseteq btSpare
            BY <3>3, <3>6, <3>7, FirstOfList
        <3>9. count = m /\ k = 0 /\ m \in Nat
            BY <1>2, <2>2, <3>6, <3>8 DEF BtListOf
        <3>10. lists[0] = got /\ lists[1] = l1 /\ DOMAIN lists = {0, 1}
            BY <1>1, <2>2
        <3> HIDE DEF lists, count, k
        <3>11. got # <<>>
            BY <1>4, <3>9, <3>10
        <3>12. /\ FlList(Tail(got)) /\ ToSet(Tail(got)) = ToSet(got) \ {Head(got)} /\ Len(Tail(got)) = m - 1
               /\ Head(got) \in ToSet(got) /\ Head(got) \in FlObject /\ m # 0
            BY <3>8, <3>11, TailRemoves
        <3>13. /\ btLists'[0] = Tail(got) /\ btLists'[1] = l1 /\ DOMAIN btLists' = {0, 1}
               /\ btLists' = [l \in {0, 1} |-> btLists'[l]]
            BY <2>1, <3>9, <3>10
        <3>14. /\ btCount' = m - 1 /\ btSpare' = btSpare \ ToSet(got) /\ btHeld' = btHeld \cup {Head(got)}
            BY <2>1, <3>9, <3>10
        <3>15. /\ m - 1 \in Nat /\ m - 1 <= FlBatch + 1 /\ (m - 1) + Len(l1) = m - 1
            BY <1>2, <3>1, <3>6, <3>9, <3>12
        <3>16. /\ ToSet(Tail(got)) \cap ToSet(l1) = {}
               /\ (ToSet(Tail(got)) \cup ToSet(l1)) \cap (btHeld' \cup btSpare') = {}
               /\ ToSet(Tail(got)) \cup ToSet(l1) \cup btHeld' \cup btSpare' = FlObject
               /\ btSpare' \subseteq FlObject /\ btHeld' \subseteq FlObject /\ btSpare' \cap btHeld' = {}
            BY <1>1, <3>2, <3>8, <3>12, <3>14
        <3>17. QED BY <1>1, <3>12, <3>13, <3>14, <3>15, <3>16 DEF BtInv, Batches
    <2>3. CASE c # 0
        <3>1. got = <<>> /\ lists = btLists /\ count = c /\ k = IF c > FlBatch THEN 1 ELSE 0
            BY <2>3 DEF BtListOf
        <3> HIDE DEF got, lists, count, k
        <3>2. ToSet(got) = {}
            BY <3>1 DEF ToSet
        <3>3. btSpare' = btSpare /\ btCount' = c - 1
            BY <2>1, <3>1, <3>2
        <3>4. CASE c <= FlBatch
            <4>1. k = 0 /\ lists[k] = l0 /\ l0 # <<>>
                BY <1>2, <1>1, <1>4, <3>1, <3>4
            <4>2. /\ FlList(Tail(l0)) /\ ToSet(Tail(l0)) = ToSet(l0) \ {Head(l0)} /\ Len(Tail(l0)) = Len(l0) - 1
                  /\ Head(l0) \in ToSet(l0) /\ Head(l0) \in FlObject
                BY <1>1, <4>1, TailRemoves
            <4>3. btLists' = [btLists EXCEPT ![0] = Tail(l0)] /\ btHeld' = btHeld \cup {Head(l0)}
                BY <2>1, <3>1, <4>1
            <4>4. /\ btLists'[0] = Tail(l0) /\ btLists'[1] = l1
                  /\ btLists' = [l \in {0, 1} |-> btLists'[l]]
                <5>1. DOMAIN btLists = {0, 1}
                    BY <1>1
                <5>2. btLists' = [l \in {0, 1} |-> IF l = 0 THEN Tail(l0) ELSE btLists[l]]
                    BY <4>3, <5>1
                <5>3. QED BY <5>2
            <4>5. /\ c - 1 \in Nat /\ c - 1 <= FlBatch + 1 /\ Len(l0) = c /\ Len(l1) = 0
                BY <1>1, <1>2, <2>3, <3>4
            <4>6. Len(Tail(l0)) = c - 1 /\ Len(Tail(l0)) + Len(l1) = c - 1
                BY <1>1, <4>2, <4>5
            <4>7. /\ ToSet(Tail(l0)) \cap ToSet(l1) = {}
                  /\ (ToSet(Tail(l0)) \cup ToSet(l1)) \cap (btHeld' \cup btSpare') = {}
                  /\ ToSet(Tail(l0)) \cup ToSet(l1) \cup btHeld' \cup btSpare' = FlObject
                  /\ btSpare' \subseteq FlObject /\ btHeld' \subseteq FlObject /\ btSpare' \cap btHeld' = {}
                BY <1>1, <3>3, <4>2, <4>3
            <4>8. QED BY <1>1, <3>3, <4>2, <4>4, <4>5, <4>6, <4>7 DEF BtInv, Batches
        <3>5. CASE ~(c <= FlBatch)
            <4>1. k = 1 /\ lists[k] = l1 /\ l1 # <<>>
                BY <1>2, <1>1, <1>4, <3>1, <3>5
            <4>2. /\ FlList(Tail(l1)) /\ ToSet(Tail(l1)) = ToSet(l1) \ {Head(l1)} /\ Len(Tail(l1)) = Len(l1) - 1
                  /\ Head(l1) \in ToSet(l1) /\ Head(l1) \in FlObject /\ Len(l1) # 0
                BY <1>1, <4>1, TailRemoves
            <4>3. btLists' = [btLists EXCEPT ![1] = Tail(l1)] /\ btHeld' = btHeld \cup {Head(l1)}
                BY <2>1, <3>1, <4>1
            <4>4. /\ btLists'[1] = Tail(l1) /\ btLists'[0] = l0
                  /\ btLists' = [l \in {0, 1} |-> btLists'[l]]
                <5>1. DOMAIN btLists = {0, 1}
                    BY <1>1
                <5>2. btLists' = [l \in {0, 1} |-> IF l = 1 THEN Tail(l1) ELSE btLists[l]]
                    BY <4>3, <5>1
                <5>3. QED BY <5>2
            <4>5. /\ c - 1 \in Nat /\ c > FlBatch + 1 /\ Len(l0) = FlBatch + 1
                BY <1>1, <1>2, <2>3, <3>5, <4>2
            <4>6. /\ Len(l0) = (IF c - 1 <= FlBatch + 1 THEN c - 1 ELSE FlBatch + 1)
                  /\ Len(l0) + Len(Tail(l1)) = c - 1
                BY <1>1, <1>2, <4>2, <4>5
            <4>7. /\ ToSet(l0) \cap ToSet(Tail(l1)) = {}
                  /\ (ToSet(l0) \cup ToSet(Tail(l1))) \cap (btHeld' \cup btSpare') = {}
                  /\ ToSet(l0) \cup ToSet(Tail(l1)) \cup btHeld' \cup btSpare' = FlObject
                  /\ btSpare' \subseteq FlObject /\ btHeld' \subseteq FlObject /\ btSpare' \cap btHeld' = {}
                BY <1>1, <3>3, <4>2, <4>3
            <4>8. QED BY <1>1, <3>3, <4>2, <4>4, <4>5, <4>6, <4>7 DEF BtInv, Batches
        <3>6. QED BY <3>4, <3>5
    <2>4. QED BY <2>2, <2>3
<1>5. QED BY <1>3, <1>4

LEMMA BtFreeKeeps == ASSUME BtInv, NEW o \in btHeld, BtFree(o) PROVE BtInv'
<1> PICK l0 : l0 = btLists[0]
    OBVIOUS
<1> PICK l1 : l1 = btLists[1]
    OBVIOUS
<1> PICK c : c = btCount
    OBVIOUS
<1>1. /\ btLists = [l \in {0, 1} |-> btLists[l]] /\ FlList(l0) /\ FlList(l1) /\ c \in Nat
      /\ Len(l0) = (IF c <= FlBatch + 1 THEN c ELSE FlBatch + 1) /\ Len(l0) + Len(l1) = c
      /\ btSpare \subseteq FlObject /\ btHeld \subseteq FlObject /\ btSpare \cap btHeld = {}
      /\ ToSet(l0) \cap ToSet(l1) = {} /\ (ToSet(l0) \cup ToSet(l1)) \cap (btHeld \cup btSpare) = {}
      /\ ToSet(l0) \cup ToSet(l1) \cup btHeld \cup btSpare = FlObject
    BY DEF BtInv, Batches
<1>2. FlBatch \in Nat \ {0} /\ Len(l0) \in Nat /\ Len(l1) \in Nat /\ DOMAIN btLists = {0, 1}
    BY <1>1, FlAssumption DEF FlList
<1> DEFINE lists == [btLists EXCEPT ![BtListOf(btCount)] = <<o>> \o @]
           full == btCount + 1 = 2 * FlBatch
<1>3. o \in FlObject \ ToSet(l0) /\ o \in FlObject \ ToSet(l1)
    BY <1>1
<1>4. CASE BtCrashes
    BY <1>4 DEF BtCrashes, BtInv
<1>5. CASE ~BtCrashes
    <2>1. /\ ~(full /\ Len(lists[1]) < FlBatch)
          /\ btLists' = (IF full THEN [lists EXCEPT ![1] = <<>>] ELSE lists)
          /\ btSpare' = btSpare \cup (IF full THEN MultiFree(FlBatch, lists[1]) ELSE {})
          /\ btCount' = c + 1 /\ btHeld' = btHeld \ {o}
        BY <1>5 DEF BtFree
    <2>2. CASE c <= FlBatch
        <3>1. lists = [l \in {0, 1} |-> IF l = 0 THEN <<o>> \o l0 ELSE btLists[l]]
            <4>1. BtListOf(btCount) = 0
                BY <1>1, <1>2, <2>2 DEF BtListOf
            <4>2. QED BY <1>2, <4>1
        <3>2. lists[0] = <<o>> \o l0 /\ lists[1] = l1
            BY <3>1
        <3>3. /\ FlList(<<o>> \o l0) /\ ToSet(<<o>> \o l0) = ToSet(l0) \cup {o} /\ Len(<<o>> \o l0) = Len(l0) + 1
            BY <1>1, <1>3, PutInFront
        <3>4. Len(l0) = c /\ Len(l1) = 0
            BY <1>1, <1>2, <2>2
        <3>5. ~full
            <4>1. Len(lists[1]) = 0
                BY <3>2, <3>4
            <4>2. Len(lists[1]) < FlBatch
                BY <1>2, <4>1
            <4>3. QED BY <2>1, <4>2
        <3>6. btLists' = lists /\ btSpare' = btSpare
            BY <2>1, <3>5
        <3> HIDE DEF lists, full
        <3>7. btLists'[0] = <<o>> \o l0 /\ btLists'[1] = l1 /\ btLists' = [l \in {0, 1} |-> btLists'[l]]
            BY <3>1, <3>2, <3>6
        <3>8. /\ c + 1 \in Nat /\ Len(<<o>> \o l0) = (IF c + 1 <= FlBatch + 1 THEN c + 1 ELSE FlBatch + 1)
              /\ Len(<<o>> \o l0) + Len(l1) = c + 1
            BY <1>1, <1>2, <2>2, <3>3, <3>4
        <3>9. /\ ToSet(<<o>> \o l0) \cap ToSet(l1) = {}
              /\ (ToSet(<<o>> \o l0) \cup ToSet(l1)) \cap (btHeld' \cup btSpare') = {}
              /\ ToSet(<<o>> \o l0) \cup ToSet(l1) \cup btHeld' \cup btSpare' = FlObject
              /\ btSpare' \subseteq FlObject /\ btHeld' \subseteq FlObject /\ btSpare' \cap btHeld' = {}
            BY <1>1, <1>3, <2>1, <3>3, <3>6
        <3>10. PICK front : front = <<o>> \o l0
            OBVIOUS
        <3>11. /\ btLists'[0] = front /\ btLists'[1] = l1 /\ btLists' = [l \in {0, 1} |-> btLists'[l]]
               /\ btCount' = c + 1 /\ c + 1 \in Nat
            BY <2>1, <3>7, <3>8, <3>10
        <3>12. /\ FlList(front) /\ FlList(l1)
               /\ Len(front) = (IF c + 1 <= FlBatch + 1 THEN c + 1 ELSE FlBatch + 1)
               /\ Len(front) + Len(l1) = c + 1
            BY <1>1, <3>3, <3>8, <3>10
        <3>13. /\ ToSet(front) \cap ToSet(l1) = {}
               /\ (ToSet(front) \cup ToSet(l1)) \cap (btHeld' \cup btSpare') = {}
               /\ ToSet(front) \cup ToSet(l1) \cup btHeld' \cup btSpare' = FlObject
               /\ btSpare' \subseteq FlObject /\ btHeld' \subseteq FlObject /\ btSpare' \cap btHeld' = {}
            BY <3>9, <3>10
        <3>14. QED BY <3>11, <3>12, <3>13 DEF BtInv, Batches
    <2>3. CASE ~(c <= FlBatch)
        <3>1. lists = [l \in {0, 1} |-> IF l = 1 THEN <<o>> \o l1 ELSE btLists[l]]
            <4>1. BtListOf(btCount) = 1
                BY <1>1, <1>2, <2>3 DEF BtListOf
            <4>2. QED BY <1>2, <4>1
        <3>2. lists[1] = <<o>> \o l1 /\ lists[0] = l0
            BY <3>1
        <3>3. /\ FlList(<<o>> \o l1) /\ ToSet(<<o>> \o l1) = ToSet(l1) \cup {o} /\ Len(<<o>> \o l1) = Len(l1) + 1
            BY <1>1, <1>3, PutInFront
        <3>4. Len(l0) = FlBatch + 1
            BY <1>1, <1>2, <2>3
        <3>5. ~full
            <4>1. c + 1 = 2 * FlBatch => Len(l1) + 1 < FlBatch
                BY <1>1, <1>2, <3>4
            <4>2. QED BY <2>1, <3>2, <3>3, <4>1
        <3>6. btLists' = lists /\ btSpare' = btSpare
            BY <2>1, <3>5
        <3> HIDE DEF lists, full
        <3>7. btLists'[1] = <<o>> \o l1 /\ btLists'[0] = l0 /\ btLists' = [l \in {0, 1} |-> btLists'[l]]
            BY <3>1, <3>2, <3>6
        <3>8. /\ c + 1 \in Nat /\ Len(l0) = (IF c + 1 <= FlBatch + 1 THEN c + 1 ELSE FlBatch + 1)
              /\ Len(l0) + Len(<<o>> \o l1) = c + 1
            BY <1>1, <1>2, <2>3, <3>3, <3>4
        <3>9. /\ ToSet(l0) \cap ToSet(<<o>> \o l1) = {}
              /\ (ToSet(l0) \cup ToSet(<<o>> \o l1)) \cap (btHeld' \cup btSpare') = {}
              /\ ToSet(l0) \cup ToSet(<<o>> \o l1) \cup btHeld' \cup btSpare' = FlObject
              /\ btSpare' \subseteq FlObject /\ btHeld' \subseteq FlObject /\ btSpare' \cap btHeld' = {}
            BY <1>1, <1>3, <2>1, <3>3, <3>6
        <3>10. PICK front : front = <<o>> \o l1
            OBVIOUS
        <3>11. /\ btLists'[0] = l0 /\ btLists'[1] = front /\ btLists' = [l \in {0, 1} |-> btLists'[l]]
               /\ btCount' = c + 1 /\ c + 1 \in Nat
            BY <2>1, <3>7, <3>8, <3>10
        <3>12. /\ FlList(l0) /\ FlList(front)
               /\ Len(l0) = (IF c + 1 <= FlBatch + 1 THEN c + 1 ELSE FlBatch + 1)
               /\ Len(l0) + Len(front) = c + 1
            BY <1>1, <3>3, <3>8, <3>10
        <3>13. /\ ToSet(l0) \cap ToSet(front) = {}
               /\ (ToSet(l0) \cup ToSet(front)) \cap (btHeld' \cup btSpare') = {}
               /\ ToSet(l0) \cup ToSet(front) \cup btHeld' \cup btSpare' = FlObject
               /\ btSpare' \subseteq FlObject /\ btHeld' \subseteq FlObject /\ btSpare' \cap btHeld' = {}
            BY <3>9, <3>10
        <3>14. QED BY <3>11, <3>12, <3>13 DEF BtInv, Batches
    <2>4. QED BY <2>2, <2>3
<1>6. QED BY <1>4, <1>5

LEMMA BtDestroyKeeps == ASSUME BtInv, BtDestroy PROVE BtInv'
<1> PICK l0 : l0 = btLists[0]
    OBVIOUS
<1> PICK l1 : l1 = btLists[1]
    OBVIOUS
<1> PICK c : c = btCount
    OBVIOUS
<1>1. /\ FlList(l0) /\ FlList(l1) /\ c \in Nat
      /\ Len(l0) = (IF c <= FlBatch + 1 THEN c ELSE FlBatch + 1) /\ Len(l0) + Len(l1) = c
      /\ btSpare \subseteq FlObject /\ btHeld \subseteq FlObject /\ btSpare \cap btHeld = {}
      /\ ToSet(l0) \cap ToSet(l1) = {} /\ (ToSet(l0) \cup ToSet(l1)) \cap (btHeld \cup btSpare) = {}
      /\ ToSet(l0) \cup ToSet(l1) \cup btHeld \cup btSpare = FlObject
    BY DEF BtInv, Batches
<1>2. FlBatch \in Nat \ {0} /\ Len(l0) \in Nat /\ Len(l1) \in Nat
    BY <1>1, FlAssumption DEF FlList
<1> PICK first : first = Min({c, FlBatch})
    OBVIOUS
<1> PICK rest : rest = c - first
    OBVIOUS
<1>3. first = IF c <= FlBatch THEN c ELSE FlBatch
    <2>1. {c, FlBatch} \subseteq Nat /\ {c, FlBatch} # {}
        BY <1>1, <1>2
    <2>2. first \in {c, FlBatch} /\ first <= c /\ first <= FlBatch
        BY <2>1, LeastIs
    <2>3. QED BY <1>1, <1>2, <2>2
<1>4. CASE BtCrashes
    BY <1>4 DEF BtCrashes, BtInv
<1>5. CASE ~BtCrashes
    <2>1. /\ ~(Len(l0) < first \/ Len(l1) < rest)
          /\ btSpare' = btSpare \cup MultiFree(first, l0) \cup MultiFree(rest, l1)
          /\ btLists' = [l \in {0, 1} |-> <<>>] /\ btCount' = 0 /\ btHeld' = btHeld
        BY <1>5 DEF BtDestroy
    <2>2. \A n, m, k \in Nat : \A b \in Nat \ {0} :
              /\ n + m = k /\ n = (IF k <= b + 1 THEN k ELSE b + 1)
              /\ ~(m < k - IF k <= b THEN k ELSE b)
              => k <= b /\ n = k /\ m = 0
        OBVIOUS
    <2>3. c <= FlBatch /\ Len(l0) = c /\ Len(l1) = 0 /\ first = c /\ rest = 0
        <3>1. ~(Len(l1) < c - IF c <= FlBatch THEN c ELSE FlBatch)
            BY <1>3, <2>1
        <3>2. c <= FlBatch /\ Len(l0) = c /\ Len(l1) = 0
            BY <1>1, <1>2, <2>2, <3>1
        <3>3. first = c
            BY <1>3, <3>2
        <3>4. rest = 0
            BY <1>1, <3>3
        <3>5. QED BY <3>2, <3>3, <3>4
    <2>4. c \in 0 .. Len(l0) /\ 0 \in 0 .. Len(l1)
        BY <1>1, <2>3
    <2>5. MultiFree(first, l0) = ToSet(l0)
        <3>1. SubSeq(l0, 1, c) = l0
            BY <1>1, <2>3, <2>4, FirstOfList
        <3>2. QED BY <2>3, <3>1 DEF MultiFree
    <2>6. MultiFree(rest, l1) = {}
        <3>1. ToSet(SubSeq(l1, 1, 0)) = {}
            BY <1>1, <2>4, FirstOfList
        <3>2. QED BY <2>3, <3>1 DEF MultiFree
    <2>7. ToSet(l1) = {}
        BY <1>1, <2>3, MembersAre
    <2>8. btSpare' = btSpare \cup ToSet(l0)
        BY <2>1, <2>5, <2>6
    <2>9. FlList(<<>>) /\ ToSet(<<>>) = {} /\ Len(<<>>) = 0
        BY DEF FlList, ToSet
    <2>10. btLists'[0] = <<>> /\ btLists'[1] = <<>> /\ btLists' = [l \in {0, 1} |-> btLists'[l]]
        BY <2>1
    <2>11. /\ btSpare' \subseteq FlObject /\ btHeld' \subseteq FlObject /\ btSpare' \cap btHeld' = {}
           /\ btHeld' \cup btSpare' = FlObject
        <3>1. ToSet(l0) \subseteq FlObject
            BY <1>1
        <3>2. QED BY <1>1, <2>1, <2>7, <2>8, <3>1
    <2>12. 0 = (IF 0 <= FlBatch + 1 THEN 0 ELSE FlBatch + 1) /\ 0 \in Nat /\ 0 + 0 = 0
        BY <1>2
    <2> PICK lists : lists = btLists'
        OBVIOUS
    <2>13. Batches(lists, 0, btSpare', btHeld')
        BY <2>9, <2>10, <2>11, <2>12 DEF Batches
    <2>14. QED BY <2>1, <2>13 DEF BtInv
<1>6. QED BY <1>4, <1>5

LEMMA BtInitGood == BtInit => BtInv
<1> SUFFICES ASSUME BtInit PROVE BtInv
    OBVIOUS
<1>1. FlList(<<>>) /\ ToSet(<<>>) = {} /\ Len(<<>>) = 0
    BY DEF FlList, ToSet
<1>2. btLists[0] = <<>> /\ btLists[1] = <<>> /\ btLists = [l \in {0, 1} |-> btLists[l]]
    BY DEF BtInit
<1>3. FlBatch \in Nat
    BY FlAssumption
<1>4. QED BY <1>1, <1>2, <1>3 DEF BtInit, BtInv, Batches

LEMMA BtNextGood == BtInv /\ BtNext => BtInv'
BY BtMallocKeeps, BtDestroyKeeps, BtFreeKeeps DEF BtNext

LEMMA FlInvSuffices == FlInv /\ BtInv => FreedObjectsInOrder
<1> SUFFICES ASSUME FlInv, BtInv PROVE FreedObjectsInOrder
    OBVIOUS
<1>1. /\ ~flTrampled /\ flHeld \cap ToSet(flFreed) = {} /\ flHeld \cup ToSet(flFreed) = DOMAIN flSize
      /\ flKind = "FirstFit" => flCount = Len(flFreed)
    BY DEF FlInv, Accounts, ByAddress
<1> PICK l0 : l0 = btLists[0]
    OBVIOUS
<1> PICK l1 : l1 = btLists[1]
    OBVIOUS
<1>2. /\ FlList(l0) /\ FlList(l1) /\ Len(l0) + Len(l1) = btCount
      /\ btSpare \cap btHeld = {}
      /\ ToSet(l0) \cap ToSet(l1) = {} /\ (ToSet(l0) \cup ToSet(l1)) \cap (btHeld \cup btSpare) = {}
      /\ ToSet(l0) \cup ToSet(l1) \cup btHeld \cup btSpare = FlObject
    BY DEF BtInv, Batches
<1>3. PICK all : all = l0 \o l1
    OBVIOUS
<1>4. l0 \in Seq(FlObject) /\ l1 \in Seq(FlObject) /\ Len(l0) \in Nat /\ Len(l1) \in Nat
    BY <1>2 DEF FlList
<1>5. \A n, m \in Nat :
          /\ \A i \in 1 .. n : i \in 1 .. n + m /\ i <= n
          /\ \A i \in 1 .. n + m : i <= n => i \in 1 .. n
          /\ \A i \in 1 .. n + m : ~(i <= n) => i - n \in 1 .. m
          /\ \A i \in 1 .. m : n + i \in 1 .. n + m /\ ~(n + i <= n) /\ (n + i) - n = i
    OBVIOUS
<1>6. /\ \A i \in 1 .. Len(l0) : i \in 1 .. Len(l0) + Len(l1) /\ i <= Len(l0)
      /\ \A i \in 1 .. Len(l0) + Len(l1) : i <= Len(l0) => i \in 1 .. Len(l0)
      /\ \A i \in 1 .. Len(l0) + Len(l1) : ~(i <= Len(l0)) => i - Len(l0) \in 1 .. Len(l1)
      /\ \A i \in 1 .. Len(l1) : /\ Len(l0) + i \in 1 .. Len(l0) + Len(l1) /\ ~(Len(l0) + i <= Len(l0))
                                 /\ (Len(l0) + i) - Len(l0) = i
    BY <1>4, <1>5
<1>7. /\ all \in Seq(FlObject) /\ Len(all) = Len(l0) + Len(l1)
      /\ \A i \in 1 .. Len(l0) + Len(l1) : all[i] = IF i <= Len(l0) THEN l0[i] ELSE l1[i - Len(l0)]
    BY <1>4, <1>3, ConcatProperties
<1>8. ASSUME NEW i \in 1 .. Len(all)
      PROVE  \/ i \in 1 .. Len(l0) /\ all[i] = l0[i] /\ all[i] \in ToSet(l0)
             \/ i - Len(l0) \in 1 .. Len(l1) /\ all[i] = l1[i - Len(l0)] /\ all[i] \in ToSet(l1)
    <2>1. CASE i <= Len(l0)
        <3>1. i \in 1 .. Len(l0) /\ all[i] = l0[i]
            BY <1>4, <1>7, <1>8, <1>6, <2>1
        <3>2. QED BY <1>2, <3>1, MembersAre
    <2>2. CASE ~(i <= Len(l0))
        <3>1. i \in 1 .. Len(l0) + Len(l1)
            BY <1>7, <1>8
        <3>2. i - Len(l0) \in 1 .. Len(l1)
            BY <1>4, <1>6, <2>2, <3>1
        <3>3. i - Len(l0) \in 1 .. Len(l1) /\ all[i] = l1[i - Len(l0)]
            BY <1>7, <2>2, <3>1, <3>2
        <3>4. QED BY <1>2, <3>3, MembersAre
    <2>3. QED BY <2>1, <2>2
<1>9. ASSUME NEW i \in 1 .. Len(all), NEW j \in 1 .. Len(all), i # j PROVE all[i] # all[j]
    <2>1. CASE i \in 1 .. Len(l0) /\ j \in 1 .. Len(l0) /\ all[i] = l0[i] /\ all[j] = l0[j]
        BY <1>2, <1>9, <2>1 DEF FlList
    <2>2. CASE /\ i - Len(l0) \in 1 .. Len(l1) /\ all[i] = l1[i - Len(l0)]
               /\ j - Len(l0) \in 1 .. Len(l1) /\ all[j] = l1[j - Len(l0)]
        <3>1. i - Len(l0) # j - Len(l0)
            BY <1>4, <1>7, <1>9
        <3>2. QED BY <1>2, <2>2, <3>1 DEF FlList
    <2>3. CASE \/ all[i] \in ToSet(l0) /\ all[j] \in ToSet(l1)
               \/ all[i] \in ToSet(l1) /\ all[j] \in ToSet(l0)
        BY <1>2, <2>3
    <2>4. QED BY <1>8, <2>1, <2>2, <2>3
<1>10. FlList(all)
    BY <1>7, <1>9 DEF FlList
<1>11. ToSet(all) = ToSet(l0) \cup ToSet(l1)
    <2>1. ASSUME NEW x \in ToSet(all) PROVE x \in ToSet(l0) \cup ToSet(l1)
        <3>1. PICK i \in 1 .. Len(all) : x = all[i]
            BY <1>10, <2>1, MembersAre
        <3>2. QED BY <1>8, <3>1
    <2>2. ASSUME NEW x \in ToSet(l0) PROVE x \in ToSet(all)
        <3>1. PICK i \in 1 .. Len(l0) : x = l0[i]
            BY <1>2, <2>2, MembersAre
        <3>2. i \in 1 .. Len(l0) + Len(l1) /\ i <= Len(l0)
            BY <1>4, <1>6, <3>1
        <3>3. i \in 1 .. Len(all) /\ all[i] = x
            BY <1>7, <3>1, <3>2
        <3>4. QED BY <1>10, <3>3, MembersAre
    <2>3. ASSUME NEW x \in ToSet(l1) PROVE x \in ToSet(all)
        <3>1. PICK i \in 1 .. Len(l1) : x = l1[i]
            BY <1>2, <2>3, MembersAre
        <3>2. PICK k : k = Len(l0) + i
            OBVIOUS
        <3>3. k \in 1 .. Len(all) /\ k \in 1 .. Len(l0) + Len(l1) /\ ~(k <= Len(l0)) /\ k - Len(l0) = i
            <4>1. k \in 1 .. Len(l0) + Len(l1) /\ ~(k <= Len(l0)) /\ k - Len(l0) = i
                BY <1>4, <1>6, <3>1, <3>2
            <4>2. QED BY <1>7, <4>1
        <3>4. all[k] = x
            BY <1>7, <3>1, <3>3
        <3>5. QED BY <1>10, <3>3, <3>4, MembersAre
    <2>4. QED BY <2>1, <2>2, <2>3
<1>12. Cardinality(ToSet(all)) = btCount
    BY <1>2, <1>7, <1>10, ListCardinality
<1>13. QED BY <1>1, <1>2, <1>11, <1>12, <1>3, WalkListed DEF FreedObjectsInOrder

\* Whatever the objects and sizes, the FIFO heaps list what is freed in that order,
\* FirstFitHeap by address, and neither writes a link into what is held; whatever the
\* batch, BatchHeap has each object in one place and counts those it lists.
THEOREM FreedObjectsAreInOrder == FlSpec => []FreedObjectsInOrder
<1>1. FlInit /\ BtInit => FlInv /\ BtInv
    BY FlInitGood, BtInitGood
<1>2. FlInv /\ BtInv /\ [(FlStep /\ UNCHANGED btVars) \/ (BtNext /\ UNCHANGED flVars)]_<<flVars, btVars>>
      => FlInv' /\ BtInv'
    <2>1. FlInv /\ UNCHANGED flVars => FlInv'
        BY DEF flVars, FlInv
    <2>2. BtInv /\ UNCHANGED btVars => BtInv'
        BY DEF btVars, BtInv
    <2>3. QED BY <2>1, <2>2, FlStepGood, BtNextGood
<1>3. QED BY <1>1, <1>2, FlInvSuffices, PTL DEF FlSpec
-----------------------------------------------------------------------------
(* LooseSlotHeap and LazySlotHeap *)

\* A list of members of S without repetition.
LsList(s, S) ==
    /\ s \in Seq(S)
    /\ \A i, j \in 1 .. Len(s) : i # j => s[i] # s[j]

\* The slots: a chunk's free ones are on its list once, the others are held.
Slotted(frees, held) ==
    /\ DOMAIN frees = LsChunks /\ frees = [c \in LsChunks |-> frees[c]]
    /\ held \subseteq LsChunks \X (1 .. LsSlots)
    /\ \A c \in LsChunks : LsList(frees[c], 1 .. LsSlots)
    /\ \A c \in LsChunks, s \in 1 .. LsSlots : <<c, s>> \in held <=> s \notin ToSet(frees[c])

HeldOf(held, T) == {h \in held : h[1] \in T}

\* The chunks: those of the heap are on the list of their fullness.
Sorted(lists, frees, owned) ==
    /\ lists = [i \in 0 .. LsFraction |-> lists[i]]
    /\ owned \subseteq LsChunks
    /\ \A i \in 0 .. LsFraction : LsList(lists[i], LsChunks)
    /\ \A i \in 0 .. LsFraction, c \in LsChunks :
            c \in ToSet(lists[i]) <=> c \in owned /\ Fullness(frees[c]) = i

Counted(space, inUse, held, owned) ==
    /\ space = LsSlots * Cardinality(owned)
    /\ inUse = Cardinality(HeldOf(held, owned))

LsInv ==
    /\ Slotted(lsFree, lsHeld)
    /\ Sorted(lsLists, lsFree, lsOwned)
    /\ Counted(lsSpace, lsInUse, lsHeld, lsOwned)
    /\ lsSent \in Nat /\ LsFraction * lsSent >= LsSlots

LEMMA LsMembers ==
    \A S, s : LsList(s, S) => \A x : x \in ToSet(s) <=> \E i \in 1 .. Len(s) : x = s[i]
<1> SUFFICES ASSUME NEW S, NEW s, LsList(s, S), NEW x
             PROVE  x \in ToSet(s) <=> \E i \in 1 .. Len(s) : x = s[i]
    OBVIOUS
<1>1. DOMAIN s = 1 .. Len(s)
    BY DEF LsList
<1>2. QED BY <1>1 DEF ToSet

LEMMA LsNumbers ==
    /\ LsSlots \in Nat /\ LsSlots # 0 /\ LsFraction \in Nat /\ LsFraction # 0
    /\ IsFiniteSet(1 .. LsSlots) /\ Cardinality(1 .. LsSlots) = LsSlots
<1>1. LsSlots \in Nat /\ LsSlots # 0 /\ LsFraction \in Nat /\ LsFraction # 0
    BY LsAssumption
<1>2. QED BY <1>1, NumbersUpTo

LEMMA LsListSize ==
    ASSUME NEW S, NEW s, LsList(s, S)
    PROVE  Len(s) \in Nat /\ IsFiniteSet(ToSet(s)) /\ Cardinality(ToSet(s)) = Len(s)
<1>1. s \in Seq(S) /\ Len(s) \in Nat /\ DOMAIN s = 1 .. Len(s)
    BY DEF LsList
<1>2. s \in [1 .. Len(s) -> ToSet(s)]
    BY <1>1 DEF ToSet
<1>3. \A x \in ToSet(s) : \E i \in 1 .. Len(s) : s[i] = x
    BY LsMembers
<1>4. s \in Bijection(1 .. Len(s), ToSet(s))
    BY <1>2, <1>3 DEF LsList, Bijection, Injection, Surjection, IsInjective
<1>5. ExistsBijection(1 .. Len(s), ToSet(s))
    BY <1>4 DEF ExistsBijection
<1>6. IsFiniteSet(1 .. Len(s)) /\ Cardinality(1 .. Len(s)) = Len(s)
    BY <1>1, NumbersUpTo
<1>7. QED BY <1>1, <1>5, <1>6, FS_Bijection

\* The slots on a list, and how many are not.
LEMMA SlotsListed ==
    ASSUME NEW s, LsList(s, 1 .. LsSlots)
    PROVE  /\ Len(s) \in 0 .. LsSlots /\ ToSet(s) \subseteq 1 .. LsSlots
           /\ IsFiniteSet((1 .. LsSlots) \ ToSet(s))
           /\ Cardinality((1 .. LsSlots) \ ToSet(s)) = LsSlots - Len(s)
           /\ SlotsInUse(s) = LsSlots - Len(s) /\ SlotsInUse(s) \in 0 .. LsSlots
<1>1. Len(s) \in Nat /\ IsFiniteSet(ToSet(s)) /\ Cardinality(ToSet(s)) = Len(s)
    BY LsListSize
<1>2. ToSet(s) \subseteq 1 .. LsSlots
    <2>1. \A i \in 1 .. Len(s) : s[i] \in 1 .. LsSlots
        BY ElementOfSeq DEF LsList
    <2>2. QED BY <2>1, LsMembers
<1>3. Cardinality(ToSet(s)) <= Cardinality(1 .. LsSlots)
    BY <1>2, LsNumbers, FS_Subset
<1>4. Len(s) <= LsSlots
    BY <1>1, <1>3, LsNumbers
<1>5. IsFiniteSet((1 .. LsSlots) \ ToSet(s))
    BY LsNumbers, FS_Subset
<1>6. Cardinality((1 .. LsSlots) \ ToSet(s)) = Cardinality(1 .. LsSlots) - Cardinality((1 .. LsSlots) \cap ToSet(s))
    BY LsNumbers, FS_Difference
<1>7. (1 .. LsSlots) \cap ToSet(s) = ToSet(s)
    BY <1>2
<1>8. Cardinality((1 .. LsSlots) \ ToSet(s)) = LsSlots - Len(s)
    BY <1>1, <1>6, <1>7, LsNumbers
<1>9. LsSlots - Len(s) \in 0 .. LsSlots /\ Len(s) \in 0 .. LsSlots
    BY <1>1, <1>4, LsNumbers
<1>10. QED BY <1>2, <1>5, <1>8, <1>9 DEF SlotsInUse

LEMMA LsTailIs ==
    ASSUME NEW S, NEW s, LsList(s, S), s # <<>>
    PROVE  /\ LsList(Tail(s), S) /\ ToSet(Tail(s)) = ToSet(s) \ {Head(s)} /\ Len(Tail(s)) = Len(s) - 1
           /\ Head(s) \in ToSet(s) /\ Head(s) \in S /\ Len(s) \in Nat \ {0}
<1>1. s \in Seq(S) /\ Len(s) \in Nat /\ Len(s) # 0 /\ Head(s) = s[1]
    BY DEF LsList
<1>2. /\ Tail(s) \in Seq(S) /\ Len(Tail(s)) = Len(s) - 1
      /\ \A j \in 1 .. Len(s) - 1 : Tail(s)[j] = s[j + 1]
    BY <1>1
<1> PICK t : t = Tail(s)
    OBVIOUS
<1>3. t \in Seq(S) /\ Len(t) = Len(s) - 1 /\ \A j \in 1 .. Len(s) - 1 : t[j] = s[j + 1]
    BY <1>2
<1>4. LsList(t, S)
    <2>1. ASSUME NEW i \in 1 .. Len(t), NEW j \in 1 .. Len(t), i # j PROVE t[i] # t[j]
        <3>1. t[i] = s[i + 1] /\ t[j] = s[j + 1]
            BY <1>1, <1>3
        <3>2. i + 1 \in 1 .. Len(s) /\ j + 1 \in 1 .. Len(s) /\ i + 1 # j + 1
            BY <1>1, <1>3, <2>1
        <3>3. QED BY <3>1, <3>2 DEF LsList
    <2>2. QED BY <1>3, <2>1 DEF LsList
<1>5. 1 \in 1 .. Len(s)
    BY <1>1
<1>6. ASSUME NEW x \in ToSet(t) PROVE x \in ToSet(s) /\ x # s[1]
    <2>1. PICK j \in 1 .. Len(t) : x = t[j]
        BY <1>4, <1>6, LsMembers
    <2>2. x = s[j + 1] /\ j + 1 \in 1 .. Len(s) /\ j + 1 # 1
        BY <1>1, <1>3, <2>1
    <2>3. x \in ToSet(s)
        BY <2>2, LsMembers
    <2>4. QED BY <1>5, <2>2, <2>3 DEF LsList
<1>7. ASSUME NEW x \in ToSet(s), x # s[1] PROVE x \in ToSet(t)
    <2>1. PICK j \in 1 .. Len(s) : x = s[j]
        BY <1>7, LsMembers
    <2>2. j # 1
        BY <1>7, <2>1
    <2>3. j - 1 \in 1 .. Len(t) /\ j - 1 \in 1 .. Len(s) - 1 /\ (j - 1) + 1 = j
        BY <1>1, <1>3, <2>2
    <2>4. x = t[j - 1]
        BY <1>3, <2>1, <2>3
    <2>5. QED BY <1>4, <2>3, <2>4, LsMembers
<1>8. s[1] \in ToSet(s) /\ s[1] \in S
    <2>1. s[1] \in S
        BY <1>1, <1>5, ElementOfSeq
    <2>2. QED BY <1>5, <2>1, LsMembers
<1>9. ToSet(t) = ToSet(s) \ {s[1]}
    BY <1>6, <1>7
<1>10. QED BY <1>1, <1>3, <1>4, <1>8, <1>9

LEMMA LsFrontIs ==
    ASSUME NEW S, NEW s, LsList(s, S), NEW o \in S, o \notin ToSet(s)
    PROVE  /\ LsList(<<o>> \o s, S) /\ ToSet(<<o>> \o s) = ToSet(s) \cup {o}
           /\ Len(<<o>> \o s) = Len(s) + 1 /\ Len(s) \in Nat
<1>1. s \in Seq(S) /\ Len(s) \in Nat
    BY DEF LsList
<1>2. <<o>> \in Seq(S) /\ Len(<<o>>) = 1 /\ <<o>>[1] = o
    OBVIOUS
<1>0. PICK t : t = <<o>> \o s
    OBVIOUS
<1>3. /\ t \in Seq(S) /\ Len(t) = Len(s) + 1
      /\ \A j \in 1 .. 1 + Len(s) : t[j] = IF j <= 1 THEN <<o>>[j] ELSE s[j - 1]
    BY <1>0, <1>1, <1>2, ConcatProperties
<1>4. 1 \in 1 .. Len(t) /\ t[1] = o
    BY <1>1, <1>2, <1>3
<1>5. \A j \in 1 .. Len(t) : j # 1 => t[j] = s[j - 1] /\ j - 1 \in 1 .. Len(s)
    BY <1>1, <1>2, <1>3
<1>6. LsList(t, S)
    <2>1. ASSUME NEW i \in 1 .. Len(t), NEW j \in 1 .. Len(t), i # j PROVE t[i] # t[j]
        <3>1. CASE i # 1 /\ j # 1
            <4>1. t[i] = s[i - 1] /\ i - 1 \in 1 .. Len(s) /\ t[j] = s[j - 1] /\ j - 1 \in 1 .. Len(s)
                BY <1>5, <3>1
            <4>2. i - 1 # j - 1
                BY <2>1
            <4>3. QED BY <4>1, <4>2 DEF LsList
        <3>2. CASE i = 1 /\ j # 1
            <4>1. t[i] = o /\ t[j] = s[j - 1] /\ j - 1 \in 1 .. Len(s)
                BY <1>4, <1>5, <3>2
            <4>2. QED BY <4>1, LsMembers
        <3>3. CASE i # 1 /\ j = 1
            <4>1. t[j] = o /\ t[i] = s[i - 1] /\ i - 1 \in 1 .. Len(s)
                BY <1>4, <1>5, <3>3
            <4>2. QED BY <4>1, LsMembers
        <3>4. QED BY <2>1, <3>1, <3>2, <3>3
    <2>2. QED BY <1>3, <2>1 DEF LsList
<1>7. ASSUME NEW x \in ToSet(t) PROVE x \in ToSet(s) \cup {o}
    <2>1. PICK j \in 1 .. Len(t) : x = t[j]
        <3>1. \A y : y \in ToSet(t) <=> \E j \in 1 .. Len(t) : y = t[j]
            BY <1>6, LsMembers
        <3>2. QED BY <1>7, <3>1, Zenon
    <2>2. CASE j = 1
        BY <1>4, <2>1, <2>2
    <2>3. CASE j # 1
        <3>1. x = s[j - 1] /\ j - 1 \in 1 .. Len(s)
            BY <1>5, <2>1, <2>3
        <3>2. QED BY <3>1, LsMembers
    <2>4. QED BY <2>2, <2>3
<1>8. ASSUME NEW x \in ToSet(s) PROVE x \in ToSet(t)
    <2>1. PICK j \in 1 .. Len(s) : x = s[j]
        BY <1>8, LsMembers
    <2>2. j + 1 \in 1 .. Len(t) /\ j + 1 # 1 /\ (j + 1) - 1 = j
        BY <1>1, <1>3
    <2>3. x = t[j + 1]
        BY <1>5, <2>1, <2>2
    <2>4. QED BY <1>6, <2>2, <2>3, LsMembers
<1>9. o \in ToSet(t)
    BY <1>4, <1>6, LsMembers
<1>10. QED BY <1>0, <1>1, <1>3, <1>6, <1>7, <1>8, <1>9

\* A chunk leaves its list.
LEMMA LsLeaves ==
    ASSUME NEW S, NEW s, LsList(s, S), NEW c \in ToSet(s)
    PROVE  /\ LsList(RemoveAt(s, LsPlace(s, c)), S)
           /\ ToSet(RemoveAt(s, LsPlace(s, c))) = ToSet(s) \ {c}
<1> PICK i : i = LsPlace(s, c)
    OBVIOUS
<1>1. s \in Seq(S) /\ Len(s) \in Nat /\ DOMAIN s = 1 .. Len(s)
    BY DEF LsList
<1>2. i \in 1 .. Len(s) /\ s[i] = c
    <2>1. \E k \in DOMAIN s : s[k] = c
        BY <1>1, LsMembers
    <2>2. QED BY <1>1, <2>1 DEF LsPlace
<1> PICK t : t = RemoveAt(s, i)
    OBVIOUS
<1>3. /\ t \in Seq(S) /\ Len(t) = Len(s) - 1
      /\ \A j \in 1 .. i - 1 : t[j] = s[j]
      /\ \A j \in i .. Len(s) - 1 : t[j] = s[j + 1]
    BY <1>1, <1>2, RemoveAtIs
<1> DEFINE From(j) == IF j < i THEN j ELSE j + 1
<1>4. ASSUME NEW j \in 1 .. Len(t)
      PROVE  t[j] = s[From(j)] /\ From(j) \in 1 .. Len(s) /\ From(j) # i
    <2>1. CASE j < i
        <3>1. j \in 1 .. i - 1 /\ j \in 1 .. Len(s) /\ j # i
            BY <1>1, <1>2, <1>3, <2>1
        <3>2. QED BY <1>3, <2>1, <3>1
    <2>2. CASE ~(j < i)
        <3>1. j \in i .. Len(s) - 1 /\ j + 1 \in 1 .. Len(s) /\ j + 1 # i
            BY <1>1, <1>2, <1>3, <2>2
        <3>2. QED BY <1>3, <2>2, <3>1
    <2>3. QED BY <2>1, <2>2
<1>5. LsList(t, S)
    <2>1. ASSUME NEW j \in 1 .. Len(t), NEW k \in 1 .. Len(t), j # k PROVE t[j] # t[k]
        <3>1. From(j) # From(k)
            BY <1>1, <1>2, <1>3, <2>1
        <3>2. /\ t[j] = s[From(j)] /\ From(j) \in 1 .. Len(s)
              /\ t[k] = s[From(k)] /\ From(k) \in 1 .. Len(s)
            BY <1>4
        <3> HIDE DEF From
        <3>3. QED BY <3>1, <3>2 DEF LsList
    <2>2. QED BY <1>3, <2>1 DEF LsList
<1>6. ASSUME NEW x \in ToSet(t) PROVE x \in ToSet(s) /\ x # c
    <2>1. PICK j \in 1 .. Len(t) : x = t[j]
        BY <1>5, <1>6, LsMembers
    <2>2. x = s[From(j)] /\ From(j) \in 1 .. Len(s) /\ From(j) # i
        BY <1>4, <2>1
    <2> HIDE DEF From
    <2>3. x \in ToSet(s)
        BY <2>2, LsMembers
    <2>4. s[From(j)] # s[i]
        BY <1>2, <2>2 DEF LsList
    <2>5. QED BY <1>2, <2>2, <2>3, <2>4
<1>7. ASSUME NEW x \in ToSet(s), x # c PROVE x \in ToSet(t)
    <2>1. PICK j \in 1 .. Len(s) : x = s[j]
        BY <1>7, LsMembers
    <2>2. j # i
        BY <1>2, <1>7, <2>1
    <2>3. CASE j < i
        <3>1. j \in 1 .. i - 1 /\ j \in 1 .. Len(t)
            BY <1>1, <1>2, <1>3, <2>3
        <3>2. x = t[j]
            BY <1>3, <2>1, <3>1
        <3>3. QED BY <1>5, <3>1, <3>2, LsMembers
    <2>4. CASE i < j
        <3>1. j - 1 \in i .. Len(s) - 1 /\ j - 1 \in 1 .. Len(t) /\ (j - 1) + 1 = j
            BY <1>1, <1>2, <1>3, <2>4
        <3>2. x = t[j - 1]
            BY <1>3, <2>1, <3>1
        <3>3. QED BY <1>5, <3>1, <3>2, LsMembers
    <2>5. QED BY <1>1, <1>2, <2>2, <2>3, <2>4
<1>8. ToSet(t) = ToSet(s) \ {c}
    BY <1>6, <1>7
<1>9. QED BY <1>5, <1>8

\* A chunk has given out as many slots as are held of it, and so have many chunks.
LEMMA HeldIsFinite ==
    ASSUME NEW frees, NEW held, Slotted(frees, held)
    PROVE  IsFiniteSet(held) /\ \A T : IsFiniteSet(HeldOf(held, T)) /\ Cardinality(HeldOf(held, T)) \in Nat
<1>1. IsFiniteSet(LsChunks)
    BY LsAssumption
<1>2. IsFiniteSet(LsChunks \X (1 .. LsSlots))
    BY <1>1, LsNumbers, FS_Product
<1>3. IsFiniteSet(held)
    BY <1>2, FS_Subset DEF Slotted
<1>4. ASSUME NEW T PROVE IsFiniteSet(HeldOf(held, T)) /\ Cardinality(HeldOf(held, T)) \in Nat
    <2>1. HeldOf(held, T) \in SUBSET held
        BY DEF HeldOf
    <2>2. QED BY <1>3, <2>1, FS_Subset, FS_CardinalityType
<1>5. QED BY <1>3, <1>4

LEMMA HeldOfOne ==
    ASSUME NEW frees, NEW held, Slotted(frees, held), NEW c \in LsChunks
    PROVE  Cardinality(HeldOf(held, {c})) = SlotsInUse(frees[c])
<1> DEFINE U == (1 .. LsSlots) \ ToSet(frees[c])
           f == [s \in U |-> <<c, s>>]
<1>1. LsList(frees[c], 1 .. LsSlots)
    BY DEF Slotted
<1>2. IsFiniteSet(U) /\ Cardinality(U) = SlotsInUse(frees[c])
    BY <1>1, SlotsListed
<1>3. \A s \in U : <<c, s>> \in HeldOf(held, {c})
    BY DEF Slotted, HeldOf
<1>4. ASSUME NEW h \in HeldOf(held, {c}) PROVE \E s \in U : h = <<c, s>>
    <2>1. h \in held /\ h \in LsChunks \X (1 .. LsSlots) /\ h[1] = c
        BY DEF Slotted, HeldOf
    <2>2. PICK s \in 1 .. LsSlots : h = <<c, s>>
        BY <2>1
    <2>3. s \notin ToSet(frees[c])
        BY <2>1, <2>2 DEF Slotted
    <2>4. QED BY <2>2, <2>3
<1>5. f \in Bijection(U, HeldOf(held, {c}))
    <2>1. f \in [U -> HeldOf(held, {c})]
        BY <1>3
    <2>2. \A r, s \in U : f[r] = f[s] => r = s
        OBVIOUS
    <2>3. \A h \in HeldOf(held, {c}) : \E s \in U : f[s] = h
        BY <1>4
    <2> HIDE DEF f, U
    <2>4. QED BY <2>1, <2>2, <2>3 DEF Bijection, Injection, Surjection, IsInjective
<1>6. ExistsBijection(U, HeldOf(held, {c}))
    BY <1>5 DEF ExistsBijection
<1>7. QED BY <1>2, <1>6, FS_Bijection

LEMMA HeldOfMore ==
    ASSUME NEW frees, NEW held, Slotted(frees, held), NEW T, NEW c \in LsChunks, c \notin T
    PROVE  Cardinality(HeldOf(held, T \cup {c})) = Cardinality(HeldOf(held, T)) + SlotsInUse(frees[c])
<1> DEFINE A == HeldOf(held, T)
           B == HeldOf(held, {c})
<1>1. IsFiniteSet(A) /\ IsFiniteSet(B) /\ Cardinality(A) \in Nat /\ Cardinality(B) \in Nat
    BY HeldIsFinite
<1>2. A \cap B = {} /\ HeldOf(held, T \cup {c}) = A \cup B
    BY DEF HeldOf
<1>3. Cardinality(B) = SlotsInUse(frees[c])
    BY HeldOfOne
<1> HIDE DEF A, B
<1>4. Cardinality(A \cup B) = Cardinality(A) + Cardinality(B) - Cardinality(A \cap B)
    BY <1>1, FS_Union
<1>5. Cardinality(A \cap B) = 0
    BY <1>2, FS_EmptySet
<1>6. Cardinality(A \cup B) = Cardinality(A) + SlotsInUse(frees[c])
    BY <1>1, <1>3, <1>4, <1>5
<1>7. QED BY <1>2, <1>6 DEF A

\* What checkClassInvariant adds up.
UsedUp(frees, T) == MapThenSumSet(LAMBDA c : SlotsInUse(frees[c]), T)

AddsUp(g, frees, T) ==
    g = [s \in SUBSET T |-> IF s = {} THEN 0
                            ELSE SlotsInUse(frees[CHOOSE x \in s : TRUE]) + g[s \ {CHOOSE x \in s : TRUE}]]

LEMMA UsedUpIs == \A frees, T : UsedUp(frees, T) = (CHOOSE g : AddsUp(g, frees, T))[T]
BY DEF UsedUp, AddsUp, MapThenSumSet, MapThenFoldSet

LEMMA SumIsHeld ==
    ASSUME NEW frees, NEW held, Slotted(frees, held), NEW T, T \subseteq LsChunks
    PROVE  UsedUp(frees, T) = Cardinality(HeldOf(held, T))
<1> DEFINE card == [s \in SUBSET T |-> Cardinality(HeldOf(held, s))]
<1>1. ASSUME NEW s \in SUBSET T, s # {}
      PROVE  /\ s \ {CHOOSE x \in s : TRUE} \in SUBSET T
             /\ Cardinality(HeldOf(held, s))
                  = SlotsInUse(frees[CHOOSE x \in s : TRUE]) + Cardinality(HeldOf(held, s \ {CHOOSE x \in s : TRUE}))
    <2>0. PICK c : c = CHOOSE x \in s : TRUE
        OBVIOUS
    <2>1. c \in s /\ c \in LsChunks
        BY <1>1, <2>0
    <2>2. (s \ {c}) \cup {c} = s /\ c \notin s \ {c} /\ s \ {c} \in SUBSET T
        BY <2>1
    <2>3. Cardinality(HeldOf(held, s)) = Cardinality(HeldOf(held, s \ {c})) + SlotsInUse(frees[c])
        <3>0. PICK r : r = s \ {c}
            OBVIOUS
        <3>1. r \cup {c} = s /\ c \notin r
            BY <2>2, <3>0
        <3> HIDE DEF card
        <3>2. Cardinality(HeldOf(held, r \cup {c})) = Cardinality(HeldOf(held, r)) + SlotsInUse(frees[c])
            BY <2>1, <3>1, HeldOfMore
        <3>3. QED BY <3>0, <3>1, <3>2
    <2>4. SlotsInUse(frees[c]) \in Nat /\ Cardinality(HeldOf(held, s \ {c})) \in Nat
        <3>1. LsList(frees[c], 1 .. LsSlots)
            BY <2>1 DEF Slotted
        <3>2. SlotsInUse(frees[c]) \in Nat
            <4>1. SlotsInUse(frees[c]) \in 0 .. LsSlots
                BY <3>1, SlotsListed
            <4>2. QED BY <4>1, LsNumbers
        <3>3. QED BY <3>2, HeldIsFinite
    <2>5. QED BY <2>0, <2>2, <2>3, <2>4
<1>2. Cardinality(HeldOf(held, {})) = 0
    <2>1. HeldOf(held, {}) = {}
        BY DEF HeldOf
    <2>2. QED BY <2>1, FS_EmptySet
<1>3. AddsUp(card, frees, T)
    <2>1. ASSUME NEW s \in SUBSET T
          PROVE  card[s] = IF s = {} THEN 0
                           ELSE SlotsInUse(frees[CHOOSE x \in s : TRUE]) + card[s \ {CHOOSE x \in s : TRUE}]
        <3>1. CASE s = {}
            BY <1>2, <3>1
        <3>2. CASE s # {}
            BY <1>1, <3>2
        <3>3. QED BY <3>1, <3>2
    <2>2. card = [s \in SUBSET T |-> card[s]]
        OBVIOUS
    <2> HIDE DEF card
    <2>3. QED BY <2>1, <2>2 DEF AddsUp
<1> PICK g : g = CHOOSE h : AddsUp(h, frees, T)
    OBVIOUS
<1>4. AddsUp(g, frees, T)
    <2> HIDE DEF card
    <2>1. QED BY <1>3
<1> DEFINE Right == {n \in Nat : \A s \in SUBSET T : Cardinality(s) = n => g[s] = Cardinality(HeldOf(held, s))}
<1>5. \A s \in SUBSET T : IsFiniteSet(s) /\ Cardinality(s) \in Nat /\ (Cardinality(s) = 0 <=> s = {})
    <2>1. IsFiniteSet(LsChunks)
        BY LsAssumption
    <2>2. \A s \in SUBSET T : IsFiniteSet(s)
        BY <2>1, FS_Subset
    <2>3. QED BY <2>2, FS_CardinalityType, FS_EmptySet
<1>6. 0 \in Right
    <2>1. g[{}] = 0
        BY <1>4 DEF AddsUp
    <2>2. QED BY <1>2, <1>5, <2>1
<1>7. ASSUME NEW n \in Nat, n \in Right PROVE n + 1 \in Right
    <2> SUFFICES ASSUME NEW s \in SUBSET T, Cardinality(s) = n + 1
                 PROVE  g[s] = Cardinality(HeldOf(held, s))
        OBVIOUS
    <2> PICK c : c = CHOOSE x \in s : TRUE
        OBVIOUS
    <2>1. s # {}
        BY <1>5
    <2>2. c \in s /\ s \ {c} \in SUBSET T
        BY <2>1
    <2>3. Cardinality(s \ {c}) = n
        <3>1. Cardinality(s \ {c}) = Cardinality(s) - 1
            BY <1>5, <2>2, FS_RemoveElement
        <3>2. QED BY <3>1
    <2>4. g[s \ {c}] = Cardinality(HeldOf(held, s \ {c}))
        BY <1>7, <2>2, <2>3
    <2>5. g[s] = SlotsInUse(frees[c]) + g[s \ {c}]
        BY <1>4, <2>1 DEF AddsUp
    <2>6. Cardinality(HeldOf(held, s)) = SlotsInUse(frees[c]) + Cardinality(HeldOf(held, s \ {c}))
        BY <1>1, <2>1
    <2>7. QED BY <2>4, <2>5, <2>6
<1>8. T \in SUBSET T
    OBVIOUS
<1> PICK k : k = Cardinality(T)
    OBVIOUS
<1>9. k \in Nat
    BY <1>5, <1>8
<1>10. k \in Right
    <2> HIDE DEF Right
    <2>1. 0 .. k \subseteq Right
        BY <1>6, <1>7, <1>9, OneMore
    <2>2. k \in 0 .. k
        BY <1>9
    <2>3. QED BY <2>1, <2>2
<1>11. g[T] = Cardinality(HeldOf(held, T))
    BY <1>8, <1>10
<1>12. QED BY <1>11, UsedUpIs

\* How full a chunk is by its list of free slots.
LEMMA TimesGrows == ASSUME NEW a \in Nat, NEW b \in Nat, a <= b, NEW n \in Nat PROVE n * a <= n * b
<1>1. PICK d \in Nat : b = a + d
    <2>1. b - a \in Nat /\ b = a + (b - a)
        OBVIOUS
    <2>2. QED BY <2>1
<1>2. n * b = n * a + n * d /\ n * d \in Nat /\ n * a \in Nat
    BY <1>1
<1>3. QED BY <1>2

LEMMA FullnessIs ==
    ASSUME NEW s, LsList(s, 1 .. LsSlots)
    PROVE  /\ Fullness(s) \in 0 .. LsFraction
           /\ Len(s) = 0 => Fullness(s) = LsFraction
           /\ Len(s) = LsSlots => Fullness(s) = 0
           /\ LsFraction * Len(s) > LsSlots <=> Fullness(s) + 1 < LsFraction
<1> PICK F, S, u, q, l : F = LsFraction /\ S = LsSlots /\ u = SlotsInUse(s) /\ q = Fullness(s) /\ l = Len(s)
    OBVIOUS
<1>1. F \in Nat /\ F >= 1 /\ S \in Nat /\ S >= 1
    BY LsNumbers
<1>2. u = S - l /\ l \in 0 .. S /\ u \in 0 .. S
    BY SlotsListed
<1>3. F * u \in Nat
    BY <1>1, <1>2
<1>4. q = (F * u) \div S
    BY DEF Fullness
<1>5. q \in Nat /\ S * q <= F * u /\ F * u < S * q + S
    <2> PICK x : x = F * u
        OBVIOUS
    <2>1. x \in Nat /\ S \in Nat \ {0}
        BY <1>1, <1>3
    <2>2. x \div S \in Nat /\ S * (x \div S) <= x /\ x < S * (x \div S) + S
        BY <2>1
    <2>3. QED BY <1>4, <2>2
<1>6. F * u = F * S - F * l /\ F * S \in Nat /\ F * l \in Nat /\ F * l <= F * S
    <2>1. F * S = F * u + F * l
        BY <1>1, <1>2
    <2>2. F * S \in Nat /\ F * l \in Nat
        BY <1>1, <1>2
    <2>3. QED BY <1>3, <2>1, <2>2
<1>7. S * F = F * S /\ S * (F + 1) = F * S + S /\ S * (F - 1) = F * S - S /\ S * (q + 1) = S * q + S
    BY <1>1, <1>5
<1>8. q <= F
    <2>1. SUFFICES ASSUME F + 1 <= q PROVE FALSE
        BY <1>1, <1>5
    <2>2. S * (F + 1) <= S * q
        BY <1>1, <1>5, <2>1, TimesGrows
    <2>3. QED BY <1>1, <1>3, <1>5, <1>6, <1>7, <2>2
<1>9. ASSUME l = 0 PROVE q = F
    <2>1. F * l = 0
        BY <1>1, <1>9
    <2>2. SUFFICES ASSUME q + 1 <= F PROVE FALSE
        BY <1>1, <1>5, <1>8
    <2>3. S * (q + 1) <= S * F
        BY <1>1, <1>5, <2>2, TimesGrows
    <2>4. QED BY <1>1, <1>3, <1>5, <1>6, <1>7, <2>1, <2>3
<1>10. ASSUME l = S PROVE q = 0
    <2>1. F * u = 0
        BY <1>1, <1>2, <1>10
    <2>2. SUFFICES ASSUME 1 <= q PROVE FALSE
        BY <1>5
    <2>3. S * 1 <= S * q
        BY <1>1, <1>5, <2>2, TimesGrows
    <2>4. QED BY <1>1, <1>5, <2>1, <2>3
<1>11. ASSUME F * l > S PROVE q + 1 < F
    <2>1. SUFFICES ASSUME F - 1 <= q PROVE FALSE
        BY <1>1, <1>5
    <2>2. S * (F - 1) <= S * q
        <3>1. F - 1 \in Nat
            BY <1>1
        <3>2. QED BY <1>1, <1>5, <2>1, <3>1, TimesGrows
    <2>3. F * S - S <= S * q
        BY <1>7, <2>2
    <2>4. F * u < F * S - S
        BY <1>1, <1>6, <1>11
    <2>5. S * q \in Nat
        BY <1>1, <1>5
    <2>6. S * q <= F * u
        BY <1>5
    <2>7. QED BY <1>1, <1>3, <1>6, <2>3, <2>4, <2>5, <2>6
<1>12. ASSUME q + 1 < F PROVE F * l > S
    <2>1. S * (q + 1) <= S * (F - 1)
        <3>1. F - 1 \in Nat /\ q + 1 \in Nat /\ q + 1 <= F - 1
            BY <1>1, <1>5, <1>12
        <3>2. QED BY <1>1, <3>1, TimesGrows
    <2>2. QED BY <1>1, <1>3, <1>5, <1>6, <1>7, <2>1
<1>13. QED BY <1>1, <1>5, <1>8, <1>9, <1>10, <1>11, <1>12

LEMMA SumsCompare ==
    ASSUME NEW a \in Int, NEW b \in Int, NEW d \in Int, NEW e \in Int, NEW g \in Int, NEW k \in Int,
           NEW S \in Nat, a + e = b + d, e <= S, g <= k + b
    PROVE  g + d <= (k + S) + a
OBVIOUS

\* Among chunks that are empty enough together one is empty enough itself.
LEMMA SomeIsEmpty ==
    ASSUME NEW frees, NEW held, Slotted(frees, held), NEW T, T \subseteq LsChunks,
           TooEmpty(LsSlots * Cardinality(T), Cardinality(HeldOf(held, T)))
    PROVE  \E c \in T : LsFraction * Len(frees[c]) > LsSlots
<1> DEFINE Full(U) == \A c \in U : ~(LsFraction * Len(frees[c]) > LsSlots)
           Held(U) == Cardinality(HeldOf(held, U))
           Right == {n \in Nat : \A U \in SUBSET T : Cardinality(U) = n /\ Full(U) =>
                         LsFraction * (LsSlots * n) <= LsSlots * n + LsFraction * Held(U)}
<1> PICK F, S : F = LsFraction /\ S = LsSlots
    OBVIOUS
<1>1. F \in Nat /\ F >= 1 /\ S \in Nat /\ S >= 1
    BY LsNumbers
<1>2. \A U \in SUBSET T : IsFiniteSet(U) /\ Cardinality(U) \in Nat /\ (Cardinality(U) = 0 <=> U = {})
    <2>1. IsFiniteSet(LsChunks)
        BY LsAssumption
    <2>2. \A s \in SUBSET T : IsFiniteSet(s)
        BY <2>1, FS_Subset
    <2>3. QED BY <2>2, FS_CardinalityType, FS_EmptySet
<1>3. \A U : Held(U) \in Nat
    BY HeldIsFinite
<1>4. 0 \in Right
    <2>1. ASSUME NEW U \in SUBSET T PROVE F * (S * 0) <= S * 0 + F * Held(U)
        <3> PICK h : h = Held(U)
            OBVIOUS
        <3>1. h \in Nat
            BY <1>3
        <3> HIDE DEF Held
        <3>2. F * h \in Nat /\ S * 0 = 0 /\ F * 0 = 0
            BY <1>1, <3>1
        <3>3. QED BY <3>2
    <2>2. QED BY <2>1
<1>5. ASSUME NEW n \in Nat, n \in Right PROVE n + 1 \in Right
    <2> SUFFICES ASSUME NEW U \in SUBSET T, Cardinality(U) = n + 1, Full(U)
                 PROVE  F * (S * (n + 1)) <= S * (n + 1) + F * Held(U)
        OBVIOUS
    <2>1. PICK c \in U : TRUE
        BY <1>2
    <2>2. U \ {c} \in SUBSET T /\ (U \ {c}) \cup {c} = U /\ c \notin U \ {c} /\ c \in LsChunks
        BY <2>1
    <2>3. Cardinality(U \ {c}) = n
        <3>1. Cardinality(U \ {c}) = Cardinality(U) - 1
            BY <1>2, <2>1, FS_RemoveElement
        <3>2. QED BY <3>1
    <2>4. F * (S * n) <= S * n + F * Held(U \ {c})
        <3>1. Full(U \ {c})
            OBVIOUS
        <3> HIDE DEF Held, Full
        <3>2. QED BY <1>5, <2>2, <2>3, <3>1
    <2>5. LsList(frees[c], 1 .. LsSlots)
        BY <2>2 DEF Slotted
    <2> PICK l, h, h0 : l = Len(frees[c]) /\ h = Held(U) /\ h0 = Held(U \ {c})
        OBVIOUS
    <2>6. l \in 0 .. S /\ SlotsInUse(frees[c]) = S - l
        BY <2>5, SlotsListed
    <2>7. h = h0 + SlotsInUse(frees[c])
        BY <2>2, HeldOfMore
    <2>8. F * l <= S
        BY <1>1, <2>1, <2>6
    <2>9. h \in Nat /\ h0 \in Nat
        BY <1>3
    <2> HIDE DEF Held, Full, Right
    <2>10. h + l = h0 + S
        BY <1>1, <2>6, <2>7, <2>9
    <2>11. F * h + F * l = F * h0 + F * S
        <3>1. F * (h + l) = F * h + F * l /\ F * (h0 + S) = F * h0 + F * S
            BY <1>1, <2>6, <2>9
        <3>2. QED BY <2>10, <3>1
    <2>12. F * (S * (n + 1)) = F * (S * n) + F * S /\ S * (n + 1) = S * n + S
        BY <1>1
    <2>13. F * (S * n) <= S * n + F * h0
        BY <2>4
    <2>14. F * h \in Int /\ F * h0 \in Int /\ F * S \in Int /\ F * l \in Int /\ F * (S * n) \in Int /\ S * n \in Int
        BY <1>1, <2>6, <2>9
    <2>15. F * (S * n) + F * S <= (S * n + S) + F * h
        BY <1>1, <2>8, <2>11, <2>13, <2>14, SumsCompare
    <2>16. QED BY <2>12, <2>15
<1>6. T \in SUBSET T
    OBVIOUS
<1> PICK n : n = Cardinality(T)
    OBVIOUS
<1>7. n \in Nat
    BY <1>2, <1>6
<1>8. n \in Right
    <2> HIDE DEF Right
    <2>1. 0 .. n \subseteq Right
        BY <1>4, <1>5, <1>7, OneMore
    <2>2. n \in 0 .. n
        BY <1>7
    <2>3. QED BY <2>1, <2>2
<1>9. Full(T) => F * (S * n) <= S * n + F * Held(T)
    BY <1>6, <1>8
<1>10. ~(F * (S * n) <= S * n + F * Held(T))
    <2> PICK h : h = Held(T)
        OBVIOUS
    <2>1. h \in Nat
        BY <1>3
    <2>2. F * (S * n - h) > S * n
        BY DEF TooEmpty
    <2> HIDE DEF Held, Full, Right
    <2>3. F * (S * n - h) = F * (S * n) - F * h
        BY <1>1, <1>7, <2>1
    <2>4. F * (S * n) \in Int /\ F * h \in Int /\ S * n \in Int
        BY <1>1, <1>7, <2>1
    <2>5. QED BY <2>2, <2>3, <2>4
<1>11. QED BY <1>9, <1>10

LEMMA LsPutIs ==
    ASSUME NEW S, NEW s, LsList(s, S), NEW o, o \in S, o \notin ToSet(s), NEW t, t = <<o>> \o s
    PROVE  LsList(t, S) /\ ToSet(t) = ToSet(s) \cup {o} /\ Len(t) = Len(s) + 1
BY LsFrontIs

\* A slot is taken off a chunk's list, or put back.
LEMMA TakenSlotted ==
    ASSUME NEW frees, NEW held, Slotted(frees, held), NEW c \in LsChunks, frees[c] # <<>>,
           NEW s, s = Head(frees[c]), NEW frees2, frees2 = [frees EXCEPT ![c] = Tail(@)],
           NEW held2, held2 = held \cup {<<c, s>>}
    PROVE  Slotted(frees2, held2) /\ <<c, s>> \notin held /\ LsList(Tail(frees[c]), 1 .. LsSlots)
<1>1. LsList(frees[c], 1 .. LsSlots)
    BY DEF Slotted
<1> PICK f : f = Tail(frees[c])
    OBVIOUS
<1>2. LsList(f, 1 .. LsSlots) /\ ToSet(f) = ToSet(frees[c]) \ {s} /\ s \in ToSet(frees[c]) /\ s \in 1 .. LsSlots
    BY <1>1, LsTailIs
<1>3. <<c, s>> \notin held
    BY <1>2 DEF Slotted
<1>4. /\ DOMAIN frees2 = LsChunks /\ frees2 = [x \in LsChunks |-> frees2[x]]
      /\ frees2[c] = f /\ \A x \in LsChunks : x # c => frees2[x] = frees[x]
    BY DEF Slotted
<1>5. held2 \subseteq LsChunks \X (1 .. LsSlots)
    BY <1>2 DEF Slotted
<1>6. \A x \in LsChunks : LsList(frees2[x], 1 .. LsSlots)
    BY <1>2, <1>4 DEF Slotted
<1>7. ASSUME NEW x \in LsChunks, NEW y \in 1 .. LsSlots
      PROVE  <<x, y>> \in held2 <=> y \notin ToSet(frees2[x])
    <2>1. <<x, y>> \in held <=> y \notin ToSet(frees[x])
        BY DEF Slotted
    <2>2. CASE x = c
        <3>1. <<x, y>> \in held2 <=> <<x, y>> \in held \/ y = s
            BY <2>2
        <3>2. y \notin ToSet(frees2[x]) <=> y \notin ToSet(frees[c]) \/ y = s
            BY <1>2, <1>4, <2>2
        <3>3. QED BY <2>1, <2>2, <3>1, <3>2
    <2>3. CASE x # c
        <3>1. <<x, y>> \in held2 <=> <<x, y>> \in held
            BY <2>3
        <3>2. QED BY <1>4, <2>1, <2>3, <3>1
    <2>4. QED BY <2>2, <2>3
<1>8. Slotted(frees2, held2)
    BY <1>4, <1>5, <1>6, <1>7 DEF Slotted
<1>9. QED BY <1>2, <1>3, <1>8

LEMMA PutSlotted ==
    ASSUME NEW frees, NEW held, Slotted(frees, held), NEW c \in LsChunks, NEW s \in 1 .. LsSlots,
           <<c, s>> \in held, NEW f, f = <<s>> \o frees[c], NEW frees2, frees2 = [frees EXCEPT ![c] = f],
           NEW held2, held2 = held \ {<<c, s>>}
    PROVE  Slotted(frees2, held2) /\ LsList(f, 1 .. LsSlots) /\ Len(f) = Len(frees[c]) + 1
<1>1. LsList(frees[c], 1 .. LsSlots) /\ s \notin ToSet(frees[c])
    BY DEF Slotted
<1>2. LsList(f, 1 .. LsSlots) /\ ToSet(f) = ToSet(frees[c]) \cup {s} /\ Len(f) = Len(frees[c]) + 1
    <2> PICK l : l = frees[c]
        OBVIOUS
    <2>1. LsList(l, 1 .. LsSlots) /\ s \notin ToSet(l) /\ s \in 1 .. LsSlots
        BY <1>1
    <2>2. f = <<s>> \o l
        OBVIOUS
    <2>3. QED BY <2>1, <2>2, LsPutIs, Zenon
<1>4. /\ DOMAIN frees2 = LsChunks /\ frees2 = [x \in LsChunks |-> frees2[x]]
      /\ frees2[c] = f /\ \A x \in LsChunks : x # c => frees2[x] = frees[x]
    BY DEF Slotted
<1>5. held2 \subseteq LsChunks \X (1 .. LsSlots)
    BY DEF Slotted
<1>6. \A x \in LsChunks : LsList(frees2[x], 1 .. LsSlots)
    BY <1>2, <1>4 DEF Slotted
<1>7. ASSUME NEW x \in LsChunks, NEW y \in 1 .. LsSlots
      PROVE  <<x, y>> \in held2 <=> y \notin ToSet(frees2[x])
    <2>1. <<x, y>> \in held <=> y \notin ToSet(frees[x])
        BY DEF Slotted
    <2>2. CASE x = c
        <3>1. <<x, y>> \in held2 <=> <<x, y>> \in held /\ y # s
            BY <2>2
        <3>2. y \notin ToSet(frees2[x]) <=> y \notin ToSet(frees[c]) /\ y # s
            BY <1>2, <1>4, <2>2
        <3>3. QED BY <2>1, <2>2, <3>1, <3>2
    <2>3. CASE x # c
        <3>1. <<x, y>> \in held2 <=> <<x, y>> \in held
            BY <2>3
        <3>2. QED BY <1>4, <2>1, <2>3, <3>1
    <2>4. QED BY <2>2, <2>3
<1>8. Slotted(frees2, held2)
    BY <1>4, <1>5, <1>6, <1>7 DEF Slotted
<1>9. QED BY <1>2, <1>8

\* A chunk whose slots are all free.
LEMMA AllFreeIs ==
    ASSUME NEW s, LsList(s, 1 .. LsSlots)
    PROVE  Len(s) = LsSlots <=> ToSet(s) = 1 .. LsSlots
<1> DEFINE U == (1 .. LsSlots) \ ToSet(s)
<1>1. IsFiniteSet(U) /\ Cardinality(U) = LsSlots - Len(s) /\ Len(s) \in 0 .. LsSlots /\ ToSet(s) \subseteq 1 .. LsSlots
    BY SlotsListed
<1>2. U = {} <=> ToSet(s) = 1 .. LsSlots
    BY <1>1
<1> HIDE DEF U
<1>3. U = {} <=> Cardinality(U) = 0
    BY <1>1, FS_EmptySet
<1>4. QED BY <1>1, <1>2, <1>3, LsNumbers

LEMMA CarvedIs ==
    LET carved == [s \in 1 .. LsSlots |-> LsSlots + 1 - s]
    IN  LsList(carved, 1 .. LsSlots) /\ Len(carved) = LsSlots /\ ToSet(carved) = 1 .. LsSlots
<1>1. PICK t : t = [s \in 1 .. LsSlots |-> LsSlots + 1 - s]
    OBVIOUS
<1>2. \A i \in 1 .. LsSlots : t[i] = LsSlots + 1 - i /\ t[i] \in 1 .. LsSlots
    <2>1. ASSUME NEW i \in 1 .. LsSlots PROVE LsSlots + 1 - i \in 1 .. LsSlots
        BY LsNumbers
    <2>2. \A i \in 1 .. LsSlots : t[i] = LsSlots + 1 - i
        BY <1>1
    <2>3. QED BY <2>1, <2>2
<1>3. t \in [1 .. LsSlots -> 1 .. LsSlots]
    BY <1>1, <1>2
<1>4. t \in Seq(1 .. LsSlots) /\ Len(t) = LsSlots
    BY <1>3, LsNumbers, SeqDef, LenProperties
<1>5. \A i, j \in 1 .. LsSlots : i # j => (LsSlots + 1) - i # (LsSlots + 1) - j
    BY LsNumbers
<1>6. LsList(t, 1 .. LsSlots)
    BY <1>2, <1>4, <1>5 DEF LsList
<1>7. ToSet(t) = 1 .. LsSlots
    BY <1>4, <1>6, AllFreeIs
<1>8. QED BY <1>1, <1>4, <1>6, <1>7

Changed(frees, frees2, c, f) ==
    frees2[c] = f /\ \A x \in LsChunks : x # c => frees2[x] = frees[x]

\* The list of a chunk whose slots have changed is the one of its new fullness.
LEMMA UpdatedSorted ==
    ASSUME NEW lists, NEW frees, NEW owned, Sorted(lists, frees, owned),
           NEW c, c \in owned, NEW f, NEW frees2, Changed(frees, frees2, c, f),
           NEW from, from = Fullness(frees[c]), NEW to, to = Fullness(f),
           from \in 0 .. LsFraction, to \in 0 .. LsFraction,
           NEW lists2, lists2 = LsUpdated(lists, c, from, to)
    PROVE  Sorted(lists2, frees2, owned)
<1>1. owned \subseteq LsChunks /\ c \in LsChunks
    BY DEF Sorted
<1>2. frees2[c] = f /\ \A x \in LsChunks : x # c => frees2[x] = frees[x]
    BY DEF Changed
<1>3. CASE from = to
    <2>1. lists2 = lists
        BY <1>3 DEF LsUpdated
    <2>2. \A x \in LsChunks : Fullness(frees2[x]) = Fullness(frees[x])
        BY <1>2, <1>3
    <2>3. QED BY <2>1, <2>2 DEF Sorted
<1>4. CASE from # to
    <2> PICK a, b : a = RemoveAt(lists[from], LsPlace(lists[from], c)) /\ b = <<c>> \o lists[to]
        OBVIOUS
    <2>1. LsList(lists[from], LsChunks) /\ LsList(lists[to], LsChunks) /\ c \in ToSet(lists[from]) /\ c \notin ToSet(lists[to])
        BY <1>1, <1>4 DEF Sorted
    <2>2. LsList(a, LsChunks) /\ ToSet(a) = ToSet(lists[from]) \ {c}
        BY <2>1, LsLeaves
    <2>3. LsList(b, LsChunks) /\ ToSet(b) = ToSet(lists[to]) \cup {c}
        BY <1>1, <2>1, LsFrontIs
    <2>4. lists = [i \in 0 .. LsFraction |-> lists[i]]
        BY DEF Sorted
    <2>5. lists2 = [lists EXCEPT ![from] = a, ![to] = b]
        <3>1. lists2 = [lists EXCEPT ![from] = RemoveAt(@, LsPlace(@, c)), ![to] = <<c>> \o @]
            BY <1>4 DEF LsUpdated
        <3>2. QED BY <1>4, <2>4, <3>1
    <2>6. /\ lists2 = [i \in 0 .. LsFraction |-> lists2[i]] /\ lists2[from] = a /\ lists2[to] = b
          /\ \A i \in 0 .. LsFraction : i # from /\ i # to => lists2[i] = lists[i]
        BY <1>4, <2>4, <2>5
    <2>7. \A i \in 0 .. LsFraction : LsList(lists2[i], LsChunks)
        BY <2>2, <2>3, <2>6 DEF Sorted
    <2>8. ASSUME NEW i \in 0 .. LsFraction, NEW x \in LsChunks
          PROVE  x \in ToSet(lists2[i]) <=> x \in owned /\ Fullness(frees2[x]) = i
        <3>1. x \in ToSet(lists[i]) <=> x \in owned /\ Fullness(frees[x]) = i
            BY DEF Sorted
        <3>2. CASE x = c
            <4>1. Fullness(frees[x]) = from /\ Fullness(frees2[x]) = to /\ x \in owned
                BY <1>2, <3>2
            <4>2. CASE i = from
                BY <1>4, <2>2, <2>6, <3>2, <4>1, <4>2
            <4>3. CASE i = to
                BY <2>3, <2>6, <3>2, <4>1, <4>3
            <4>4. CASE i # from /\ i # to
                BY <2>6, <3>1, <3>2, <4>1, <4>4
            <4>5. QED BY <4>2, <4>3, <4>4
        <3>3. CASE x # c
            <4>1. Fullness(frees2[x]) = Fullness(frees[x])
                BY <1>2, <3>3
            <4>2. x \in ToSet(lists2[i]) <=> x \in ToSet(lists[i])
                BY <2>2, <2>3, <2>6, <3>3
            <4>3. QED BY <3>1, <4>1, <4>2
        <3>4. QED BY <3>2, <3>3
    <2>9. QED BY <1>1, <2>6, <2>7, <2>8 DEF Sorted
<1>5. QED BY <1>3, <1>4

\* A slot of a listed chunk is taken.
LEMMA LsTakeKeeps ==
    ASSUME Slotted(lsFree, lsHeld), NEW lists, NEW owned, Sorted(lists, lsFree, owned),
           NEW c \in owned, lsFree[c] # <<>>, lsInUse = Cardinality(HeldOf(lsHeld, owned)),
           LsTake(lists, c)
    PROVE  /\ Slotted(lsFree, lsHeld)' /\ Sorted(lsLists', lsFree', owned)
           /\ lsInUse' = Cardinality(HeldOf(lsHeld', owned))
<1> PICK s, f, frees2, held2, lists2 :
        /\ s = Head(lsFree[c]) /\ f = Tail(lsFree[c])
        /\ frees2 = lsFree' /\ held2 = lsHeld' /\ lists2 = lsLists'
    OBVIOUS
<1>1. c \in LsChunks
    BY DEF Sorted
<1>2. /\ frees2 = [lsFree EXCEPT ![c] = Tail(@)] /\ frees2 = [lsFree EXCEPT ![c] = f]
      /\ held2 = lsHeld \cup {<<c, s>>}
      /\ lists2 = LsUpdated(lists, c, Fullness(lsFree[c]), Fullness(f))
    <2>1. lsFree' = [lsFree EXCEPT ![c] = f]
        BY DEF LsTake
    <2>2. frees2 = [lsFree EXCEPT ![c] = Tail(@)]
        BY <2>1
    <2>3. QED BY <2>1, <2>2 DEF LsTake
<1>3. Slotted(frees2, held2) /\ <<c, s>> \notin lsHeld /\ LsList(f, 1 .. LsSlots)
    BY <1>1, <1>2, TakenSlotted
<1>4. Sorted(lists2, frees2, owned)
    <2>1. LsList(lsFree[c], 1 .. LsSlots) /\ lsFree = [x \in LsChunks |-> lsFree[x]]
        BY <1>1 DEF Slotted
    <2>2. PICK from, to : from = Fullness(lsFree[c]) /\ to = Fullness(f)
        OBVIOUS
    <2>3. from \in 0 .. LsFraction /\ to \in 0 .. LsFraction
        BY <1>3, <2>1, <2>2, FullnessIs
    <2>4. lists2 = LsUpdated(lists, c, from, to)
        BY <1>2, <2>2
    <2>5. c \in owned /\ Changed(lsFree, frees2, c, f) /\ from = Fullness(lsFree[c]) /\ to = Fullness(f)
        BY <1>1, <1>2, <2>1, <2>2 DEF Changed
    <2>6. QED BY <2>1, <2>3, <2>4, <2>5, UpdatedSorted, Zenon
<1>5. lsInUse' = Cardinality(HeldOf(held2, owned))
    <2> PICK h : h = HeldOf(lsHeld, owned)
        OBVIOUS
    <2>1. IsFiniteSet(h)
        BY HeldIsFinite
    <2>2. HeldOf(held2, owned) = h \cup {<<c, s>>} /\ <<c, s>> \notin h
        BY <1>2, <1>3 DEF HeldOf
    <2>3. Cardinality(h \cup {<<c, s>>}) = Cardinality(h) + 1
        BY <2>1, <2>2, FS_AddElement
    <2>4. lsInUse' = lsInUse + 1
        BY DEF LsTake
    <2>5. QED BY <2>2, <2>3, <2>4
<1>6. QED BY <1>3, <1>4, <1>5

LEMMA GreatestIs == ASSUME NEW k \in Nat, NEW I, I \subseteq 0 .. k, I # {} PROVE Max(I) \in I
<1> DEFINE J == {k - i : i \in I}
<1>1. J \subseteq Nat /\ J # {}
    <2>1. \A i \in I : k - i \in Nat
        OBVIOUS
    <2>2. QED BY <2>1
<1>2. PICK n \in J : \A m \in J : n <= m
    <2> HIDE DEF J
    <2>1. QED BY <1>1, LeastNatural
<1>3. PICK i \in I : n = k - i
    BY <1>2
<1>4. ASSUME NEW j \in I PROVE i >= j
    <2>1. k - j \in J
        OBVIOUS
    <2>2. n <= k - j
        BY <1>2, <2>1
    <2>3. QED BY <1>3, <2>2
<1>5. QED BY <1>4 DEF Max

LEMMA TakenAway == ASSUME NEW h \in Nat, NEW u \in Nat, NEW n, n = h + u PROVE n - u = h
OBVIOUS

LEMMA OneMoreTimes == ASSUME NEW s \in Nat, NEW m \in Nat PROVE s * (m + 1) = s * m + s /\ s * m \in Nat
OBVIOUS

LEMMA LsMallocListedKeeps == ASSUME LsInv, LsMallocListed PROVE LsInv'
<1> PICK i, c : i = Max(WithRoom) /\ c = Head(lsLists[i])
    OBVIOUS
<1>1. Slotted(lsFree, lsHeld) /\ Sorted(lsLists, lsFree, lsOwned) /\ Counted(lsSpace, lsInUse, lsHeld, lsOwned)
    BY DEF LsInv
<1>2. i \in 0 .. LsFraction - 1 /\ lsLists[i] # <<>>
    <2>1. WithRoom \subseteq 0 .. LsFraction - 1 /\ WithRoom # {} /\ LsFraction - 1 \in Nat
        BY LsNumbers DEF WithRoom, LsMallocListed
    <2> PICK I : I = WithRoom
        OBVIOUS
    <2>2. Max(I) \in I
        BY <2>1, GreatestIs
    <2>3. i \in WithRoom
        BY <2>2
    <2>4. QED BY <2>3 DEF WithRoom
<1>3. i \in 0 .. LsFraction /\ i # LsFraction
    BY <1>2, LsNumbers
<1>4. c \in lsOwned /\ c \in LsChunks /\ Fullness(lsFree[c]) = i
    <2>1. LsList(lsLists[i], LsChunks)
        BY <1>1, <1>3 DEF Sorted
    <2>2. c \in ToSet(lsLists[i]) /\ c \in LsChunks
        BY <1>2, <2>1, LsTailIs
    <2>3. QED BY <1>1, <1>3, <2>2 DEF Sorted
<1>5. lsFree[c] # <<>>
    <2>1. LsList(lsFree[c], 1 .. LsSlots)
        BY <1>1, <1>4 DEF Slotted
    <2>2. Len(lsFree[c]) # 0
        BY <1>3, <1>4, <2>1, FullnessIs
    <2>3. QED BY <2>2
<1>6. LsTake(lsLists, c) /\ UNCHANGED <<lsOwned, lsSpace, lsSent>>
    BY DEF LsMallocListed
<1>7. lsInUse = Cardinality(HeldOf(lsHeld, lsOwned))
    BY <1>1 DEF Counted
<1>8. /\ Slotted(lsFree, lsHeld)' /\ Sorted(lsLists', lsFree', lsOwned)
      /\ lsInUse' = Cardinality(HeldOf(lsHeld', lsOwned))
    BY <1>1, <1>4, <1>5, <1>6, <1>7, LsTakeKeeps
<1>9. QED BY <1>1, <1>6, <1>8 DEF LsInv, Counted

LEMMA LsMallocNewKeeps == ASSUME LsInv, NEW c \in LsChunks, LsMallocNew(c) PROVE LsInv'
<1> PICK lists, owned : lists = [lsLists EXCEPT ![0] = <<c>>] /\ owned = lsOwned \cup {c}
    OBVIOUS
<1>1. Slotted(lsFree, lsHeld) /\ Sorted(lsLists, lsFree, lsOwned) /\ Counted(lsSpace, lsInUse, lsHeld, lsOwned)
    BY DEF LsInv
<1>2. c \notin lsOwned /\ Len(lsFree[c]) = LsSlots /\ WithRoom = {}
    BY DEF LsMallocNew, Spare
<1>3. LsList(lsFree[c], 1 .. LsSlots)
    BY <1>1 DEF Slotted
<1>4. Fullness(lsFree[c]) = 0
    BY <1>2, <1>3, FullnessIs
<1>5. 0 \in 0 .. LsFraction /\ lsLists[0] = <<>>
    <2>1. 0 \in 0 .. LsFraction - 1
        BY LsNumbers
    <2>2. QED BY <1>2, <2>1, LsNumbers DEF WithRoom
<1>6. /\ lists = [i \in 0 .. LsFraction |-> lists[i]] /\ lists[0] = <<c>>
      /\ \A i \in 0 .. LsFraction : i # 0 => lists[i] = lsLists[i]
    <2>1. lsLists = [i \in 0 .. LsFraction |-> lsLists[i]]
        BY <1>1 DEF Sorted
    <2>2. QED BY <1>5, <2>1
<1>7. LsList(<<c>>, LsChunks) /\ \A x : x \in ToSet(<<c>>) <=> x = c
    <2>1. LsList(<<c>>, LsChunks)
        BY DEF LsList
    <2>2. QED BY <2>1, LsMembers
<1>8. ~ \E x \in LsChunks : x \in ToSet(lsLists[0])
    <2>1. LsList(lsLists[0], LsChunks) /\ Len(lsLists[0]) = 0
        BY <1>1, <1>5 DEF Sorted
    <2>2. QED BY <2>1, LsMembers
<1>9. Sorted(lists, lsFree, owned)
    <2>1. owned \subseteq LsChunks
        BY <1>1 DEF Sorted
    <2>2. \A i \in 0 .. LsFraction : LsList(lists[i], LsChunks)
        BY <1>1, <1>6, <1>7 DEF Sorted
    <2>3. ASSUME NEW i \in 0 .. LsFraction, NEW x \in LsChunks
          PROVE  x \in ToSet(lists[i]) <=> x \in owned /\ Fullness(lsFree[x]) = i
        <3>1. x \in ToSet(lsLists[i]) <=> x \in lsOwned /\ Fullness(lsFree[x]) = i
            BY <1>1 DEF Sorted
        <3>2. CASE i = 0
            <4>1. x \in ToSet(lists[i]) <=> x = c
                BY <1>6, <1>7, <3>2
            <4>2. x \notin ToSet(lsLists[i])
                BY <1>8, <3>2
            <4>3. QED BY <1>4, <3>1, <3>2, <4>1, <4>2
        <3>3. CASE i # 0
            <4>1. x \in ToSet(lists[i]) <=> x \in ToSet(lsLists[i])
                BY <1>6, <3>3
            <4>2. QED BY <1>4, <3>1, <3>3, <4>1
        <3>4. QED BY <3>2, <3>3
    <2>4. QED BY <1>6, <2>1, <2>2, <2>3 DEF Sorted
<1>10. lsInUse = Cardinality(HeldOf(lsHeld, owned))
    <2>1. Len(lsFree[c]) = LsSlots => ToSet(lsFree[c]) = 1 .. LsSlots
        BY <1>3, AllFreeIs
    <2>2. \A h \in lsHeld : h[1] # c
        BY <1>1, <1>2, <2>1 DEF Slotted
    <2>3. HeldOf(lsHeld, owned) = HeldOf(lsHeld, lsOwned)
        BY <2>2 DEF HeldOf
    <2>4. QED BY <1>1, <2>3 DEF Counted
<1>11. lsFree[c] # <<>>
    BY <1>2, LsNumbers
<1>12. LsTake(lists, c) /\ lsOwned' = owned /\ lsSpace' = lsSpace + LsSlots /\ UNCHANGED lsSent
    BY DEF LsMallocNew
<1>13. c \in owned
    OBVIOUS
<1>14. /\ Slotted(lsFree, lsHeld)' /\ Sorted(lsLists', lsFree', owned)
       /\ lsInUse' = Cardinality(HeldOf(lsHeld', owned))
    BY <1>1, <1>9, <1>10, <1>11, <1>12, <1>13, LsTakeKeeps
<1>15. lsSpace' = LsSlots * Cardinality(owned)
    <2> PICK n : n = Cardinality(lsOwned)
        OBVIOUS
    <2>1. IsFiniteSet(lsOwned)
        BY <1>1, LsAssumption, FS_Subset DEF Sorted
    <2>2. n \in Nat /\ Cardinality(owned) = n + 1
        BY <1>2, <2>1, FS_CardinalityType, FS_AddElement
    <2>3. LsSlots * (n + 1) = LsSlots * n + LsSlots
        BY <2>2, LsNumbers, OneMoreTimes
    <2>4. lsSpace = LsSlots * n
        BY <1>1 DEF Counted
    <2>5. QED BY <1>12, <2>2, <2>3, <2>4
<1>16. QED BY <1>12, <1>14, <1>15 DEF LsInv, Counted

\* A heap that is too empty gives up a chunk that is empty enough.
Emptiest(lists, e, out, lists2) ==
    /\ e = Min({i \in 0 .. LsFraction - 1 : lists[i] # <<>>})
    /\ out = Head(lists[e]) /\ lists2 = [lists EXCEPT ![e] = Tail(@)]

LEMMA LsGivesUp ==
    ASSUME NEW frees, NEW held, NEW lists, NEW owned, NEW space, NEW inUse,
           Slotted(frees, held), Sorted(lists, frees, owned), Counted(space, inUse, held, owned),
           TooEmpty(space, inUse),
           NEW e, NEW out, NEW lists2, Emptiest(lists, e, out, lists2)
    PROVE  /\ Sorted(lists2, frees, owned \ {out})
           /\ Counted(space - LsSlots, inUse - SlotsInUse(frees[out]), held, owned \ {out})
           /\ Len(frees[out]) \in Nat /\ LsFraction * Len(frees[out]) >= LsSlots
<1> PICK I : I = {i \in 0 .. LsFraction - 1 : lists[i] # <<>>}
    OBVIOUS
<1>1. owned \subseteq LsChunks /\ \A x \in LsChunks : LsList(frees[x], 1 .. LsSlots)
    BY DEF Sorted, Slotted
<1>2. PICK x \in owned : LsFraction * Len(frees[x]) > LsSlots
    BY <1>1, SomeIsEmpty DEF Counted
<1>3. Fullness(frees[x]) \in 0 .. LsFraction /\ Fullness(frees[x]) + 1 < LsFraction
    BY <1>1, <1>2, FullnessIs
<1> PICK f : f = Fullness(frees[x])
    OBVIOUS
<1>4. f \in I
    <2>1. x \in ToSet(lists[f]) /\ LsList(lists[f], LsChunks)
        BY <1>1, <1>2, <1>3 DEF Sorted
    <2>2. lists[f] # <<>>
        <3>1. PICK j \in 1 .. Len(lists[f]) : x = lists[f][j]
            BY <2>1, LsMembers
        <3>2. QED BY <3>1
    <2>3. f \in 0 .. LsFraction - 1
        BY <1>3, LsNumbers
    <2>4. QED BY <2>2, <2>3
<1>5. e \in I /\ e <= f
    <2>1. I \subseteq Nat /\ I # {}
        BY <1>4
    <2>2. Min(I) \in I /\ Min(I) <= f
        BY <1>4, <2>1, LeastIs
    <2>3. QED BY <2>2 DEF Emptiest
<1>6. e \in 0 .. LsFraction /\ e + 1 < LsFraction /\ lists[e] # <<>>
    BY <1>3, <1>5, LsNumbers
<1>7. LsList(lists[e], LsChunks)
    BY <1>6 DEF Sorted
<1> PICK l : l = Tail(lists[e])
    OBVIOUS
<1>8. LsList(l, LsChunks) /\ ToSet(l) = ToSet(lists[e]) \ {out} /\ out \in ToSet(lists[e]) /\ out \in LsChunks
    BY <1>6, <1>7, LsTailIs DEF Emptiest
<1>9. out \in owned /\ Fullness(frees[out]) = e
    BY <1>6, <1>8 DEF Sorted
<1>10. LsList(frees[out], 1 .. LsSlots)
    BY <1>1, <1>9
<1>11. LsFraction * Len(frees[out]) > LsSlots /\ Len(frees[out]) \in 0 .. LsSlots
    BY <1>6, <1>9, <1>10, FullnessIs, SlotsListed
<1>12. /\ lists2 = [i \in 0 .. LsFraction |-> lists2[i]] /\ lists2[e] = l
       /\ \A i \in 0 .. LsFraction : i # e => lists2[i] = lists[i]
    <2>1. lists = [i \in 0 .. LsFraction |-> lists[i]]
        BY DEF Sorted
    <2>2. QED BY <1>6, <2>1 DEF Emptiest
<1>13. Sorted(lists2, frees, owned \ {out})
    <2>1. \A i \in 0 .. LsFraction : LsList(lists2[i], LsChunks)
        BY <1>8, <1>12 DEF Sorted
    <2>2. ASSUME NEW i \in 0 .. LsFraction, NEW y \in LsChunks
          PROVE  y \in ToSet(lists2[i]) <=> y \in owned \ {out} /\ Fullness(frees[y]) = i
        <3>1. y \in ToSet(lists[i]) <=> y \in owned /\ Fullness(frees[y]) = i
            BY DEF Sorted
        <3>2. CASE i = e
            BY <1>8, <1>12, <3>1, <3>2
        <3>3. CASE i # e
            BY <1>9, <1>12, <3>1, <3>3
        <3>4. QED BY <3>2, <3>3
    <2>3. QED BY <1>1, <1>12, <2>1, <2>2 DEF Sorted
<1>14. space - LsSlots = LsSlots * Cardinality(owned \ {out})
    <2> PICK n, m : n = Cardinality(owned) /\ m = Cardinality(owned \ {out})
        OBVIOUS
    <2>1. IsFiniteSet(owned)
        BY <1>1, LsAssumption, FS_Subset
    <2>2. n \in Nat /\ m \in Nat /\ m = n - 1
        BY <1>9, <2>1, FS_CardinalityType, FS_RemoveElement
    <2>3. n = m + 1
        BY <2>2
    <2>4. LsSlots * (m + 1) = LsSlots * m + LsSlots /\ LsSlots * m \in Nat
        BY <2>2, LsNumbers, OneMoreTimes
    <2>5. space = LsSlots * n
        BY DEF Counted
    <2>6. QED BY <2>3, <2>4, <2>5, LsNumbers
<1>15. inUse - SlotsInUse(frees[out]) = Cardinality(HeldOf(held, owned \ {out}))
    <2>0. PICK r : r = owned \ {out}
        OBVIOUS
    <2>1. r \cup {out} = owned /\ out \notin r
        BY <1>9, <2>0
    <2>2. Cardinality(HeldOf(held, r \cup {out})) = Cardinality(HeldOf(held, r)) + SlotsInUse(frees[out])
        BY <1>8, <2>1, HeldOfMore
    <2>3. SlotsInUse(frees[out]) \in 0 .. LsSlots /\ Cardinality(HeldOf(held, r)) \in Nat
        BY <1>10, SlotsListed, HeldIsFinite
    <2>4. inUse = Cardinality(HeldOf(held, owned))
        BY DEF Counted
    <2>5. inUse = Cardinality(HeldOf(held, r)) + SlotsInUse(frees[out])
        BY <2>1, <2>2, <2>4
    <2>6. inUse - SlotsInUse(frees[out]) = Cardinality(HeldOf(held, r))
        <3>1. SlotsInUse(frees[out]) \in Nat
            BY <2>3, LsNumbers
        <3>2. QED BY <2>3, <2>5, <3>1, TakenAway
    <2>7. QED BY <2>0, <2>6
<1>16. LsFraction * Len(frees[out]) >= LsSlots /\ Len(frees[out]) \in Nat
    <2>1. Len(frees[out]) \in Nat
        BY <1>11, LsNumbers
    <2>2. LsFraction * Len(frees[out]) \in Nat
        BY <2>1, LsNumbers
    <2>3. QED BY <1>11, <2>1, <2>2, LsNumbers
<1>17. QED BY <1>13, <1>14, <1>15, <1>16 DEF Counted

LEMMA LsFreeSlotKeeps ==
    ASSUME LsInv, NEW c \in LsChunks, NEW s \in 1 .. LsSlots, LsFreeSlot(c, s)
    PROVE  LsInv'
<1>0. PICK free, lists, frees, held, inUse :
        /\ free = LsPut(lsFree[c], s) /\ lists = LsUpdated(lsLists, c, Fullness(lsFree[c]), Fullness(free))
        /\ frees = [lsFree EXCEPT ![c] = free] /\ held = lsHeld \ {<<c, s>>} /\ inUse = lsInUse - 1
    OBVIOUS
<1>1. Slotted(lsFree, lsHeld) /\ Sorted(lsLists, lsFree, lsOwned) /\ Counted(lsSpace, lsInUse, lsHeld, lsOwned)
    BY DEF LsInv
<1>2. <<c, s>> \in lsHeld /\ c \in lsOwned /\ lsFree' = frees /\ lsHeld' = held
    BY <1>0 DEF LsFreeSlot
<1>3. Slotted(frees, held) /\ LsList(free, 1 .. LsSlots)
    <2>1. free = <<s>> \o lsFree[c]
        BY <1>0 DEF LsPut
    <2>2. frees = [lsFree EXCEPT ![c] = free] /\ held = lsHeld \ {<<c, s>>}
        BY <1>0
    <2>3. QED BY <1>1, <1>2, <2>1, <2>2, PutSlotted
<1>4. Sorted(lists, frees, lsOwned)
    <2>1. LsList(lsFree[c], 1 .. LsSlots) /\ lsFree = [x \in LsChunks |-> lsFree[x]]
        BY <1>1 DEF Slotted
    <2>2. PICK from, to : from = Fullness(lsFree[c]) /\ to = Fullness(free)
        OBVIOUS
    <2>3. from \in 0 .. LsFraction /\ to \in 0 .. LsFraction
        BY <1>3, <2>1, <2>2, FullnessIs
    <2>4. lists = LsUpdated(lsLists, c, from, to)
        BY <1>0, <2>2
    <2>5. c \in lsOwned /\ Changed(lsFree, frees, c, free) /\ from = Fullness(lsFree[c]) /\ to = Fullness(free)
        BY <1>0, <1>2, <2>1, <2>2 DEF Changed
    <2>6. QED BY <1>1, <2>3, <2>4, <2>5, UpdatedSorted, Zenon
<1>5. Counted(lsSpace, inUse, held, lsOwned)
    <2>0. PICK h : h = HeldOf(lsHeld, lsOwned)
        OBVIOUS
    <2>1. IsFiniteSet(h)
        BY <1>1, <2>0, HeldIsFinite
    <2>2. HeldOf(held, lsOwned) = h \ {<<c, s>>} /\ <<c, s>> \in h
        BY <1>0, <1>2, <2>0 DEF HeldOf
    <2>3. Cardinality(h \ {<<c, s>>}) = Cardinality(h) - 1
        BY <2>1, <2>2, FS_RemoveElement
    <2>4. lsInUse = Cardinality(h) /\ lsSpace = LsSlots * Cardinality(lsOwned)
        BY <1>1, <2>0 DEF Counted
    <2>5. QED BY <1>0, <2>2, <2>3, <2>4 DEF Counted
<1>6. CASE ~TooEmpty(lsSpace, inUse)
    <2>1. lsLists' = lists /\ lsInUse' = inUse /\ UNCHANGED <<lsOwned, lsSpace, lsSent>>
        BY <1>0, <1>6 DEF LsFreeSlot
    <2>2. QED BY <1>2, <1>3, <1>4, <1>5, <2>1 DEF LsInv
<1>7. CASE TooEmpty(lsSpace, inUse)
    <2>0. PICK e, out, lists2 :
            /\ e = Min({i \in 0 .. LsFraction - 1 : lists[i] # <<>>})
            /\ out = Head(lists[e]) /\ lists2 = [lists EXCEPT ![e] = Tail(@)]
        OBVIOUS
    <2>1. /\ lsLists' = lists2 /\ lsOwned' = lsOwned \ {out} /\ lsSpace' = lsSpace - LsSlots
          /\ lsInUse' = inUse - SlotsInUse(frees[out]) /\ lsSent' = Len(frees[out])
        BY <1>0, <1>7, <2>0 DEF LsFreeSlot
    <2>2. /\ Sorted(lists2, frees, lsOwned \ {out})
          /\ Counted(lsSpace - LsSlots, inUse - SlotsInUse(frees[out]), held, lsOwned \ {out})
          /\ Len(frees[out]) \in Nat /\ LsFraction * Len(frees[out]) >= LsSlots
        <3>1. Slotted(frees, held) /\ Sorted(lists, frees, lsOwned) /\ Counted(lsSpace, inUse, held, lsOwned)
              /\ TooEmpty(lsSpace, inUse)
            BY <1>3, <1>4, <1>5, <1>7
        <3>2. Emptiest(lists, e, out, lists2)
            BY <2>0 DEF Emptiest
        <3>3. QED BY <3>1, <3>2, LsGivesUp, Zenon
    <2>3. QED BY <1>2, <1>3, <2>1, <2>2 DEF LsInv
<1>8. QED BY <1>6, <1>7

LEMMA LsInitGood == LsInit => LsInv
<1> SUFFICES ASSUME LsInit PROVE LsInv
    OBVIOUS
<1>1. lsFree = [c \in LsChunks |-> LsCarved] /\ lsOwned = {} /\ lsHeld = {}
      /\ lsLists = [i \in 0 .. LsFraction |-> <<>>] /\ lsInUse = 0 /\ lsSpace = 0 /\ lsSent = LsSlots
    BY DEF LsInit
<1>2. LsList(LsCarved, 1 .. LsSlots) /\ ToSet(LsCarved) = 1 .. LsSlots
    BY CarvedIs DEF LsCarved
<1>3. Slotted(lsFree, lsHeld)
    <2>1. \A c \in LsChunks : lsFree[c] = LsCarved
        BY <1>1
    <2>2. QED BY <1>1, <1>2, <2>1 DEF Slotted
<1>4. Sorted(lsLists, lsFree, lsOwned)
    <2>1. LsList(<<>>, LsChunks)
        BY DEF LsList
    <2>2. ToSet(<<>>) = {}
        BY <2>1, LsMembers
    <2>3. QED BY <1>1, <2>1, <2>2 DEF Sorted
<1>5. Counted(lsSpace, lsInUse, lsHeld, lsOwned)
    <2>1. HeldOf(lsHeld, lsOwned) = {}
        BY <1>1 DEF HeldOf
    <2>2. Cardinality(HeldOf(lsHeld, lsOwned)) = 0 /\ Cardinality(lsOwned) = 0
        BY <1>1, <2>1, FS_EmptySet
    <2>3. LsSlots * 0 = 0
        BY LsNumbers
    <2>4. QED BY <1>1, <2>2, <2>3 DEF Counted
<1>6. lsSent \in Nat /\ LsFraction * lsSent >= LsSlots
    <2>1. 1 <= LsFraction
        BY LsNumbers
    <2>2. LsSlots * 1 <= LsSlots * LsFraction
        BY <2>1, LsNumbers, TimesGrows
    <2>3. QED BY <1>1, <2>2, LsNumbers
<1>7. QED BY <1>3, <1>4, <1>5, <1>6 DEF LsInv

LEMMA LsNextGood == LsInv /\ [LsNext]_lsVars => LsInv'
<1> SUFFICES ASSUME LsInv, [LsNext]_lsVars PROVE LsInv'
    OBVIOUS
<1>1. CASE LsMallocListed
    BY <1>1, LsMallocListedKeeps
<1>2. CASE LsMallocFails
    BY <1>2 DEF LsMallocFails, LsInv
<1>3. ASSUME NEW c \in LsChunks, LsMallocNew(c) PROVE LsInv'
    BY <1>3, LsMallocNewKeeps
<1>4. ASSUME NEW c \in LsChunks, NEW s \in 1 .. LsSlots, LsFreeSlot(c, s) PROVE LsInv'
    BY <1>4, LsFreeSlotKeeps
<1>5. ASSUME NEW c \in LsChunks, NEW s \in 1 .. LsSlots, LsFreeGone(c, s) PROVE LsInv'
    BY <1>5 DEF LsFreeGone, LsInv
<1>6. CASE UNCHANGED lsVars
    BY <1>6 DEF lsVars, LsInv
<1>7. QED BY <1>1, <1>2, <1>3, <1>4, <1>5, <1>6 DEF LsNext

-----------------------------------------------------------------------------
(* LazySlotHeap *)

LzInv ==
    /\ Slotted(lzFree, lzHeld)
    /\ lzOwned \subseteq LsChunks /\ lzMine \in lzOwned
    /\ \A c \in LsChunks \ lzOwned : Len(lzFree[c]) = LsSlots
    /\ \A c \in lzOwned \ {lzMine} : Len(lzFree[c]) # LsSlots

LEMMA LzTakesKeeps ==
    ASSUME NEW c \in LsChunks, NEW frees, Slotted(frees, lzHeld), frees[c] # <<>>, LzTakes(c, frees),
           NEW owned, c \in owned, \A x \in LsChunks \ owned : Len(frees[x]) = LsSlots,
           \A x \in owned \ {c} : Len(frees[x]) # LsSlots, owned \subseteq LsChunks,
           lzMine' = c, lzOwned' = owned
    PROVE  LzInv'
<1>0. PICK s, frees2, held2 : s = Head(frees[c]) /\ frees2 = lzFree' /\ held2 = lzHeld'
    OBVIOUS
<1>1. frees2 = [frees EXCEPT ![c] = Tail(@)] /\ held2 = lzHeld \cup {<<c, s>>} /\ s = Head(frees[c])
    BY <1>0 DEF LzTakes
<1>2. Slotted(frees2, held2)
    BY <1>1, TakenSlotted
<1>3. \A x \in LsChunks : x # c => frees2[x] = frees[x]
    BY <1>1 DEF Slotted
<1>4. QED BY <1>0, <1>2, <1>3 DEF LzInv

LEMMA LzMallocKeeps == ASSUME LzInv, LzMalloc PROVE LzInv'
<1>1. CASE lzFree[lzMine] # <<>>
    <2>1. LzTakes(lzMine, lzFree) /\ UNCHANGED <<lzMine, lzOwned>>
        BY <1>1 DEF LzMalloc
    <2>2. QED BY <1>1, <2>1, LzTakesKeeps DEF LzInv
<1>2. CASE lzFree[lzMine] = <<>>
    <2>1. PICK c \in LsChunks \ lzOwned :
            lzMine' = c /\ lzOwned' = lzOwned \cup {c} /\ LzTakes(c, [lzFree EXCEPT ![c] = LzCarved])
        BY <1>2 DEF LzMalloc
    <2>2. PICK frees, owned : frees = [lzFree EXCEPT ![c] = LzCarved] /\ owned = lzOwned \cup {c}
        OBVIOUS
    <2>3. LsList(LzCarved, 1 .. LsSlots) /\ Len(LzCarved) = LsSlots /\ ToSet(LzCarved) = 1 .. LsSlots
        BY CarvedIs DEF LzCarved
    <2>4. /\ DOMAIN frees = LsChunks /\ frees = [x \in LsChunks |-> frees[x]]
          /\ frees[c] = LzCarved /\ \A x \in LsChunks : x # c => frees[x] = lzFree[x]
        BY <2>2 DEF LzInv, Slotted
    <2>5. ToSet(lzFree[c]) = 1 .. LsSlots
        <3>1. LsList(lzFree[c], 1 .. LsSlots) /\ Len(lzFree[c]) = LsSlots
            BY DEF LzInv, Slotted
        <3>2. QED BY <3>1, AllFreeIs
    <2>6. Slotted(frees, lzHeld)
        <3>1. \A x \in LsChunks : LsList(frees[x], 1 .. LsSlots) /\ ToSet(frees[x]) = ToSet(lzFree[x])
            BY <2>3, <2>4, <2>5 DEF LzInv, Slotted
        <3>2. QED BY <2>4, <3>1 DEF LzInv, Slotted
    <2>7. \A x \in LsChunks \ owned : Len(frees[x]) = LsSlots
        BY <2>2, <2>4 DEF LzInv
    <2>8. \A x \in owned \ {c} : Len(frees[x]) # LsSlots
        <3>1. ASSUME NEW x \in lzOwned PROVE Len(lzFree[x]) # LsSlots
            <4>1. CASE x = lzMine
                <5>1. Len(lzFree[x]) = 0
                    BY <1>2, <4>1
                <5>2. QED BY <5>1, LsNumbers
            <4>2. CASE x # lzMine
                BY <4>2 DEF LzInv
            <4>3. QED BY <4>1, <4>2
        <3>2. QED BY <2>2, <2>4, <3>1 DEF LzInv
    <2>9. frees[c] # <<>>
        <3>1. Len(frees[c]) # 0
            BY <2>3, <2>4, LsNumbers
        <3>2. QED BY <3>1
    <2>10. c \in owned /\ owned \subseteq LsChunks /\ LzTakes(c, frees) /\ lzMine' = c /\ lzOwned' = owned
        BY <2>1, <2>2 DEF LzInv
    <2>11. QED BY <2>6, <2>7, <2>8, <2>9, <2>10, LzTakesKeeps
<1>3. QED BY <1>1, <1>2

LEMMA LzFreeKeeps == ASSUME LzInv, NEW c \in LsChunks, NEW s \in 1 .. LsSlots, LzFree(c, s) PROVE LzInv'
<1>0. PICK f, frees2, held2 : f = <<s>> \o lzFree[c] /\ frees2 = lzFree' /\ held2 = lzHeld'
    OBVIOUS
<1>1. /\ <<c, s>> \in lzHeld /\ f = <<s>> \o lzFree[c] /\ frees2 = [lzFree EXCEPT ![c] = f]
      /\ held2 = lzHeld \ {<<c, s>>} /\ lzMine' = lzMine
      /\ lzOwned' = IF c # lzMine /\ LzEmpty(f) THEN lzOwned \ {c} ELSE lzOwned
    BY <1>0 DEF LzFree
<1>2. Slotted(lzFree, lzHeld)
    BY DEF LzInv
<1>3. Slotted(frees2, held2) /\ LsList(f, 1 .. LsSlots)
    BY <1>1, <1>2, PutSlotted
<1>4. frees2[c] = f /\ \A x \in LsChunks : x # c => frees2[x] = lzFree[x]
    BY <1>1, <1>2 DEF Slotted
<1>5. c \in lzOwned
    <2>1. SUFFICES ASSUME c \notin lzOwned PROVE FALSE
        OBVIOUS
    <2>2. LsList(lzFree[c], 1 .. LsSlots) /\ Len(lzFree[c]) = LsSlots /\ s \notin ToSet(lzFree[c])
        BY <1>1, <2>1 DEF LzInv, Slotted
    <2>3. ToSet(lzFree[c]) = 1 .. LsSlots
        BY <2>2, AllFreeIs
    <2>4. QED BY <2>2, <2>3
<1>6. LzEmpty(f) <=> Len(f) = LsSlots
    BY DEF LzEmpty
<1>7. lzOwned' \subseteq LsChunks /\ lzMine' \in lzOwned'
    BY <1>1 DEF LzInv
<1>8. \A x \in LsChunks \ lzOwned' : Len(frees2[x]) = LsSlots
    BY <1>1, <1>4, <1>5, <1>6 DEF LzInv
<1>9. \A x \in lzOwned' \ {lzMine'} : Len(frees2[x]) # LsSlots
    BY <1>1, <1>4, <1>5, <1>6, <1>7 DEF LzInv
<1>10. QED BY <1>0, <1>3, <1>7, <1>8, <1>9 DEF LzInv

LEMMA LzInitGood == LzInit => LzInv
<1> SUFFICES ASSUME LzInit PROVE LzInv
    OBVIOUS
<1>1. lzMine \in LsChunks /\ lzOwned = {lzMine} /\ lzFree = [c \in LsChunks |-> LzCarved] /\ lzHeld = {}
    BY LsAssumption DEF LzInit
<1>2. LsList(LzCarved, 1 .. LsSlots) /\ Len(LzCarved) = LsSlots /\ ToSet(LzCarved) = 1 .. LsSlots
    BY CarvedIs DEF LzCarved
<1>3. \A c \in LsChunks : lzFree[c] = LzCarved
    BY <1>1
<1>4. Slotted(lzFree, lzHeld)
    BY <1>1, <1>2, <1>3 DEF Slotted
<1>5. QED BY <1>1, <1>2, <1>3, <1>4 DEF LzInv

LEMMA LzNextGood == LzInv /\ [LzNext]_lzVars => LzInv'
<1> SUFFICES ASSUME LzInv, [LzNext]_lzVars PROVE LzInv'
    OBVIOUS
<1>1. CASE LzMalloc
    BY <1>1, LzMallocKeeps
<1>2. ASSUME NEW c \in LsChunks, NEW s \in 1 .. LsSlots, LzFree(c, s) PROVE LzInv'
    BY <1>2, LzFreeKeeps
<1>3. CASE UNCHANGED lzVars
    BY <1>3 DEF lzVars, LzInv
<1>4. QED BY <1>1, <1>2, <1>3 DEF LzNext

-----------------------------------------------------------------------------
LEMMA SlotsHeld ==
    ASSUME NEW frees, NEW held, Slotted(frees, held), NEW c \in LsChunks
    PROVE  {s \in 1 .. LsSlots : <<c, s>> \in held} = (1 .. LsSlots) \ ToSet(frees[c])
BY DEF Slotted

LEMMA LsInvSuffices == LsInv /\ LzInv => ChunksSortedByFullness
<1> SUFFICES ASSUME LsInv, LzInv PROVE ChunksSortedByFullness
    OBVIOUS
<1>1. Slotted(lsFree, lsHeld) /\ Sorted(lsLists, lsFree, lsOwned) /\ Counted(lsSpace, lsInUse, lsHeld, lsOwned)
    BY DEF LsInv
<1>2. \A i \in 0 .. LsFraction : LsList(lsLists[i], LsChunks) /\ ToSet(lsLists[i]) \subseteq LsChunks
    <2>1. ASSUME NEW i \in 0 .. LsFraction, NEW x \in ToSet(lsLists[i]) PROVE x \in LsChunks
        <3>0. PICK l : l = lsLists[i]
            OBVIOUS
        <3>1. LsList(l, LsChunks) /\ x \in ToSet(l)
            BY <1>1, <2>1, <3>0 DEF Sorted
        <3>2. PICK j \in 1 .. Len(l) : x = l[j]
            BY <3>1, LsMembers
        <3>3. QED BY <3>1, <3>2, ElementOfSeq DEF LsList
    <2>2. QED BY <1>1, <2>1 DEF Sorted
<1>3. ASSUME NEW i \in 0 .. LsFraction
      PROVE  /\ \A c \in ToSet(lsLists[i]) : c \in lsOwned /\ Fullness(lsFree[c]) = i
             /\ Cardinality(ToSet(lsLists[i])) = Len(lsLists[i])
    <2>1. \A c \in ToSet(lsLists[i]) : c \in lsOwned /\ Fullness(lsFree[c]) = i
        BY <1>1, <1>2 DEF Sorted
    <2>2. Cardinality(ToSet(lsLists[i])) = Len(lsLists[i])
        BY <1>2, LsListSize
    <2>3. QED BY <2>1, <2>2
<1>4. lsOwned = LsListed
    <2>1. ASSUME NEW c \in lsOwned PROVE c \in LsListed
        <3>1. c \in LsChunks
            BY <1>1 DEF Sorted
        <3>2. LsList(lsFree[c], 1 .. LsSlots)
            BY <1>1, <3>1 DEF Slotted
        <3>3. Fullness(lsFree[c]) \in 0 .. LsFraction
            BY <3>2, FullnessIs
        <3>4. c \in ToSet(lsLists[Fullness(lsFree[c])])
            BY <1>1, <3>1, <3>3 DEF Sorted
        <3>5. QED BY <3>3, <3>4 DEF LsListed
    <2>2. \A c \in LsListed : c \in lsOwned
        BY <1>3 DEF LsListed
    <2>3. QED BY <2>1, <2>2
<1>5. CheckClassInvariant
    <2>1. lsOwned \subseteq LsChunks
        BY <1>1 DEF Sorted
    <2>2. UsedUp(lsFree, lsOwned) = Cardinality(HeldOf(lsHeld, lsOwned))
        BY <1>1, <2>1, SumIsHeld
    <2>3. lsInUse = MapThenSumSet(LAMBDA c : SlotsInUse(lsFree[c]), lsOwned)
        BY <1>1, <2>2 DEF Counted, UsedUp
    <2>4. lsInUse <= lsSpace
        <3>0. PICK h, n : h = HeldOf(lsHeld, lsOwned) /\ n = Cardinality(lsOwned)
            OBVIOUS
        <3>1. IsFiniteSet(lsOwned)
            BY <2>1, LsAssumption, FS_Subset
        <3>2. n \in Nat /\ IsFiniteSet(lsOwned \X (1 .. LsSlots))
              /\ Cardinality(lsOwned \X (1 .. LsSlots)) = n * LsSlots
            BY <3>0, <3>1, LsNumbers, FS_Product, FS_CardinalityType
        <3>3. h \in SUBSET (lsOwned \X (1 .. LsSlots))
            BY <1>1, <3>0 DEF Slotted, HeldOf
        <3>4. Cardinality(h) <= n * LsSlots
            BY <3>2, <3>3, FS_Subset
        <3>5. n * LsSlots = LsSlots * n
            BY <3>2, LsNumbers
        <3>6. QED BY <1>1, <3>0, <3>4, <3>5 DEF Counted
    <2>5. lsSpace = LsSlots * Cardinality(lsOwned)
        BY <1>1 DEF Counted
    <2>6. QED BY <1>4, <2>3, <2>4, <2>5 DEF CheckClassInvariant
<1>6. \A c \in LsChunks : {s \in 1 .. LsSlots : <<c, s>> \in lsHeld} = (1 .. LsSlots) \ ToSet(lsFree[c])
    BY <1>1, SlotsHeld
<1>7. ASSUME NEW c \in LsChunks, NEW held, held = {s \in 1 .. LsSlots : <<c, s>> \in lzHeld}
      PROVE  /\ c \in lzOwned => held = (1 .. LsSlots) \ ToSet(lzFree[c])
             /\ c \in lzOwned \ {lzMine} <=> c # lzMine /\ held # {}
    <2>1. Slotted(lzFree, lzHeld) /\ LsList(lzFree[c], 1 .. LsSlots)
        BY DEF LzInv, Slotted
    <2>2. held = (1 .. LsSlots) \ ToSet(lzFree[c])
        BY <1>7, <2>1, SlotsHeld
    <2>3. held = {} <=> Len(lzFree[c]) = LsSlots
        BY <2>1, <2>2, AllFreeIs, SlotsListed
    <2>4. QED BY <2>2, <2>3 DEF LzInv
<1>8. LsFraction * lsSent >= LsSlots
    BY DEF LsInv
<1>9. QED BY <1>3, <1>4, <1>5, <1>6, <1>7, <1>8 DEF ChunksSortedByFullness

\* In LooseSlotHeap every chunk of the heap is on the list of its fullness and on no
\* other, the counters are the sums that checkClassInvariant computes, the slots given
\* out are those the program holds, and a chunk is given up only when it is as empty as
\* the heap is required to be; LazySlotHeap has, besides its chunk, those in use.
THEOREM ChunksStaySorted == LsSpec => []ChunksSortedByFullness
<1> DEFINE vars == <<lsVars, lzVars>>
           Next == (LsNext /\ UNCHANGED lzVars) \/ (LzNext /\ UNCHANGED lsVars)
<1>1. LsInit /\ LzInit => LsInv /\ LzInv
    BY LsInitGood, LzInitGood
<1>2. LsInv /\ LzInv /\ [Next]_vars => (LsInv /\ LzInv)'
    <2> SUFFICES ASSUME LsInv, LzInv, [Next]_vars PROVE LsInv' /\ LzInv'
        OBVIOUS
    <2>1. [LsNext]_lsVars /\ [LzNext]_lzVars
        OBVIOUS
    <2>2. QED BY <2>1, LsNextGood, LzNextGood
<1>3. LsInv /\ LzInv => ChunksSortedByFullness
    BY LsInvSuffices
<1>4. QED BY <1>1, <1>2, <1>3, PTL DEF LsSpec
=============================================================================
