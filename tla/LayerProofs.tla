---------------------------- MODULE LayerProofs ----------------------------
(***************************************************************************)
(* Heap layers: first fit over a list in address order (AOFFHeap), the     *)
(* layers that bump a pointer (BumpLayers), the two stacks of objects      *)
(* (ObstackHeap, ObstackReap), and the tree of heaps that are cleared      *)
(* together (NestedHeap).                                                  *)
(***************************************************************************)
EXTENDS ProofFacts, FiniteSetTheorems, AOFFHeap, BumpLayers, ObstackHeap, ObstackReap,
        NestedHeap

-----------------------------------------------------------------------------
(* AOFFHeap *)

AofRecord == [at : Nat, size : Nat]

\* Objects that do not overlap.
Apart(o, p) == Successor(o) <= p.at \/ Successor(p) <= o.at

\* An object is part of another one.
Within(o, p) == p.at <= o.at /\ Successor(o) <= Successor(p)

\* A list in address order, whose objects do not touch.
InOrder(list) ==
    /\ list \in Seq(AofRecord)
    /\ \A i, j \in 1 .. Len(list) : i < j => Successor(list[i]) < list[j].at

Held(f, a) == [at |-> a, size |-> f[a]]

Typed(f) == \A a \in DOMAIN f : a \in Nat /\ f[a] \in Nat

\* The objects of a map, of a list.
Kept(f) == {Held(f, a) : a \in DOMAIN f}

AllApart(A, B) == \A o \in A, p \in B : Apart(o, p)

Disjoint(list, live, returned) ==
    /\ AllApart(ToSet(list), Kept(live))
    /\ AllApart(ToSet(list), Kept(returned))
    /\ AllApart(Kept(live), Kept(returned))
    /\ \A o, p \in Kept(live) : o # p => Apart(o, p)
    /\ \A o, p \in Kept(returned) : o # p => Apart(o, p)

AofInv ==
    /\ aofTop \in Nat
    /\ Typed(aofLive) /\ Typed(aofReturned)
    /\ InOrder(aofList)
    /\ Disjoint(aofList, aofLive, aofReturned)
    /\ \A o \in AofPieces : Successor(o) <= aofTop

-----------------------------------------------------------------------------
LEMMA NumbersOf ==
    ASSUME NEW o \in AofRecord
    PROVE  o.at \in Nat /\ o.size \in Nat /\ Successor(o) \in Nat /\ o.at < Successor(o)
<1>1. o.at \in Nat /\ o.size \in Nat
    BY DEF AofRecord
<1>2. QED BY <1>1 DEF Successor, AofHeader

LEMMA RecordIs == \A a, n \in Nat : \E o \in AofRecord : o.at = a /\ o.size = n
<1>1. ASSUME NEW a \in Nat, NEW n \in Nat PROVE \E o \in AofRecord : o.at = a /\ o.size = n
    <2>1. [at |-> a, size |-> n] \in AofRecord
        BY DEF AofRecord
    <2>2. QED BY <2>1
<1>2. QED BY <1>1

LEMMA HeldIs ==
    ASSUME NEW f, Typed(f), NEW a \in DOMAIN f
    PROVE  /\ Held(f, a) \in AofRecord /\ Held(f, a) \in Kept(f)
           /\ Held(f, a).at = a /\ Held(f, a).size = f[a]
BY DEF Typed, Held, Kept, AofRecord

LEMMA KeptAre ==
    ASSUME NEW f, Typed(f)
    PROVE  /\ Kept(f) \subseteq AofRecord
           /\ \A o \in Kept(f) : o.at \in DOMAIN f /\ o.size = f[o.at] /\ o = Held(f, o.at)
BY DEF Typed, Held, Kept, AofRecord

LEMMA ListedAre ==
    ASSUME NEW list \in Seq(AofRecord)
    PROVE  /\ ToSet(list) \subseteq AofRecord
           /\ \A o \in ToSet(list) : \E i \in 1 .. Len(list) : o = list[i]
           /\ \A i \in 1 .. Len(list) : list[i] \in ToSet(list) /\ list[i] \in AofRecord
BY DEF ToSet

LEMMA PiecesAre == AofPieces = Kept(aofLive) \cup Kept(aofReturned) \cup ToSet(aofList)
BY DEF AofPieces, Kept, Held

\* What is part of an object is apart from what that is apart from.
LEMMA WithinApart ==
    ASSUME NEW o \in AofRecord, NEW p \in AofRecord, NEW q \in AofRecord,
           Within(o, p), Apart(p, q)
    PROVE  Apart(o, q) /\ Apart(q, o) /\ Apart(q, p)
BY DEF AofRecord, Within, Apart, Successor, AofHeader

LEMMA WithinBefore ==
    ASSUME NEW o \in AofRecord, NEW p \in AofRecord, Within(o, p),
           NEW q \in AofRecord, NEW r \in AofRecord, Within(q, r), Successor(p) < r.at
    PROVE  Successor(o) < q.at
BY DEF Within, Successor, AofRecord, AofHeader

\* The map after an object was put into it, or taken out.
LEMMA PutIs ==
    ASSUME NEW f, Typed(f), NEW o \in AofRecord
    PROVE  /\ Typed(AofPut(f, o.at, o.size))
           /\ Kept(AofPut(f, o.at, o.size)) \subseteq Kept(f) \cup {o}
           /\ \A p \in Kept(AofPut(f, o.at, o.size)) : p = o \/ p.at # o.at
<1>1. PICK g : g = AofPut(f, o.at, o.size)
    OBVIOUS
<1>2. /\ DOMAIN g = DOMAIN f \cup {o.at}
      /\ \A a \in DOMAIN g : g[a] = IF a = o.at THEN o.size ELSE f[a]
    BY <1>1 DEF AofPut
<1>3. o.at \in Nat /\ o.size \in Nat /\ o = [at |-> o.at, size |-> o.size]
    BY DEF AofRecord
<1>4. Typed(g)
    BY <1>2, <1>3 DEF Typed
<1>5. ASSUME NEW p \in Kept(g)
      PROVE  p \in Kept(f) \cup {o} /\ (p = o \/ p.at # o.at)
    <2>1. PICK a \in DOMAIN g : p = [at |-> a, size |-> g[a]]
        BY DEF Kept, Held
    <2>2. CASE a = o.at
        BY <1>2, <1>3, <2>1, <2>2
    <2>3. CASE a # o.at
        BY <1>2, <2>1, <2>3 DEF Kept, Held
    <2>4. QED BY <2>2, <2>3
<1>6. QED BY <1>1, <1>4, <1>5

LEMMA DropIs ==
    ASSUME NEW f, Typed(f), NEW a
    PROVE  /\ Typed(AofDrop(f, a))
           /\ Kept(AofDrop(f, a)) \subseteq Kept(f)
           /\ \A p \in Kept(AofDrop(f, a)) : p.at # a
<1>1. PICK g : g = AofDrop(f, a)
    OBVIOUS
<1>2. DOMAIN g = DOMAIN f \ {a} /\ \A b \in DOMAIN g : g[b] = f[b]
    BY <1>1 DEF AofDrop
<1>3. Typed(g)
    BY <1>2 DEF Typed
<1>4. ASSUME NEW p \in Kept(g) PROVE p \in Kept(f) /\ p.at # a
    <2>1. PICK b \in DOMAIN g : p = [at |-> b, size |-> g[b]]
        BY DEF Kept, Held
    <2>2. QED BY <1>2, <2>1 DEF Kept, Held
<1>5. QED BY <1>1, <1>3, <1>4
-----------------------------------------------------------------------------
(* Lists *)

\* A list in address order, in which only the objects at K may touch the ones behind.
Lined(list, K) ==
    /\ list \in Seq(AofRecord)
    /\ \A i, j \in 1 .. Len(list) : i < j =>
          /\ Successor(list[i]) <= list[j].at
          /\ Successor(list[i]) = list[j].at => j = i + 1 /\ i \in K

LEMMA LinedInOrder == ASSUME NEW list PROVE Lined(list, {}) <=> InOrder(list)
<1>1. ASSUME NEW o \in AofRecord, NEW p \in AofRecord
      PROVE  Successor(o) < p.at <=> Successor(o) <= p.at /\ Successor(o) # p.at
    BY DEF AofRecord, Successor, AofHeader
<1>2. QED BY <1>1 DEF Lined, InOrder

Touch(list, i) == i \in 1 .. Len(list) - 1 /\ Successor(list[i]) = list[i + 1].at

Joined(o, p) == [at |-> o.at, size |-> o.size + p.size + AofHeader]

LEMMA JoinedIs ==
    ASSUME NEW o \in AofRecord, NEW p \in AofRecord, Successor(o) = p.at
    PROVE  /\ Joined(o, p) \in AofRecord /\ Joined(o, p).at = o.at
           /\ Successor(Joined(o, p)) = Successor(p)
           /\ \A q \in AofRecord : Apart(o, q) /\ Apart(p, q) => Apart(Joined(o, p), q)
BY DEF Joined, AofRecord, Successor, AofHeader, Apart

\* c is the list with the objects at i and i + 1 as one.
IsMerged(c, list, i) ==
    /\ c \in Seq(AofRecord) /\ Len(c) = Len(list) - 1
    /\ \A j \in 1 .. i - 1 : c[j] = list[j]
    /\ c[i] = Joined(list[i], list[i + 1])
    /\ \A j \in i + 1 .. Len(list) - 1 : c[j] = list[j + 1]

LEMMA CoalescedIs ==
    ASSUME NEW list \in Seq(AofRecord), NEW i, Touch(list, i)
    PROVE  IsMerged(Coalesced(list, i), list, i)
<1>1. i \in 1 .. Len(list) - 1 /\ i + 1 \in 1 .. Len(list) /\ i \in Nat /\ Len(list) \in Nat /\ i \in 1 .. Len(list)
    BY DEF Touch
<1>2. PICK r : r = RemoveAt(list, i + 1)
    OBVIOUS
<1>3. /\ r \in Seq(AofRecord) /\ Len(r) = Len(list) - 1
      /\ \A j \in 1 .. (i + 1) - 1 : r[j] = list[j]
      /\ \A j \in i + 1 .. Len(list) - 1 : r[j] = list[j + 1]
    BY <1>1, <1>2, RemoveAtIs
<1>4. r[i] = list[i] /\ list[i] \in AofRecord /\ list[i + 1] \in AofRecord
    BY <1>1, <1>3
<1>5. PICK m \in AofRecord : m = Joined(list[i], list[i + 1])
    BY <1>4, JoinedIs DEF Touch
<1>6. Coalesced(list, i) = [r EXCEPT ![i] = m]
    <2>1. Coalesced(list, i) = [r EXCEPT ![i].size = @ + list[i + 1].size + AofHeader]
        BY <1>1, <1>2 DEF Coalesced, Touch
    <2>2. [r[i] EXCEPT !.size = @ + list[i + 1].size + AofHeader] = m
        BY <1>4, <1>5 DEF Joined, AofRecord
    <2>3. QED BY <2>1, <2>2
<1>7. i \in 1 .. Len(r) /\ DOMAIN r = 1 .. Len(r)
    BY <1>1, <1>3
<1>8. PICK c : c = [r EXCEPT ![i] = m]
    OBVIOUS
<1>9. c \in Seq(AofRecord) /\ Len(c) = Len(r) /\ c[i] = m /\ \A j \in 1 .. Len(r) : j # i => c[j] = r[j]
    BY <1>3, <1>7, <1>8
<1>10. \A j \in 1 .. i - 1 : c[j] = list[j]
    BY <1>1, <1>3, <1>9
<1>11. \A j \in i + 1 .. Len(list) - 1 : c[j] = list[j + 1]
    BY <1>1, <1>3, <1>9
<1>12. QED BY <1>3, <1>5, <1>6, <1>8, <1>9, <1>10, <1>11 DEF IsMerged

\* The places that may be touching, once two objects at i are one.
Moved(K, i) == {j \in K : j < i} \cup {j - 1 : j \in {k \in K : k > i}}

LEMMA CoalescedLined ==
    ASSUME NEW K \in SUBSET Int, NEW list, Lined(list, K), NEW i \in Int, Touch(list, i)
    PROVE  Lined(Coalesced(list, i), Moved(K, i))
<1>1. list \in Seq(AofRecord) /\ i \in 1 .. Len(list) - 1 /\ Len(list) \in Nat
    BY DEF Lined, Touch
<1>2. PICK c : c = Coalesced(list, i) /\ IsMerged(c, list, i)
    BY <1>1, CoalescedIs
<1>3. /\ c \in Seq(AofRecord) /\ Len(c) = Len(list) - 1
      /\ \A j \in 1 .. i - 1 : c[j] = list[j]
      /\ c[i] = Joined(list[i], list[i + 1])
      /\ \A j \in i + 1 .. Len(list) - 1 : c[j] = list[j + 1]
    BY <1>2 DEF IsMerged
<1>4. /\ list[i] \in AofRecord /\ list[i + 1] \in AofRecord /\ Successor(list[i]) = list[i + 1].at
      /\ c[i].at = list[i].at /\ Successor(c[i]) = Successor(list[i + 1])
    BY <1>1, <1>3, JoinedIs DEF Touch
<1>5. ASSUME NEW j \in 1 .. Len(c), NEW k \in 1 .. Len(c), j < k
      PROVE  /\ Successor(c[j]) <= c[k].at
             /\ Successor(c[j]) = c[k].at => k = j + 1 /\ j \in Moved(K, i)
    \* where the end of one and the beginning of the other come from
    <2>1. PICK a \in 1 .. Len(list) : Successor(c[j]) = Successor(list[a]) /\ a = IF j < i THEN j ELSE j + 1
        <3>1. CASE j < i
            <4>1. j \in 1 .. Len(list) /\ c[j] = list[j]
                BY <1>1, <1>3, <3>1
            <4>2. QED BY <3>1, <4>1
        <3>2. CASE ~(j < i)
            <4>1. j + 1 \in 1 .. Len(list)
                BY <1>1, <1>3, <3>2
            <4>2. Successor(c[j]) = Successor(list[j + 1])
                BY <1>1, <1>3, <1>4, <3>2
            <4>3. QED BY <3>2, <4>1, <4>2
        <3>3. QED BY <3>1, <3>2
    <2>2. PICK b \in 1 .. Len(list) : c[k].at = list[b].at /\ b = IF k <= i THEN k ELSE k + 1
        <3>1. CASE k <= i
            <4>1. k \in 1 .. Len(list)
                BY <1>1, <1>3, <3>1
            <4>2. c[k].at = list[k].at
                BY <1>1, <1>3, <1>4, <3>1
            <4>3. QED BY <3>1, <4>1, <4>2
        <3>2. CASE ~(k <= i)
            <4>1. k + 1 \in 1 .. Len(list) /\ c[k] = list[k + 1]
                BY <1>1, <1>3, <3>2
            <4>2. QED BY <3>2, <4>1
        <3>3. QED BY <3>1, <3>2
    <2>3. a < b /\ (b = a + 1 => k = j + 1) /\ a # i /\ (a < i => j = a) /\ (a > i => j = a - 1) /\ a \in Int
        <3>1. j \in Int /\ k \in Int /\ i \in Int /\ j < k
            BY <1>5
        <3>2. a = (IF j < i THEN j ELSE j + 1) /\ b = IF k <= i THEN k ELSE k + 1
            BY <2>1, <2>2
        <3>3. CASE j < i
            BY <3>1, <3>2, <3>3
        <3>4. CASE ~(j < i)
            BY <3>1, <3>2, <3>4
        <3>5. QED BY <3>3, <3>4
    <2>4. Successor(list[a]) <= list[b].at /\ (Successor(list[a]) = list[b].at => b = a + 1 /\ a \in K)
        BY <2>3 DEF Lined
    <2>5. a \in K => j \in Moved(K, i)
        <3>1. CASE a < i
            BY <2>3, <3>1 DEF Moved
        <3>2. CASE a > i
            BY <2>3, <3>2 DEF Moved
        <3>3. QED BY <1>1, <2>3, <3>1, <3>2
    <2>6. QED BY <2>1, <2>2, <2>3, <2>4, <2>5
<1>6. QED BY <1>2, <1>3, <1>5 DEF Lined

LEMMA NotTouching ==
    ASSUME NEW K, NEW list, Lined(list, K), NEW i \in Int, ~Touch(list, i)
    PROVE  Coalesced(list, i) = list /\ Lined(list, K \ {i})
<1>1. Coalesced(list, i) = list
    BY DEF Touch, Coalesced
<1>2. ASSUME NEW j \in 1 .. Len(list), NEW k \in 1 .. Len(list), j < k, Successor(list[j]) = list[k].at
      PROVE  k = j + 1 /\ j \in K \ {i}
    <2>1. k = j + 1 /\ j \in K
        BY <1>2 DEF Lined
    <2>2. list \in Seq(AofRecord)
        BY DEF Lined
    <2>3. j # i
        BY <1>2, <2>1, <2>2 DEF Touch
    <2>4. QED BY <2>1, <2>3
<1>3. QED BY <1>1, <1>2 DEF Lined

\* What is on a list once two objects on it may have become one.
LEMMA CoalescedMembers ==
    ASSUME NEW list \in Seq(AofRecord), NEW i \in Int, NEW o \in ToSet(Coalesced(list, i))
    PROVE  \/ o \in ToSet(list)
           \/ \E p, q \in ToSet(list) : Successor(p) = q.at /\ o = Joined(p, q)
<1>1. CASE Touch(list, i)
    <2>1. i \in 1 .. Len(list) - 1 /\ Len(list) \in Nat
        BY <1>1 DEF Touch
    <2>2. PICK c : c = Coalesced(list, i) /\ IsMerged(c, list, i)
        BY <1>1, CoalescedIs
    <2>3. /\ c \in Seq(AofRecord) /\ Len(c) = Len(list) - 1
          /\ \A j \in 1 .. i - 1 : c[j] = list[j]
          /\ c[i] = Joined(list[i], list[i + 1])
          /\ \A j \in i + 1 .. Len(list) - 1 : c[j] = list[j + 1]
        BY <2>2 DEF IsMerged
    <2>4. PICK j \in 1 .. Len(c) : o = c[j]
        BY <2>2, <2>3, ListedAre
    <2>5. CASE j < i
        <3>1. j \in 1 .. i - 1 /\ j \in 1 .. Len(list)
            BY <2>1, <2>3, <2>5
        <3>2. QED BY <2>3, <2>4, <3>1, ListedAre
    <2>6. CASE j > i
        <3>1. j \in i + 1 .. Len(list) - 1 /\ j + 1 \in 1 .. Len(list)
            BY <2>1, <2>3, <2>6
        <3>2. QED BY <2>3, <2>4, <3>1, ListedAre
    <2>7. CASE j = i
        <3>1. list[i] \in ToSet(list) /\ list[i + 1] \in ToSet(list)
            BY <2>1, ListedAre
        <3>2. QED BY <1>1, <2>3, <2>4, <2>7, <3>1 DEF Touch
    <2>8. QED BY <2>1, <2>5, <2>6, <2>7
<1>2. CASE ~Touch(list, i)
    BY <1>2 DEF Touch, Coalesced
<1>3. QED BY <1>1, <1>2

\* Merging gains no memory.
LEMMA CoalescedApart ==
    ASSUME NEW list \in Seq(AofRecord), NEW i \in Int, NEW q \in AofRecord,
           \A o \in ToSet(list) : Apart(o, q)
    PROVE  \A o \in ToSet(Coalesced(list, i)) : Apart(o, q)
BY CoalescedMembers, ListedAre, JoinedIs

LEMMA CoalescedEnds ==
    ASSUME NEW list \in Seq(AofRecord), NEW i \in Int, NEW n \in Nat,
           \A o \in ToSet(list) : Successor(o) <= n
    PROVE  \A o \in ToSet(Coalesced(list, i)) : Successor(o) <= n
BY CoalescedMembers, ListedAre, JoinedIs

-----------------------------------------------------------------------------
(* malloc *)

LEMMA DisjointPut ==
    ASSUME NEW list \in Seq(AofRecord), NEW live, Typed(live), NEW returned, Typed(returned),
           Disjoint(list, live, returned), NEW o \in AofRecord,
           \A p \in ToSet(list) \cup Kept(live) \cup Kept(returned) : Apart(o, p)
    PROVE  /\ Disjoint(list, AofPut(live, o.at, o.size), returned)
           /\ Disjoint(list, live, AofPut(returned, o.at, o.size))
<1>1. \A p, q : Apart(p, q) <=> Apart(q, p)
    BY DEF Apart
<1>2. PICK l : l = AofPut(live, o.at, o.size) /\ Kept(l) \subseteq Kept(live) \cup {o}
    BY PutIs
<1>3. PICK r : r = AofPut(returned, o.at, o.size) /\ Kept(r) \subseteq Kept(returned) \cup {o}
    BY PutIs
<1>4. Disjoint(list, l, returned)
    <2>1. AllApart(ToSet(list), Kept(l)) /\ AllApart(Kept(l), Kept(returned))
        BY <1>1, <1>2 DEF Disjoint, AllApart
    <2>2. \A p, q \in Kept(l) : p # q => Apart(p, q)
        BY <1>1, <1>2 DEF Disjoint
    <2>3. QED BY <2>1, <2>2 DEF Disjoint
<1>5. Disjoint(list, live, r)
    <2>1. AllApart(ToSet(list), Kept(r)) /\ AllApart(Kept(live), Kept(r))
        BY <1>1, <1>3 DEF Disjoint, AllApart
    <2>2. \A p, q \in Kept(r) : p # q => Apart(p, q)
        BY <1>1, <1>3 DEF Disjoint
    <2>3. QED BY <2>1, <2>2 DEF Disjoint
<1>6. QED BY <1>2, <1>3, <1>4, <1>5

LEMMA FirstFitIs ==
    ASSUME NEW sz \in Nat, aofList \in Seq(AofRecord), FirstFit(sz) # 0
    PROVE  FirstFit(sz) \in 1 .. Len(aofList) /\ aofList[FirstFit(sz)].size >= sz + AofNode
<1> DEFINE I == {i \in 1 .. Len(aofList) : aofList[i].size >= sz + AofNode}
<1>1. FirstFit(sz) = IF I # {} THEN Min(I) ELSE 0
    BY DEF FirstFit, SelectInSeq
<1>2. I # {}
    BY <1>1
<1>3. Min(I) \in I
    <2>1. I \subseteq Nat
        OBVIOUS
    <2> HIDE DEF I
    <2>2. \E n \in I : \A m \in I : n <= m
        BY <1>2, <2>1, LeastNatural
    <2>3. QED BY <2>2 DEF Min
<1>4. QED BY <1>1, <1>2, <1>3

\* Objects of a list in order do not overlap.
LEMMA OrderedApart ==
    ASSUME NEW list, InOrder(list), NEW i \in 1 .. Len(list), NEW j \in 1 .. Len(list), i # j
    PROVE  Apart(list[i], list[j])
<1>1. list \in Seq(AofRecord) /\ list[i] \in AofRecord /\ list[j] \in AofRecord
    BY DEF InOrder
<1>2. (i < j \/ j < i)
    OBVIOUS
<1>3. Successor(list[i]) < list[j].at \/ Successor(list[j]) < list[i].at
    BY <1>2 DEF InOrder
<1>4. Successor(list[i]) <= list[j].at \/ Successor(list[j]) <= list[i].at
    BY <1>1, <1>3, NumbersOf
<1>5. QED BY <1>4 DEF Apart

LEMMA ReplacedInOrder ==
    ASSUME NEW list, InOrder(list), NEW i \in 1 .. Len(list), NEW o \in AofRecord,
           Within(o, list[i])
    PROVE  /\ InOrder([list EXCEPT ![i] = o])
           /\ \A p \in ToSet([list EXCEPT ![i] = o]) :
                 p = o \/ \E j \in 1 .. Len(list) : j # i /\ p = list[j]
<1>1. list \in Seq(AofRecord) /\ \A j \in 1 .. Len(list) : list[j] \in AofRecord
    BY DEF InOrder
<1>2. PICK c : c = [list EXCEPT ![i] = o]
    OBVIOUS
<1>3. /\ c \in Seq(AofRecord) /\ Len(c) = Len(list) /\ c[i] = o
      /\ \A j \in 1 .. Len(list) : j # i => c[j] = list[j]
    BY <1>1, <1>2
<1>4. ASSUME NEW j \in 1 .. Len(c), NEW k \in 1 .. Len(c), j < k
      PROVE  Successor(c[j]) < c[k].at
    <2>1. Successor(list[j]) < list[k].at /\ list[j] \in AofRecord /\ list[k] \in AofRecord
        BY <1>1, <1>3, <1>4 DEF InOrder
    <2>2. ASSUME NEW p \in AofRecord PROVE Within(p, p)
        BY DEF Within, Successor, AofRecord, AofHeader
    <2>3. \A m \in {j, k} : Within(c[m], list[m]) /\ c[m] \in AofRecord
        BY <1>3, <2>1, <2>2
    <2>4. QED BY <2>1, <2>3, WithinBefore
<1>5. ASSUME NEW p \in ToSet(c) PROVE p = o \/ \E j \in 1 .. Len(list) : j # i /\ p = list[j]
    BY <1>3, ListedAre
<1>6. InOrder(c)
    BY <1>3, <1>4 DEF InOrder
<1>7. QED BY <1>2, <1>5, <1>6

\* What malloc takes of an object, and what is left of it, are apart and parts of it.
LEMMA SplicedIs ==
    ASSUME NEW l \in AofRecord, NEW sz \in Nat, l.size >= sz + AofNode
    PROVE  /\ SplicedOff(l, sz) \in AofRecord /\ Within(SplicedOff(l, sz), l)
           /\ \A o \in AofRecord : o.at = l.at /\ o.size = sz =>
                 Within(o, l) /\ Apart(o, SplicedOff(l, sz))
<1>1. PICK a \in Nat, n \in Nat : a = l.at /\ n = l.size
    BY NumbersOf
<1>2. n >= sz + 16
    BY <1>1 DEF AofNode
<1>3. PICK b \in Nat, m \in Nat : b = a + 8 + sz /\ m = n - sz - 16
    BY <1>2
<1>4. SplicedOff(l, sz) = [at |-> b, size |-> m]
    BY <1>1, <1>3 DEF SplicedOff, AofHeader, AofNode
<1>5. PICK s \in AofRecord : s = SplicedOff(l, sz) /\ s.at = b /\ s.size = m
    BY <1>4 DEF AofRecord
<1>6. Successor(l) = a + 8 + n /\ Successor(s) = b + 8 + m
    BY <1>1, <1>5 DEF Successor, AofHeader
<1>7. a <= b /\ b + 8 + m <= a + 8 + n /\ a + 8 + sz <= a + 8 + n /\ a + 8 + sz <= b /\ a <= a
    BY <1>2, <1>3
<1>8. Within(s, l)
    BY <1>1, <1>5, <1>6, <1>7 DEF Within
<1>9. ASSUME NEW o \in AofRecord, o.at = l.at, o.size = sz PROVE Within(o, l) /\ Apart(o, s)
    <2>1. Successor(o) = a + 8 + sz /\ o.at = a
        BY <1>1, <1>9 DEF Successor, AofHeader
    <2>2. QED BY <1>1, <1>5, <1>6, <1>7, <2>1 DEF Within, Apart
<1>10. QED BY <1>5, <1>8, <1>9

LEMMA MallocKeeps == ASSUME AofInv, NEW sz \in AofSizes, AofMalloc(sz) PROVE AofInv'
<1>1. sz \in Nat
    BY AofAssumption
<1>2. /\ aofTop \in Nat /\ Typed(aofLive) /\ Typed(aofReturned) /\ InOrder(aofList)
      /\ aofList \in Seq(AofRecord) /\ Disjoint(aofList, aofLive, aofReturned)
    BY DEF AofInv, InOrder
<1>3. /\ \A o \in ToSet(aofList) \cup Kept(aofLive) \cup Kept(aofReturned) :
            o \in AofRecord /\ Successor(o) <= aofTop
    BY <1>2, PiecesAre, ListedAre, KeptAre DEF AofInv
<1>4. CASE FirstFit(sz) = 0
    <2>1. PICK o \in AofRecord : o.at = aofTop /\ o.size = sz
        BY <1>1, <1>2, RecordIs
    <2>2. aofLive' = AofPut(aofLive, o.at, o.size) /\ aofTop' = aofTop + sz + AofHeader
          /\ UNCHANGED <<aofList, aofReturned>>
        BY <1>4, <2>1 DEF AofMalloc
    <2>3. \A p \in ToSet(aofList) \cup Kept(aofLive) \cup Kept(aofReturned) : Apart(o, p)
        BY <1>3, <2>1 DEF Apart
    <2>4. Disjoint(aofList, aofLive', aofReturned)
        BY <1>2, <2>2, <2>3, DisjointPut
    <2>5. Typed(aofLive') /\ Kept(aofLive') \subseteq Kept(aofLive) \cup {o}
        BY <1>2, <2>2, PutIs
    <2>6. \A p \in AofPieces' : Successor(p) <= aofTop'
        <3>1. AofPieces' = Kept(aofLive') \cup Kept(aofReturned') \cup ToSet(aofList')
            BY DEF AofPieces, Kept, Held
        <3>2. Successor(o) = aofTop'
            BY <1>1, <1>2, <2>1, <2>2 DEF Successor, AofHeader
        <3>3. \A p \in AofRecord : Successor(p) <= aofTop => Successor(p) <= aofTop'
            BY <1>1, <1>2, <2>2 DEF Successor, AofHeader, AofRecord
        <3>4. aofTop' <= aofTop'
            BY <1>1, <1>2, <2>2 DEF AofHeader
        <3>5. QED BY <1>3, <2>2, <2>5, <3>1, <3>2, <3>3, <3>4
    <2>7. aofTop' \in Nat
        BY <1>1, <1>2, <2>2 DEF AofHeader
    <2>8. QED BY <1>2, <2>2, <2>4, <2>5, <2>6, <2>7 DEF AofInv
<1>5. CASE FirstFit(sz) # 0
    <2>1. PICK i \in 1 .. Len(aofList) : i = FirstFit(sz) /\ aofList[i].size >= sz + AofNode
        BY <1>1, <1>2, <1>5, FirstFitIs
    <2>2. aofList[i] \in AofRecord /\ aofList[i] \in ToSet(aofList)
        BY <1>2, ListedAre
    <2>3. PICK o \in AofRecord : o.at = aofList[i].at /\ o.size = sz
        BY <1>1, <2>2, NumbersOf, RecordIs
    <2>4. PICK s \in AofRecord : s = SplicedOff(aofList[i], sz)
        BY <1>1, <2>1, <2>2, SplicedIs
    <2>5. Within(o, aofList[i]) /\ Within(s, aofList[i]) /\ Apart(o, s)
        BY <1>1, <2>1, <2>2, <2>3, <2>4, SplicedIs
    <2>6. /\ aofLive' = AofPut(aofLive, o.at, o.size) /\ aofList' = [aofList EXCEPT ![i] = s]
          /\ UNCHANGED <<aofTop, aofReturned>>
        BY <1>5, <2>1, <2>3, <2>4 DEF AofMalloc
    <2>7. InOrder(aofList') /\ \A p \in ToSet(aofList') :
                p = s \/ \E j \in 1 .. Len(aofList) : j # i /\ p = aofList[j]
        BY <1>2, <2>5, <2>6, ReplacedInOrder
    <2>8. aofList' \in Seq(AofRecord) /\ ToSet(aofList') \subseteq AofRecord
        BY <2>7, ListedAre DEF InOrder
    <2>9. \A p \in Kept(aofLive) \cup Kept(aofReturned) :
              Apart(aofList[i], p) /\ Apart(o, p) /\ Apart(s, p)
        <3>1. \A p \in Kept(aofLive) \cup Kept(aofReturned) : Apart(aofList[i], p)
            BY <1>2, <2>2 DEF Disjoint, AllApart
        <3>2. QED BY <1>3, <2>2, <2>5, <3>1, WithinApart
    <2>10. Disjoint(aofList', aofLive, aofReturned)
        <3>1. \A p \in ToSet(aofList') : p = s \/ p \in ToSet(aofList)
            BY <1>2, <2>7, ListedAre
        <3>2. QED BY <1>2, <2>9, <3>1 DEF Disjoint, AllApart
    <2>11. \A p \in ToSet(aofList') : Apart(o, p)
        <3>1. ASSUME NEW j \in 1 .. Len(aofList), j # i PROVE Apart(o, aofList[j])
            <4>1. Apart(aofList[i], aofList[j]) /\ aofList[j] \in AofRecord
                BY <1>2, <3>1, OrderedApart
            <4>2. QED BY <2>2, <2>5, <4>1, WithinApart
        <3>2. QED BY <2>5, <2>7, <3>1
    <2>12. Disjoint(aofList', aofLive', aofReturned')
        BY <1>2, <2>6, <2>8, <2>9, <2>10, <2>11, DisjointPut
    <2>13. Typed(aofLive') /\ Kept(aofLive') \subseteq Kept(aofLive) \cup {o}
        BY <1>2, <2>6, PutIs
    <2>14. \A p \in AofPieces' : Successor(p) <= aofTop'
        <3>1. AofPieces' = Kept(aofLive') \cup Kept(aofReturned') \cup ToSet(aofList')
            BY DEF AofPieces, Kept, Held
        <3>2. Successor(o) <= aofTop /\ Successor(s) <= aofTop
            <4>1. Successor(aofList[i]) <= aofTop
                BY <1>3, <2>2
            <4>2. Successor(o) <= Successor(aofList[i]) /\ Successor(s) <= Successor(aofList[i])
                BY <2>5 DEF Within
            <4>3. QED BY <1>2, <2>2, <4>1, <4>2, NumbersOf
        <3>3. \A p \in ToSet(aofList') : p = s \/ p \in ToSet(aofList)
            BY <1>2, <2>7, ListedAre
        <3>4. QED BY <1>3, <2>6, <2>13, <3>1, <3>2, <3>3
    <2>15. QED BY <1>2, <2>6, <2>7, <2>12, <2>13, <2>14 DEF AofInv
<1>6. QED BY <1>4, <1>5

-----------------------------------------------------------------------------
(* free *)

\* Where an object that is not listed belongs.
LEMMA BelowIs ==
    ASSUME InOrder(aofList), NEW at \in Nat
    PROVE  /\ Below(at) \in 0 .. Len(aofList)
           /\ \A i \in 1 .. Below(at) : aofList[i].at < at
           /\ \A i \in Below(at) + 1 .. Len(aofList) : at <= aofList[i].at
<1>1. aofList \in Seq(AofRecord) /\ Len(aofList) \in Nat
    BY DEF InOrder
<1>2. \A i \in 1 .. Len(aofList) : aofList[i] \in AofRecord /\ aofList[i].at \in Nat
    BY <1>1, NumbersOf
<1>3. \A i, j \in 1 .. Len(aofList) : i < j => aofList[i].at < aofList[j].at
    <2> SUFFICES ASSUME NEW i \in 1 .. Len(aofList), NEW j \in 1 .. Len(aofList), i < j
                 PROVE  aofList[i].at < aofList[j].at
        OBVIOUS
    <2>1. Successor(aofList[i]) < aofList[j].at
        BY DEF InOrder
    <2>2. QED BY <1>2, <2>1 DEF Successor, AofRecord, AofHeader
<1> DEFINE T == {n \in 1 .. Len(aofList) : at <= aofList[n].at} \cup {Len(aofList) + 1}
<1>4. PICK m \in T : \A n \in T : m <= n
    <2>1. T \subseteq Nat /\ T # {}
        BY <1>1
    <2> HIDE DEF T
    <2>2. QED BY <2>1, LeastNatural
<1>5. m \in 1 .. Len(aofList) + 1 /\ (m # Len(aofList) + 1 => at <= aofList[m].at)
    BY <1>1, <1>4
<1>6. \A i \in 1 .. m - 1 : aofList[i].at < at
    <2> SUFFICES ASSUME NEW i \in 1 .. m - 1, ~(aofList[i].at < at) PROVE FALSE
        OBVIOUS
    <2>1. i \in 1 .. Len(aofList) /\ i < m /\ i \in Nat /\ m \in Nat
        BY <1>1, <1>5
    <2>2. at <= aofList[i].at
        BY <1>2, <2>1
    <2>3. m <= i
        BY <1>4, <2>1, <2>2
    <2>4. QED BY <2>1, <2>3
<1>7. \A i \in m .. Len(aofList) : at <= aofList[i].at
    <2> SUFFICES ASSUME NEW i \in m .. Len(aofList) PROVE at <= aofList[i].at
        OBVIOUS
    <2>1. i \in 1 .. Len(aofList) /\ m \in 1 .. Len(aofList) /\ m # Len(aofList) + 1
        BY <1>1, <1>5
    <2>2. i = m \/ aofList[m].at < aofList[i].at
        BY <1>3, <2>1
    <2>3. QED BY <1>2, <1>5, <2>1, <2>2
<1>8. \A i \in 1 .. Len(aofList) : aofList[i].at < at <=> i \in 1 .. m - 1
    <2> SUFFICES ASSUME NEW i \in 1 .. Len(aofList), i \notin 1 .. m - 1 PROVE ~(aofList[i].at < at)
        BY <1>6
    <2>1. i \in m .. Len(aofList)
        BY <1>1, <1>5
    <2>2. at <= aofList[i].at
        BY <1>7, <2>1
    <2>3. QED BY <1>2, <2>2
<1>9. {i \in 1 .. Len(aofList) : aofList[i].at < at} = 1 .. m - 1
    <2>1. 1 .. m - 1 \subseteq 1 .. Len(aofList)
        BY <1>1, <1>5
    <2>2. QED BY <1>8, <2>1
<1>10. Below(at) = m - 1
    <2>1. Cardinality(1 .. m - 1) = IF 1 > m - 1 THEN 0 ELSE (m - 1) - 1 + 1
        BY <1>1, <1>5, FS_Interval
    <2>2. Cardinality(1 .. m - 1) = m - 1
        BY <1>1, <1>5, <2>1
    <2>3. QED BY <1>9, <2>2 DEF Below
<1>11. m - 1 \in 0 .. Len(aofList) /\ (m - 1) + 1 = m
    BY <1>1, <1>5
<1>12. QED BY <1>6, <1>7, <1>10, <1>11

\* The list with the freed object where it belongs.
LEMMA InsertedLined ==
    ASSUME NEW list, InOrder(list), NEW o \in AofRecord, NEW k \in 0 .. Len(list),
           \A p \in ToSet(list) : Apart(p, o),
           \A i \in 1 .. k : list[i].at < o.at,
           \A i \in k + 1 .. Len(list) : o.at <= list[i].at
    PROVE  /\ Lined(InsertAt(list, k + 1, o), {k, k + 1})
           /\ InsertAt(list, k + 1, o)[k + 1] = o
           /\ Len(InsertAt(list, k + 1, o)) = Len(list) + 1
           /\ \A p \in ToSet(InsertAt(list, k + 1, o)) : p = o \/ p \in ToSet(list)
<1>1. list \in Seq(AofRecord) /\ Len(list) \in Nat /\ k \in Nat /\ k + 1 \in 1 .. Len(list) + 1
    BY DEF InOrder
<1>2. PICK c : c = InsertAt(list, k + 1, o) /\ c \in Seq(AofRecord) /\ IsInserted(c, list, k + 1, o)
    BY <1>1, InsertAtIs
<1>3. /\ c \in Seq(AofRecord) /\ Len(c) = Len(list) + 1
      /\ \A j \in 1 .. (k + 1) - 1 : c[j] = list[j]
      /\ c[k + 1] = o
      /\ \A j \in (k + 1) + 1 .. Len(list) + 1 : c[j] = list[j - 1]
    BY <1>2 DEF IsInserted
<1>4. \A i \in 1 .. Len(list) : list[i] \in AofRecord /\ Apart(list[i], o)
    BY <1>1, ListedAre
<1>5. ASSUME NEW i \in 1 .. k PROVE c[i] = list[i] /\ Successor(list[i]) <= o.at /\ i \in 1 .. Len(list)
    <2>1. i \in 1 .. Len(list) /\ i \in 1 .. (k + 1) - 1 /\ list[i].at < o.at
        BY <1>1
    <2>2. c[i] = list[i] /\ list[i] \in AofRecord /\ Apart(list[i], o)
        BY <1>3, <1>4, <2>1
    <2>3. Successor(list[i]) <= o.at
        <3>1. ~(Successor(o) <= list[i].at)
            BY <2>1, <2>2, NumbersOf
        <3>2. QED BY <2>2, <3>1 DEF Apart
    <2>4. QED BY <2>1, <2>2, <2>3
<1>6. ASSUME NEW i \in k + 2 .. Len(c)
      PROVE  c[i] = list[i - 1] /\ Successor(o) <= list[i - 1].at /\ i - 1 \in 1 .. Len(list)
    <2>1. i - 1 \in 1 .. Len(list) /\ i \in (k + 1) + 1 .. Len(list) + 1 /\ i - 1 \in k + 1 .. Len(list)
        BY <1>1, <1>3
    <2>2. c[i] = list[i - 1] /\ list[i - 1] \in AofRecord /\ Apart(list[i - 1], o) /\ o.at <= list[i - 1].at
        BY <1>3, <1>4, <2>1
    <2>3. Successor(o) <= list[i - 1].at
        <3>1. ~(Successor(list[i - 1]) <= o.at)
            BY <2>2, NumbersOf
        <3>2. QED BY <2>2, <3>1 DEF Apart
    <2>4. QED BY <2>1, <2>2, <2>3
<1>7. ASSUME NEW i \in 1 .. Len(c), NEW j \in 1 .. Len(c), i < j
      PROVE  /\ Successor(c[i]) <= c[j].at
             /\ Successor(c[i]) = c[j].at => j = i + 1 /\ i \in {k, k + 1}
    <2>0. \A a, b \in 1 .. Len(list) : a < b => Successor(list[a]) < list[b].at /\ Successor(list[a]) \in Int
                                                /\ list[b].at \in Int
        BY <1>4, NumbersOf DEF InOrder
    <2>1. CASE i \in 1 .. k /\ j \in 1 .. k
        <3>1. c[i] = list[i] /\ c[j] = list[j] /\ i \in 1 .. Len(list) /\ j \in 1 .. Len(list)
            BY <1>5, <2>1
        <3>2. QED BY <1>7, <2>0, <3>1
    <2>2. CASE i \in 1 .. k /\ j = k + 1
        <3>1. c[i] = list[i] /\ c[j] = o /\ Successor(list[i]) <= o.at
            BY <1>3, <1>5, <2>2
        <3>2. Successor(c[i]) = c[j].at => i = k
            <4>1. SUFFICES ASSUME i < k, Successor(list[i]) = o.at PROVE FALSE
                BY <1>1, <2>2, <3>1
            <4>2. k \in 1 .. k /\ i \in 1 .. Len(list) /\ k \in 1 .. Len(list)
                BY <1>1, <2>2, <4>1
            <4>3. Successor(list[i]) < list[k].at /\ list[k].at < o.at
                BY <2>0, <4>1, <4>2
            <4>4. list[k] \in AofRecord /\ list[i] \in AofRecord
                BY <1>4, <4>2
            <4>5. QED BY <4>1, <4>3, <4>4 DEF Successor, AofRecord, AofHeader
        <3>3. QED BY <2>2, <3>1, <3>2
    <2>3. CASE i \in 1 .. k /\ j \in k + 2 .. Len(c)
        <3>1. c[i] = list[i] /\ c[j] = list[j - 1] /\ i \in 1 .. Len(list) /\ j - 1 \in 1 .. Len(list)
            BY <1>5, <1>6, <2>3
        <3>2. i < j - 1
            BY <1>1, <2>3
        <3>3. QED BY <2>0, <3>1, <3>2
    <2>4. CASE i = k + 1 /\ j \in k + 2 .. Len(c)
        <3>1. c[i] = o /\ c[j] = list[j - 1] /\ Successor(o) <= list[j - 1].at /\ j - 1 \in 1 .. Len(list)
            BY <1>3, <1>6, <2>4
        <3>2. Successor(c[i]) = c[j].at => j = k + 2
            <4>1. SUFFICES ASSUME k + 1 < j - 1, Successor(o) = list[j - 1].at PROVE FALSE
                BY <1>1, <2>4, <3>1
            <4>2. k + 2 \in k + 2 .. Len(c) /\ k + 1 \in 1 .. Len(list) /\ (k + 2) - 1 = k + 1
                BY <1>1, <1>3, <2>4, <4>1
            <4>3. Successor(list[k + 1]) < list[j - 1].at /\ Successor(o) <= list[k + 1].at
                BY <1>6, <2>0, <3>1, <4>1, <4>2
            <4>4. list[k + 1] \in AofRecord
                BY <1>4, <4>2
            <4>5. list[k + 1].at < Successor(list[k + 1]) /\ list[k + 1].at \in Nat
                  /\ Successor(list[k + 1]) \in Nat /\ Successor(o) \in Nat
                BY <4>4, NumbersOf
            <4>6. QED BY <4>1, <4>3, <4>5
        <3>3. QED BY <1>1, <2>4, <3>1, <3>2
    <2>5. CASE i \in k + 2 .. Len(c) /\ j \in k + 2 .. Len(c)
        <3>1. c[i] = list[i - 1] /\ c[j] = list[j - 1] /\ i - 1 \in 1 .. Len(list) /\ j - 1 \in 1 .. Len(list)
            BY <1>6, <2>5
        <3>2. PICK a \in 1 .. Len(list), b \in 1 .. Len(list) : a = i - 1 /\ b = j - 1 /\ a < b
            BY <1>1, <1>7, <2>5, <3>1
        <3>3. QED BY <2>0, <3>1, <3>2
    <2>6. QED BY <1>1, <1>3, <1>7, <2>1, <2>2, <2>3, <2>4, <2>5
<1>8. ASSUME NEW p \in ToSet(c) PROVE p = o \/ p \in ToSet(list)
    <2>1. PICK i \in 1 .. Len(c) : p = c[i]
        BY <1>3, ListedAre
    <2>2. i \in 1 .. k \/ i = k + 1 \/ i \in k + 2 .. Len(c)
        BY <1>1, <1>3
    <2>3. QED BY <1>1, <1>3, <1>5, <1>6, <2>1, <2>2, ListedAre
<1>9. Lined(c, {k, k + 1})
    BY <1>3, <1>7 DEF Lined
<1>10. QED BY <1>2, <1>3, <1>8, <1>9

\* A list in order without its ith object.
LEMMA RemovedInOrder ==
    ASSUME NEW list, InOrder(list), NEW i \in 1 .. Len(list)
    PROVE  /\ InOrder(RemoveAt(list, i))
           /\ \A p \in ToSet(RemoveAt(list, i)) : \E j \in 1 .. Len(list) : j # i /\ p = list[j]
<1>1. list \in Seq(AofRecord) /\ Len(list) \in Nat
    BY DEF InOrder
<1>2. PICK c : c = RemoveAt(list, i)
    OBVIOUS
<1>3. /\ c \in Seq(AofRecord) /\ Len(c) = Len(list) - 1
      /\ \A j \in 1 .. i - 1 : c[j] = list[j]
      /\ \A j \in i .. Len(list) - 1 : c[j] = list[j + 1]
    BY <1>1, <1>2, RemoveAtIs
<1>4. \A j \in 1 .. Len(c) : \E a \in 1 .. Len(list) :
          c[j] = list[a] /\ a # i /\ a = IF j < i THEN j ELSE j + 1
    <2> SUFFICES ASSUME NEW j \in 1 .. Len(c)
                 PROVE  \E a \in 1 .. Len(list) : c[j] = list[a] /\ a # i /\ a = IF j < i THEN j ELSE j + 1
        OBVIOUS
    <2>1. CASE j < i
        BY <1>1, <1>3, <2>1
    <2>2. CASE ~(j < i)
        BY <1>1, <1>3, <2>2
    <2>3. QED BY <2>1, <2>2
<1>5. ASSUME NEW j \in 1 .. Len(c), NEW k \in 1 .. Len(c), j < k
      PROVE  Successor(c[j]) < c[k].at
    <2>1. PICK a \in 1 .. Len(list) : c[j] = list[a] /\ a = IF j < i THEN j ELSE j + 1
        BY <1>4
    <2>2. PICK b \in 1 .. Len(list) : c[k] = list[b] /\ b = IF k < i THEN k ELSE k + 1
        BY <1>4
    <2>3. a < b
        BY <1>3, <1>5, <2>1, <2>2
    <2>4. QED BY <2>1, <2>2, <2>3 DEF InOrder
<1>6. ASSUME NEW p \in ToSet(c) PROVE \E j \in 1 .. Len(list) : j # i /\ p = list[j]
    <2>1. PICK j \in 1 .. Len(c) : p = c[j]
        BY <1>3, ListedAre
    <2>2. QED BY <1>4, <2>1
<1>7. QED BY <1>2, <1>3, <1>5, <1>6 DEF InOrder

\* The list once the freed object is merged with those it touches.
LEMMA MergedInOrder ==
    ASSUME NEW list, NEW k \in Nat, Lined(list, {k, k + 1}), NEW first, NEW this, NEW merged,
           first = Coalesced(list, k),
           this = IF Len(first) < Len(list) THEN k ELSE k + 1,
           merged = Coalesced(first, this),
           k + 1 \in 1 .. Len(list)
    PROVE  /\ InOrder(merged) /\ first \in Seq(AofRecord) /\ this \in 1 .. Len(merged)
<1>1. list \in Seq(AofRecord) /\ Len(list) \in Nat /\ {k, k + 1} \in SUBSET Int /\ k \in Int /\ k + 1 \in Int
    BY DEF Lined
<1>2. Lined(first, {this}) /\ this \in 1 .. Len(first) /\ this \in Int
    <2>1. CASE Touch(list, k)
        <3>1. Lined(first, Moved({k, k + 1}, k))
            BY <1>1, <2>1, CoalescedLined
        <3>2. Moved({k, k + 1}, k) = {k}
            BY DEF Moved
        <3>3. IsMerged(first, list, k)
            BY <1>1, <2>1, CoalescedIs
        <3>4. Len(first) = Len(list) - 1 /\ k \in 1 .. Len(list) - 1
            BY <2>1, <3>3 DEF IsMerged, Touch
        <3>5. this = k
            BY <1>1, <3>4
        <3>6. this \in 1 .. Len(first) /\ this \in Int
            BY <1>1, <3>4, <3>5
        <3>7. QED BY <3>1, <3>2, <3>5, <3>6
    <2>2. CASE ~Touch(list, k)
        <3>1. first = list /\ Lined(list, {k, k + 1} \ {k})
            BY <1>1, <2>2, NotTouching
        <3>2. {k, k + 1} \ {k} = {k + 1}
            OBVIOUS
        <3>3. this = k + 1
            BY <1>1, <3>1
        <3>4. QED BY <1>1, <3>1, <3>2, <3>3
    <2>3. QED BY <2>1, <2>2
<1>3. first \in Seq(AofRecord) /\ Len(first) \in Nat /\ {this} \in SUBSET Int
    BY <1>2 DEF Lined
<1>4. Lined(merged, {}) /\ this \in 1 .. Len(merged)
    <2>1. CASE Touch(first, this)
        <3>1. Lined(merged, Moved({this}, this))
            BY <1>2, <1>3, <2>1, CoalescedLined
        <3>2. Moved({this}, this) = {}
            BY <1>2 DEF Moved
        <3>3. IsMerged(merged, first, this)
            BY <1>3, <2>1, CoalescedIs
        <3>4. Len(merged) = Len(first) - 1 /\ this \in 1 .. Len(first) - 1
            BY <2>1, <3>3 DEF IsMerged, Touch
        <3>5. QED BY <3>1, <3>2, <3>4
    <2>2. CASE ~Touch(first, this)
        <3>1. merged = first /\ Lined(first, {this} \ {this})
            BY <1>2, <2>2, NotTouching
        <3>2. {this} \ {this} = {}
            OBVIOUS
        <3>3. QED BY <1>2, <3>1, <3>2
    <2>3. QED BY <2>1, <2>2
<1>5. QED BY <1>3, <1>4, LinedInOrder

LEMMA FreeKeeps == ASSUME AofInv, NEW at, AofFree(at) PROVE AofInv'
<1>1. /\ aofTop \in Nat /\ Typed(aofLive) /\ Typed(aofReturned) /\ InOrder(aofList)
      /\ aofList \in Seq(AofRecord) /\ Disjoint(aofList, aofLive, aofReturned)
      /\ at \in DOMAIN aofLive
    BY DEF AofInv, InOrder, AofFree
<1>2. \A p \in ToSet(aofList) \cup Kept(aofLive) \cup Kept(aofReturned) :
            p \in AofRecord /\ Successor(p) <= aofTop
    BY <1>1, PiecesAre, ListedAre, KeptAre DEF AofInv
<1>3. PICK o \in AofRecord : o = [at |-> at, size |-> aofLive[at]] /\ o.at = at /\ o \in Kept(aofLive)
    BY <1>1, HeldIs DEF Held
<1>4. PICK k : k = Below(at)
    OBVIOUS
<1>5. /\ k \in 0 .. Len(aofList) /\ (\A i \in 1 .. k : aofList[i].at < o.at)
      /\ \A i \in k + 1 .. Len(aofList) : o.at <= aofList[i].at
    <2>1. at \in Nat
        BY <1>3, NumbersOf
    <2>2. QED BY <1>1, <1>3, <1>4, <2>1, BelowIs
<1>6. \A p \in ToSet(aofList) : Apart(p, o)
    BY <1>1, <1>3 DEF Disjoint, AllApart
<1>7. PICK list : list = InsertAt(aofList, k + 1, o)
    OBVIOUS
<1>8. /\ Lined(list, {k, k + 1}) /\ Len(list) = Len(aofList) + 1 /\ list[k + 1] = o
      /\ \A p \in ToSet(list) : p = o \/ p \in ToSet(aofList)
    BY <1>1, <1>5, <1>6, <1>7, InsertedLined
<1>9. list \in Seq(AofRecord) /\ k \in Nat /\ k + 1 \in 1 .. Len(list) /\ k \in Int /\ (k + 1) - 1 = k
    BY <1>1, <1>5, <1>8 DEF Lined
<1>10. PICK first : first = Coalesced(list, k)
    OBVIOUS
<1>11. PICK this : this = IF Len(first) < Len(list) THEN k ELSE k + 1
    OBVIOUS
<1>12. PICK merged : merged = Coalesced(first, this)
    OBVIOUS
<1>13. InOrder(merged) /\ first \in Seq(AofRecord) /\ this \in 1 .. Len(merged) /\ this \in Int
    BY <1>8, <1>9, <1>10, <1>11, <1>12, MergedInOrder
<1>14. PICK live : live = AofDrop(aofLive, at)
    OBVIOUS
<1>15. Typed(live) /\ Kept(live) \subseteq Kept(aofLive) /\ \A p \in Kept(live) : p # o
    BY <1>1, <1>3, <1>14, DropIs
<1>16. ASSUME NEW q \in Kept(live) \cup Kept(aofReturned)
       PROVE  \A p \in ToSet(merged) : Apart(p, q)
    <2>1. q \in AofRecord
        BY <1>2, <1>15
    <2>2. Apart(o, q)
        BY <1>1, <1>3, <1>15 DEF Disjoint, AllApart
    <2>3. \A p \in ToSet(list) : Apart(p, q)
        BY <1>1, <1>8, <1>15, <2>2 DEF Disjoint, AllApart
    <2>4. \A p \in ToSet(first) : Apart(p, q)
        BY <1>9, <1>10, <2>1, <2>3, CoalescedApart
    <2>5. QED BY <1>12, <1>13, <2>1, <2>4, CoalescedApart
<1>17. Disjoint(merged, live, aofReturned)
    BY <1>1, <1>15, <1>16 DEF Disjoint, AllApart
<1>18. \A p \in ToSet(merged) : Successor(p) <= aofTop
    <2>1. \A p \in ToSet(list) : Successor(p) <= aofTop
        BY <1>2, <1>3, <1>8
    <2>2. \A p \in ToSet(first) : Successor(p) <= aofTop
        BY <1>1, <1>9, <1>10, <2>1, CoalescedEnds
    <2>3. QED BY <1>1, <1>12, <1>13, <2>2, CoalescedEnds
<1>19. /\ aofLive' = live /\ aofTop' = aofTop
       /\ \/ /\ aofList' = RemoveAt(merged, this)
             /\ aofReturned' = AofPut(aofReturned, merged[this].at, merged[this].size)
          \/ aofList' = merged /\ aofReturned' = aofReturned
    <2>1. AofFree(at)
        OBVIOUS
    <2>2. QED BY <1>3, <1>4, <1>7, <1>9, <1>10, <1>11, <1>12, <1>14, <2>1 DEF AofFree
<1>20. AofPieces' = Kept(aofLive') \cup Kept(aofReturned') \cup ToSet(aofList')
    BY DEF AofPieces, Kept, Held
<1>21. CASE aofList' = merged /\ aofReturned' = aofReturned
    <2>1. \A p \in AofPieces' : Successor(p) <= aofTop'
        BY <1>2, <1>15, <1>18, <1>19, <1>20, <1>21
    <2>2. QED BY <1>1, <1>13, <1>15, <1>17, <1>19, <1>21, <2>1 DEF AofInv
<1>22. CASE /\ aofList' = RemoveAt(merged, this)
            /\ aofReturned' = AofPut(aofReturned, merged[this].at, merged[this].size)
    <2>1. PICK m \in AofRecord : m = merged[this] /\ m \in ToSet(merged)
        BY <1>13, ListedAre DEF InOrder
    <2>2. PICK rest : rest = RemoveAt(merged, this)
        OBVIOUS
    <2>3. InOrder(rest) /\ rest \in Seq(AofRecord)
          /\ \A p \in ToSet(rest) : p \in ToSet(merged) /\ Apart(m, p)
        <3>1. InOrder(rest) /\ \A p \in ToSet(rest) : \E j \in 1 .. Len(merged) : j # this /\ p = merged[j]
            BY <1>13, <2>2, RemovedInOrder
        <3>2. \A j \in 1 .. Len(merged) : j # this => merged[j] \in ToSet(merged) /\ Apart(m, merged[j])
            BY <1>13, <2>1, OrderedApart, ListedAre DEF InOrder
        <3>3. QED BY <3>1, <3>2 DEF InOrder
    <2>4. Disjoint(rest, live, aofReturned)
        BY <1>17, <2>3 DEF Disjoint, AllApart
    <2>5. \A p \in ToSet(rest) \cup Kept(live) \cup Kept(aofReturned) : Apart(m, p)
        BY <1>16, <2>1, <2>3
    <2>6. Disjoint(rest, live, aofReturned')
        BY <1>1, <1>15, <1>22, <2>1, <2>3, <2>4, <2>5, DisjointPut
    <2>7. Typed(aofReturned') /\ Kept(aofReturned') \subseteq Kept(aofReturned) \cup {m}
        BY <1>1, <1>22, <2>1, PutIs
    <2>8. \A p \in AofPieces' : Successor(p) <= aofTop'
        BY <1>2, <1>15, <1>18, <1>19, <1>20, <1>22, <2>1, <2>2, <2>3, <2>7
    <2>9. QED BY <1>1, <1>15, <1>19, <1>22, <2>2, <2>3, <2>6, <2>7, <2>8 DEF AofInv
<1>23. QED BY <1>19, <1>21, <1>22

-----------------------------------------------------------------------------
LEMMA AofInitGood == AofInit => AofInv
<1> SUFFICES ASSUME AofInit PROVE AofInv
    OBVIOUS
<1>1. aofList = <<>> /\ aofLive = <<>> /\ aofReturned = <<>> /\ aofTop = 0
    BY DEF AofInit
<1>2. DOMAIN aofLive = {} /\ DOMAIN aofReturned = {} /\ Len(aofList) = 0 /\ DOMAIN aofList = {}
    BY <1>1
<1>3. Kept(aofLive) = {} /\ Kept(aofReturned) = {} /\ ToSet(aofList) = {}
    BY <1>2 DEF Kept, ToSet
<1>4. InOrder(aofList)
    BY <1>1, <1>2 DEF InOrder
<1>5. Disjoint(aofList, aofLive, aofReturned)
    BY <1>3 DEF Disjoint, AllApart
<1>6. AofPieces = {}
    BY <1>3, PiecesAre
<1>7. QED BY <1>1, <1>2, <1>4, <1>5, <1>6 DEF AofInv, Typed

\* Two pieces of memory, whichever they are, are apart.
LEMMA PiecesApart ==
    ASSUME AofInv, NEW o \in AofPieces, NEW p \in AofPieces, o # p
    PROVE  Apart(o, p)
<1>1. \A a, b : Apart(a, b) <=> Apart(b, a)
    BY DEF Apart
<1>2. InOrder(aofList) /\ aofList \in Seq(AofRecord) /\ Disjoint(aofList, aofLive, aofReturned)
    BY DEF AofInv, InOrder
<1>3. CASE o \in ToSet(aofList) /\ p \in ToSet(aofList)
    <2>1. PICK i \in 1 .. Len(aofList), j \in 1 .. Len(aofList) : o = aofList[i] /\ p = aofList[j]
        BY <1>2, <1>3, ListedAre
    <2>2. QED BY <1>2, <2>1, OrderedApart
<1>4. CASE ~(o \in ToSet(aofList) /\ p \in ToSet(aofList))
    BY <1>1, <1>2, <1>4, PiecesAre DEF Disjoint, AllApart
<1>5. QED BY <1>3, <1>4

\* Whatever the sizes, the memory and the threshold, no two pieces of AOFFHeap's
\* memory overlap, and its list is in address order and has merged what touches.
THEOREM FirstFitListIsCoalesced == AofSpec => []AofListIsCoalesced
<1>1. AofInit => AofInv
    BY AofInitGood
<1>2. AofInv /\ [AofNext]_aofVars => AofInv'
    <2> SUFFICES ASSUME AofInv, [AofNext]_aofVars PROVE AofInv'
        OBVIOUS
    <2>1. CASE AofNext
        BY <2>1, MallocKeeps, FreeKeeps DEF AofNext
    <2>2. CASE UNCHANGED aofVars
        BY <2>2 DEF aofVars, AofInv, AofPieces
    <2>3. QED BY <2>1, <2>2
<1>3. AofInv => AofListIsCoalesced
    <2> SUFFICES ASSUME AofInv PROVE AofListIsCoalesced
        OBVIOUS
    <2>1. \A o, p \in AofPieces : o # p => Successor(o) <= p.at \/ Successor(p) <= o.at
        BY PiecesApart DEF Apart
    <2>2. ASSUME NEW i \in 1 .. Len(aofList) - 1 PROVE Successor(aofList[i]) < aofList[i + 1].at
        <3>1. i \in 1 .. Len(aofList) /\ i + 1 \in 1 .. Len(aofList) /\ i < i + 1
            BY DEF AofInv, InOrder
        <3>2. QED BY <3>1 DEF AofInv, InOrder
    <2>3. QED BY <2>1, <2>2 DEF AofInv, AofListIsCoalesced
<1>4. QED BY <1>1, <1>2, <1>3, PTL DEF AofSpec

-----------------------------------------------------------------------------
(* BumpLayers *)

BlObject == [ptr : Nat, size : Nat \ {0}]

\* What is the program's, of the memory G: objects in G, of which none overlaps another.
Owned(live, G) == live \subseteq BlObject /\ \A o \in live : BytesOf(o) \subseteq G

\* The addresses from p up to e are nobody's.
Free(p, e, G, live) == \A x \in p .. e - 1 : x \in G /\ \A o \in live : x \notin BytesOf(o)

BlTypes ==
    /\ blTop \in Nat /\ BlBase <= blTop
    /\ blPtr \in Nat /\ blEob \in Nat /\ blRemaining \in Nat
    /\ \A x \in blGot : x \in Nat /\ x < blTop
    /\ Owned(blLive, blGot)
    /\ ~blTwice

ChunkRoom == blPtr <= blEob /\ blEob <= blTop /\ Free(blPtr, blEob, blGot, blLive)

SlopEnd == blPtr + blRemaining + BlSlop

SlopRoom ==
    /\ blPtr = BlNull => blRemaining = 0
    /\ blPtr # BlNull => SlopEnd <= blTop /\ Free(blPtr, SlopEnd, blGot, blLive)

-----------------------------------------------------------------------------
LEMMA CeilIs ==
    ASSUME NEW n \in Nat, NEW u \in Nat \ {0}
    PROVE  CeilTo(n, u) \in Nat /\ n <= CeilTo(n, u)
<1>1. PICK a \in Nat : a = n + u - 1
    OBVIOUS
<1>2. PICK d \in Nat : d = a \div u
    BY <1>1
<1>3. a < u * d + u
    BY <1>1, <1>2
<1>4. PICK m \in Nat : m = d * u /\ m = u * d
    BY <1>2
<1>5. n <= m
    BY <1>1, <1>3, <1>4
<1>6. QED BY <1>1, <1>2, <1>4, <1>5 DEF CeilTo

LEMMA BlockIs ==
    ASSUME NEW sz \in Nat \ {0}
    PROVE  BlockSize(sz) \in Nat /\ sz + 8 <= BlockSize(sz)
BY CeilIs DEF BlockSize

LEMMA BytesAre ==
    ASSUME NEW p \in Nat, NEW sz \in Nat \ {0}
    PROVE  /\ [ptr |-> p, size |-> sz] \in BlObject
           /\ BytesOf([ptr |-> p, size |-> sz]) = p .. p + sz - 1
BY DEF BlObject, BytesOf

LEMMA SizesAre == \A sz \in BlSizes : sz \in Nat \ {0}
BY BlAssumption

\* An object at the beginning of a room leaves the rest of it.
LEMMA Given ==
    ASSUME NEW G, Owned(blLive, G), ~blTwice, NEW p \in Nat, NEW e \in Nat, NEW sz \in Nat \ {0},
           p + sz <= e, Free(p, e, G, blLive), BlGives(p, sz)
    PROVE  Owned(blLive', G) /\ ~blTwice' /\ Free(p + sz, e, G, blLive')
<1>1. PICK o \in BlObject : o = [ptr |-> p, size |-> sz] /\ BytesOf(o) = p .. p + sz - 1
    BY BytesAre
<1>2. blLive' = blLive \cup {o} /\ blTwice' = (blTwice \/ BytesOf(o) \cap LiveBytes # {})
    BY <1>1 DEF BlGives
<1>3. ASSUME NEW x \in p .. p + sz - 1 PROVE x \in p .. e - 1 /\ x \in G /\ \A q \in blLive : x \notin BytesOf(q)
    BY <1>3 DEF Free
<1>4. BytesOf(o) \cap LiveBytes = {}
    BY <1>1, <1>3 DEF LiveBytes
<1>5. Owned(blLive', G)
    BY <1>1, <1>2, <1>3 DEF Owned
<1>6. ASSUME NEW x \in p + sz .. e - 1 PROVE x \in G /\ \A q \in blLive' : x \notin BytesOf(q)
    <2>1. x \in p .. e - 1 /\ x \notin p .. p + sz - 1
        OBVIOUS
    <2>2. QED BY <1>1, <1>2, <2>1 DEF Free
<1>7. QED BY <1>2, <1>4, <1>5, <1>6 DEF Free

\* The room once the super heap has given n bytes, which continue it or not.
LEMMA RoomGrows ==
    ASSUME BlTypes, NEW n \in Nat, NEW p \in Nat, NEW e \in Nat, Free(p, e, blGot, blLive), SuperMalloc(n),
           NEW q, q = IF e = blTop THEN p ELSE blTop
    PROVE  /\ blTop' \in Nat /\ BlBase <= blTop' /\ blTop' = blTop + n
           /\ \A x \in blGot' : x \in Nat /\ x < blTop'
           /\ Owned(blLive, blGot') /\ Free(q, blTop', blGot', blLive) /\ q \in Nat
<1>1. blTop \in Nat /\ BlBase <= blTop /\ blTop' = blTop + n /\ blGot' = blGot \cup (blTop .. blTop + n - 1)
    BY DEF BlTypes, SuperMalloc
<1>2. \A x \in blGot' : x \in Nat /\ x < blTop'
    BY <1>1 DEF BlTypes
<1>3. Owned(blLive, blGot')
    BY <1>1 DEF BlTypes, Owned
<1>4. ASSUME NEW x \in q .. blTop' - 1 PROVE x \in blGot' /\ \A o \in blLive : x \notin BytesOf(o)
    <2>1. CASE x \in blTop .. blTop + n - 1
        <3>1. x \notin blGot
            BY <1>1, <2>1 DEF BlTypes
        <3>2. QED BY <1>1, <2>1, <3>1 DEF BlTypes, Owned
    <2>2. CASE x \notin blTop .. blTop + n - 1
        <3>1. e = blTop /\ x \in p .. e - 1
            BY <1>1, <2>2
        <3>2. QED BY <1>1, <3>1 DEF Free
    <2>3. QED BY <2>1, <2>2
<1>5. QED BY <1>1, <1>2, <1>3, <1>4 DEF Free, BlBase

LEMMA ChunkKeeps ==
    ASSUME BlTypes, ChunkRoom, NEW sz \in BlSizes, ChunkMalloc(sz)
    PROVE  BlTypes' /\ ChunkRoom'
<1>1. sz \in Nat \ {0} /\ blPtr \in Nat /\ blEob \in Nat /\ blTop \in Nat
    BY SizesAre DEF BlTypes
<1>2. CASE blPtr + sz <= blEob
    <2>1. blPtr' = blPtr + sz /\ BlGives(blPtr, sz) /\ UNCHANGED <<blTop, blGot, blEob, blRemaining>>
        BY <1>2 DEF ChunkMalloc, blSuper
    <2>2. Owned(blLive', blGot) /\ ~blTwice' /\ Free(blPtr + sz, blEob, blGot, blLive')
        BY <1>1, <1>2, <2>1, Given DEF BlTypes, ChunkRoom
    <2>3. QED BY <1>1, <1>2, <2>1, <2>2 DEF BlTypes, ChunkRoom
<1>3. CASE ~(blPtr + sz <= blEob) /\ blTop + CeilTo(sz, BlChunk) > BlEnd
    <2>1. BlFails
        BY <1>3 DEF ChunkMalloc, GetMoreChunks
    <2>2. QED BY <2>1 DEF BlFails, blSuper, BlTypes, ChunkRoom, Free
<1>4. CASE ~(blPtr + sz <= blEob) /\ ~(blTop + CeilTo(sz, BlChunk) > BlEnd)
    <2>1. PICK n \in Nat : n = CeilTo(sz, BlChunk) /\ sz <= n
        BY <1>1, CeilIs, BlAssumption
    <2>2. PICK p : p = IF blEob = blTop THEN blPtr ELSE blTop
        OBVIOUS
    <2>3. /\ SuperMalloc(n) /\ blPtr' = p + sz /\ BlGives(p, sz) /\ UNCHANGED blRemaining
          /\ blEob' = p + n + (IF blEob = blTop THEN blEob - blPtr ELSE 0)
        BY <1>4, <2>1, <2>2 DEF ChunkMalloc, GetMoreChunks
    <2>4. /\ blTop' \in Nat /\ BlBase <= blTop' /\ blTop' = blTop + n
          /\ \A x \in blGot' : x \in Nat /\ x < blTop'
          /\ Owned(blLive, blGot') /\ Free(p, blTop', blGot', blLive) /\ p \in Nat
        BY <1>1, <2>1, <2>2, <2>3, RoomGrows DEF ChunkRoom
    <2>5. blEob' = blTop'
        BY <1>1, <2>1, <2>2, <2>3, <2>4
    <2>6. p + sz <= blTop'
        BY <1>1, <2>1, <2>2, <2>4 DEF ChunkRoom
    <2>7. PICK G, e : G = blGot' /\ e = blTop'
        OBVIOUS
    <2>8. Owned(blLive', G) /\ ~blTwice' /\ Free(p + sz, e, G, blLive')
        BY <1>1, <2>3, <2>4, <2>6, <2>7, Given DEF BlTypes
    <2>9. QED BY <1>1, <2>3, <2>4, <2>5, <2>6, <2>7, <2>8 DEF BlTypes, ChunkRoom
<1>5. QED BY <1>2, <1>3, <1>4

LEMMA SlopKeeps ==
    ASSUME BlTypes, SlopRoom, NEW sz \in BlSizes, SlopMalloc(sz)
    PROVE  BlTypes' /\ SlopRoom'
<1>1. sz \in Nat \ {0} /\ blPtr \in Nat /\ blRemaining \in Nat /\ blTop \in Nat /\ BlSlop \in Nat
    BY SizesAre, BlAssumption DEF BlTypes
<1>2. CASE sz <= blRemaining
    <2>1. /\ blPtr' = blPtr + sz /\ blRemaining' = blRemaining - sz /\ BlGives(blPtr, sz)
          /\ UNCHANGED <<blTop, blGot, blEob>>
        BY <1>2 DEF SlopMalloc, blSuper
    <2>2. blPtr # BlNull
        BY <1>1, <1>2 DEF SlopRoom
    <2>3. PICK e \in Nat : e = SlopEnd /\ blPtr + sz <= e
        BY <1>1, <1>2 DEF SlopEnd
    <2>4. Owned(blLive', blGot) /\ ~blTwice' /\ Free(blPtr + sz, e, blGot, blLive')
        BY <1>1, <2>1, <2>2, <2>3, Given DEF BlTypes, SlopRoom
    <2>5. SlopEnd' = e /\ blPtr' \in Nat /\ blRemaining' \in Nat /\ blPtr' # BlNull
        BY <1>1, <1>2, <2>1, <2>3 DEF SlopEnd, BlNull
    <2>6. QED BY <2>1, <2>2, <2>3, <2>4, <2>5 DEF BlTypes, SlopRoom
<1>3. CASE ~(sz <= blRemaining) /\ blTop + sz + BlSlop > BlEnd
    <2>1. BlFails
        BY <1>3 DEF SlopMalloc, GetMoreSlop
    <2>2. QED BY <2>1 DEF BlFails, blSuper, BlTypes, SlopRoom, SlopEnd, Free
<1>4. CASE ~(sz <= blRemaining) /\ ~(blTop + sz + BlSlop > BlEnd)
    <2>1. PICK near \in BOOLEAN : near = (blPtr # BlNull /\ blPtr + blRemaining + BlSlop = blTop)
        OBVIOUS
    <2>2. PICK p : p = IF near THEN blPtr ELSE blTop
        OBVIOUS
    <2>3. PICK n \in Nat : n = sz + BlSlop
        BY <1>1
    <2>4. /\ SuperMalloc(n) /\ blPtr' = p + sz /\ BlGives(p, sz) /\ UNCHANGED blEob
          /\ blRemaining' = IF near THEN blRemaining + BlSlop ELSE 0
        BY <1>4, <2>1, <2>2, <2>3 DEF SlopMalloc, GetMoreSlop
    \* the room there is: none at first
    <2>5. PICK r \in Nat, e \in Nat : Free(r, e, blGot, blLive) /\ p = (IF e = blTop THEN r ELSE blTop)
        <3>1. CASE blPtr = BlNull
            <4>1. Free(0, 0, blGot, blLive)
                BY DEF Free
            <4>2. 0 # blTop \/ blTop = 0
                OBVIOUS
            <4>3. QED BY <2>1, <2>2, <3>1, <4>1, <4>2
        <3>2. CASE blPtr # BlNull
            <4>1. SlopEnd \in Nat /\ Free(blPtr, SlopEnd, blGot, blLive)
                BY <1>1, <3>2 DEF SlopRoom, SlopEnd
            <4>2. near <=> SlopEnd = blTop
                BY <2>1, <3>2 DEF SlopEnd
            <4>3. QED BY <1>1, <2>2, <4>1, <4>2
        <3>3. QED BY <3>1, <3>2
    <2>6. /\ blTop' \in Nat /\ BlBase <= blTop' /\ blTop' = blTop + n
          /\ \A x \in blGot' : x \in Nat /\ x < blTop'
          /\ Owned(blLive, blGot') /\ Free(p, blTop', blGot', blLive) /\ p \in Nat
        BY <2>3, <2>4, <2>5, RoomGrows
    <2>7. p + sz <= blTop' /\ SlopEnd' = blTop' /\ blPtr' \in Nat /\ blRemaining' \in Nat /\ blPtr' # BlNull
        <3>1. SlopEnd' = blPtr' + blRemaining' + BlSlop
            BY DEF SlopEnd
        <3>2. blPtr' = p + sz /\ blPtr' \in Nat /\ blPtr' # BlNull
            BY <1>1, <2>4, <2>6 DEF BlNull
        <3>3. CASE near
            <4>1. p = blPtr /\ blPtr + blRemaining + BlSlop = blTop /\ blRemaining' = blRemaining + BlSlop
                BY <2>1, <2>2, <2>4, <3>3
            <4>2. blTop' = blTop + sz + BlSlop
                BY <1>1, <2>3, <2>6
            <4>3. QED BY <1>1, <3>1, <3>2, <4>1, <4>2
        <3>4. CASE ~near
            BY <1>1, <2>2, <2>3, <2>4, <2>6, <3>1, <3>2, <3>4
        <3>5. QED BY <3>3, <3>4
    <2>8. PICK G, e2 : G = blGot' /\ e2 = blTop'
        OBVIOUS
    <2>9. Owned(blLive', G) /\ ~blTwice' /\ Free(p + sz, e2, G, blLive')
        BY <1>1, <2>4, <2>6, <2>7, <2>8, Given DEF BlTypes
    <2>10. QED BY <2>4, <2>6, <2>7, <2>8, <2>9 DEF BlTypes, SlopRoom
<1>5. QED BY <1>2, <1>3, <1>4

LEMMA ClearKeeps ==
    ASSUME BlTypes, BlClear
    PROVE  BlTypes' /\ ChunkRoom' /\ SlopRoom'
<1>1. /\ blPtr' = 0 /\ blEob' = 0 /\ blRemaining' = 0 /\ blTop' = 8 /\ blGot' = {} /\ blLive' = {}
      /\ blTwice' = blTwice
    BY DEF BlClear, BlNull, BlBase
<1>2. QED BY <1>1 DEF BlTypes, ChunkRoom, SlopRoom, Owned, Free, BlNull, BlBase

LEMMA ServesKeeps ==
    ASSUME BlTypes, SuperServes
    PROVE  BlTypes' /\ (ChunkRoom => ChunkRoom') /\ (SlopRoom => SlopRoom')
<1>1. /\ UNCHANGED <<blGot, blPtr, blEob, blRemaining, blLive, blTwice>> /\ blTop' = blTop + 8
    BY DEF SuperServes
<1>2. blTop \in Nat /\ BlBase \in Nat /\ \A x \in Nat : (x < blTop => x < blTop') /\ (x <= blTop => x <= blTop')
    BY <1>1 DEF BlTypes, BlBase
<1>3. BlTypes'
    BY <1>1, <1>2 DEF BlTypes
<1>4. ChunkRoom => ChunkRoom'
    BY <1>1, <1>2 DEF ChunkRoom, Free, BlTypes
<1>5. SlopEnd' = SlopEnd /\ SlopEnd \in Nat
    BY <1>1, BlAssumption DEF SlopEnd, BlTypes
<1>6. SlopRoom => SlopRoom'
    BY <1>1, <1>2, <1>5 DEF SlopRoom, Free
<1>7. QED BY <1>3, <1>4, <1>6

-----------------------------------------------------------------------------
(* XallocHeap *)

XaBase == BlBase + 8

Prev(tag, p) == p - tag[p].size

After(o) == o.ptr + BlockSize(o.size)

\* Tags lead down to the first block, from wherever, also those of blocks that are gone.
Tags(tag) ==
    \A p \in DOMAIN tag :
        /\ p \in Nat /\ tag[p].size \in Nat
        /\ tag[p] = [size |-> tag[p].size, inUse |-> tag[p].inUse]
        /\ Prev(tag, p) \in DOMAIN tag
        /\ tag[p].size = 0 <=> p = XaBase

\* The blocks begin and end at the addresses of C, of which E is the last.
Blocks(C, E, tag) ==
    /\ C \subseteq DOMAIN tag /\ XaBase \in C /\ E \in C
    /\ \A p \in C : XaBase <= p /\ p <= E
    /\ \A p \in C \ {XaBase} :
          Prev(tag, p) \in C /\ \A c \in C : c <= Prev(tag, p) \/ p <= c

\* Blocks in use are those of live objects.
UsedByLive(C, tag, live) ==
    /\ \A q \in C : tag[q].inUse => \E o \in live : o.ptr = q
    /\ \A o \in live : /\ o.ptr \in C /\ tag[o.ptr].inUse
                       /\ After(o) \in C /\ tag[After(o)].size = BlockSize(o.size)
    /\ \A o, p \in live : o.ptr = p.ptr => o = p

LastIs(last, C, E, tag) ==
    /\ ~tag[E].inUse
    /\ E = XaBase => last = BlNull
    /\ E # XaBase => last = Prev(tag, E) /\ tag[last].inUse

Stacked(C, E, tag, live, last) ==
    Blocks(C, E, tag) /\ UsedByLive(C, tag, live) /\ LastIs(last, C, E, tag)

Xalloc ==
    /\ blGot = BlBase .. BlBase + BlArena - 1
    /\ Tags(blTag)
    /\ \E C, E : /\ Stacked(C, E, blTag, blLive, blLast)
                 /\ blFailed => BlBase + BlArena <= blPtr
                 /\ ~blFailed => blPtr = E

\* Objects end at the last block's end, and are before the last block, or it.
LEMMA LiveAreBelow ==
    ASSUME NEW C, NEW E, NEW tag, NEW live, NEW last, Tags(tag), Stacked(C, E, tag, live, last),
           live \subseteq BlObject, NEW o \in live
    PROVE  /\ o.ptr \in Nat /\ E \in Nat /\ After(o) \in Nat /\ o.ptr < After(o) /\ After(o) <= E
           /\ o.ptr + o.size <= After(o) /\ Prev(tag, After(o)) = o.ptr /\ After(o) # XaBase
           /\ E # XaBase /\ o.ptr <= last /\ last \in C /\ last < E
<1>1. o.ptr \in Nat /\ o.size \in Nat \ {0} /\ BlockSize(o.size) \in Nat /\ o.size + 8 <= BlockSize(o.size)
    BY BlockIs DEF BlObject
<1>2. o.ptr \in C /\ After(o) \in C /\ tag[After(o)].size = BlockSize(o.size) /\ E \in C /\ E \in Nat
    BY DEF Stacked, Blocks, UsedByLive, Tags
<1>3. PICK a \in Nat : a = After(o) /\ a = o.ptr + BlockSize(o.size) /\ a <= E /\ XaBase <= o.ptr
    BY <1>1, <1>2 DEF After, Stacked, Blocks
<1>4. o.ptr < a /\ o.ptr + o.size <= a /\ a - BlockSize(o.size) = o.ptr
    BY <1>1, <1>3
<1>5. XaBase \in Nat /\ E # XaBase /\ a # XaBase
    BY <1>1, <1>2, <1>3, <1>4 DEF XaBase, BlBase
<1>6. last = Prev(tag, E) /\ last \in C /\ last \in DOMAIN tag /\ last \in Nat
    BY <1>2, <1>5 DEF Stacked, LastIs, Blocks, Tags
<1>7. o.ptr <= last \/ E <= o.ptr
    BY <1>2, <1>5, <1>6 DEF Stacked, Blocks
<1>8. last < E
    <2>1. tag[E].size # 0 /\ tag[E].size \in Nat /\ last = E - tag[E].size
        BY <1>2, <1>5, <1>6 DEF Tags, Stacked, Blocks, Prev
    <2>2. QED BY <1>2, <1>6, <2>1
<1>9. QED BY <1>1, <1>2, <1>3, <1>4, <1>5, <1>6, <1>7, <1>8 DEF Prev

\* The tags with another block on top, of n bytes from p on.
Topped(tag, p, n, end) ==
    [q \in DOMAIN tag \cup {end} |-> IF q = end THEN [size |-> n, inUse |-> FALSE]
                                   ELSE IF q = p THEN [tag[q] EXCEPT !.inUse = TRUE]
                                   ELSE tag[q]]

IsTopped(new, tag, p, n, end) ==
    /\ DOMAIN new = DOMAIN tag \cup {end}
    /\ new[end].size = n /\ ~new[end].inUse
    /\ new[p].inUse /\ new[p].size = tag[p].size
    /\ \A q \in DOMAIN tag : q # end /\ q # p => new[q] = tag[q]

LEMMA TagsGrow ==
    ASSUME NEW tag, Tags(tag), NEW p \in DOMAIN tag, NEW n \in Nat \ {0}, XaBase <= p, NEW end, end = p + n,
           NEW new, new = Topped(tag, p, n, end)
    PROVE  Tags(new) /\ IsTopped(new, tag, p, n, end) /\ end # p /\ end \in Nat
<1>1. p \in Nat /\ end \in Nat /\ end # p /\ end # XaBase /\ XaBase \in Nat
    BY DEF Tags, XaBase, BlBase
<1>2. DOMAIN new = DOMAIN tag \cup {end} /\ new[end] = [size |-> n, inUse |-> FALSE]
    BY DEF Topped
<1>3. new[p] = [tag[p] EXCEPT !.inUse = TRUE]
    BY <1>1, <1>2 DEF Topped
<1>4. \A q \in DOMAIN tag : q # end /\ q # p => new[q] = tag[q]
    BY DEF Topped
<1>5. tag[p] = [size |-> tag[p].size, inUse |-> tag[p].inUse]
    BY DEF Tags
<1>6. new[p] = [size |-> tag[p].size, inUse |-> TRUE]
    BY <1>3, <1>5
<1>7. ASSUME NEW q \in DOMAIN new
      PROVE  /\ q \in Nat /\ new[q].size \in Nat
             /\ new[q] = [size |-> new[q].size, inUse |-> new[q].inUse]
             /\ Prev(new, q) \in DOMAIN new
             /\ new[q].size = 0 <=> q = XaBase
    <2>1. CASE q = end
        <3>1. Prev(new, q) = p
            BY <1>1, <1>2, <2>1 DEF Prev
        <3>2. new[q] = [size |-> n, inUse |-> FALSE] /\ new[q].size = n /\ new[q].inUse = FALSE /\ n # 0
            BY <1>2, <2>1
        <3>3. p \in DOMAIN new /\ q # XaBase /\ q \in Nat
            BY <1>1, <1>2, <2>1
        <3>4. QED BY <3>1, <3>2, <3>3
    <2>2. CASE q = p
        <3>1. Prev(new, q) = Prev(tag, q)
            BY <1>6, <2>2 DEF Prev
        <3>2. /\ p \in Nat /\ tag[p].size \in Nat /\ Prev(tag, p) \in DOMAIN tag
              /\ tag[p].size = 0 <=> p = XaBase
            BY DEF Tags
        <3>3. new[q].size = tag[p].size /\ new[q].inUse = TRUE
            BY <1>6, <2>2
        <3>4. new[q] = [size |-> new[q].size, inUse |-> new[q].inUse]
            BY <1>6, <2>2, <3>3
        <3>5. QED BY <1>2, <2>2, <3>1, <3>2, <3>3, <3>4
    <2>3. CASE q # p /\ q # end
        <3>1. new[q] = tag[q] /\ q \in DOMAIN tag
            BY <1>2, <1>4, <2>3
        <3>2. Prev(new, q) = Prev(tag, q)
            BY <3>1 DEF Prev
        <3>3. QED BY <1>2, <3>1, <3>2 DEF Tags
    <2>4. QED BY <2>1, <2>2, <2>3
<1>8. Tags(new)
    BY <1>7 DEF Tags
<1>9. IsTopped(new, tag, p, n, end)
    BY <1>2, <1>4, <1>6 DEF IsTopped
<1>10. QED BY <1>1, <1>8, <1>9

LEMMA StackGrows ==
    ASSUME NEW C, NEW E, NEW tag, NEW live, NEW last, Tags(tag), Stacked(C, E, tag, live, last),
           live \subseteq BlObject, NEW sz \in Nat \ {0}, NEW end, end = E + BlockSize(sz),
           NEW new, new = Topped(tag, E, BlockSize(sz), end),
           NEW o \in BlObject, o.ptr = E, o.size = sz
    PROVE  Tags(new) /\ Stacked(C \cup {end}, end, new, live \cup {o}, E)
<1>1. E \in C /\ C \subseteq DOMAIN tag /\ E \in DOMAIN tag /\ E \in Nat /\ XaBase <= E /\ XaBase \in Nat
    BY DEF Stacked, Blocks, Tags, XaBase, BlBase
<1>2. PICK n \in Nat \ {0} : n = BlockSize(sz) /\ end = E + n /\ end \in Nat /\ E < end
    BY <1>1, BlockIs
<1>3. /\ Tags(new) /\ DOMAIN new = DOMAIN tag \cup {end} /\ end # E /\ end \in Nat
      /\ new[end].size = n /\ ~new[end].inUse
      /\ new[E].inUse /\ new[E].size = tag[E].size
      /\ \A q \in DOMAIN tag : q # end /\ q # E => new[q] = tag[q]
    <2>1. Tags(new) /\ IsTopped(new, tag, E, n, end) /\ end # E /\ end \in Nat
        BY <1>1, <1>2, TagsGrow
    <2>2. QED BY <2>1 DEF IsTopped
<1>4. \A q \in C : q \in Nat /\ q <= E /\ q < end /\ new[q].size = tag[q].size /\ (q # E => new[q] = tag[q])
    <2> SUFFICES ASSUME NEW q \in C
                 PROVE  q \in Nat /\ q <= E /\ q < end /\ new[q].size = tag[q].size /\ (q # E => new[q] = tag[q])
        OBVIOUS
    <2>1. q \in Nat /\ q <= E /\ q \in DOMAIN tag
        BY <1>1 DEF Stacked, Blocks, Tags
    <2>2. q < end
        BY <1>1, <1>2, <2>1
    <2>3. QED BY <1>3, <2>1, <2>2
<1>5. \A q \in C : Prev(new, q) = Prev(tag, q)
    BY <1>4 DEF Prev
<1>6. Prev(new, end) = E
    BY <1>1, <1>2, <1>3 DEF Prev
<1>7. Blocks(C \cup {end}, end, new)
    <2>1. ASSUME NEW p \in (C \cup {end}) \ {XaBase}
          PROVE  /\ Prev(new, p) \in C \cup {end}
                 /\ \A c \in C \cup {end} : c <= Prev(new, p) \/ p <= c
        <3>1. CASE p = end
            <4>1. \A c \in C \cup {end} : c <= E \/ end <= c
                BY <1>2, <1>4
            <4>2. QED BY <1>1, <1>6, <3>1, <4>1
        <3>2. CASE p # end
            <4>1. p \in C \ {XaBase} /\ Prev(new, p) = Prev(tag, p) /\ p < end /\ p \in Nat
                BY <1>4, <1>5, <3>2
            <4>2. Prev(tag, p) \in C /\ \A c \in C : c <= Prev(tag, p) \/ p <= c
                BY <4>1 DEF Stacked, Blocks
            <4>3. p <= end
                BY <1>2, <4>1
            <4>4. QED BY <4>1, <4>2, <4>3
        <3>3. QED BY <3>1, <3>2
    <2>2. \A p \in C \cup {end} : XaBase <= p /\ p <= end
        <3>1. \A p \in C : XaBase <= p /\ p <= end
            BY <1>1, <1>2, <1>4 DEF Stacked, Blocks
        <3>2. XaBase <= end /\ end <= end
            BY <1>1, <1>2
        <3>3. QED BY <3>1, <3>2
    <2>3. C \cup {end} \subseteq DOMAIN new /\ XaBase \in C
        BY <1>1, <1>3 DEF Stacked, Blocks
    <2>4. QED BY <2>1, <2>2, <2>3 DEF Blocks
<1>8. UsedByLive(C \cup {end}, new, live \cup {o})
    <2>1. \A q \in C \cup {end} : new[q].inUse => \E p \in live \cup {o} : p.ptr = q
        <3> SUFFICES ASSUME NEW q \in C \cup {end}, new[q].inUse
                     PROVE  \E p \in live \cup {o} : p.ptr = q
            OBVIOUS
        <3>1. q \in C
            BY <1>3
        <3>2. CASE q = E
            BY <3>2
        <3>3. CASE q # E
            <4>1. tag[q].inUse
                BY <1>4, <3>1, <3>3
            <4>2. \E p \in live : p.ptr = q
                BY <3>1, <4>1 DEF Stacked, UsedByLive
            <4>3. QED BY <4>2
        <3>4. QED BY <3>2, <3>3
    <2>2. ASSUME NEW p \in live
          PROVE  /\ p.ptr \in C /\ new[p.ptr].inUse /\ p.ptr # E
                 /\ After(p) \in C /\ new[After(p)].size = BlockSize(p.size)
        <3>1. /\ p.ptr \in C /\ tag[p.ptr].inUse /\ ~tag[E].inUse
              /\ After(p) \in C /\ tag[After(p)].size = BlockSize(p.size)
            BY DEF Stacked, UsedByLive, LastIs
        <3>2. QED BY <1>4, <3>1
    <2>3. After(o) = end
        BY DEF After
    <2>4. E \in C /\ new[E].inUse /\ new[After(o)].size = BlockSize(o.size)
        BY <1>1, <1>2, <1>3, <2>3
    <2>5. \A p, q \in live \cup {o} : p.ptr = q.ptr => p = q
        BY <2>2 DEF Stacked, UsedByLive
    <2>6. QED BY <2>1, <2>2, <2>3, <2>4, <2>5 DEF UsedByLive
<1>9. LastIs(E, C \cup {end}, end, new)
    BY <1>1, <1>2, <1>3, <1>6 DEF LastIs
<1>10. QED BY <1>3, <1>7, <1>8, <1>9 DEF Stacked

LEMMA XallocMallocKeeps ==
    ASSUME BlTypes, Xalloc, NEW sz \in BlSizes, XallocMalloc(sz)
    PROVE  BlTypes' /\ Xalloc'
<1>1. sz \in Nat \ {0} /\ BlockSize(sz) \in Nat /\ sz + 8 <= BlockSize(sz) /\ blPtr \in Nat /\ BlArena \in Nat
    BY SizesAre, BlockIs, BlAssumption DEF BlTypes
<1>2. PICK end \in Nat : end = blPtr + BlockSize(sz) /\ blPtr + sz <= end
    BY <1>1
<1>3. blPtr' = end /\ UNCHANGED <<blTop, blGot, blEob, blRemaining>>
    BY <1>2 DEF XallocMalloc, blSuper
<1>4. PICK C, E : /\ Stacked(C, E, blTag, blLive, blLast)
                  /\ blFailed => BlBase + BlArena <= blPtr
                  /\ ~blFailed => blPtr = E
    BY DEF Xalloc
<1>5. CASE blPtr + sz >= BlBase + BlArena
    <2>1. blFailed' = TRUE /\ UNCHANGED <<blTag, blLast, blLive, blTwice>>
        BY <1>5 DEF XallocMalloc
    <2>2. BlBase + BlArena <= end
        BY <1>1, <1>2, <1>5 DEF BlBase
    <2>3. BlTypes'
        BY <1>3, <2>1 DEF BlTypes
    <2>4. Xalloc'
        BY <1>3, <1>4, <2>1, <2>2 DEF Xalloc
    <2>5. QED BY <2>3, <2>4
<1>6. CASE ~(blPtr + sz >= BlBase + BlArena)
    <2>1. PICK new : new = Topped(blTag, blPtr, BlockSize(sz), end)
        OBVIOUS
    <2>2. blTag' = new /\ blLast' = blPtr /\ BlGives(blPtr, sz) /\ UNCHANGED blFailed
        BY <1>2, <1>6, <2>1 DEF XallocMalloc, Topped
    <2>3. ~blFailed /\ blPtr = E
        <3>1. ~(BlBase + BlArena <= blPtr)
            BY <1>1, <1>6 DEF BlBase
        <3>2. QED BY <1>4, <3>1
    <2>4. PICK o \in BlObject : o = [ptr |-> blPtr, size |-> sz] /\ o.ptr = E /\ o.size = sz
        BY <1>1, <2>3, BytesAre
    <2>5. blLive' = blLive \cup {o}
        BY <2>2, <2>4 DEF BlGives
    <2>6. PICK p \in Nat, e \in Nat : p = blPtr /\ e = p + sz
        BY <1>1
    <2>7. Free(p, e, blGot, blLive)
        <3> SUFFICES ASSUME NEW x \in p .. e - 1 PROVE x \in blGot /\ \A q \in blLive : x \notin BytesOf(q)
            BY DEF Free
        <3>1. x \in Nat /\ p <= x /\ x < e
            BY <2>6
        <3>2. x \in blGot
            <4>1. XaBase <= E
                BY <1>4 DEF Stacked, Blocks
            <4>2. BlBase <= x /\ x <= BlBase + BlArena - 1
                BY <1>1, <1>6, <2>3, <2>6, <3>1, <4>1 DEF XaBase, BlBase
            <4>3. QED BY <1>1, <3>1, <4>2 DEF Xalloc, BlBase
        <3>3. ASSUME NEW q \in blLive PROVE x \notin BytesOf(q)
            <4>1. q.ptr \in Nat /\ After(q) <= E /\ q.ptr + q.size <= After(q) /\ After(q) \in Nat /\ q.size \in Nat
                BY <1>4, LiveAreBelow DEF Xalloc, BlTypes, Owned, BlObject
            <4>2. QED BY <2>3, <2>6, <3>1, <4>1 DEF BytesOf
        <3>4. QED BY <3>2, <3>3
    <2>8. PICK G : G = blGot
        OBVIOUS
    <2>9. Owned(blLive', G) /\ ~blTwice'
        <3>1. p + sz <= e
            BY <1>1, <2>6
        <3>2. QED BY <1>1, <2>2, <2>6, <2>7, <2>8, <3>1, Given DEF BlTypes
    <2>10. BlTypes'
        BY <1>3, <2>8, <2>9 DEF BlTypes
    <2>11. Tags(new) /\ Stacked(C \cup {end}, end, new, blLive \cup {o}, E)
        <3>1. Tags(blTag) /\ blLive \subseteq BlObject
            BY DEF Xalloc, BlTypes, Owned
        <3>2. new = Topped(blTag, E, BlockSize(sz), end) /\ end = E + BlockSize(sz)
            BY <1>2, <2>1, <2>3
        <3>3. QED BY <1>1, <1>4, <2>4, <3>1, <3>2, StackGrows
    <2>12. Xalloc'
        BY <1>3, <2>2, <2>3, <2>5, <2>11 DEF Xalloc
    <2>13. QED BY <2>10, <2>12
<1>7. QED BY <1>5, <1>6

\* Where the way back from p ends: what it goes over is free.
EndsAt(r, C, tag, p) ==
    /\ r.end \in C /\ r.end <= p /\ ~tag[r.end].inUse
    /\ \A c \in C : r.end <= c /\ c <= p => ~tag[c].inUse
    /\ r.end = XaBase => r.last = BlNull
    /\ r.end # XaBase => r.last = Prev(tag, r.end) /\ tag[r.last].inUse

BackFrom(tag, f) ==
    [p \in DOMAIN tag |->
        IF Prev(tag, p) = p THEN [end |-> p, last |-> BlNull]
        ELSE IF tag[Prev(tag, p)].inUse THEN [end |-> p, last |-> Prev(tag, p)]
        ELSE f[Prev(tag, p)]]

\* The way back is well defined.
LEMMA BackExists == ASSUME NEW tag, Tags(tag) PROVE \E f : f = BackFrom(tag, f)
<1>1. PICK D : D = DOMAIN tag
    OBVIOUS
<1>2. PICK V : V = [end : Nat, last : Nat]
    OBVIOUS
<1>3. \A p \in D : p \in Nat /\ Prev(tag, p) \in D /\ Prev(tag, p) \in Nat /\ Prev(tag, p) <= p
    BY <1>1 DEF Tags, Prev
<1>4. PICK stop : stop = {p \in D : Prev(tag, p) = p \/ tag[Prev(tag, p)].inUse}
    OBVIOUS
<1>5. PICK first : first = [p \in stop |-> IF Prev(tag, p) = p THEN [end |-> p, last |-> BlNull]
                                          ELSE [end |-> p, last |-> Prev(tag, p)]]
    OBVIOUS
<1>6. PICK step : step = [v \in V |-> v]
    OBVIOUS
<1>7. PICK before : before = [p \in D |-> Prev(tag, p)]
    OBVIOUS
<1>8. Recursion(D, V, stop, first, step, before)
    <2>1. first \in [stop -> V]
        BY <1>2, <1>3, <1>4, <1>5 DEF BlNull
    <2>2. step \in [V -> V]
        BY <1>6
    <2>3. \A n \in D \ stop : before[n] \in D /\ before[n] < n
        BY <1>3, <1>4, <1>7
    <2>4. D \subseteq Nat
        BY <1>3
    <2>5. QED BY <2>1, <2>2, <2>3, <2>4 DEF Recursion
<1>9. PICK f : Follows(f, D, V, stop, first, step, before)
    BY <1>8, RecursionExists
<1>10. \A p \in D : f[p] \in V
    BY <1>9 DEF Follows
<1>11. ASSUME NEW p \in D
       PROVE  f[p] = IF Prev(tag, p) = p THEN [end |-> p, last |-> BlNull]
                     ELSE IF tag[Prev(tag, p)].inUse THEN [end |-> p, last |-> Prev(tag, p)]
                     ELSE f[Prev(tag, p)]
    <2>1. f[p] = Value(f, p, stop, first, step, before)
        BY <1>9 DEF Follows
    <2>2. CASE p \in stop
        BY <1>4, <1>5, <2>1, <2>2 DEF Value
    <2>3. CASE p \notin stop
        <3>1. f[p] = step[f[before[p]]] /\ before[p] = Prev(tag, p)
            BY <1>7, <2>1, <2>3 DEF Value
        <3>2. f[Prev(tag, p)] \in V
            BY <1>3, <1>10
        <3>3. QED BY <1>4, <1>6, <2>3, <3>1, <3>2
    <2>4. QED BY <2>2, <2>3
<1>12. f = BackFrom(tag, f)
    BY <1>1, <1>9, <1>11 DEF Follows, BackFrom
<1>13. QED BY <1>12

LEMMA RolledBackIs ==
    ASSUME NEW C, NEW E, NEW tag, Tags(tag), Blocks(C, E, tag), NEW p \in C, ~tag[p].inUse
    PROVE  EndsAt(RolledBack(tag, p), C, tag, p)
<1> DEFINE from == CHOOSE from : from = [q \in DOMAIN tag |->
              LET r == q - tag[q].size
              IN  IF r = q THEN [end |-> q, last |-> BlNull]
                  ELSE IF tag[r].inUse THEN [end |-> q, last |-> r]
                  ELSE from[r]]
<1>1. from = BackFrom(tag, from)
    BY BackExists DEF BackFrom, Prev
<1>2. RolledBack(tag, p) = from[p]
    BY DEF RolledBack
<1> HIDE DEF from
<1>3. C \subseteq DOMAIN tag /\ C \subseteq Nat
    BY DEF Blocks, Tags
<1> DEFINE S == {q \in C : ~tag[q].inUse => EndsAt(from[q], C, tag, q)}
<1>4. ASSUME NEW q \in C, \A m \in C : m < q => m \in S PROVE q \in S
    <2> SUFFICES ASSUME ~tag[q].inUse PROVE EndsAt(from[q], C, tag, q)
        OBVIOUS
    <2>1. PICK b : b = Prev(tag, q) /\ b = q - tag[q].size
        BY DEF Prev
    <2>2. from[q] = IF b = q THEN [end |-> q, last |-> BlNull]
                    ELSE IF tag[b].inUse THEN [end |-> q, last |-> b]
                    ELSE from[b]
        <3>1. BackFrom(tag, from)[q] = IF b = q THEN [end |-> q, last |-> BlNull]
                    ELSE IF tag[b].inUse THEN [end |-> q, last |-> b]
                    ELSE from[b]
            BY <1>3, <2>1 DEF BackFrom
        <3>2. QED BY <1>1, <3>1
    <2>3. q \in Nat /\ tag[q].size \in Nat /\ (tag[q].size = 0 <=> q = XaBase)
        BY <1>3 DEF Tags
    <2>4. b = q <=> q = XaBase
        BY <2>1, <2>3
    <2>5. \A c \in C : q <= c /\ c <= q => c = q
        BY <1>3
    <2>6. CASE b = q
        <3>1. from[q].end = q /\ from[q].last = BlNull
            BY <2>2, <2>6
        <3>2. QED BY <2>3, <2>4, <2>5, <2>6, <3>1 DEF EndsAt
    <2>7. CASE b # q /\ tag[b].inUse
        <3>1. from[q].end = q /\ from[q].last = b
            BY <2>2, <2>7
        <3>2. Prev(tag, from[q].end) = b
            BY <2>1, <3>1
        <3>3. from[q].end # XaBase /\ from[q].end <= q
            BY <2>3, <2>4, <2>7, <3>1
        <3>4. \A c \in C : from[q].end <= c /\ c <= q => ~tag[c].inUse
            BY <2>5, <3>1
        <3>5. QED BY <2>7, <3>1, <3>2, <3>3, <3>4 DEF EndsAt
    <2>8. CASE b # q /\ ~tag[b].inUse
        <3>1. from[q] = from[b]
            BY <2>2, <2>8
        <3>2. b \in C /\ \A c \in C : c <= b \/ q <= c
            BY <2>1, <2>4, <2>8 DEF Blocks
        <3>3. b < q /\ b \in Nat
            BY <1>3, <2>1, <2>3, <2>8, <3>2
        <3>4. EndsAt(from[b], C, tag, b)
            BY <1>4, <2>8, <3>2, <3>3
        <3>5. from[b].end \in C /\ from[b].end <= b /\ from[b].end \in Nat
            BY <1>3, <3>4 DEF EndsAt
        <3>6. from[b].end <= q
            BY <2>3, <3>3, <3>5
        <3>7. ASSUME NEW c \in C, from[b].end <= c, c <= q PROVE ~tag[c].inUse
            <4>1. c <= b \/ c = q
                BY <1>3, <3>2, <3>7
            <4>2. QED BY <3>4, <3>7, <4>1 DEF EndsAt
        <3>8. QED BY <3>1, <3>4, <3>6, <3>7 DEF EndsAt
    <2>9. QED BY <2>6, <2>7, <2>8
<1>5. C \subseteq S
    <2> HIDE DEF S
    <2>1. QED BY <1>3, <1>4, SmallerFirst
<1>6. QED BY <1>2, <1>5

WithFreed(tag, a) == [tag EXCEPT ![a].inUse = FALSE]

IsFreed(new, tag, a) ==
    /\ ~new[a].inUse /\ DOMAIN new = DOMAIN tag
    /\ \A q \in DOMAIN tag :
          /\ new[q].size = tag[q].size /\ Prev(new, q) = Prev(tag, q)
          /\ q # a => new[q] = tag[q]

\* A block that is no longer in use ...
LEMMA BlockFreed ==
    ASSUME NEW C, NEW E, NEW tag, Tags(tag), Blocks(C, E, tag), NEW a \in C,
           NEW new, new = WithFreed(tag, a)
    PROVE  Tags(new) /\ Blocks(C, E, new) /\ IsFreed(new, tag, a)
<1>1. a \in DOMAIN tag /\ tag[a] = [size |-> tag[a].size, inUse |-> tag[a].inUse]
    BY DEF Tags, Blocks
<1>2. DOMAIN new = DOMAIN tag /\ new[a] = [tag[a] EXCEPT !.inUse = FALSE]
      /\ \A q \in DOMAIN tag : q # a => new[q] = tag[q]
    BY <1>1 DEF WithFreed
<1>3. new[a] = [size |-> tag[a].size, inUse |-> FALSE]
    BY <1>1, <1>2
<1>4. \A q \in DOMAIN tag : new[q].size = tag[q].size
    BY <1>2, <1>3
<1>5. \A q \in DOMAIN tag : Prev(new, q) = Prev(tag, q)
    BY <1>4 DEF Prev
<1>6. ASSUME NEW q \in DOMAIN tag
      PROVE  new[q] = [size |-> new[q].size, inUse |-> new[q].inUse]
    <2>1. CASE q = a
        <3>1. new[q].size = tag[a].size /\ new[q].inUse = FALSE
            BY <1>3, <2>1
        <3>2. QED BY <1>3, <2>1, <3>1
    <2>2. CASE q # a
        BY <1>2, <2>2 DEF Tags
    <2>3. QED BY <2>1, <2>2
<1>7. Tags(new)
    BY <1>2, <1>4, <1>5, <1>6 DEF Tags
<1>8. Blocks(C, E, new)
    <2>1. C \subseteq DOMAIN tag
        BY DEF Blocks
    <2>2. \A p \in C : Prev(new, p) = Prev(tag, p)
        BY <1>5, <2>1
    <2>3. QED BY <1>2, <2>1, <2>2 DEF Blocks
<1>9. IsFreed(new, tag, a)
    BY <1>2, <1>3, <1>4, <1>5 DEF IsFreed
<1>10. QED BY <1>7, <1>8, <1>9

\* ... leaves the stack as it is, if it is not the last, ...
LEMMA MiddleFreed ==
    ASSUME NEW C, NEW E, NEW tag, NEW live, NEW last, Tags(tag), Stacked(C, E, tag, live, last),
           live \subseteq BlObject, NEW o \in live, o.ptr # last,
           NEW new, new = WithFreed(tag, o.ptr)
    PROVE  Tags(new) /\ Stacked(C, E, new, live \ {o}, last)
<1>1. o.ptr \in C /\ Blocks(C, E, tag) /\ C \subseteq DOMAIN tag /\ E \in C
    BY DEF Stacked, UsedByLive, Blocks
<1>2. /\ Tags(new) /\ Blocks(C, E, new) /\ ~new[o.ptr].inUse
      /\ \A q \in C : new[q].size = tag[q].size /\ Prev(new, q) = Prev(tag, q)
                          /\ (q # o.ptr => new[q] = tag[q])
    <2>1. PICK a \in C : a = o.ptr
        BY <1>1
    <2>2. Tags(new) /\ Blocks(C, E, new) /\ IsFreed(new, tag, a)
        BY <1>1, <2>1, BlockFreed
    <2>3. QED BY <1>1, <2>1, <2>2 DEF IsFreed
<1>3. UsedByLive(C, new, live \ {o})
    <2>1. ASSUME NEW q \in C, new[q].inUse PROVE \E p \in live \ {o} : p.ptr = q
        <3>1. q # o.ptr /\ tag[q].inUse
            BY <1>2, <2>1
        <3>2. PICK p \in live : p.ptr = q
            BY <3>1 DEF Stacked, UsedByLive
        <3>3. QED BY <3>1, <3>2
    <2>2. ASSUME NEW p \in live \ {o}
          PROVE  /\ p.ptr \in C /\ new[p.ptr].inUse
                 /\ After(p) \in C /\ new[After(p)].size = BlockSize(p.size)
        <3>1. /\ p.ptr \in C /\ tag[p.ptr].inUse /\ p.ptr # o.ptr
              /\ After(p) \in C /\ tag[After(p)].size = BlockSize(p.size)
            BY DEF Stacked, UsedByLive
        <3>2. QED BY <1>2, <3>1
    <2>3. \A p, q \in live \ {o} : p.ptr = q.ptr => p = q
        BY DEF Stacked, UsedByLive
    <2>4. QED BY <2>1, <2>2, <2>3 DEF UsedByLive
<1>4. LastIs(last, C, E, new)
    <2>1. E # XaBase /\ last \in C /\ o.ptr # E
        <3>1. o.ptr \in Nat /\ After(o) \in Nat /\ o.ptr < After(o) /\ After(o) <= E /\ E \in Nat
              /\ E # XaBase /\ last \in C
            BY LiveAreBelow
        <3>2. QED BY <3>1
    <2>2. QED BY <1>1, <1>2, <2>1 DEF Stacked, LastIs
<1>5. QED BY <1>2, <1>3, <1>4 DEF Stacked

\* ... and, if it is, ends it where the last block in use ends.
LEMMA LastFreed ==
    ASSUME NEW C, NEW E, NEW tag, NEW live, NEW last, Tags(tag), Stacked(C, E, tag, live, last),
           live \subseteq BlObject, NEW o \in live, o.ptr = last,
           NEW new, new = WithFreed(tag, o.ptr),
           NEW back, back = RolledBack(new, o.ptr)
    PROVE  /\ Tags(new) /\ back.end \in Nat
           /\ \E D : Stacked(D, back.end, new, live \ {o}, back.last)
<1>1. o.ptr \in C /\ Blocks(C, E, tag) /\ C \subseteq DOMAIN tag /\ E \in C /\ C \subseteq Nat
    BY DEF Stacked, UsedByLive, Blocks, Tags
<1>2. /\ Tags(new) /\ Blocks(C, E, new) /\ ~new[o.ptr].inUse /\ DOMAIN new = DOMAIN tag
      /\ \A q \in C : new[q].size = tag[q].size /\ Prev(new, q) = Prev(tag, q)
                          /\ (q # o.ptr => new[q] = tag[q])
    <2>1. PICK a \in C : a = o.ptr
        BY <1>1
    <2>2. Tags(new) /\ Blocks(C, E, new) /\ IsFreed(new, tag, a)
        BY <1>1, <2>1, BlockFreed
    <2>3. QED BY <1>1, <2>1, <2>2 DEF IsFreed
<1>3. EndsAt(back, C, new, o.ptr)
    BY <1>1, <1>2, RolledBackIs
<1>4. PICK D : D = {c \in C : c <= back.end}
    OBVIOUS
<1>5. back.end \in C /\ back.end \in D /\ back.end \in Nat /\ back.end <= o.ptr
    BY <1>1, <1>3, <1>4 DEF EndsAt
<1>6. Blocks(D, back.end, new)
    <2>1. XaBase \in D
        BY <1>1, <1>4, <1>5 DEF Blocks
    <2>2. ASSUME NEW p \in D \ {XaBase}
          PROVE  Prev(new, p) \in D /\ \A c \in D : c <= Prev(new, p) \/ p <= c
        <3>1. p \in C \ {XaBase} /\ p <= back.end /\ p \in Nat
            BY <1>1, <1>4, <2>2
        <3>2. Prev(new, p) \in C /\ \A c \in C : c <= Prev(new, p) \/ p <= c
            BY <1>2, <3>1 DEF Blocks
        <3>3. Prev(new, p) <= p /\ Prev(new, p) \in Nat
            <4>1. new[p].size \in Nat
                BY <1>1, <1>2, <3>1 DEF Tags
            <4>2. QED BY <1>1, <3>1, <3>2, <4>1 DEF Prev
        <3>4. Prev(new, p) <= back.end
            BY <1>5, <3>1, <3>3
        <3>5. QED BY <1>4, <3>2, <3>4
    <2>3. \A p \in D : XaBase <= p /\ p <= back.end
        BY <1>1, <1>4 DEF Blocks
    <2>4. D \subseteq DOMAIN new
        BY <1>1, <1>2, <1>4
    <2>5. QED BY <1>5, <2>1, <2>2, <2>3, <2>4 DEF Blocks
<1>7. \A p \in live \ {o} : p.ptr \in C /\ p.ptr # o.ptr /\ new[p.ptr].inUse /\ p.ptr < o.ptr /\ p.ptr \in Nat
                          /\ p.ptr < back.end
    <2> SUFFICES ASSUME NEW p \in live \ {o}
                 PROVE  p.ptr \in C /\ p.ptr # o.ptr /\ new[p.ptr].inUse /\ p.ptr < o.ptr /\ p.ptr \in Nat
                          /\ p.ptr < back.end
        OBVIOUS
    <2>1. p.ptr \in C /\ tag[p.ptr].inUse /\ p.ptr # o.ptr
        BY DEF Stacked, UsedByLive
    <2>2. new[p.ptr].inUse
        BY <1>2, <2>1
    <2>3. p.ptr \in Nat /\ p.ptr <= last /\ o.ptr \in Nat
        BY <1>1, <2>1, LiveAreBelow
    <2>4. p.ptr < o.ptr
        BY <2>1, <2>3
    <2>5. ~(back.end <= p.ptr)
        BY <1>3, <2>1, <2>2, <2>3, <2>4 DEF EndsAt
    <2>6. QED BY <1>5, <2>1, <2>2, <2>3, <2>4, <2>5
<1>8. UsedByLive(D, new, live \ {o})
    <2>1. ASSUME NEW q \in D, new[q].inUse PROVE \E p \in live \ {o} : p.ptr = q
        <3>1. q \in C /\ q # o.ptr /\ tag[q].inUse
            BY <1>2, <1>4, <2>1
        <3>2. PICK p \in live : p.ptr = q
            BY <3>1 DEF Stacked, UsedByLive
        <3>3. QED BY <3>1, <3>2
    <2>2. ASSUME NEW p \in live \ {o}
          PROVE  /\ p.ptr \in D /\ new[p.ptr].inUse
                 /\ After(p) \in D /\ new[After(p)].size = BlockSize(p.size)
        <3>1. After(p) \in C /\ tag[After(p)].size = BlockSize(p.size)
            BY DEF Stacked, UsedByLive
        <3>2. new[After(p)].size = BlockSize(p.size)
            BY <1>2, <3>1
        <3>3. After(p) # XaBase /\ Prev(tag, After(p)) = p.ptr /\ After(p) \in Nat
            BY LiveAreBelow
        \* the end of the stack is a block's end, too
        <3>4. back.end <= p.ptr \/ After(p) <= back.end
            BY <1>1, <1>5, <3>1, <3>3 DEF Blocks
        <3>5. p.ptr \in C /\ new[p.ptr].inUse /\ p.ptr < back.end /\ p.ptr \in Nat
            BY <1>7
        <3>6. After(p) <= back.end /\ p.ptr <= back.end
            BY <1>5, <3>3, <3>4, <3>5
        <3>7. QED BY <1>4, <3>1, <3>2, <3>5, <3>6
    <2>3. \A p, q \in live \ {o} : p.ptr = q.ptr => p = q
        BY DEF Stacked, UsedByLive
    <2>4. QED BY <2>1, <2>2, <2>3 DEF UsedByLive
<1>9. LastIs(back.last, D, back.end, new)
    BY <1>3 DEF EndsAt, LastIs
<1>10. QED BY <1>2, <1>5, <1>6, <1>8, <1>9 DEF Stacked

LEMMA XallocFreeKeeps ==
    ASSUME BlTypes, Xalloc, NEW o \in blLive, XallocFree(o)
    PROVE  BlTypes' /\ Xalloc'
<1>1. PICK C, E : /\ Stacked(C, E, blTag, blLive, blLast)
                  /\ blFailed => BlBase + BlArena <= blPtr
                  /\ ~blFailed => blPtr = E
    BY DEF Xalloc
<1>2. PICK new : new = WithFreed(blTag, o.ptr)
    OBVIOUS
<1>3. PICK back : back = RolledBack(new, o.ptr)
    OBVIOUS
<1>4. /\ blTag' = new /\ blLive' = blLive \ {o}
      /\ UNCHANGED <<blTop, blGot, blEob, blRemaining, blTwice>>
      /\ o.ptr = blLast => blPtr' = back.end /\ blLast' = back.last /\ blFailed' = FALSE
      /\ o.ptr # blLast => UNCHANGED <<blPtr, blLast, blFailed>>
    BY <1>2, <1>3 DEF XallocFree, blSuper, WithFreed
<1>5. Tags(blTag) /\ blLive \subseteq BlObject
    BY DEF Xalloc, BlTypes, Owned
<1>6. CASE o.ptr = blLast
    <2>1. PICK r, n : r = blLast /\ n = back.end
        OBVIOUS
    <2>2. Tags(new) /\ n \in Nat /\ \E D : Stacked(D, n, new, blLive \ {o}, back.last)
        <3>1. Tags(new) /\ back.end \in Nat /\ \E D : Stacked(D, back.end, new, blLive \ {o}, back.last)
            BY <1>1, <1>2, <1>3, <1>5, <1>6, LastFreed
        <3>2. QED BY <2>1, <3>1
    <2>3. BlTypes'
        BY <1>4, <1>6, <2>1, <2>2 DEF BlTypes, Owned
    <2>4. Xalloc'
        BY <1>4, <1>6, <2>1, <2>2 DEF Xalloc
    <2>5. QED BY <2>3, <2>4
<1>7. CASE o.ptr # blLast
    <2>1. Tags(new) /\ Stacked(C, E, new, blLive \ {o}, blLast)
        BY <1>1, <1>2, <1>5, <1>7, MiddleFreed
    <2>2. BlTypes'
        BY <1>4, <1>7 DEF BlTypes, Owned
    <2>3. Xalloc'
        BY <1>1, <1>4, <1>7, <2>1 DEF Xalloc
    <2>4. QED BY <2>2, <2>3
<1>8. QED BY <1>6, <1>7

-----------------------------------------------------------------------------
BlInv ==
    /\ BlTypes /\ blKind \in {"chunk", "slop", "xalloc"}
    /\ blKind = "chunk" => ChunkRoom
    /\ blKind = "slop" => SlopRoom
    /\ blKind = "xalloc" => Xalloc

LEMMA BlInitGood == BlInit => BlInv
<1> SUFFICES ASSUME BlInit PROVE BlInv
    OBVIOUS
<1>1. /\ blKind \in {"chunk", "slop", "xalloc"} /\ blEob = 0 /\ blRemaining = 0 /\ blLast = 0
      /\ blLive = {} /\ blTwice = FALSE /\ blFailed = FALSE /\ BlArena \in Nat
    BY BlAssumption DEF BlInit, BlNull
<1>2. CASE blKind # "xalloc"
    <2>1. blTop = 8 /\ blPtr = 0 /\ blGot = {}
        BY <1>2 DEF BlInit, BlBase, BlNull
    <2>2. BlTypes /\ ChunkRoom /\ SlopRoom
        BY <1>1, <2>1 DEF BlTypes, ChunkRoom, SlopRoom, Owned, Free, BlBase, BlNull
    <2>3. QED BY <1>1, <1>2, <2>2 DEF BlInv
<1>3. CASE blKind = "xalloc"
    <2>1. blTop = 8 + BlArena /\ blPtr = XaBase /\ blGot = BlBase .. BlBase + BlArena - 1 /\ XaBase = 16
        BY <1>1, <1>3 DEF BlInit, BlBase, XaBase
    <2>2. BlTypes
        BY <1>1, <2>1 DEF BlTypes, Owned, BlBase
    <2>3. DOMAIN blTag = {XaBase} /\ blTag[XaBase] = [size |-> 0, inUse |-> FALSE]
        BY <2>1 DEF BlInit
    <2>4. Prev(blTag, XaBase) = XaBase
        BY <2>1, <2>3 DEF Prev
    <2>5. Tags(blTag)
        <3>1. /\ XaBase \in Nat /\ blTag[XaBase].size = 0 /\ blTag[XaBase].inUse = FALSE
              /\ blTag[XaBase] = [size |-> blTag[XaBase].size, inUse |-> blTag[XaBase].inUse]
            BY <2>1, <2>3
        <3>2. ASSUME NEW p \in DOMAIN blTag
              PROVE  /\ p \in Nat /\ blTag[p].size \in Nat
                     /\ blTag[p] = [size |-> blTag[p].size, inUse |-> blTag[p].inUse]
                     /\ Prev(blTag, p) \in DOMAIN blTag
                     /\ blTag[p].size = 0 <=> p = XaBase
            <4>1. p = XaBase
                BY <2>3
            <4>2. p \in Nat /\ blTag[p].size = 0 /\ blTag[p].inUse = FALSE
                  /\ blTag[p] = [size |-> blTag[p].size, inUse |-> blTag[p].inUse]
                BY <3>1, <4>1
            <4>3. Prev(blTag, p) \in DOMAIN blTag
                BY <2>3, <2>4, <4>1
            <4>4. QED BY <4>1, <4>2, <4>3
        <3>3. QED BY <3>2 DEF Tags
    <2>6. Stacked({XaBase}, XaBase, blTag, blLive, blLast)
        <3>1. Blocks({XaBase}, XaBase, blTag)
            BY <2>1, <2>3 DEF Blocks
        <3>2. UsedByLive({XaBase}, blTag, blLive)
            BY <1>1, <2>3 DEF UsedByLive
        <3>3. LastIs(blLast, {XaBase}, XaBase, blTag)
            BY <1>1, <2>3 DEF LastIs, BlNull
        <3>4. QED BY <3>1, <3>2, <3>3 DEF Stacked
    <2>7. Xalloc
        BY <1>1, <2>1, <2>5, <2>6 DEF Xalloc
    <2>8. QED BY <1>1, <1>3, <2>2, <2>7 DEF BlInv
<1>4. QED BY <1>2, <1>3

LEMMA BlStepGood == BlInv /\ [BlNext]_blVars => BlInv'
<1> SUFFICES ASSUME BlInv, [BlNext]_blVars PROVE BlInv'
    OBVIOUS
<1>1. CASE BlNext
    <2>0. blKind' = blKind
        BY <1>1 DEF BlNext
    <2>1. ASSUME NEW sz \in BlSizes, blKind = "chunk", ChunkMalloc(sz) PROVE BlInv'
        BY <2>0, <2>1, ChunkKeeps DEF BlInv
    <2>2. ASSUME NEW sz \in BlSizes, blKind = "slop", SlopMalloc(sz) PROVE BlInv'
        BY <2>0, <2>2, SlopKeeps DEF BlInv
    <2>3. ASSUME NEW sz \in BlSizes, blKind = "xalloc", XallocMalloc(sz) PROVE BlInv'
        BY <2>0, <2>3, XallocMallocKeeps DEF BlInv
    <2>4. ASSUME NEW o \in blLive, blKind = "xalloc", XallocFree(o) PROVE BlInv'
        BY <2>0, <2>4, XallocFreeKeeps DEF BlInv
    <2>5. CASE BlClear
        BY <2>0, <2>5, ClearKeeps DEF BlInv, BlClear
    <2>6. CASE SuperServes
        <3>1. Xalloc => Xalloc'
            BY <2>6 DEF SuperServes, blXalloc, Xalloc
        <3>2. QED BY <2>0, <2>6, <3>1, ServesKeeps DEF BlInv
    <2>7. QED BY <1>1, <2>1, <2>2, <2>3, <2>4, <2>5, <2>6 DEF BlNext
<1>2. CASE UNCHANGED blVars
    BY <1>2 DEF blVars, blSuper, blXalloc, BlInv, BlTypes, ChunkRoom, SlopRoom, SlopEnd, Xalloc
<1>3. QED BY <1>1, <1>2

LEMMA FreeIsNobodys == ASSUME NEW p, NEW e, Free(p, e, blGot, blLive) PROVE p .. e - 1 \subseteq blGot \ LiveBytes
BY DEF Free, LiveBytes

LEMMA BlInvSuffices == BlInv => RoomStaysKnown
<1> SUFFICES ASSUME BlInv PROVE RoomStaysKnown
    OBVIOUS
<1>1. ~blTwice
    BY DEF BlInv, BlTypes
<1>2. blKind = "chunk" => blPtr .. blEob - 1 \subseteq blGot \ LiveBytes
    BY FreeIsNobodys DEF BlInv, ChunkRoom
<1>3. blKind = "slop" /\ blPtr # BlNull =>
            blPtr .. blPtr + blRemaining + BlSlop - 1 \subseteq blGot \ LiveBytes
    <2>1. SUFFICES ASSUME blKind = "slop", blPtr # BlNull
                   PROVE  blPtr .. blPtr + blRemaining + BlSlop - 1 \subseteq blGot \ LiveBytes
        OBVIOUS
    <2>2. Free(blPtr, SlopEnd, blGot, blLive)
        BY <2>1 DEF BlInv, SlopRoom
    <2>3. Free(blPtr, blPtr + blRemaining + BlSlop, blGot, blLive)
        BY <2>2 DEF SlopEnd
    <2>4. PICK e : e = blPtr + blRemaining + BlSlop
        OBVIOUS
    <2>5. blPtr .. e - 1 \subseteq blGot \ LiveBytes
        BY <2>3, <2>4, FreeIsNobodys
    <2>6. e - 1 = blPtr + blRemaining + BlSlop - 1
        BY <2>4, BlAssumption DEF BlInv, BlTypes
    <2>7. QED BY <2>5, <2>6
<1>4. ASSUME blKind = "xalloc"
      PROVE  /\ \A o \in blLive :
                  /\ BytesOf(o) \subseteq blGot /\ o.ptr <= blLast
                  /\ blTag[o.ptr].inUse
                  /\ blTag[o.ptr + BlockSize(o.size)].size = BlockSize(o.size)
             /\ blLast # BlNull => \E o \in blLive :
                  o.ptr = blLast /\ (~blFailed => blPtr = o.ptr + BlockSize(o.size))
             /\ blLast = BlNull /\ ~blFailed => blPtr = BlBase + 8
    <2>1. Xalloc /\ Owned(blLive, blGot) /\ Tags(blTag) /\ blLive \subseteq BlObject
        BY <1>4 DEF BlInv, BlTypes, Xalloc, Owned
    <2>2. PICK C, E : /\ Stacked(C, E, blTag, blLive, blLast)
                      /\ ~blFailed => blPtr = E
        BY <2>1 DEF Xalloc
    <2>3. ASSUME NEW o \in blLive
          PROVE  /\ BytesOf(o) \subseteq blGot /\ o.ptr <= blLast
                 /\ blTag[o.ptr].inUse
                 /\ blTag[o.ptr + BlockSize(o.size)].size = BlockSize(o.size)
        <3>1. o.ptr <= blLast
            BY <2>1, <2>2, LiveAreBelow
        <3>2. QED BY <2>1, <2>2, <3>1 DEF Owned, Stacked, UsedByLive, After
    <2>4. E # XaBase => blLast \in Nat /\ blLast # BlNull
        <3>1. SUFFICES ASSUME E # XaBase PROVE blLast \in Nat /\ blLast # BlNull
            OBVIOUS
        <3>2. blLast \in C /\ XaBase <= blLast /\ blLast \in Nat
            BY <2>1, <2>2, <3>1 DEF Stacked, LastIs, Blocks, Tags
        <3>3. QED BY <3>2 DEF XaBase, BlBase, BlNull
    <2>5. ASSUME blLast # BlNull
          PROVE  \E o \in blLive : o.ptr = blLast /\ (~blFailed => blPtr = o.ptr + BlockSize(o.size))
        <3>1. E # XaBase
            BY <2>2, <2>5 DEF Stacked, LastIs
        <3>2. blLast \in C /\ blTag[blLast].inUse /\ blLast = Prev(blTag, E) /\ E \in C
            BY <2>2, <3>1 DEF Stacked, LastIs, Blocks
        <3>3. PICK o \in blLive : o.ptr = blLast
            BY <2>2, <3>2 DEF Stacked, UsedByLive
        <3>4. o.ptr < After(o) /\ After(o) <= E /\ o.ptr \in Nat /\ After(o) \in Nat /\ E \in Nat
            BY <2>1, <2>2, LiveAreBelow
        <3>5. After(o) \in C
            BY <2>2 DEF Stacked, UsedByLive
        <3>6. After(o) <= blLast \/ E <= After(o)
            BY <2>2, <3>1, <3>2, <3>5 DEF Stacked, Blocks
        <3>7. After(o) = E
            BY <3>3, <3>4, <3>6
        <3>8. QED BY <2>2, <3>3, <3>7 DEF After
    <2>6. blLast = BlNull /\ ~blFailed => blPtr = BlBase + 8
        BY <2>2, <2>4 DEF XaBase
    <2>7. QED BY <2>3, <2>5, <2>6
<1>5. QED BY <1>1, <1>2, <1>3, <1>4 DEF RoomStaysKnown

\* Whatever the sizes, the chunks and the arena, ChunkHeap, SlopHeap and XallocHeap
\* give no byte out twice and know what room is left, though somebody else takes
\* memory from the super heap in between.
THEOREM RoomIsKnown == BlSpec => []RoomStaysKnown
<1>1. QED BY BlInitGood, BlStepGood, BlInvSuffices, PTL DEF BlSpec

-----------------------------------------------------------------------------
(* ObstackHeap *)

Eights == {8 * k : k \in Nat}

ObObject == [at : Nat, size : Nat \ {0}]

\* Chunks begin and end at multiples of eight.
ObChunk == {c \in [at : Eights, limit : Eights] : c.at + ChunkHeader <= c.limit}

ChunksApart(c, d) == c.limit <= d.at \/ d.limit <= c.at

\* A chain of chunks that do not overlap.
Chain(chunks) ==
    /\ chunks \in Seq(ObChunk) /\ chunks # <<>>
    /\ \A k, l \in 1 .. Len(chunks) : k # l => ChunksApart(chunks[k], chunks[l])

\* Two objects of the chain follow each other: in one chunk, or from one to a later one.
Follow(chunks, o, p) ==
    \A k, l \in 1 .. Len(chunks) :
        Inside(chunks[k], o) /\ Inside(chunks[l], p) =>
            k <= l /\ (k = l => o.at + o.size <= p.at)

\* The objects of a chain are a stack, which ends below base.
Stack(chunks, held, base) ==
    /\ Chain(chunks) /\ held \in Seq(ObObject) /\ base \in Nat
    /\ \A i \in 1 .. Len(held) : \E k \in 1 .. Len(chunks) : Inside(chunks[k], held[i])
    /\ \A i, j \in 1 .. Len(held) : i < j => Follow(chunks, held[i], held[j])
    /\ \A i \in 1 .. Len(held) :
          Inside(chunks[Len(chunks)], held[i]) => held[i].at + held[i].size <= base

\* What grows is behind the stack, in the last chunk.
Growing(chunk, base, upto) ==
    /\ base \in Nat /\ upto \in Nat
    /\ chunk.at + ChunkHeader <= base /\ base <= upto /\ upto <= chunk.limit

ObTypes ==
    /\ obChunks \in Seq(ObChunk) /\ obLost \subseteq ObChunk
    /\ obBase \in Nat /\ obNext \in Nat

ObInv ==
    /\ ObTypes
    /\ obChunks # <<>> =>
            /\ Stack(obChunks, obHeld, obBase)
            /\ Growing(obChunks[Len(obChunks)], obBase, obNext)
            /\ obGrown = obNext - obBase

-----------------------------------------------------------------------------
LEMMA ObAlignIs ==
    ASSUME NEW n \in Nat
    PROVE  /\ ObAlign(n) \in Eights /\ ObAlign(n) \in Nat /\ n <= ObAlign(n)
           /\ \A e \in Eights : n <= e => ObAlign(n) <= e
<1> PICK q \in Nat : q = (n + 7) \div 8
    OBVIOUS
<1>1. 8 * q <= n + 7 /\ n + 7 < 8 * q + 8
    OBVIOUS
<1>2. ObAlign(n) = 8 * q
    BY DEF ObAlign
<1>3. ASSUME NEW e \in Eights, n <= e PROVE 8 * q <= e
    <2>1. PICK j \in Nat : e = 8 * j
        BY DEF Eights
    <2>2. q <= j
        BY <1>1, <1>3, <2>1
    <2>3. QED BY <2>1, <2>2
<1>4. 8 * q \in Eights
    BY DEF Eights
<1>5. n <= 8 * q
    BY <1>1
<1>6. QED BY <1>2, <1>3, <1>4, <1>5

LEMMA EightsAdd == \A x, y \in Eights : x + y \in Eights
<1> SUFFICES ASSUME NEW x \in Eights, NEW y \in Eights PROVE x + y \in Eights
    OBVIOUS
<1>1. PICK j \in Nat : x = 8 * j
    BY DEF Eights
<1>2. PICK k \in Nat : y = 8 * k
    BY DEF Eights
<1>3. x + y = 8 * (j + k) /\ j + k \in Nat
    BY <1>1, <1>2
<1>4. QED BY <1>3 DEF Eights

LEMMA EightsAre == Eights \subseteq Nat /\ 8 \in Eights
<1>1. 8 = 8 * 1
    OBVIOUS
<1>2. QED BY <1>1 DEF Eights

\* A new chunk has room for what it is made for, and overlaps no other.
LEMMA MakeChunkIs ==
    ASSUME NEW others \in Seq(ObChunk), obLost \subseteq ObChunk, NEW sz \in Nat,
           NEW c \in MakeChunk(others, sz)
    PROVE  /\ c \in ObChunk /\ c.at + ChunkHeader + sz <= c.limit
           /\ \A k \in 1 .. Len(others) : ChunksApart(c, others[k])
<1> DEFINE taken == ToSet(others) \cup obLost
           whole == ChunkHeader + ChunkFor(sz)
           fits(at) == /\ at + whole <= ObEnd
                       /\ \A d \in taken : at + whole <= d.at \/ d.limit <= at
           places == {at \in {8} \cup {d.limit : d \in taken} : fits(at)}
<1>1. PICK a \in places : c = [at |-> a, limit |-> a + whole]
    BY DEF MakeChunk
<1>2. \A k \in 1 .. Len(others) : others[k] \in taken
    BY DEF ToSet
<1>3. taken \subseteq ObChunk
    BY DEF ToSet
<1>4. ChunkFor(sz) \in Eights /\ sz <= ChunkFor(sz)
    <2> DEFINE n == IF sz > ObChunkSize - ChunkHeader THEN sz ELSE ObChunkSize - ChunkHeader
    <2>1. n \in Nat /\ sz <= n
        BY ObAssumption DEF ChunkHeader
    <2>2. ChunkFor(sz) = ObAlign(n)
        BY DEF ChunkFor
    <2> HIDE DEF n
    <2>3. ObAlign(n) \in Eights /\ n <= ObAlign(n) /\ ObAlign(n) \in Nat
        BY <2>1, ObAlignIs
    <2>4. QED BY <2>1, <2>2, <2>3
<1>5. whole \in Eights
    BY <1>4, EightsAdd, EightsAre DEF ChunkHeader
<1>6. a \in Eights /\ fits(a)
    BY <1>1, <1>3, EightsAre DEF ObChunk
<1>7. a + whole \in Eights /\ a \in Nat /\ whole \in Nat /\ ChunkFor(sz) \in Nat
    BY <1>4, <1>5, <1>6, EightsAdd, EightsAre
<1>8. c \in ObChunk /\ c.at + ChunkHeader + sz <= c.limit
    BY <1>1, <1>4, <1>6, <1>7 DEF ObChunk, ChunkHeader
<1>9. \A k \in 1 .. Len(others) : ChunksApart(c, others[k])
    BY <1>1, <1>2, <1>6 DEF ChunksApart
<1>10. QED BY <1>8, <1>9

\* A chunk's numbers.
LEMMA ChunkIs ==
    ASSUME NEW c \in ObChunk
    PROVE  c.at \in Nat /\ c.limit \in Nat /\ c.limit \in Eights /\ c.at + ChunkHeader <= c.limit
BY EightsAre DEF ObChunk

LEMMA ObjectIs == \A o \in ObObject : o.at \in Nat /\ o.size \in Nat /\ o.size > 0
BY DEF ObObject

\* Where an object is, it is in no other chunk.
LEMMA InOneChunk ==
    ASSUME NEW c \in ObChunk, NEW d \in ObChunk, ChunksApart(c, d),
           NEW o \in ObObject, Inside(c, o)
    PROVE  ~ Inside(d, o)
BY ChunkIs, ObjectIs DEF ChunksApart, Inside, ChunkHeader

LEMMA InApartChunks ==
    ASSUME NEW c \in ObChunk, NEW d \in ObChunk, ChunksApart(c, d),
           NEW o \in [at : Nat, size : Nat], NEW p \in [at : Nat, size : Nat],
           Inside(c, o), Inside(d, p)
    PROVE  o.at + o.size <= p.at \/ p.at + p.size <= o.at
<1>1. /\ c.at \in Nat /\ c.limit \in Nat /\ d.at \in Nat /\ d.limit \in Nat
      /\ o.at \in Nat /\ o.size \in Nat /\ p.at \in Nat /\ p.size \in Nat
    BY ChunkIs
<1>2. QED BY <1>1 DEF ChunksApart, Inside, ChunkHeader

-----------------------------------------------------------------------------
\* An object on top of the stack.
LEMMA Stacks ==
    ASSUME NEW chunks, NEW held, NEW base, Stack(chunks, held, base),
           NEW o \in ObObject, Inside(chunks[Len(chunks)], o), base <= o.at,
           NEW end \in Nat, o.at + o.size <= end
    PROVE  Stack(chunks, Append(held, o), end)
<1> DEFINE new == Append(held, o)
           n == Len(chunks)
<1>1. /\ new \in Seq(ObObject) /\ Len(new) = Len(held) + 1 /\ new[Len(held) + 1] = o
      /\ \A i \in 1 .. Len(held) : new[i] = held[i]
    BY AppendProperties DEF Stack
<1> HIDE DEF new
<1>2. n \in 1 .. Len(chunks) /\ Len(held) \in Nat /\ chunks \in Seq(ObChunk) /\ held \in Seq(ObObject)
    BY DEF Stack, Chain
<1>3. ASSUME NEW i \in 1 .. Len(new) PROVE i \in 1 .. Len(held) \/ i = Len(held) + 1
    BY <1>1, <1>2
<1>4. ASSUME NEW i \in 1 .. Len(new) PROVE \E k \in 1 .. Len(chunks) : Inside(chunks[k], new[i])
    BY <1>1, <1>2, <1>3 DEF Stack
<1>5. ASSUME NEW i \in 1 .. Len(held) PROVE Follow(chunks, held[i], o)
    <2> SUFFICES ASSUME NEW k \in 1 .. n, NEW l \in 1 .. n,
                        Inside(chunks[k], held[i]), Inside(chunks[l], o)
                 PROVE  k <= l /\ (k = l => held[i].at + held[i].size <= o.at)
        BY DEF Follow
    <2>1. l = n
        <3> SUFFICES ASSUME l # n PROVE FALSE
            OBVIOUS
        <3>1. ChunksApart(chunks[n], chunks[l]) /\ chunks[n] \in ObChunk /\ chunks[l] \in ObChunk
            BY <1>2 DEF Stack, Chain
        <3>2. QED BY <3>1, InOneChunk
    <2>2. k = n => held[i].at + held[i].size <= base
        BY DEF Stack
    <2>3. held[i] \in ObObject /\ base \in Nat
        BY <1>2 DEF Stack
    <2>4. held[i].at \in Nat /\ held[i].size \in Nat /\ o.at \in Nat
        BY <2>3, ObjectIs
    <2>5. QED BY <1>2, <2>1, <2>2, <2>3, <2>4
<1>6. ASSUME NEW i \in 1 .. Len(new), NEW j \in 1 .. Len(new), i < j
      PROVE  Follow(chunks, new[i], new[j])
    <2>1. i \in 1 .. Len(held)
        BY <1>1, <1>2, <1>6
    <2>2. CASE j \in 1 .. Len(held)
        BY <1>1, <1>6, <2>1, <2>2 DEF Stack
    <2>3. CASE j = Len(held) + 1
        BY <1>1, <1>5, <2>1, <2>3
    <2>4. QED BY <1>3, <2>2, <2>3
<1>7. ASSUME NEW i \in 1 .. Len(new), Inside(chunks[n], new[i])
      PROVE  new[i].at + new[i].size <= end
    <2>1. CASE i \in 1 .. Len(held)
        <3>1. held[i].at + held[i].size <= base /\ held[i] \in ObObject /\ base \in Nat
            BY <1>1, <1>2, <1>7, <2>1 DEF Stack
        <3>2. held[i].at \in Nat /\ held[i].size \in Nat /\ o.at \in Nat /\ o.size \in Nat
            BY <3>1, ObjectIs
        <3>3. held[i].at + held[i].size <= end
            BY <3>1, <3>2
        <3>4. QED BY <1>1, <2>1, <3>3
    <2>2. CASE i = Len(held) + 1
        BY <1>1, <2>2
    <2>3. QED BY <1>3, <2>1, <2>2
<1>8. QED BY <1>1, <1>4, <1>6, <1>7 DEF Stack, new

\* A new chunk at the end of the chain: nothing is in it.
LEMMA Chains ==
    ASSUME NEW chunks, NEW held, NEW base, Stack(chunks, held, base),
           NEW c \in ObChunk, \A k \in 1 .. Len(chunks) : ChunksApart(c, chunks[k]),
           NEW bottom \in Nat
    PROVE  /\ Stack(Append(chunks, c), held, bottom)
           /\ Append(chunks, c)[Len(Append(chunks, c))] = c
<1> DEFINE new == Append(chunks, c)
           n == Len(chunks)
<1>1. /\ new \in Seq(ObChunk) /\ new # <<>> /\ Len(new) = n + 1 /\ new[n + 1] = c
      /\ \A k \in 1 .. n : new[k] = chunks[k]
    BY AppendProperties DEF Stack, Chain
<1> HIDE DEF new
<1>2. n \in Nat /\ chunks \in Seq(ObChunk) /\ held \in Seq(ObObject)
    BY DEF Stack, Chain
<1>3. \A k \in 1 .. Len(new) : k \in 1 .. n \/ k = n + 1
    BY <1>1, <1>2
<1>4. ASSUME NEW k \in 1 .. Len(new), NEW l \in 1 .. Len(new), k # l
      PROVE  ChunksApart(new[k], new[l])
    <2>1. CASE k \in 1 .. n /\ l \in 1 .. n
        BY <1>1, <1>4, <2>1 DEF Stack, Chain
    <2>2. CASE k = n + 1
        <3>1. l \in 1 .. n
            BY <1>3, <1>4, <2>2
        <3>2. QED BY <1>1, <2>2, <3>1
    <2>3. CASE l = n + 1
        <3>1. k \in 1 .. n
            BY <1>3, <1>4, <2>3
        <3>2. QED BY <1>1, <2>3, <3>1 DEF ChunksApart
    <2>4. QED BY <1>3, <2>1, <2>2, <2>3
<1>5. ASSUME NEW i \in 1 .. Len(held) PROVE ~ Inside(c, held[i])
    <2>1. PICK k \in 1 .. n : Inside(chunks[k], held[i])
        BY DEF Stack
    <2>2. ChunksApart(chunks[k], c) /\ chunks[k] \in ObChunk /\ held[i] \in ObObject
        BY <1>2 DEF ChunksApart
    <2>3. QED BY <2>1, <2>2, InOneChunk
<1>6. ASSUME NEW i \in 1 .. Len(held) PROVE \E k \in 1 .. Len(new) : Inside(new[k], held[i])
    <2>1. PICK k \in 1 .. n : Inside(chunks[k], held[i])
        BY DEF Stack
    <2>2. k \in 1 .. Len(new) /\ Inside(new[k], held[i])
        BY <1>1, <1>2, <2>1
    <2>3. QED BY <2>2
<1>7. ASSUME NEW i \in 1 .. Len(held), NEW j \in 1 .. Len(held), i < j
      PROVE  Follow(new, held[i], held[j])
    <2> SUFFICES ASSUME NEW k \in 1 .. Len(new), NEW l \in 1 .. Len(new),
                        Inside(new[k], held[i]), Inside(new[l], held[j])
                 PROVE  k <= l /\ (k = l => held[i].at + held[i].size <= held[j].at)
        BY DEF Follow
    <2>1. k \in 1 .. n /\ l \in 1 .. n
        BY <1>1, <1>3, <1>5
    <2>2. Inside(chunks[k], held[i]) /\ Inside(chunks[l], held[j])
        BY <1>1, <2>1
    <2>3. QED BY <1>7, <2>1, <2>2 DEF Stack, Follow
<1>8. ASSUME NEW i \in 1 .. Len(held) PROVE ~ Inside(new[Len(new)], held[i])
    BY <1>1, <1>5
<1>9. Chain(new)
    BY <1>1, <1>4 DEF Chain
<1>10. Stack(new, held, bottom)
    BY <1>2, <1>6, <1>7, <1>8, <1>9 DEF Stack
<1>11. QED BY <1>1, <1>10 DEF new

\* The ith object and what came after it go, with the chunks behind its chunk.
LEMMA Unstacks ==
    ASSUME NEW chunks, NEW held, NEW base, Stack(chunks, held, base),
           NEW i \in 1 .. Len(held), NEW m \in 1 .. Len(chunks), Inside(chunks[m], held[i])
    PROVE  /\ Stack(SubSeq(chunks, 1, m), SubSeq(held, 1, i - 1), held[i].at)
           /\ SubSeq(chunks, 1, m)[Len(SubSeq(chunks, 1, m))] = chunks[m]
<1> DEFINE cs == SubSeq(chunks, 1, m)
           hs == SubSeq(held, 1, i - 1)
<1>1. chunks \in Seq(ObChunk) /\ held \in Seq(ObObject) /\ m \in Nat /\ i \in Nat /\ i >= 1 /\ m >= 1
    BY DEF Stack, Chain
<1>2. cs \in Seq(ObChunk) /\ Len(cs) = m /\ \A k \in 1 .. m : cs[k] = chunks[k]
    <2>1. \A k \in 1 .. m : chunks[k] \in ObChunk
        BY <1>1
    <2>2. cs \in Seq(ObChunk) /\ Len(cs) = (IF 1 <= m THEN m - 1 + 1 ELSE 0)
        BY <1>1, <2>1, SubSeqProperties
    <2>3. \A k \in 1 .. m - 1 + 1 : cs[k] = chunks[1 + k - 1]
        BY <1>1, <2>1, SubSeqProperties
    <2>4. QED BY <1>1, <2>2, <2>3
<1>3. hs \in Seq(ObObject) /\ Len(hs) = i - 1 /\ \A j \in 1 .. i - 1 : hs[j] = held[j]
    <2>1. \A k \in 1 .. i - 1 : held[k] \in ObObject
        BY <1>1
    <2>2. hs \in Seq(ObObject) /\ Len(hs) = (IF 1 <= i - 1 THEN i - 1 - 1 + 1 ELSE 0)
        BY <1>1, <2>1, SubSeqProperties
    <2>3. \A k \in 1 .. i - 1 - 1 + 1 : hs[k] = held[1 + k - 1]
        BY <1>1, <2>1, SubSeqProperties
    <2>4. QED BY <1>1, <2>2, <2>3
<1> HIDE DEF cs, hs
<1>4. \A k \in 1 .. m : k \in 1 .. Len(chunks)
    BY <1>1
<1>5. \A j \in 1 .. i - 1 : j \in 1 .. Len(held) /\ j < i
    BY <1>1
<1>6. Chain(cs)
    <2>1. cs # <<>>
        BY <1>1, <1>2
    <2>2. QED BY <1>2, <1>4, <2>1 DEF Stack, Chain
<1>7. ASSUME NEW j \in 1 .. i - 1, NEW k \in 1 .. Len(chunks), Inside(chunks[k], held[j])
      PROVE  k <= m /\ (k = m => held[j].at + held[j].size <= held[i].at)
    BY <1>5, <1>7 DEF Stack, Follow
<1>8. ASSUME NEW j \in 1 .. i - 1 PROVE \E k \in 1 .. m : Inside(cs[k], hs[j])
    <2>1. PICK k \in 1 .. Len(chunks) : Inside(chunks[k], held[j])
        BY <1>5 DEF Stack
    <2>2. k \in 1 .. m
        BY <1>1, <1>7, <2>1
    <2>3. QED BY <1>2, <1>3, <2>1, <2>2
<1>9. ASSUME NEW j \in 1 .. i - 1, NEW jj \in 1 .. i - 1, j < jj PROVE Follow(cs, hs[j], hs[jj])
    <2>1. Follow(chunks, held[j], held[jj])
        BY <1>5, <1>9 DEF Stack
    <2>2. QED BY <1>2, <1>3, <1>4, <2>1 DEF Follow
<1>10. ASSUME NEW j \in 1 .. i - 1, Inside(cs[m], hs[j]) PROVE hs[j].at + hs[j].size <= held[i].at
    BY <1>1, <1>2, <1>3, <1>7, <1>10
<1>11. held[i].at \in Nat
    BY <1>1, ObjectIs
<1>12. Stack(cs, hs, held[i].at)
    BY <1>2, <1>3, <1>6, <1>8, <1>9, <1>10, <1>11 DEF Stack
<1>13. QED BY <1>1, <1>2, <1>12 DEF cs, hs

\* An object is found in its chunk: no later one has its address.
LEMMA ChunksUpToIs ==
    ASSUME NEW held, NEW base, Stack(obChunks, held, base), NEW i \in 1 .. Len(held)
    PROVE  ChunksUpTo(held[i].at) \in 1 .. Len(obChunks) /\ Inside(obChunks[ChunksUpTo(held[i].at)], held[i])
<1> PICK ptr \in Nat : ptr = held[i].at
    BY ObjectIs DEF Stack
<1> DEFINE I == {k \in 1 .. Len(obChunks) : obChunks[k].at <= ptr /\ ptr <= obChunks[k].limit}
<1>1. ChunksUpTo(ptr) = IF I # {} THEN Max(I) ELSE 0
    BY DEF ChunksUpTo, SelectLastInSeq
<1>2. PICK m \in 1 .. Len(obChunks) : Inside(obChunks[m], held[i])
    BY DEF Stack
<1>3. held[i] \in ObObject /\ obChunks[m] \in ObChunk
    BY DEF Stack, Chain
<1>4. /\ obChunks[m].at \in Nat /\ obChunks[m].limit \in Nat /\ held[i].size \in Nat /\ held[i].size > 0
      /\ obChunks[m].at + ChunkHeader <= ptr /\ ptr < obChunks[m].limit
    BY <1>2, <1>3, ChunkIs, ObjectIs DEF Inside
<1>5. m \in I
    BY <1>4 DEF ChunkHeader
<1>6. ASSUME NEW k \in I PROVE k = m
    <2> SUFFICES ASSUME k # m PROVE FALSE
        OBVIOUS
    <2>1. k \in 1 .. Len(obChunks) /\ obChunks[k].at <= ptr /\ ptr <= obChunks[k].limit
        OBVIOUS
    <2> HIDE DEF I
    <2>2. ChunksApart(obChunks[k], obChunks[m]) /\ obChunks[k] \in ObChunk
        BY <2>1 DEF Stack, Chain
    <2>3. obChunks[k].at \in Nat /\ obChunks[k].limit \in Nat
        BY <2>2, ChunkIs
    <2>4. CASE obChunks[k].limit <= obChunks[m].at
        BY <1>4, <2>1, <2>3, <2>4 DEF ChunkHeader
    <2>5. CASE obChunks[m].limit <= obChunks[k].at
        BY <1>4, <2>1, <2>3, <2>5
    <2>6. QED BY <2>2, <2>4, <2>5 DEF ChunksApart
<1>7. I = {m}
    BY <1>5, <1>6
<1> HIDE DEF I
<1>8. Max(I) = m
    <2>1. \A x \in I : \A y \in I : x >= y
        BY <1>7
    <2>2. QED BY <1>7, <2>1 DEF Max
<1>9. QED BY <1>1, <1>2, <1>7, <1>8
-----------------------------------------------------------------------------
(* What the operations do *)

ObGood(chunks, held, base, upto) ==
    Stack(chunks, held, base) /\ Growing(chunks[Len(chunks)], base, upto)

\* The state after an operation is given by its chunks, stack, base and position.
LEMMA ObInvOf ==
    ASSUME NEW chunks, NEW held, NEW base, NEW upto, ObGood(chunks, held, base, upto),
           obLost \subseteq ObChunk, obLost' = obLost,
           obChunks' = chunks, obHeld' = held, obBase' = base, obNext' = upto,
           obGrown' = upto - base
    PROVE  ObInv'
<1>1. chunks \in Seq(ObChunk) /\ base \in Nat /\ upto \in Nat
    BY DEF ObGood, Stack, Chain, Growing
<1>2. ObTypes'
    BY <1>1 DEF ObTypes
<1>3. QED BY <1>2 DEF ObInv, ObGood

\* What was growing is finished.
LEMMA KeptIs ==
    ASSUME ObInv, obChunks # <<>>
    PROVE  /\ Stack(obChunks, KeptGrowing, obNext)
           /\ obChunks[Len(obChunks)] \in ObChunk /\ Current = obChunks[Len(obChunks)]
           /\ Growing(Current, obBase, obNext)
<1>1. Current = obChunks[Len(obChunks)]
    BY DEF Current, Last
<1>2. Current \in ObChunk /\ Current.limit \in Nat /\ Current.at \in Nat
    <2>1. Len(obChunks) \in 1 .. Len(obChunks)
        BY DEF ObInv, Stack, Chain
    <2>2. Current \in ObChunk
        BY <1>1, <2>1 DEF ObInv, ObTypes
    <2>3. QED BY <2>2, ChunkIs
<1>3. Stack(obChunks, obHeld, obBase) /\ Growing(Current, obBase, obNext)
    BY <1>1 DEF ObInv
<1>4. CASE obNext > obBase
    <2>1. PICK o : o = [at |-> obBase, size |-> obNext - obBase]
        OBVIOUS
    <2>2. o \in ObObject /\ o.at = obBase /\ o.at + o.size = obNext /\ obNext \in Nat
        BY <1>3, <1>4, <2>1 DEF Growing, ObObject
    <2>3. Inside(Current, o)
        BY <1>3, <2>2 DEF Inside, Growing
    <2>4. Stack(obChunks, Append(obHeld, o), obNext)
        BY <1>1, <1>3, <2>2, <2>3, Stacks DEF Growing
    <2>5. KeptGrowing = Append(obHeld, o)
        BY <1>4, <2>1 DEF KeptGrowing
    <2>6. QED BY <1>1, <1>2, <1>3, <2>4, <2>5
<1>5. CASE ~(obNext > obBase)
    <2>1. obNext = obBase
        BY <1>3, <1>5 DEF Growing
    <2>2. KeptGrowing = obHeld
        BY <1>5 DEF KeptGrowing
    <2>3. QED BY <1>1, <1>2, <1>3, <2>1, <2>2
<1>6. QED BY <1>4, <1>5

\* Something is put on top, and the next begins behind it, aligned.
LEMMA Tops ==
    ASSUME NEW chunks, NEW held, NEW base, Stack(chunks, held, base),
           NEW c \in ObChunk, c = chunks[Len(chunks)], c.at + ChunkHeader <= base,
           NEW sz \in Nat \ {0}, base + sz <= c.limit
    PROVE  ObGood(chunks, Append(held, [at |-> base, size |-> sz]), ObAlign(base + sz), ObAlign(base + sz))
<1>1. base \in Nat /\ c.limit \in Eights /\ c.limit \in Nat /\ c.at \in Nat /\ base + sz \in Nat
    BY ChunkIs DEF Stack
<1>2. PICK e \in Nat : e = ObAlign(base + sz) /\ base + sz <= e /\ e <= c.limit
    BY <1>1, ObAlignIs
<1>3. PICK o : o = [at |-> base, size |-> sz]
    OBVIOUS
<1>4. o \in ObObject /\ o.at = base /\ o.size = sz
    BY <1>1, <1>3 DEF ObObject
<1>5. Inside(c, o)
    BY <1>4 DEF Inside
<1>6. base <= o.at
    BY <1>1, <1>4
<1>7. Stack(chunks, Append(held, o), e)
    BY <1>2, <1>4, <1>5, <1>6, Stacks
<1>8. Growing(c, e, e)
    BY <1>1, <1>2 DEF Growing, ChunkHeader
<1>9. QED BY <1>2, <1>3, <1>7, <1>8 DEF ObGood

\* The chain is lost: nothing is left to say.
LEMMA LostKeeps == ASSUME ObInv, ChainIsLost PROVE ObInv'
<1>1. obChunks' = <<>> /\ obBase' = obBase /\ obNext' = obNext /\ obLost' = obLost \cup ToSet(obChunks)
    BY DEF ChainIsLost
<1>2. ToSet(obChunks) \subseteq ObChunk
    BY DEF ToSet, ObInv, ObTypes
<1>3. obLost' \subseteq ObChunk
    BY <1>1, <1>2 DEF ObInv, ObTypes
<1>4. obChunks' \in Seq(ObChunk)
    BY <1>1
<1>5. ObTypes'
    BY <1>1, <1>3, <1>4 DEF ObInv, ObTypes
<1>6. QED BY <1>1, <1>5 DEF ObInv

LEMMA ObMallocHereKeeps ==
    ASSUME ObInv, NEW sz \in ObSizes, ObMallocHere(sz)
    PROVE  ObInv'
<1>1. /\ obChunks # <<>> /\ Room >= sz
      /\ obHeld' = Append(KeptGrowing, [at |-> obNext, size |-> sz])
      /\ obNext' = ObAlign(obNext + sz) /\ obBase' = obNext' /\ obGrown' = 0
      /\ obChunks' = obChunks /\ obLost' = obLost
    BY DEF ObMallocHere
<1>2. sz \in Nat \ {0}
    BY ObAssumption
<1>3. /\ Stack(obChunks, KeptGrowing, obNext) /\ Current \in ObChunk
      /\ Current = obChunks[Len(obChunks)] /\ Growing(Current, obBase, obNext)
    BY <1>1, KeptIs
<1>4. Current.at + ChunkHeader <= obNext /\ obNext + sz <= Current.limit
    <2>1. Current.limit \in Nat /\ Current.at \in Nat
        BY <1>3, ChunkIs
    <2>2. QED BY <1>1, <1>2, <1>3, <2>1 DEF Room, Growing, ChunkHeader
<1>5. ObGood(obChunks, obHeld', obBase', obNext')
    BY <1>1, <1>2, <1>3, <1>4, Tops
<1>6. obGrown' = obNext' - obBase'
    BY <1>1, <1>5 DEF ObGood, Growing
<1>7. obLost \subseteq ObChunk
    BY DEF ObInv, ObTypes
<1>8. QED BY <1>1, <1>5, <1>6, <1>7, ObInvOf

LEMMA ObMallocNewKeeps ==
    ASSUME ObInv, NEW sz \in ObSizes, ObMallocNew(sz)
    PROVE  ObInv'
<1>1. CASE ChainIsLost
    BY <1>1, LostKeeps
<1>2. ASSUME NEW c \in MakeChunk(obChunks, sz),
             obChunks' = Append(obChunks, c),
             obHeld' = Append(KeptGrowing, [at |-> c.at + ChunkHeader, size |-> sz]),
             obNext' = ObAlign(c.at + ChunkHeader + sz), obBase' = obNext', obGrown' = 0,
             obLost' = obLost
      PROVE  ObInv'
    <2>1. sz \in Nat \ {0} /\ obChunks # <<>> /\ obChunks \in Seq(ObChunk) /\ obLost \subseteq ObChunk
        BY ObAssumption DEF ObMallocNew, ObInv, ObTypes
    <2>2. /\ c \in ObChunk /\ c.at + ChunkHeader + sz <= c.limit
          /\ \A k \in 1 .. Len(obChunks) : ChunksApart(c, obChunks[k])
        BY <2>1, MakeChunkIs
    <2>3. PICK b \in Nat : b = c.at + ChunkHeader
        BY <2>2, ChunkIs DEF ChunkHeader
    <2>4. PICK chunks : chunks = Append(obChunks, c)
        OBVIOUS
    <2>5. Stack(obChunks, KeptGrowing, obNext)
        BY <2>1, KeptIs
    <2>6. Stack(chunks, KeptGrowing, b) /\ chunks[Len(chunks)] = c
        BY <2>2, <2>4, <2>5, Chains
    <2>7. b <= b /\ b + sz <= c.limit
        BY <2>1, <2>2, <2>3
    <2>8. ObGood(chunks, Append(KeptGrowing, [at |-> b, size |-> sz]), ObAlign(b + sz), ObAlign(b + sz))
        BY <2>1, <2>2, <2>3, <2>6, <2>7, Tops
    <2>9. ObGood(obChunks', obHeld', obBase', obNext')
        BY <1>2, <2>3, <2>4, <2>8
    <2>10. obGrown' = obNext' - obBase'
        BY <1>2, <2>9 DEF ObGood, Growing
    <2>11. QED BY <1>2, <2>1, <2>9, <2>10, ObInvOf
<1>3. QED BY <1>1, <1>2 DEF ObMallocNew

LEMMA GrowHereKeeps ==
    ASSUME ObInv, NEW sz \in ObSizes, GrowHere(sz)
    PROVE  ObInv'
<1>1. /\ obChunks # <<>> /\ Room >= sz
      /\ obNext' = obNext + sz /\ obGrown' = obGrown + sz
      /\ obChunks' = obChunks /\ obBase' = obBase /\ obLost' = obLost /\ obHeld' = obHeld
    BY DEF GrowHere
<1>2. sz \in Nat
    BY ObAssumption
<1>3. /\ Stack(obChunks, obHeld, obBase) /\ Current \in ObChunk /\ obGrown = obNext - obBase
      /\ Current = obChunks[Len(obChunks)] /\ Growing(Current, obBase, obNext)
    BY <1>1, KeptIs DEF ObInv
<1>4. Growing(Current, obBase, obNext + sz) /\ obGrown + sz = obNext + sz - obBase
    <2>1. Current.limit \in Nat /\ Current.at \in Nat
        BY <1>3, ChunkIs
    <2>2. /\ obBase \in Nat /\ obNext \in Nat
          /\ Current.at + ChunkHeader <= obBase /\ obBase <= obNext /\ obNext <= Current.limit
        BY <1>3 DEF Growing
    <2>3. Room = Current.limit - obNext
        BY <1>1 DEF Room
    <2>4. obNext + sz \in Nat /\ obBase <= obNext + sz /\ obNext + sz <= Current.limit
        BY <1>1, <1>2, <2>1, <2>2, <2>3
    <2>5. obGrown + sz = obNext + sz - obBase
        BY <1>2, <1>3, <2>2
    <2>6. QED BY <2>2, <2>4, <2>5 DEF Growing
<1>5. PICK e : e = obNext + sz
    OBVIOUS
<1>6. ObGood(obChunks, obHeld, obBase, e) /\ obLost \subseteq ObChunk
    BY <1>3, <1>4, <1>5 DEF ObGood, ObInv, ObTypes
<1>7. obNext' = e /\ obGrown' = e - obBase
    BY <1>1, <1>2, <1>3, <1>5 DEF Growing
<1>8. QED BY <1>1, <1>6, <1>7, ObInvOf

LEMMA GrowMovedKeeps ==
    ASSUME ObInv, NEW sz \in ObSizes, GrowMoved(sz)
    PROVE  ObInv'
<1>1. obChunks # <<>>
    BY DEF GrowMoved
<1>2. sz \in Nat
    BY ObAssumption
<1>3. /\ Stack(obChunks, obHeld, obBase) /\ obGrown = obNext - obBase
      /\ Growing(Current, obBase, obNext)
    BY <1>1, KeptIs DEF ObInv
<1>4. PICK size \in Nat : size = ObjectSize /\ obGrown = size
    BY <1>3 DEF ObjectSize, Growing
<1>5. PICK more \in Nat : more = ObjectSize + sz + ObjectSize \div 8 + 100 /\ size + sz <= more
    <2>1. PICK d \in Nat : d = size \div 8
        OBVIOUS
    <2>2. QED BY <1>2, <1>4, <2>1
<1>6. CASE ChainIsLost
    BY <1>6, LostKeeps
<1>7. ASSUME NEW c \in MakeChunk(obChunks, more),
             obChunks' = Append(obChunks, c), obBase' = c.at + ChunkHeader,
             obNext' = c.at + ChunkHeader + ObjectSize + sz, obGrown' = obGrown + sz,
             obLost' = obLost, obHeld' = obHeld
      PROVE  ObInv'
    <2>1. obChunks \in Seq(ObChunk) /\ obLost \subseteq ObChunk
        BY DEF ObInv, ObTypes
    <2>2. /\ c \in ObChunk /\ c.at + ChunkHeader + more <= c.limit
          /\ \A k \in 1 .. Len(obChunks) : ChunksApart(c, obChunks[k])
        BY <1>5, <2>1, MakeChunkIs
    <2>3. PICK b \in Nat : b = c.at + ChunkHeader
        BY <2>2, ChunkIs DEF ChunkHeader
    <2>4. PICK chunks : chunks = Append(obChunks, c)
        OBVIOUS
    <2>5. Stack(chunks, obHeld, b) /\ chunks[Len(chunks)] = c
        BY <1>3, <2>2, <2>4, Chains
    <2>6. c.limit \in Nat
        BY <2>2, ChunkIs
    <2>7. PICK e \in Nat : e = b + size + sz
        BY <1>2
    <2>8. Growing(c, b, e) /\ obGrown + sz = e - b
        <3>1. b + more <= c.limit
            BY <2>2, <2>3
        <3>2. b <= e /\ e <= c.limit
            BY <1>2, <1>5, <2>6, <2>7, <3>1
        <3>3. obGrown + sz = e - b
            BY <1>2, <1>4, <2>7
        <3>4. QED BY <2>3, <3>2, <3>3 DEF Growing
    <2>9. ObGood(chunks, obHeld, b, e)
        BY <2>5, <2>8 DEF ObGood
    <2>10. obNext' = e /\ obBase' = b
        BY <1>4, <1>7, <2>3, <2>7
    <2>11. QED BY <1>7, <2>1, <2>4, <2>8, <2>9, <2>10, ObInvOf
<1>8. QED BY <1>5, <1>6, <1>7 DEF GrowMoved

LEMMA ObFinalizeKeeps == ASSUME ObInv, ObFinalize PROVE ObInv'
<1>1. /\ obChunks # <<>>
      /\ obHeld' = KeptGrowing /\ obNext' = ObAlign(obNext) /\ obBase' = obNext' /\ obGrown' = 0
      /\ obChunks' = obChunks /\ obLost' = obLost
    BY DEF ObFinalize
<1>2. /\ Stack(obChunks, KeptGrowing, obNext) /\ Current \in ObChunk
      /\ Current = obChunks[Len(obChunks)] /\ Growing(Current, obBase, obNext)
    BY <1>1, KeptIs
<1>3. Current.limit \in Eights /\ Current.limit \in Nat /\ Current.at \in Nat
    BY <1>2, ChunkIs
<1>4. obNext \in Nat /\ obNext <= Current.limit
    BY <1>2 DEF Growing
<1>5. PICK e \in Nat : e = ObAlign(obNext) /\ obNext <= e /\ e <= Current.limit
    BY <1>3, <1>4, ObAlignIs
<1>6. Growing(Current, e, e)
    BY <1>2, <1>3, <1>5 DEF Growing, ChunkHeader
<1>7. Stack(obChunks, KeptGrowing, e)
    <2>1. Chain(obChunks) /\ KeptGrowing \in Seq(ObObject) /\ e \in Nat
        BY <1>2 DEF Stack
    <2>2. ASSUME NEW i \in 1 .. Len(KeptGrowing), Inside(obChunks[Len(obChunks)], KeptGrowing[i])
          PROVE  KeptGrowing[i].at + KeptGrowing[i].size <= e
        <3>1. KeptGrowing[i].at + KeptGrowing[i].size <= obNext
            BY <1>2, <2>2 DEF Stack
        <3>2. KeptGrowing[i].at \in Nat /\ KeptGrowing[i].size \in Nat
            BY <2>1, ObjectIs
        <3>3. QED BY <1>4, <1>5, <3>1, <3>2
    <2>3. QED BY <1>2, <2>1, <2>2 DEF Stack
<1>8. ObGood(obChunks, KeptGrowing, e, e) /\ obLost \subseteq ObChunk /\ e - e = 0
    BY <1>2, <1>6, <1>7 DEF ObGood, ObInv, ObTypes
<1>9. QED BY <1>1, <1>5, <1>8, ObInvOf

LEMMA ObFreeKeeps == ASSUME ObInv, NEW i \in 1 .. Len(obHeld), ObFree(i) PROVE ObInv'
<1>1. PICK b : b = obHeld[i].at
    OBVIOUS
<1>2. PICK m : m = ChunksUpTo(b)
    OBVIOUS
<1>3. /\ obChunks # <<>>
      /\ obChunks' = SubSeq(obChunks, 1, m) /\ obBase' = b /\ obNext' = b
      /\ obHeld' = SubSeq(obHeld, 1, i - 1) /\ obGrown' = 0 /\ obLost' = obLost
    BY <1>1, <1>2 DEF ObFree
<1>4. Stack(obChunks, obHeld, obBase) /\ obLost \subseteq ObChunk
    BY <1>3 DEF ObInv, ObTypes
<1>5. m \in 1 .. Len(obChunks) /\ Inside(obChunks[m], obHeld[i])
    BY <1>1, <1>2, <1>4, ChunksUpToIs
<1>6. obHeld[i] \in ObObject /\ obChunks[m] \in ObChunk
    BY <1>4, <1>5 DEF Stack, Chain
<1>7. PICK chunks : chunks = SubSeq(obChunks, 1, m)
    OBVIOUS
<1>8. PICK held : held = SubSeq(obHeld, 1, i - 1)
    OBVIOUS
<1>9. Stack(chunks, held, b) /\ chunks[Len(chunks)] = obChunks[m]
    BY <1>1, <1>4, <1>5, <1>7, <1>8, Unstacks
<1>10. Growing(obChunks[m], b, b) /\ b - b = 0
    BY <1>1, <1>5, <1>6, ObjectIs, ChunkIs DEF Growing, Inside
<1>11. ObGood(chunks, held, b, b)
    BY <1>9, <1>10 DEF ObGood
<1>12. QED BY <1>3, <1>4, <1>7, <1>8, <1>10, <1>11, ObInvOf

\* A chain of one chunk, with nothing in it.
LEMMA NewStack ==
    ASSUME NEW c \in ObChunk, NEW b \in Nat, b = c.at + ChunkHeader
    PROVE  ObGood(<<c>>, <<>>, b, b) /\ b - b = 0
<1>1. <<c>> \in Seq(ObChunk) /\ <<c>> # <<>> /\ Len(<<c>>) = 1 /\ <<c>>[1] = c
    OBVIOUS
<1>2. Chain(<<c>>)
    BY <1>1 DEF Chain
<1>3. <<>> \in Seq(ObObject) /\ Len(<<>>) = 0
    OBVIOUS
<1>4. Stack(<<c>>, <<>>, b)
    BY <1>2, <1>3 DEF Stack
<1>5. Growing(c, b, b)
    BY ChunkIs DEF Growing
<1>6. QED BY <1>1, <1>4, <1>5 DEF ObGood

LEMMA ObFreeAllKeeps == ASSUME ObInv, ObFreeAll PROVE ObInv'
<1>1. PICK c \in MakeChunk(<<>>, ObChunkSize) :
          obChunks' = <<c>> /\ obBase' = c.at + ChunkHeader /\ obNext' = c.at + ChunkHeader
    BY DEF ObFreeAll
<1>2. obHeld' = <<>> /\ obGrown' = 0 /\ obLost' = obLost /\ obLost \subseteq ObChunk
    BY DEF ObFreeAll, ObInv, ObTypes
<1>3. <<>> \in Seq(ObChunk) /\ ObChunkSize \in Nat
    BY ObAssumption
<1>4. c \in ObChunk
    BY <1>2, <1>3, MakeChunkIs
<1>5. PICK b \in Nat : b = c.at + ChunkHeader
    BY <1>4, ChunkIs DEF ChunkHeader
<1>6. ObGood(<<c>>, <<>>, b, b) /\ b - b = 0
    BY <1>4, <1>5, NewStack
<1>7. QED BY <1>1, <1>2, <1>5, <1>6, ObInvOf

LEMMA ObInitGood == ObInit => ObInv
<1> SUFFICES ASSUME ObInit PROVE ObInv
    OBVIOUS
<1>1. PICK n : n = ChunkFor(ObChunkSize)
    OBVIOUS
<1>2. n \in Eights /\ n \in Nat
    <2>1. PICK k \in Nat : ChunkFor(ObChunkSize) = ObAlign(k)
        BY ObAssumption DEF ChunkFor, ChunkHeader
    <2>2. QED BY <1>1, <2>1, ObAlignIs
<1>3. PICK c : c = [at |-> 8, limit |-> 8 + ChunkHeader + n]
    OBVIOUS
<1>4. c \in ObChunk
    <2>1. 8 \in Eights /\ 16 \in Eights
        <3>1. 16 = 8 * 2
            OBVIOUS
        <3>2. QED BY <3>1, EightsAre DEF Eights
    <2>2. 16 + n \in Eights
        BY <1>2, <2>1, EightsAdd
    <2>3. 8 + ChunkHeader + n = 16 + n
        BY <1>2 DEF ChunkHeader
    <2>4. c = [at |-> 8, limit |-> 16 + n]
        BY <1>3, <2>3
    <2>5. c \in [at : Eights, limit : Eights] /\ c.at = 8 /\ c.limit = 16 + n
        BY <2>1, <2>2, <2>4
    <2>6. QED BY <1>2, <2>5 DEF ObChunk, ChunkHeader
<1>5. PICK b \in Nat : b = 8 + ChunkHeader
    BY DEF ChunkHeader
<1>6. ObGood(<<c>>, <<>>, b, b) /\ b - b = 0
    BY <1>3, <1>4, <1>5, NewStack
<1>7. obChunks = <<c>> /\ obHeld = <<>> /\ obBase = b /\ obNext = b /\ obGrown = 0 /\ obLost = {}
    BY <1>1, <1>3, <1>5 DEF ObInit
<1>8. ObTypes
    BY <1>4, <1>7 DEF ObTypes
<1>9. QED BY <1>6, <1>7, <1>8 DEF ObInv, ObGood

-----------------------------------------------------------------------------
\* What the invariant says of all objects and the growing one.
LEMMA ObInvSuffices == ObInv => ObjectsKeepTheirPlace
<1> SUFFICES ASSUME ObInv, obChunks # <<>> PROVE ObjectsKeepTheirPlace
    BY DEF ObjectsKeepTheirPlace
<1> DEFINE growing == [at |-> obBase, size |-> obNext - obBase]
           all == Append(obHeld, growing)
           n == Len(obChunks)
<1>1. /\ Stack(obChunks, obHeld, obBase) /\ obGrown = obNext - obBase
      /\ Growing(Current, obBase, obNext) /\ Current = obChunks[n] /\ Current \in ObChunk
    BY KeptIs DEF ObInv
<1>2. n \in 1 .. n /\ obChunks \in Seq(ObChunk) /\ obHeld \in Seq(ObObject) /\ Len(obHeld) \in Nat
    BY <1>1 DEF Stack, Chain
<1>3. growing.at = obBase /\ growing.size = obNext - obBase /\ growing \in [at : Nat, size : Nat]
    BY <1>1 DEF Growing
<1>4. growing.size = obGrown /\ Inside(Current, growing)
    BY <1>1, <1>3 DEF Inside, Growing
<1>5. Len(all) = Len(obHeld) + 1 /\ all[Len(obHeld) + 1] = growing
      /\ \A i \in 1 .. Len(obHeld) : all[i] = obHeld[i]
    <2>1. obHeld \in Seq([at : Nat, size : Nat])
        <3>1. PICK S : S = [at : Nat, size : Nat]
            OBVIOUS
        <3>2. ObObject \subseteq S
            BY <3>1 DEF ObObject
        <3>3. obHeld \in [1 .. Len(obHeld) -> S]
            BY <1>2, <3>2, LenProperties
        <3>4. obHeld \in Seq(S)
            BY <1>2, <3>3, SeqDef
        <3>5. QED BY <3>1, <3>4
    <2> HIDE DEF growing
    <2>2. QED BY <1>3, <2>1, AppendProperties
<1> HIDE DEF growing, all
<1>6. ASSUME NEW i \in 1 .. Len(all) PROVE i \in 1 .. Len(obHeld) \/ i = Len(obHeld) + 1
    BY <1>2, <1>5
<1>7. \A o \in ToSet(all) : \E c \in ToSet(obChunks) : Inside(c, o)
    <2> SUFFICES ASSUME NEW i \in 1 .. Len(all) PROVE \E c \in ToSet(obChunks) : Inside(c, all[i])
        BY DEF ToSet
    <2>1. \A k \in 1 .. n : obChunks[k] \in ToSet(obChunks)
        BY DEF ToSet
    <2>2. CASE i \in 1 .. Len(obHeld)
        BY <1>1, <1>5, <2>1, <2>2 DEF Stack
    <2>3. CASE i = Len(obHeld) + 1
        BY <1>1, <1>2, <1>4, <1>5, <2>1, <2>3
    <2>4. QED BY <1>6, <2>2, <2>3
<1>8. ASSUME NEW o \in ObObject, NEW p \in [at : Nat, size : Nat],
             NEW k \in 1 .. n, NEW l \in 1 .. n, Inside(obChunks[k], o), Inside(obChunks[l], p), k # l
      PROVE  o.at + o.size <= p.at \/ p.at + p.size <= o.at
    <2>1. ChunksApart(obChunks[k], obChunks[l]) /\ obChunks[k] \in ObChunk /\ obChunks[l] \in ObChunk
        BY <1>1, <1>2, <1>8 DEF Stack, Chain
    <2>2. o \in [at : Nat, size : Nat]
        BY DEF ObObject
    <2>3. QED BY <1>8, <2>1, <2>2, InApartChunks
<1>9. ASSUME NEW i \in 1 .. Len(all), NEW j \in 1 .. Len(all), i < j
      PROVE  all[i].at + all[i].size <= all[j].at \/ all[j].at + all[j].size <= all[i].at
    <2>1. i \in 1 .. Len(obHeld) /\ all[i] = obHeld[i] /\ obHeld[i] \in ObObject
        BY <1>2, <1>5, <1>9
    <2>2. PICK k \in 1 .. n : Inside(obChunks[k], obHeld[i])
        BY <1>1, <2>1 DEF Stack
    <2>3. CASE j \in 1 .. Len(obHeld)
        <3>1. PICK l \in 1 .. n : Inside(obChunks[l], obHeld[j])
            BY <1>1, <2>3 DEF Stack
        <3>2. Follow(obChunks, obHeld[i], obHeld[j])
            BY <1>1, <1>9, <2>1, <2>3 DEF Stack
        <3>3. all[j] = obHeld[j] /\ obHeld[j] \in ObObject
            BY <1>2, <1>5, <2>3
        <3>4. CASE k = l
            BY <2>1, <2>2, <3>1, <3>2, <3>3, <3>4 DEF Follow
        <3>5. CASE k # l
            <4>1. obHeld[j] \in [at : Nat, size : Nat]
                BY <3>3 DEF ObObject
            <4>2. QED BY <1>8, <2>1, <2>2, <3>1, <3>3, <3>5, <4>1
        <3>6. QED BY <3>4, <3>5
    <2>4. CASE j = Len(obHeld) + 1
        <3>1. all[j] = growing
            BY <1>5, <2>4
        <3>2. CASE k = n
            <4>1. obHeld[i].at + obHeld[i].size <= obBase
                BY <1>1, <2>1, <2>2, <3>2 DEF Stack
            <4>2. QED BY <1>3, <2>1, <3>1, <4>1
        <3>3. CASE k # n
            BY <1>1, <1>2, <1>3, <1>4, <1>8, <2>1, <2>2, <3>1, <3>3
        <3>4. QED BY <3>2, <3>3
    <2>5. QED BY <1>6, <2>3, <2>4
<1>10. QED BY <1>4, <1>7, <1>9 DEF ObjectsKeepTheirPlace, growing, all

\* Whatever the sizes and the chunks, the growing object has every byte it has grown
\* by, and it and the finished objects lie apart in chunks that are on the chain.
THEOREM ObstackKeepsObjects == ObSpec => []ObjectsKeepTheirPlace
<1>1. ObInit => ObInv
    BY ObInitGood
<1>2. ObInv /\ [ObNextStep]_obVars => ObInv'
    <2> SUFFICES ASSUME ObInv, [ObNextStep]_obVars PROVE ObInv'
        OBVIOUS
    <2>1. CASE ObNextStep
        BY <2>1, ObMallocHereKeeps, ObMallocNewKeeps, GrowHereKeeps, GrowMovedKeeps, ObFreeKeeps,
           ObFinalizeKeeps, ObFreeAllKeeps DEF ObNextStep
    <2>2. CASE UNCHANGED obVars
        BY <2>2 DEF obVars, ObInv, ObTypes
    <2>3. QED BY <2>1, <2>2
<1>3. QED BY <1>1, <1>2, ObInvSuffices, PTL DEF ObSpec

-----------------------------------------------------------------------------
(* ObstackReap *)

\* The reaps of a pile, from the bottom: each holds what is older than what those above hold.
Piled(all, old, made) ==
    /\ all \in Seq(OrReaps) /\ made \in Nat
    /\ \A i, j \in 1 .. Len(all) : i # j => all[i] # all[j]
    /\ DOMAIN old = ToSet(all)
    /\ \A i \in 1 .. Len(all) : \A o \in old[all[i]] : o \in 1 .. made
    /\ \A i, j \in 1 .. Len(all) : i < j => \A o \in old[all[i]], p \in old[all[j]] : o < p

\* An array of at least so many entries besides entry zero.
OrArrays(l) == [0 .. l - 1 -> OrReaps \cup {OrNone}]

IsArray(a, n) == \E l \in Nat : n < l /\ a \in OrArrays(l)

\* The array a holds these reaps.
Holds(a, pushed) ==
    IsArray(a, Len(pushed)) /\ \A i \in 1 .. Len(pushed) : a[i] = pushed[i]

OrAll == Append(orPushed, currentReap)

OrInv ==
    /\ orPushed \in Seq(OrReaps) /\ currentReap \in OrReaps
    /\ numItems = Len(orPushed)
    /\ Holds(items, orPushed)
    /\ Piled(OrAll, reaps, orMade)
-----------------------------------------------------------------------------
(* The array *)

LEMMA ArrayLengthIs == ASSUME NEW l \in Nat, NEW a \in OrArrays(l) PROVE ArrayLength(a) = l
<1>1. DOMAIN a = 0 .. l - 1
    BY DEF OrArrays
<1>2. Cardinality(0 .. l - 1) = IF 0 > l - 1 THEN 0 ELSE l - 1 - 0 + 1
    BY FS_Interval
<1>3. QED BY <1>1, <1>2 DEF ArrayLength

LEMMA ResizedIs ==
    ASSUME NEW l \in Nat, NEW a \in OrArrays(l), NEW kept \in 0 .. l, NEW m \in Nat
    PROVE  /\ ArrayResized(a, kept, m) \in OrArrays(m)
           /\ \A i \in 0 .. m - 1 : i < kept => ArrayResized(a, kept, m)[i] = a[i]
<1>1. \A i \in 0 .. m - 1 : i < kept => i \in 0 .. l - 1
    OBVIOUS
<1>2. \A i \in 0 .. m - 1 : i < kept => a[i] \in OrReaps \cup {OrNone}
    BY <1>1 DEF OrArrays
<1>3. QED BY <1>2 DEF ArrayResized, OrArrays

\* The array with one more entry.
LEMMA PushedIs ==
    ASSUME NEW pushed \in Seq(OrReaps), NEW a, Holds(a, pushed), NEW r \in OrReaps,
           NEW n, n = Len(pushed) + 1
    PROVE  Holds([Grown(a, n) EXCEPT ![n] = r], Append(pushed, r))
<1>1. n \in Nat /\ n > 0 /\ Len(pushed) \in Nat
    OBVIOUS
<1>2. /\ Len(Append(pushed, r)) = n /\ Append(pushed, r)[n] = r
      /\ \A i \in 1 .. Len(pushed) : Append(pushed, r)[i] = pushed[i]
    BY AppendProperties
<1>3. PICK l \in Nat : Len(pushed) < l /\ a \in OrArrays(l)
    BY DEF Holds, IsArray
<1>4. PICK m \in Nat : n < m /\ Grown(a, n) \in OrArrays(m)
                       /\ \A i \in 0 .. Len(pushed) : Grown(a, n)[i] = a[i]
    <2>1. ArrayLength(a) = l
        BY <1>3, ArrayLengthIs
    <2>2. CASE n >= l
        <3>1. PICK d : d = n * 2 + 1
            OBVIOUS
        <3>2. Grown(a, n) = ArrayResized(a, l, d)
            BY <2>1, <2>2, <3>1 DEF Grown
        <3>3. d \in Nat /\ n < d /\ l \in 0 .. l
            BY <1>1, <1>3, <3>1
        <3>4. /\ Grown(a, n) \in OrArrays(d)
              /\ \A i \in 0 .. d - 1 : i < l => Grown(a, n)[i] = a[i]
            BY <1>3, <3>2, <3>3, ResizedIs
        <3>5. \A i \in 0 .. Len(pushed) : i \in 0 .. d - 1 /\ i < l
            BY <1>1, <1>3, <3>3
        <3>6. QED BY <3>3, <3>4, <3>5
    <2>3. CASE ~(n >= l)
        BY <1>1, <1>3, <2>1, <2>3 DEF Grown
    <2>4. QED BY <2>2, <2>3
<1>5. PICK b : b = [Grown(a, n) EXCEPT ![n] = r]
    OBVIOUS
<1>6. PICK g : g = Grown(a, n)
    OBVIOUS
<1>7. DOMAIN g = 0 .. m - 1 /\ n \in 0 .. m - 1 /\ g \in [0 .. m - 1 -> OrReaps \cup {OrNone}]
    BY <1>1, <1>4, <1>6 DEF OrArrays
<1>8. b \in OrArrays(m) /\ b[n] = r /\ \A i \in 0 .. m - 1 : i # n => b[i] = g[i]
    BY <1>5, <1>6, <1>7 DEF OrArrays
<1>9. ASSUME NEW i \in 1 .. n PROVE b[i] = Append(pushed, r)[i]
    <2>1. CASE i = n
        BY <1>2, <1>8, <2>1
    <2>2. CASE i # n
        <3>1. i \in 1 .. Len(pushed) /\ i \in 0 .. Len(pushed) /\ i \in 0 .. m - 1
            BY <1>1, <1>4, <2>2
        <3>2. a[i] = pushed[i]
            BY <3>1 DEF Holds
        <3>3. QED BY <1>2, <1>4, <1>6, <1>8, <2>2, <3>1, <3>2
    <2>3. QED BY <2>1, <2>2
<1>10. IsArray(b, n)
    BY <1>4, <1>8 DEF IsArray
<1>11. QED BY <1>2, <1>5, <1>9, <1>10 DEF Holds

\* trim loses none of so many entries, nor entry zero.
LEMMA TrimmedIs ==
    ASSUME NEW a, NEW n \in Nat, IsArray(a, n)
    PROVE  /\ IsArray(Trimmed(a, n + 1), n)
           /\ \A i \in 0 .. n : Trimmed(a, n + 1)[i] = a[i]
<1>1. PICK l \in Nat : n < l /\ a \in OrArrays(l)
    BY DEF IsArray
<1>2. ArrayLength(a) = l
    BY <1>1, ArrayLengthIs
<1>3. CASE DOMAIN a # {} /\ (n + 1) * 4 < l
    <2>1. Trimmed(a, n + 1) = ArrayResized(a, n + 1, (n + 1) * 2)
        BY <1>2, <1>3 DEF Trimmed
    <2>2. n + 1 \in 0 .. l /\ (n + 1) * 2 \in Nat /\ n < (n + 1) * 2
        BY <1>1
    <2>3. /\ Trimmed(a, n + 1) \in OrArrays((n + 1) * 2)
          /\ \A i \in 0 .. (n + 1) * 2 - 1 : i < n + 1 => Trimmed(a, n + 1)[i] = a[i]
        BY <1>1, <2>1, <2>2, ResizedIs
    <2>4. IsArray(Trimmed(a, n + 1), n)
        BY <2>2, <2>3 DEF IsArray
    <2>5. \A i \in 0 .. n : i \in 0 .. (n + 1) * 2 - 1 /\ i < n + 1
        OBVIOUS
    <2>6. QED BY <2>3, <2>4, <2>5
<1>4. CASE ~(DOMAIN a # {} /\ (n + 1) * 4 < l)
    <2>1. Trimmed(a, n + 1) = a
        BY <1>2, <1>4 DEF Trimmed
    <2>2. QED BY <2>1
<1>5. QED BY <1>3, <1>4

LEMMA SmallerArray ==
    ASSUME NEW a, NEW n \in Nat, NEW m \in Nat, m <= n, IsArray(a, n)
    PROVE  IsArray(a, m)
<1>1. PICK l \in Nat : n < l /\ a \in OrArrays(l)
    BY DEF IsArray
<1>2. m < l
    BY <1>1
<1>3. QED BY <1>1, <1>2 DEF IsArray

TrimmedBy(f, a, n, k) ==
    [j \in 0 .. k |-> IF j = 0 THEN a ELSE Trimmed(f[j - 1], n - j + 1)]

\* The array after the calls of pop.
LEMMA PoppedIs ==
    ASSUME NEW a, NEW n \in Nat, IsArray(a, n), NEW k \in 0 .. n
    PROVE  /\ IsArray(Popped(a, n, k), n - k)
           /\ \A i \in 0 .. n - k : Popped(a, n, k)[i] = a[i]
<1> DEFINE after == CHOOSE after : after =
              [j \in 0 .. k |-> IF j = 0 THEN a ELSE Trimmed(after[j - 1], n - j + 1)]
<1>1. \E f : f = TrimmedBy(f, a, n, k)
    <2>1. PICK V : V = UNION {OrArrays(l) : l \in Nat}
        OBVIOUS
    <2>2. a \in V
        BY <2>1 DEF IsArray
    <2>3. ASSUME NEW b \in V, NEW j \in 1 .. k PROVE Trimmed(b, n - j + 1) \in V
        <3>1. PICK l \in Nat : b \in OrArrays(l)
            BY <2>1
        <3>2. PICK m \in Nat : m = n - j + 1
            OBVIOUS
        <3>3. ArrayLength(b) = l
            BY <3>1, ArrayLengthIs
        <3>4. CASE DOMAIN b # {} /\ m * 4 < l
            <4>1. Trimmed(b, m) = ArrayResized(b, m, m * 2)
                BY <3>3, <3>4 DEF Trimmed
            <4>2. m \in 0 .. l /\ m * 2 \in Nat
                BY <3>4
            <4>3. Trimmed(b, m) \in OrArrays(m * 2)
                BY <3>1, <4>1, <4>2, ResizedIs
            <4>4. QED BY <2>1, <3>2, <4>2, <4>3
        <3>5. CASE ~(DOMAIN b # {} /\ m * 4 < l)
            BY <3>2, <3>3, <3>5 DEF Trimmed
        <3>6. QED BY <3>4, <3>5
    <2>4. PICK step : step = [x \in V \X (1 .. k) |-> Trimmed(x[1], n - x[2] + 1)]
        OBVIOUS
    <2>5. step \in [V \X (1 .. k) -> V]
        BY <2>3, <2>4
    <2>6. k \in Nat
        OBVIOUS
    <2> PICK f : Iterates(f, k, V, a, step)
        BY <2>2, <2>5, <2>6, IterationExists
    <2>7. f \in [0 .. k -> V] /\ f[0] = a /\ \A i \in 1 .. k : f[i] = step[<<f[i - 1], i>>]
        BY DEF Iterates
    <2>8. ASSUME NEW j \in 0 .. k
          PROVE  f[j] = IF j = 0 THEN a ELSE Trimmed(f[j - 1], n - j + 1)
        <3>1. CASE j = 0
            BY <2>7, <3>1
        <3>2. CASE j # 0
            <4>1. j \in 1 .. k /\ j - 1 \in 0 .. k
                BY <3>2
            <4>2. <<f[j - 1], j>> \in V \X (1 .. k)
                BY <2>7, <4>1
            <4>3. QED BY <2>4, <2>7, <3>2, <4>1, <4>2
        <3>3. QED BY <3>1, <3>2
    <2>9. f = TrimmedBy(f, a, n, k)
        BY <2>7, <2>8 DEF TrimmedBy
    <2>10. QED BY <2>9
<1>2. after = TrimmedBy(after, a, n, k)
    BY <1>1 DEF TrimmedBy
<1>3. Popped(a, n, k) = after[k]
    BY DEF Popped
<1> HIDE DEF after
<1>4. after[0] = a /\ \A j \in 1 .. k : after[j] = Trimmed(after[j - 1], n - j + 1)
    <2>1. after[0] = TrimmedBy(after, a, n, k)[0]
        BY <1>2
    <2>2. ASSUME NEW j \in 1 .. k PROVE after[j] = Trimmed(after[j - 1], n - j + 1)
        <3>1. after[j] = TrimmedBy(after, a, n, k)[j] /\ j \in 0 .. k /\ j # 0
            BY <1>2
        <3>2. QED BY <3>1 DEF TrimmedBy
    <2>3. QED BY <2>1, <2>2 DEF TrimmedBy
<1> DEFINE S == {j \in Nat : j <= k => /\ IsArray(after[j], n - j)
                                       /\ \A i \in 0 .. n - j : after[j][i] = a[i]}
<1>5. 0 \in S
    BY <1>4
<1>6. ASSUME NEW j \in Nat, j < k, j \in S PROVE j + 1 \in S
    <2>1. PICK m \in Nat : m = n - (j + 1) /\ m + 1 = n - j
        BY <1>6
    <2>2. IsArray(after[j], m + 1) /\ \A i \in 0 .. m + 1 : after[j][i] = a[i]
        BY <1>6, <2>1
    <2>3. IsArray(after[j], m)
        BY <2>1, <2>2, SmallerArray
    <2>4. after[j + 1] = Trimmed(after[j], m + 1)
        <3>1. j + 1 \in 1 .. k /\ j + 1 - 1 = j /\ n - (j + 1) + 1 = m + 1
            BY <1>6, <2>1
        <3>2. QED BY <1>4, <3>1
    <2>5. IsArray(after[j + 1], m) /\ \A i \in 0 .. m : after[j + 1][i] = after[j][i]
        BY <2>3, <2>4, TrimmedIs
    <2>6. \A i \in 0 .. m : after[j + 1][i] = a[i]
        BY <2>1, <2>2, <2>5
    <2>7. QED BY <2>1, <2>5, <2>6
<1>7. 0 .. k \subseteq S
    <2> HIDE DEF S
    <2>1. k \in Nat
        OBVIOUS
    <2>2. QED BY <1>5, <1>6, <2>1, OneMore
<1>8. k \in 0 .. k
    OBVIOUS
<1>9. k \in S
    BY <1>7, <1>8
<1>10. QED BY <1>3, <1>9
-----------------------------------------------------------------------------
(* The pile *)

\* The reap on top gets the next object; any may lose some.
LEMMA PileTops ==
    ASSUME NEW all, NEW old, NEW made, Piled(all, old, made), NEW new, DOMAIN new = DOMAIN old,
           \A i \in 1 .. Len(all) : new[all[i]] \subseteq
              old[all[i]] \cup (IF i = Len(all) THEN {made + 1} ELSE {})
    PROVE  Piled(all, new, made + 1)
<1>1. Len(all) \in Nat /\ made \in Nat /\ made + 1 \in Nat
    BY DEF Piled
<1>2. ASSUME NEW i \in 1 .. Len(all), NEW o \in new[all[i]]
      PROVE  (o \in old[all[i]] /\ o \in 1 .. made) \/ (i = Len(all) /\ o = made + 1)
    BY <1>2 DEF Piled
<1>3. ASSUME NEW i \in 1 .. Len(all), NEW o \in new[all[i]] PROVE o \in 1 .. made + 1
    BY <1>1, <1>2
<1>4. ASSUME NEW i \in 1 .. Len(all), NEW j \in 1 .. Len(all), i < j,
             NEW o \in new[all[i]], NEW p \in new[all[j]]
      PROVE  o < p
    <2>1. o \in old[all[i]] /\ o \in 1 .. made
        BY <1>1, <1>2, <1>4
    <2>2. CASE p \in old[all[j]]
        BY <1>4, <2>1, <2>2 DEF Piled
    <2>3. CASE p = made + 1
        BY <1>1, <2>1, <2>3
    <2>4. QED BY <1>2, <2>2, <2>3
<1>5. QED BY <1>1, <1>3, <1>4 DEF Piled

\* A new reap, with some of the latest objects.
LEMMA PileGrows ==
    ASSUME NEW all, NEW old, NEW made, Piled(all, old, made), NEW r \in OrReaps \ DOMAIN old,
           NEW more \in Nat, made <= more, NEW objects, \A o \in objects : o \in made + 1 .. more,
           NEW new, DOMAIN new = DOMAIN old \cup {r}, new[r] = objects,
           \A x \in DOMAIN old : new[x] = old[x]
    PROVE  Piled(Append(all, r), new, more)
<1> PICK n \in Nat : n = Len(all)
    BY DEF Piled
<1> PICK list : list = Append(all, r)
    OBVIOUS
<1>1. /\ list \in Seq(OrReaps) /\ Len(list) = n + 1 /\ list[n + 1] = r
      /\ \A i \in 1 .. n : list[i] = all[i]
    BY AppendProperties DEF Piled
<1>2. made \in Nat /\ \A i \in 1 .. n : all[i] \in DOMAIN old /\ list[i] # r /\ new[list[i]] = old[all[i]]
    BY <1>1 DEF Piled, ToSet
<1>3. \A i \in 1 .. Len(list) : i \in 1 .. n \/ i = n + 1
    BY <1>1
<1>4. ASSUME NEW i \in 1 .. Len(list), NEW j \in 1 .. Len(list), i # j PROVE list[i] # list[j]
    <2>1. CASE i \in 1 .. n /\ j \in 1 .. n
        BY <1>1, <1>4, <2>1 DEF Piled
    <2>2. CASE ~(i \in 1 .. n /\ j \in 1 .. n)
        BY <1>1, <1>2, <1>3, <1>4, <2>2
    <2>3. QED BY <2>1, <2>2
<1>5. DOMAIN new = ToSet(list)
    <2>1. ASSUME NEW x \in DOMAIN new PROVE x \in ToSet(list)
        <3>1. CASE x = r
            BY <1>1, <3>1 DEF ToSet
        <3>2. CASE x \in DOMAIN old
            <4>1. PICK i \in 1 .. n : x = all[i]
                BY <3>2 DEF Piled, ToSet
            <4>2. i \in 1 .. Len(list) /\ x = list[i]
                BY <1>1, <4>1
            <4>3. QED BY <4>2 DEF ToSet
        <3>3. QED BY <3>1, <3>2
    <2>2. ASSUME NEW i \in 1 .. Len(list) PROVE list[i] \in DOMAIN new
        BY <1>1, <1>2, <1>3
    <2>3. QED BY <2>1, <2>2 DEF ToSet
<1>6. ASSUME NEW i \in 1 .. Len(list), NEW o \in new[list[i]] PROVE o \in 1 .. more
    <2>1. CASE i \in 1 .. n
        <3>1. o \in 1 .. made
            BY <1>2, <1>6, <2>1 DEF Piled
        <3>2. QED BY <1>2, <3>1
    <2>2. CASE i = n + 1
        <3>1. o \in made + 1 .. more
            BY <1>1, <1>6, <2>2
        <3>2. QED BY <1>2, <3>1
    <2>3. QED BY <1>3, <2>1, <2>2
<1>7. ASSUME NEW i \in 1 .. Len(list), NEW j \in 1 .. Len(list), i < j,
             NEW o \in new[list[i]], NEW p \in new[list[j]]
      PROVE  o < p
    <2>1. i \in 1 .. n /\ o \in old[all[i]] /\ o \in 1 .. made
        <3>1. i \in 1 .. n
            BY <1>1, <1>7
        <3>2. QED BY <1>2, <3>1 DEF Piled
    <2>2. CASE j \in 1 .. n
        BY <1>2, <1>7, <2>1, <2>2 DEF Piled
    <2>3. CASE j = n + 1
        <3>1. p \in made + 1 .. more
            BY <1>1, <1>7, <2>3
        <3>2. QED BY <1>2, <2>1, <3>1
    <2>4. QED BY <1>3, <2>2, <2>3
<1>8. QED BY <1>1, <1>4, <1>5, <1>6, <1>7 DEF Piled

\* What is below the top, and the top.
LEMMA OrAllIs ==
    ASSUME NEW pushed \in Seq(OrReaps), NEW r \in OrReaps
    PROVE  /\ Append(pushed, r) \in Seq(OrReaps) /\ Len(Append(pushed, r)) = Len(pushed) + 1
           /\ Append(pushed, r)[Len(pushed) + 1] = r
           /\ \A i \in 1 .. Len(pushed) : Append(pushed, r)[i] = pushed[i]
           /\ Len(pushed) \in Nat
BY AppendProperties

\* The reaps above one go.
LEMMA PileShrinks ==
    ASSUME NEW all, NEW old, NEW made, Piled(all, old, made),
           NEW list \in Seq(OrReaps), Len(list) <= Len(all),
           \A i \in 1 .. Len(list) : list[i] = all[i],
           NEW new, DOMAIN new = ToSet(list), \A x \in DOMAIN new : new[x] = old[x]
    PROVE  Piled(list, new, made)
<1>1. ASSUME NEW i \in 1 .. Len(list) PROVE i \in 1 .. Len(all) /\ new[list[i]] = old[all[i]]
    <2>1. i \in 1 .. Len(all)
        BY DEF Piled
    <2>2. list[i] \in DOMAIN new
        BY DEF ToSet
    <2>3. QED BY <2>1, <2>2
<1>2. ASSUME NEW i \in 1 .. Len(list), NEW j \in 1 .. Len(list), i # j PROVE list[i] # list[j]
    BY <1>1, <1>2 DEF Piled
<1>3. ASSUME NEW i \in 1 .. Len(list), NEW o \in new[list[i]] PROVE o \in 1 .. made
    BY <1>1, <1>3 DEF Piled
<1>4. ASSUME NEW i \in 1 .. Len(list), NEW j \in 1 .. Len(list), i < j,
             NEW o \in new[list[i]], NEW p \in new[list[j]]
      PROVE  o < p
    BY <1>1, <1>4 DEF Piled
<1>5. QED BY <1>2, <1>3, <1>4 DEF Piled
-----------------------------------------------------------------------------
(* What the operations do *)

\* The stack stays, and the reap on top may have got an object.
LEMMA TopChanges ==
    ASSUME OrInv, NEW new, DOMAIN new = DOMAIN reaps,
           \A r \in DOMAIN reaps :
              new[r] \subseteq reaps[r] \cup (IF r = currentReap THEN {orMade + 1} ELSE {}),
           reaps' = new, UNCHANGED <<currentReap, orStack>>, orMade' = orMade + 1
    PROVE  OrInv'
<1>1. /\ OrAll \in Seq(OrReaps) /\ Len(OrAll) = Len(orPushed) + 1 /\ Len(orPushed) \in Nat
      /\ OrAll[Len(orPushed) + 1] = currentReap
    BY OrAllIs DEF OrInv, OrAll
<1>2. Piled(OrAll, reaps, orMade)
    BY DEF OrInv
<1>3. ASSUME NEW i \in 1 .. Len(OrAll)
      PROVE  new[OrAll[i]] \subseteq reaps[OrAll[i]] \cup (IF i = Len(OrAll) THEN {orMade + 1} ELSE {})
    <2>1. OrAll[i] \in DOMAIN reaps
        BY <1>2 DEF Piled, ToSet
    <2>2. OrAll[i] = currentReap => i = Len(OrAll)
        BY <1>1, <1>2 DEF Piled
    <2>3. QED BY <2>1, <2>2
<1>4. Piled(OrAll, new, orMade + 1)
    BY <1>2, <1>3, PileTops
<1>5. OrAll' = OrAll
    BY DEF OrAll, orStack
<1>6. QED BY <1>4, <1>5 DEF OrInv, orStack

WithReap(old, s, objects) == [x \in DOMAIN old \cup {s} |-> IF x = s THEN objects ELSE old[x]]

\* The current reap is put aside for a new one.
LEMMA TopAside ==
    ASSUME NEW pushed \in Seq(OrReaps), NEW r \in OrReaps, NEW a, Holds(a, pushed),
           NEW old, NEW made, Piled(Append(pushed, r), old, made),
           NEW s \in OrReaps \ DOMAIN old, NEW more \in Nat, made <= more,
           NEW objects, \A o \in objects : o \in made + 1 .. more,
           numItems = Len(pushed), items = a, orPushed = pushed, Push(r),
           reaps' = WithReap(old, s, objects),
           currentReap' = s, orMade' = more
    PROVE  OrInv'
<1>1. PICK up : up = Append(pushed, r)
    OBVIOUS
<1>2. up \in Seq(OrReaps) /\ Len(up) = Len(pushed) + 1
    BY <1>1, OrAllIs
<1>3. PICK n : n = Len(pushed) + 1
    OBVIOUS
<1>4. PICK b : b = [Grown(a, n) EXCEPT ![n] = r]
    OBVIOUS
<1>5. Holds(b, up)
    BY <1>1, <1>3, <1>4, PushedIs
<1>6. numItems' = n /\ items' = b /\ orPushed' = up
    BY <1>1, <1>3, <1>4 DEF Push
<1>7. PICK new : new = WithReap(old, s, objects)
    OBVIOUS
<1>8. DOMAIN new = DOMAIN old \cup {s} /\ new[s] = objects /\ \A x \in DOMAIN old : new[x] = old[x]
    BY <1>7 DEF WithReap
<1>9. Piled(Append(up, s), new, more)
    BY <1>1, <1>8, PileGrows
<1>10. OrAll' = Append(up, s)
    BY <1>6 DEF OrAll
<1>11. QED BY <1>2, <1>3, <1>5, <1>6, <1>7, <1>9, <1>10 DEF OrInv

LEMMA NewReapIs == ASSUME OrInv, ReapLeft PROVE NewReap \in OrReaps \ DOMAIN reaps
<1>1. DOMAIN reaps \subseteq OrReaps
    BY DEF OrInv, Piled, ToSet
<1>2. OrReaps \ DOMAIN reaps # {}
    BY <1>1 DEF ReapLeft
<1>3. QED BY <1>2 DEF NewReap

LEMMA StartReapKeeps == ASSUME OrInv, StartReap(reaps), orMade' = orMade + 1 PROVE OrInv'
<1>1. /\ Push(currentReap) /\ ReapLeft /\ currentReap' = NewReap
      /\ reaps' = [x \in DOMAIN reaps \cup {NewReap} |->
                     IF x = NewReap THEN {} \cup {orMade + 1} ELSE reaps[x]]
    BY DEF StartReap, InitCurrentObject
<1>2. PICK s \in OrReaps \ DOMAIN reaps : s = NewReap
    BY <1>1, NewReapIs
<1>3. PICK objects : objects = {orMade + 1}
    OBVIOUS
<1>4. reaps' = [x \in DOMAIN reaps \cup {s} |-> IF x = s THEN objects ELSE reaps[x]]
    BY <1>1, <1>2, <1>3
<1>5. PICK made \in Nat : made = orMade
    BY DEF OrInv, Piled
<1>6. made + 1 \in Nat /\ made <= made + 1 /\ \A o \in objects : o \in made + 1 .. made + 1
    BY <1>3, <1>5
<1>7. /\ orPushed \in Seq(OrReaps) /\ currentReap \in OrReaps /\ Holds(items, orPushed)
      /\ numItems = Len(orPushed) /\ Piled(Append(orPushed, currentReap), reaps, made)
    BY <1>5 DEF OrInv, OrAll
<1>8. PICK more : more = made + 1
    OBVIOUS
<1>9. orMade' = more /\ more \in Nat /\ made <= more /\ \A o \in objects : o \in made + 1 .. more
    BY <1>5, <1>6, <1>8
<1> PICK pushed : pushed = orPushed
    OBVIOUS
<1> PICK r : r = currentReap
    OBVIOUS
<1> PICK a : a = items
    OBVIOUS
<1> PICK old : old = reaps
    OBVIOUS
<1>10. /\ pushed \in Seq(OrReaps) /\ r \in OrReaps /\ Holds(a, pushed)
       /\ Piled(Append(pushed, r), old, made) /\ s \in OrReaps \ DOMAIN old
    BY <1>2, <1>7
<1>11. /\ numItems = Len(pushed) /\ items = a /\ orPushed = pushed /\ Push(r)
       /\ reaps' = WithReap(old, s, objects)
       /\ currentReap' = s
    BY <1>1, <1>2, <1>4, <1>7 DEF WithReap
<1>12. QED BY <1>9, <1>10, <1>11, TopAside

LEMMA OrMallocKeeps == ASSUME OrInv, OrMalloc PROVE OrInv'
<1>1. CASE ~isCurrentObjectExposed
    <2>1. /\ reaps' = [reaps EXCEPT ![currentReap] = @ \cup {orMade + 1}]
          /\ orMade' = orMade + 1 /\ UNCHANGED <<currentReap, orStack>>
        BY <1>1 DEF OrMalloc
    <2>2. PICK new : new = [reaps EXCEPT ![currentReap] = @ \cup {orMade + 1}]
        OBVIOUS
    <2>3. DOMAIN new = DOMAIN reaps
          /\ \A r \in DOMAIN reaps :
                new[r] \subseteq reaps[r] \cup (IF r = currentReap THEN {orMade + 1} ELSE {})
        BY <2>2
    <2>4. QED BY <2>1, <2>2, <2>3, TopChanges
<1>2. CASE isCurrentObjectExposed
    BY <1>2, StartReapKeeps DEF OrMalloc
<1>3. QED BY <1>1, <1>2

LEMMA FinalizeKeeps == ASSUME OrInv, Finalize PROVE OrInv'
<1>1. CASE ~isCurrentObjectExposed
    <2>1. /\ InitCurrentObject(reaps, currentReap, reaps[currentReap])
          /\ orMade' = orMade + 1 /\ UNCHANGED orStack
        BY <1>1 DEF Finalize
    <2>2. currentReap \in DOMAIN reaps
        <3>1. Append(orPushed, currentReap)[Len(orPushed) + 1] = currentReap
              /\ Len(orPushed) + 1 \in 1 .. Len(Append(orPushed, currentReap))
            BY OrAllIs DEF OrInv
        <3>2. QED BY <3>1 DEF OrInv, Piled, OrAll, ToSet
    <2>3. PICK new : new = [x \in DOMAIN reaps \cup {currentReap} |->
                              IF x = currentReap THEN reaps[currentReap] \cup {orMade + 1} ELSE reaps[x]]
        OBVIOUS
    <2>4. reaps' = new /\ currentReap' = currentReap
        BY <2>1, <2>3 DEF InitCurrentObject
    <2>5. DOMAIN new = DOMAIN reaps
          /\ \A r \in DOMAIN reaps :
                new[r] \subseteq reaps[r] \cup (IF r = currentReap THEN {orMade + 1} ELSE {})
        BY <2>2, <2>3
    <2>6. QED BY <2>1, <2>4, <2>5, TopChanges
<1>2. CASE isCurrentObjectExposed
    BY <1>2, StartReapKeeps DEF Finalize
<1>3. QED BY <1>1, <1>2

\* The object is reallocated on top, and then, if it was exposed, a reap is begun.
LEMMA GrowKeeps == ASSUME OrInv, NEW sz \in OrSizes, Grow(sz) PROVE OrInv'
<1>1. CASE ~(currentObjectSize + sz > INITIAL_OBJECT_SIZE)
    <2>1. UNCHANGED <<reaps, currentReap, orStack, currentObject, orMade>>
        BY <1>1 DEF Grow
    <2>2. OrAll' = OrAll
        BY <2>1 DEF OrAll, orStack
    <2>3. QED BY <2>1, <2>2 DEF OrInv, orStack
<1>2. CASE currentObjectSize + sz > INITIAL_OBJECT_SIZE
    <2>1. PICK moved : moved = ReapRealloc(currentObject, orMade + 1)
        OBVIOUS
    <2>2. DOMAIN moved = DOMAIN reaps
          /\ \A r \in DOMAIN reaps :
                moved[r] \subseteq reaps[r] \cup (IF r = currentReap THEN {orMade + 1} ELSE {})
        BY <2>1 DEF ReapRealloc
    <2>3. orMade' = orMade + 1
        BY <1>2 DEF Grow
    <2>4. CASE ~isCurrentObjectExposed
        <3>1. reaps' = moved /\ UNCHANGED <<currentReap, orStack>>
            BY <1>2, <2>1, <2>4 DEF Grow
        <3>2. QED BY <2>2, <2>3, <3>1, TopChanges
    <2>5. CASE isCurrentObjectExposed
        <3>1. /\ ReapLeft /\ Push(currentReap) /\ currentReap' = NewReap
              /\ reaps' = [x \in DOMAIN reaps \cup {NewReap} |-> IF x = NewReap THEN {} ELSE moved[x]]
            BY <1>2, <2>1, <2>5 DEF Grow
        <3>2. PICK s \in OrReaps \ DOMAIN moved : s = NewReap
            BY <2>2, <3>1, NewReapIs
        <3>3. reaps' = [x \in DOMAIN moved \cup {s} |-> IF x = s THEN {} ELSE moved[x]]
            BY <2>2, <3>1, <3>2
        <3>4. PICK all : all = OrAll
            OBVIOUS
        <3>5. Piled(all, reaps, orMade)
            BY <3>4 DEF OrInv
        <3>6. ASSUME NEW i \in 1 .. Len(all)
              PROVE  moved[all[i]] \subseteq reaps[all[i]] \cup (IF i = Len(all) THEN {orMade + 1} ELSE {})
            <4>1. all[i] \in DOMAIN reaps
                BY <3>5 DEF Piled, ToSet
            <4>2. Len(all) = Len(orPushed) + 1 /\ all[Len(orPushed) + 1] = currentReap
                  /\ Len(orPushed) \in Nat
                BY <3>4, OrAllIs DEF OrInv, OrAll
            <4>3. all[i] = currentReap => i = Len(all)
                BY <3>5, <4>2 DEF Piled
            <4>4. QED BY <2>2, <4>1, <4>3
        <3>7. PICK more : more = orMade + 1
            OBVIOUS
        <3>8. Piled(all, moved, more)
            BY <2>2, <3>5, <3>6, <3>7, PileTops
        <3>9. more \in Nat /\ more <= more /\ \A o \in {} : o \in more + 1 .. more
            BY <3>8 DEF Piled
        <3>10. /\ orPushed \in Seq(OrReaps) /\ currentReap \in OrReaps /\ Holds(items, orPushed)
               /\ numItems = Len(orPushed) /\ Piled(Append(orPushed, currentReap), moved, more)
            BY <3>4, <3>8 DEF OrInv, OrAll
        <3>11. currentReap' = s /\ orMade' = more /\ Push(currentReap)
            BY <2>3, <3>1, <3>2, <3>7
        <3> PICK pushed : pushed = orPushed
            OBVIOUS
        <3> PICK r : r = currentReap
            OBVIOUS
        <3> PICK a : a = items
            OBVIOUS
        <3> PICK old : old = moved
            OBVIOUS
        <3> PICK objects : objects = {}
            OBVIOUS
        <3>12. /\ pushed \in Seq(OrReaps) /\ r \in OrReaps /\ Holds(a, pushed)
               /\ Piled(Append(pushed, r), old, more) /\ s \in OrReaps \ DOMAIN old
               /\ \A o \in objects : o \in more + 1 .. more
            BY <3>2, <3>10
        <3>13. /\ numItems = Len(pushed) /\ items = a /\ orPushed = pushed /\ Push(r)
               /\ reaps' = WithReap(old, s, objects)
               /\ currentReap' = s /\ orMade' = more
            BY <3>2, <3>3, <3>10, <3>11 DEF WithReap
        <3>14. QED BY <3>9, <3>12, <3>13, TopAside
    <2>6. QED BY <2>4, <2>5
<1>3. QED BY <1>1, <1>2

\* The reap at a depth, on the pile.
LEMMA ReapAtIs ==
    ASSUME OrInv, NEW d \in 0 .. numItems
    PROVE  numItems + 1 - d \in 1 .. Len(OrAll) /\ ReapAt(d) = OrAll[numItems + 1 - d]
<1>1. /\ Len(OrAll) = numItems + 1 /\ numItems \in Nat /\ numItems = Len(orPushed)
      /\ OrAll[numItems + 1] = currentReap
      /\ \A i \in 1 .. numItems : OrAll[i] = orPushed[i]
    BY OrAllIs DEF OrInv, OrAll
<1>2. numItems + 1 - d \in 1 .. Len(OrAll)
    BY <1>1
<1>3. CASE d = 0
    <2>1. numItems + 1 - d = numItems + 1
        BY <1>1, <1>3
    <2>2. QED BY <1>1, <1>2, <1>3, <2>1 DEF ReapAt
<1>4. CASE d # 0
    <2>1. PICK i \in 1 .. numItems : i = numItems - d + 1 /\ i = numItems + 1 - d
        BY <1>1, <1>4
    <2>2. items[i] = orPushed[i]
        BY <1>1, <2>1 DEF OrInv, Holds
    <2>3. ReapAt(d) = items[i]
        BY <1>4, <2>1 DEF ReapAt
    <2>4. QED BY <1>1, <1>2, <2>1, <2>2, <2>3
<1>5. QED BY <1>3, <1>4

LEMMA FreeAfterKeeps == ASSUME OrInv, NEW o, FreeAfter(o) PROVE OrInv'
<1> DEFINE depths == {d \in 0 .. numItems : o \in reaps[ReapAt(d)]}
<1>1. /\ Len(OrAll) = numItems + 1 /\ numItems \in Nat /\ numItems = Len(orPushed)
      /\ OrAll \in Seq(OrReaps) /\ orPushed \in Seq(OrReaps)
      /\ \A i \in 1 .. numItems : OrAll[i] = orPushed[i]
    BY OrAllIs DEF OrInv, OrAll
<1>2. depths # {}
    <2>1. PICK r \in DOMAIN reaps : o \in reaps[r]
        BY DEF FreeAfter
    <2>2. PICK i \in 1 .. Len(OrAll) : r = OrAll[i]
        BY DEF OrInv, Piled, ToSet
    <2>8. \A n \in Nat : \A k \in 1 .. n + 1 : \E d \in 0 .. n : d = n + 1 - k /\ n + 1 - d = k
        <3>1. \A n \in Nat : \A k \in 1 .. n + 1 : n + 1 - k \in 0 .. n /\ n + 1 - (n + 1 - k) = k
            OBVIOUS
        <3>2. QED BY <3>1
    <2>9. i \in 1 .. numItems + 1
        BY <1>1, <2>2
    <2>3. PICK d \in 0 .. numItems : d = numItems + 1 - i /\ numItems + 1 - d = i
        BY <1>1, <2>8, <2>9
    <2>4. ReapAt(d) = r
        BY <2>2, <2>3, ReapAtIs
    <2>5. d \in depths
        BY <2>1, <2>4
    <2>6. QED BY <2>5
<1>3. PICK k \in 0 .. numItems : k = Min(depths)
    <2>1. depths \subseteq 0 .. numItems /\ depths \subseteq Nat
        BY <1>1
    <2> HIDE DEF depths
    <2>2. \E n \in depths : \A m \in depths : n <= m
        BY <1>2, <2>1, LeastNatural
    <2>3. Min(depths) \in depths
        BY <2>2 DEF Min
    <2>4. QED BY <2>1, <2>3
<1>4. /\ reaps' = [r \in DOMAIN reaps \ {ReapAt(d) : d \in 0 .. k - 1} |-> reaps[r]]
      /\ currentReap' = ReapAt(k) /\ numItems' = numItems - k
      /\ items' = Popped(items, numItems, k) /\ orPushed' = SubSeq(orPushed, 1, numItems - k)
      /\ orMade' = orMade
    BY <1>3 DEF FreeAfter, orObject
<1> HIDE DEF depths
<1>5. PICK n \in Nat : n = numItems - k /\ n + 1 = numItems + 1 - k
    BY <1>1, <1>3
<1>6. PICK r : r = ReapAt(k)
    OBVIOUS
<1>7. r = OrAll[n + 1] /\ n + 1 \in 1 .. Len(OrAll) /\ r \in OrReaps
    BY <1>1, <1>3, <1>5, <1>6, ReapAtIs
<1>8. PICK pushed : pushed = SubSeq(orPushed, 1, n)
    OBVIOUS
<1>9. pushed \in Seq(OrReaps) /\ Len(pushed) = n /\ \A i \in 1 .. n : pushed[i] = orPushed[i]
    <2>1. \A i \in 1 .. n : orPushed[i] \in OrReaps
        BY <1>1, <1>3, <1>5
    <2>2. pushed \in Seq(OrReaps) /\ Len(pushed) = (IF 1 <= n THEN n - 1 + 1 ELSE 0)
        BY <1>8, <2>1, SubSeqProperties
    <2>3. \A i \in 1 .. n - 1 + 1 : pushed[i] = orPushed[1 + i - 1]
        BY <1>8, <2>1, SubSeqProperties
    <2>4. QED BY <1>5, <2>2, <2>3
<1>10. PICK list : list = Append(pushed, r)
    OBVIOUS
<1>11. /\ list \in Seq(OrReaps) /\ Len(list) = n + 1 /\ list[n + 1] = r
       /\ \A i \in 1 .. n : list[i] = pushed[i]
    BY <1>7, <1>9, <1>10, OrAllIs
<1>12. ASSUME NEW i \in 1 .. Len(list) PROVE list[i] = OrAll[i] /\ i \in 1 .. Len(OrAll)
    <2>1. i \in 1 .. n \/ i = n + 1
        BY <1>11
    <2>2. CASE i \in 1 .. n
        <3>1. i \in 1 .. numItems
            BY <1>1, <1>3, <1>5, <2>2
        <3>2. QED BY <1>1, <1>9, <1>11, <2>2, <3>1
    <2>3. CASE i = n + 1
        BY <1>7, <1>11, <2>3
    <2>4. QED BY <2>1, <2>2, <2>3
<1>13. DOMAIN reaps \ {ReapAt(d) : d \in 0 .. k - 1} = ToSet(list)
    <2>1. ASSUME NEW i \in 1 .. Len(list)
          PROVE  list[i] \in DOMAIN reaps \ {ReapAt(d) : d \in 0 .. k - 1}
        <3>1. list[i] = OrAll[i] /\ i \in 1 .. Len(OrAll)
            BY <1>12
        <3>2. list[i] \in DOMAIN reaps
            BY <3>1 DEF OrInv, Piled, ToSet
        <3>3. ASSUME NEW d \in 0 .. k - 1 PROVE list[i] # ReapAt(d)
            <4>1. d \in 0 .. numItems
                BY <1>1, <1>3
            <4>2. PICK j \in 1 .. Len(OrAll) : j = numItems + 1 - d /\ ReapAt(d) = OrAll[j]
                BY <4>1, ReapAtIs
            <4>3. i # j
                <5>1. d <= k - 1 /\ d \in Nat /\ k \in Nat
                    BY <1>1, <1>3
                <5>2. n + 1 < j
                    BY <1>1, <1>5, <4>2, <5>1
                <5>3. QED BY <1>11, <5>2
            <4>4. QED BY <3>1, <4>2, <4>3 DEF OrInv, Piled
        <3>4. QED BY <3>2, <3>3
    <2>2. ASSUME NEW x \in DOMAIN reaps, \A d \in 0 .. k - 1 : x # ReapAt(d) PROVE x \in ToSet(list)
        <3>1. PICK i \in 1 .. Len(OrAll) : x = OrAll[i]
            BY DEF OrInv, Piled, ToSet
        <3>2. CASE i <= n + 1
            <4>1. i \in 1 .. Len(list)
                BY <1>11, <3>2
            <4>2. x = list[i]
                BY <1>12, <3>1, <4>1
            <4>3. QED BY <4>1, <4>2 DEF ToSet
        <3>3. CASE ~(i <= n + 1)
            <4> PICK d : d = numItems + 1 - i
                OBVIOUS
            <4>1. d \in 0 .. k - 1 /\ numItems + 1 - d = i
                <5>1. i \in Nat /\ i <= numItems + 1 /\ n + 1 < i /\ k \in Nat
                    BY <1>1, <1>3, <1>5, <3>3
                <5>2. QED BY <1>1, <1>5, <5>1
            <4>2. d \in 0 .. numItems
                BY <1>1, <1>3, <4>1
            <4>3. ReapAt(d) = x
                BY <3>1, <4>1, <4>2, ReapAtIs
            <4>4. QED BY <2>2, <4>1, <4>3
        <3>4. QED BY <3>2, <3>3
    <2>3. QED BY <2>1, <2>2 DEF ToSet
<1>14. PICK new : new = [x \in DOMAIN reaps \ {ReapAt(d) : d \in 0 .. k - 1} |-> reaps[x]]
    OBVIOUS
<1>15. DOMAIN new = ToSet(list) /\ \A x \in DOMAIN new : new[x] = reaps[x]
    BY <1>13, <1>14
<1>16. Piled(OrAll, reaps, orMade) /\ Len(list) <= Len(OrAll)
    BY <1>1, <1>3, <1>5, <1>11 DEF OrInv
<1>17. Piled(list, new, orMade)
    BY <1>11, <1>12, <1>15, <1>16, PileShrinks
<1>18. PICK a : a = Popped(items, numItems, k)
    OBVIOUS
<1>19. IsArray(items, numItems) /\ \A i \in 1 .. numItems : items[i] = orPushed[i]
    BY <1>1 DEF OrInv, Holds
<1>20. IsArray(a, n) /\ \A i \in 0 .. n : a[i] = items[i]
    <2>1. /\ IsArray(Popped(items, numItems, k), numItems - k)
          /\ \A i \in 0 .. numItems - k : Popped(items, numItems, k)[i] = items[i]
        BY <1>1, <1>3, <1>19, PoppedIs
    <2>2. QED BY <1>5, <1>18, <2>1
<1>21. Holds(a, pushed)
    <2>1. \A i \in 1 .. n : i \in 0 .. n /\ i \in 1 .. numItems
        BY <1>1, <1>3, <1>5
    <2>2. QED BY <1>9, <1>19, <1>20, <2>1 DEF Holds
<1>22. OrAll' = list
    BY <1>4, <1>5, <1>6, <1>8, <1>10 DEF OrAll
<1>23. QED BY <1>4, <1>5, <1>6, <1>7, <1>8, <1>9, <1>14, <1>17, <1>18, <1>21, <1>22 DEF OrInv

LEMMA OrInitGood == OrInit => OrInv
<1> SUFFICES ASSUME OrInit PROVE OrInv
    OBVIOUS
<1>1. PICK r \in OrReaps : r = currentReap
    BY OrAssumption DEF OrInit
<1>2. /\ reaps = [x \in {r} |-> {1}] /\ numItems = 0 /\ items = [i \in {0} |-> OrNone]
      /\ orMade = 1 /\ orPushed = <<>>
    BY <1>1 DEF OrInit
<1> PICK pushed : pushed = <<>>
    OBVIOUS
<1>3. pushed = <<>> /\ pushed \in Seq(OrReaps) /\ Len(pushed) = 0
    OBVIOUS
<1>4. PICK list : list = Append(pushed, r)
    OBVIOUS
<1>5. list \in Seq(OrReaps) /\ Len(list) = 1 /\ list[1] = r
    <2>1. Len(pushed) + 1 = 1
        BY <1>3
    <2>2. QED BY <1>3, <1>4, <2>1, OrAllIs
<1>6. \A i \in 1 .. Len(list) : i = 1
    BY <1>5
<1>7. ToSet(list) = {r}
    <2>1. 1 \in 1 .. Len(list)
        BY <1>5
    <2>2. QED BY <1>5, <1>6, <2>1 DEF ToSet
<1>8. Piled(list, reaps, orMade)
    <2>1. DOMAIN reaps = {r} /\ reaps[r] = {1} /\ 1 \in 1 .. 1 /\ ~(1 < 1)
        BY <1>2
    <2>2. QED BY <1>2, <1>5, <1>6, <1>7, <2>1 DEF Piled
<1>9. IsArray(items, 0)
    <2>1. 0 .. 1 - 1 = {0}
        OBVIOUS
    <2>2. items \in OrArrays(1)
        BY <1>2, <2>1 DEF OrArrays
    <2>3. 1 \in Nat /\ 0 < 1
        OBVIOUS
    <2>4. QED BY <2>2, <2>3 DEF IsArray
<1>10. Holds(items, pushed)
    BY <1>3, <1>9 DEF Holds
<1>11. QED BY <1>1, <1>2, <1>3, <1>4, <1>8, <1>10 DEF OrInv, OrAll

LEMMA OrInvSuffices == OrInv => ReapsStackUp
<1> SUFFICES ASSUME OrInv PROVE ReapsStackUp
    OBVIOUS
<1>1. /\ Len(OrAll) = numItems + 1 /\ numItems \in Nat /\ numItems = Len(orPushed)
      /\ OrAll[numItems + 1] = currentReap /\ \A i \in 1 .. numItems : OrAll[i] = orPushed[i]
    BY OrAllIs DEF OrInv, OrAll
<1>2. \A i \in 1 .. numItems : items[i] = orPushed[i]
    BY <1>1 DEF OrInv, Holds
<1>3. ToSet(orPushed) \cup {currentReap} = ToSet(OrAll)
    <2>1. ASSUME NEW i \in 1 .. Len(OrAll) PROVE OrAll[i] \in ToSet(orPushed) \cup {currentReap}
        <3>1. i \in 1 .. numItems \/ i = numItems + 1
            BY <1>1
        <3>2. QED BY <1>1, <3>1 DEF ToSet
    <2>2. ASSUME NEW i \in 1 .. Len(orPushed) PROVE orPushed[i] \in ToSet(OrAll)
        <3>1. i \in 1 .. Len(OrAll) /\ orPushed[i] = OrAll[i]
            BY <1>1
        <3>2. QED BY <3>1 DEF ToSet
    <2>3. currentReap \in ToSet(OrAll)
        <3>1. numItems + 1 \in 1 .. Len(OrAll)
            BY <1>1
        <3>2. QED BY <1>1, <3>1 DEF ToSet
    <2>4. QED BY <2>1, <2>2, <2>3 DEF ToSet
<1>4. \A i, j \in 1 .. Len(OrAll) : i < j =>
         \A o \in reaps[OrAll[i]], p \in reaps[OrAll[j]] : o < p
    BY DEF OrInv, Piled
<1>5. QED BY <1>1, <1>2, <1>3, <1>4 DEF ReapsStackUp, OrInv, Piled, OrAll

\* Whatever the reaps and the sizes, ObstackReap's array holds the reaps put aside
\* through every doubling and halving, each older than those above it.
THEOREM ReapsAreStacked == OrSpec => []ReapsStackUp
<1>1. OrInit => OrInv
    BY OrInitGood
<1>2. OrInv /\ [OrNext]_orVars => OrInv'
    <2> SUFFICES ASSUME OrInv, [OrNext]_orVars PROVE OrInv'
        OBVIOUS
    <2>1. CASE OrNext
        <3>1. ASSUME GetObjectBase PROVE OrInv'
            BY <3>1 DEF GetObjectBase, OrInv, OrAll, orStack
        <3>2. QED BY <2>1, <3>1, OrMallocKeeps, FinalizeKeeps, GrowKeeps, FreeAfterKeeps DEF OrNext
    <2>2. CASE UNCHANGED orVars
        BY <2>2 DEF orVars, orStack, orObject, OrInv, OrAll
    <2>3. QED BY <2>1, <2>2
<1>3. QED BY <1>1, <1>2, OrInvSuffices, PTL DEF OrSpec

-----------------------------------------------------------------------------
(* NestedHeap *)

(* Sets that grow step by step *)

\* f adds to a set, from first on, what of yields.
Grows(f, k, first, adds) ==
    f = [n \in 0 .. k |-> IF n = 0 THEN first ELSE f[n - 1] \cup adds[f[n - 1]]]

LEMMA GrowthExists ==
    ASSUME NEW k \in Nat, NEW A, NEW first \in SUBSET A, NEW adds \in [SUBSET A -> SUBSET A]
    PROVE  \E f : Grows(f, k, first, adds)
<1> PICK V : V = SUBSET A
    OBVIOUS
<1> PICK step : step = [x \in V \X (1 .. k) |-> x[1] \cup adds[x[1]]]
    OBVIOUS
<1>1. step \in [V \X (1 .. k) -> V]
    OBVIOUS
<1>2. PICK f : Iterates(f, k, V, first, step)
    BY <1>1, IterationExists
<1>3. f \in [0 .. k -> V] /\ f[0] = first /\ \A i \in 1 .. k : f[i] = step[<<f[i - 1], i>>]
    BY <1>2 DEF Iterates
<1>4. ASSUME NEW n \in 0 .. k PROVE f[n] = IF n = 0 THEN first ELSE f[n - 1] \cup adds[f[n - 1]]
    <2>1. CASE n = 0
        BY <1>3, <2>1
    <2>2. CASE n # 0
        <3>1. n \in 1 .. k /\ n - 1 \in 0 .. k
            BY <2>2
        <3>2. <<f[n - 1], n>> \in V \X (1 .. k)
            BY <1>3, <3>1
        <3>3. QED BY <1>3, <2>2, <3>1, <3>2
    <2>3. QED BY <2>1, <2>2
<1>5. Grows(f, k, first, adds)
    BY <1>3, <1>4 DEF Grows
<1>6. QED BY <1>5

GrowsIn(f, k, A, first, adds) ==
    k \in Nat /\ first \in SUBSET A /\ adds \in [SUBSET A -> SUBSET A] /\ Grows(f, k, first, adds)

GrownIn(f, k, A, first, adds) ==
    /\ f[0] = first
    /\ \A n \in Nat : n < k => f[n + 1] = f[n] \cup adds[f[n]]
    /\ \A n \in 0 .. k : f[n] \in SUBSET A /\ first \subseteq f[n]

LEMMA GrowthIs ==
    ASSUME NEW k, NEW A, NEW first, NEW adds, NEW f, GrowsIn(f, k, A, first, adds)
    PROVE  GrownIn(f, k, A, first, adds)
<1>9. k \in Nat /\ first \in SUBSET A /\ adds \in [SUBSET A -> SUBSET A] /\ Grows(f, k, first, adds)
    BY DEF GrowsIn
<1>1. f[0] = first
    BY <1>9 DEF Grows
<1>2. ASSUME NEW n \in Nat, n < k PROVE f[n + 1] = f[n] \cup adds[f[n]]
    <2>1. n + 1 \in 0 .. k /\ n + 1 # 0 /\ (n + 1) - 1 = n
        BY <1>2, <1>9
    <2>2. PICK m \in 0 .. k : m = n + 1 /\ m # 0 /\ m - 1 = n
        BY <2>1
    <2>3. f[m] = f[m - 1] \cup adds[f[m - 1]]
        BY <1>9, <2>2 DEF Grows
    <2>4. QED BY <2>2, <2>3
<1> DEFINE S == {n \in Nat : n <= k => f[n] \in SUBSET A /\ first \subseteq f[n]}
<1>3. 0 \in S
    BY <1>1, <1>9
<1>4. ASSUME NEW n \in Nat, n < k, n \in S PROVE n + 1 \in S
    <2>1. f[n] \in SUBSET A /\ first \subseteq f[n]
        BY <1>4, <1>9
    <2>2. f[n + 1] \in SUBSET A /\ first \subseteq f[n + 1]
        BY <1>2, <1>4, <1>9, <2>1
    <2>3. QED BY <2>2
<1>5. 0 .. k \subseteq S
    <2> HIDE DEF S
    <2>1. QED BY <1>3, <1>4, <1>9, OneMore
<1>6. QED BY <1>1, <1>2, <1>5 DEF GrownIn

\* After as many steps as there are members, nothing is added any more.
LEMMA GrowthEnds ==
    ASSUME NEW A, IsFiniteSet(A), NEW first \in SUBSET A, NEW adds \in [SUBSET A -> SUBSET A],
           NEW f, Grows(f, Cardinality(A), first, adds)
    PROVE  adds[f[Cardinality(A)]] \subseteq f[Cardinality(A)]
<1> PICK k : k = Cardinality(A)
    OBVIOUS
<1>1. k \in Nat
    BY FS_CardinalityType
<1>9. Grows(f, k, first, adds)
    OBVIOUS
<1>2. /\ \A n \in Nat : n < k => f[n + 1] = f[n] \cup adds[f[n]]
      /\ \A n \in 0 .. k : f[n] \in SUBSET A
    <2>1. GrowsIn(f, k, A, first, adds)
        BY <1>1, <1>9 DEF GrowsIn
    <2>2. GrownIn(f, k, A, first, adds)
        BY <2>1, GrowthIs
    <2>3. QED BY <2>2 DEF GrownIn
<1> DEFINE Ended(n) == adds[f[n]] \subseteq f[n]
           S == {n \in Nat : n <= k => Ended(n) \/ Cardinality(f[n]) >= n}
<1>3. ASSUME NEW n \in 0 .. k PROVE IsFiniteSet(f[n]) /\ Cardinality(f[n]) \in Nat /\ Cardinality(f[n]) <= k
                                    /\ (Cardinality(f[n]) = k => f[n] = A)
    <2>1. f[n] \in SUBSET A
        BY <1>2
    <2>2. IsFiniteSet(f[n]) /\ Cardinality(f[n]) <= k /\ (Cardinality(f[n]) = k => f[n] = A)
        BY <2>1, FS_Subset
    <2>3. QED BY <2>2, FS_CardinalityType
<1>4. 0 \in S
    BY <1>1, <1>3
<1>5. ASSUME NEW n \in Nat, n < k, n \in S PROVE n + 1 \in S
    <2>1. n \in 0 .. k /\ n + 1 \in 0 .. k /\ f[n + 1] = f[n] \cup adds[f[n]]
        BY <1>1, <1>2, <1>5
    <2>2. CASE Ended(n)
        <3>1. f[n + 1] = f[n]
            BY <2>1, <2>2
        <3>2. Ended(n + 1)
            BY <2>2, <3>1
        <3>3. QED BY <3>2
    <2>3. CASE ~Ended(n)
        <3>1. Cardinality(f[n]) >= n
            BY <1>1, <1>5, <2>3
        <3>2. f[n] \subseteq f[n + 1] /\ f[n] # f[n + 1]
            BY <2>1, <2>3
        <3>3. /\ IsFiniteSet(f[n + 1]) /\ Cardinality(f[n + 1]) \in Nat /\ Cardinality(f[n]) \in Nat
            BY <1>3, <2>1
        <3>4. Cardinality(f[n]) <= Cardinality(f[n + 1]) /\ Cardinality(f[n]) # Cardinality(f[n + 1])
            BY <3>2, <3>3, FS_Subset
        <3>5. Cardinality(f[n + 1]) >= n + 1
            BY <3>1, <3>3, <3>4
        <3>6. QED BY <3>5
    <2>4. QED BY <2>2, <2>3
<1>6. 0 .. k \subseteq S
    <2> HIDE DEF S
    <2>1. QED BY <1>1, <1>4, <1>5, OneMore
<1>7. Ended(k)
    <2>1. k \in 0 .. k
        BY <1>1
    <2>2. Ended(k) \/ Cardinality(f[k]) >= k
        BY <1>1, <1>6, <2>1
    <2>3. CASE Cardinality(f[k]) >= k
        <3>1. f[k] = A
            BY <1>1, <1>3, <2>1, <2>3
        <3>2. QED BY <3>1
    <2>4. QED BY <2>2, <2>3
<1>8. QED BY <1>7

-----------------------------------------------------------------------------
(* Heaps and their lists of children *)

NhPlace == NhHeaps \cup {NhNull}

NhTypes ==
    /\ nhMade \subseteq NhHeaps /\ nhFull \subseteq nhMade
    /\ parent \in [NhHeaps -> NhPlace] /\ child \in [NhHeaps -> NhPlace]
    /\ prev \in [NhHeaps -> NhPlace] /\ next \in [NhHeaps -> NhPlace]

\* Only living heaps have a parent, which lives.
Rooted == \A h \in NhHeaps : parent[h] # NhNull => h \in nhMade /\ parent[h] \in nhMade

\* The links of a child lead to children of its parent, and back.
NextGoesBack == \A h \in NhHeaps : next[h] # NhNull =>
                    parent[h] # NhNull /\ parent[next[h]] = parent[h] /\ prev[next[h]] = h

PrevGoesBack == \A h \in NhHeaps : prev[h] # NhNull =>
                    parent[h] # NhNull /\ parent[prev[h]] = parent[h] /\ next[prev[h]] = h

\* The first child is the one that has nothing before it.
ChildIsFirst == \A h \in NhHeaps : child[h] # NhNull => parent[child[h]] = h /\ prev[child[h]] = NhNull

FirstIsChild == \A h \in NhHeaps : parent[h] # NhNull /\ prev[h] = NhNull => child[parent[h]] = h

\* A rank that grows along the lists: they have a beginning.
Ranks(d) == d \in [NhHeaps -> Nat] /\ \A h \in NhHeaps : prev[h] # NhNull => d[prev[h]] < d[h]

NhInv ==
    /\ NhTypes /\ Rooted
    /\ NextGoesBack /\ PrevGoesBack /\ ChildIsFirst /\ FirstIsChild
    /\ \E d : Ranks(d)

Children(h) == {c \in NhHeaps : parent[c] = h}

\* Some heap of a set of children is the first, or comes behind one that is not in the set.
LEMMA SomeIsBehind ==
    ASSUME NhInv, NEW h \in NhHeaps, NEW U, U \subseteq Children(h), U # {}
    PROVE  \E c \in U : \/ prev[c] = NhNull /\ c = child[h]
                        \/ prev[c] \in Children(h) \ U /\ next[prev[c]] = c
<1>1. PICK d : Ranks(d)
    BY DEF NhInv
<1>2. /\ d \in [NhHeaps -> Nat]
      /\ \A c \in NhHeaps : prev[c] # NhNull => d[prev[c]] < d[c]
    BY <1>1 DEF Ranks
<1>3. PICK T : T = {d[c] : c \in U}
    OBVIOUS
<1>4. U \subseteq NhHeaps /\ h # NhNull
    BY NhAssumption DEF Children
<1>5. T \subseteq Nat /\ T # {}
    BY <1>2, <1>3, <1>4
<1>6. PICK n \in T : \A m \in T : n <= m
    BY <1>5, LeastNatural
<1>7. PICK c \in U : n = d[c]
    BY <1>3, <1>6
<1>8. c \in NhHeaps /\ parent[c] = h
    BY <1>7 DEF Children
<1>9. CASE prev[c] = NhNull
    BY <1>4, <1>7, <1>8, <1>9 DEF NhInv, FirstIsChild
<1>10. CASE prev[c] # NhNull
    <2>1. prev[c] \in NhHeaps /\ parent[prev[c]] = h /\ next[prev[c]] = c
        BY <1>8, <1>10 DEF NhInv, NhTypes, NhPlace, PrevGoesBack
    <2>2. prev[c] \notin U
        <3>1. SUFFICES ASSUME prev[c] \in U PROVE FALSE
            OBVIOUS
        <3>2. d[prev[c]] \in T
            BY <1>3, <3>1
        <3>3. d[c] <= d[prev[c]] /\ d[prev[c]] < d[c] /\ d[c] \in Nat /\ d[prev[c]] \in Nat
            BY <1>2, <1>6, <1>7, <1>8, <1>10, <2>1, <3>2
        <3>4. QED BY <3>3
    <2>3. QED BY <1>7, <2>1, <2>2 DEF Children
<1>11. QED BY <1>9, <1>10

-----------------------------------------------------------------------------
(* The sets of Listed, Cleared and Beneath *)

NextOf == [X \in SUBSET NhHeaps |-> {next[g] : g \in X} \ {NhNull}]

BelowOf == [X \in SUBSET nhMade |-> {g \in nhMade : parent[g] \in X}]

ListGrows(f, h) ==
    f = [n \in 0 .. Cardinality(NhHeaps) |->
          IF n = 0 THEN {child[h]} \ {NhNull} ELSE LET some == f[n - 1] IN some \cup ({next[g] : g \in some} \ {NhNull})]

LEMMA NextOfIs ==
    ASSUME NhInv
    PROVE  /\ NextOf \in [SUBSET NhHeaps -> SUBSET NhHeaps]
           /\ \A X \in SUBSET NhHeaps : NextOf[X] = {next[g] : g \in X} \ {NhNull}
<1>1. ASSUME NEW X \in SUBSET NhHeaps PROVE {next[g] : g \in X} \ {NhNull} \in SUBSET NhHeaps
    BY DEF NhInv, NhTypes, NhPlace
<1>2. QED BY <1>1 DEF NextOf

LEMMA ListGrowth ==
    ASSUME NhInv, NEW h \in NhHeaps
    PROVE  /\ \E f : ListGrows(f, h)
           /\ \A f : ListGrows(f, h) => Grows(f, Cardinality(NhHeaps), {child[h]} \ {NhNull}, NextOf)
<1>1. Cardinality(NhHeaps) \in Nat
    BY NhAssumption, FS_CardinalityType
<1> PICK k \in Nat : k = Cardinality(NhHeaps)
    BY <1>1
<1>2. PICK first \in SUBSET NhHeaps : first = {child[h]} \ {NhNull}
    BY DEF NhInv, NhTypes, NhPlace
<1>3. PICK adds : adds = NextOf
    OBVIOUS
<1>4. adds \in [SUBSET NhHeaps -> SUBSET NhHeaps] /\ \A X \in SUBSET NhHeaps : adds[X] = ({next[g] : g \in X} \ {NhNull})
    BY <1>3, NextOfIs
<1>5. \A n \in 0 .. k : n # 0 => n - 1 \in 0 .. k
    OBVIOUS
<1>6. PICK w : Grows(w, k, first, adds)
    BY <1>4, GrowthExists
<1>7. ListGrows(w, h)
    <2>1. \A n \in 0 .. k : w[n] \in SUBSET NhHeaps
        <3>1. GrowsIn(w, k, NhHeaps, first, adds)
            BY <1>4, <1>6 DEF GrowsIn
        <3>2. GrownIn(w, k, NhHeaps, first, adds)
            BY <3>1, GrowthIs
        <3>3. QED BY <3>2 DEF GrownIn
    <2>2. \A n \in 0 .. k : n # 0 => adds[w[n - 1]] = ({next[g] : g \in w[n - 1]} \ {NhNull})
        BY <1>4, <1>5, <2>1
    <2>3. w = [n \in 0 .. k |-> IF n = 0 THEN first ELSE w[n - 1] \cup adds[w[n - 1]]]
        BY <1>6 DEF Grows
    <2>4. QED BY <1>2, <2>2, <2>3 DEF ListGrows
<1>8. ASSUME NEW f, ListGrows(f, h) PROVE Grows(f, k, first, adds)
    <2>1. \A n \in 0 .. k : f[n] = IF n = 0 THEN first ELSE f[n - 1] \cup ({next[g] : g \in f[n - 1]} \ {NhNull})
        BY <1>2, <1>8 DEF ListGrows
    <2> DEFINE S == {n \in Nat : n <= k => f[n] \in SUBSET NhHeaps}
    <2>2. 0 \in S
        <3>1. 0 \in 0 .. k
            OBVIOUS
        <3>2. f[0] = first
            BY <1>2, <2>1, <3>1
        <3>3. QED BY <3>2
    <2>3. ASSUME NEW n \in Nat, n < k, n \in S PROVE n + 1 \in S
        <3>1. PICK m \in 0 .. k : m = n + 1 /\ m # 0 /\ m - 1 = n
            BY <2>3
        <3>2. f[n] \in SUBSET NhHeaps
            BY <2>3
        <3>3. f[m] = f[n] \cup ({next[g] : g \in f[n]} \ {NhNull})
            BY <2>1, <3>1
        <3>4. f[m] = f[n] \cup adds[f[n]] /\ adds[f[n]] \in SUBSET NhHeaps
            BY <1>4, <3>2, <3>3
        <3>5. QED BY <3>1, <3>2, <3>4
    <2>4. 0 .. k \subseteq S
        <3> HIDE DEF S
        <3>1. QED BY <2>2, <2>3, OneMore
    <2>5. \A n \in 0 .. k : n # 0 => adds[f[n - 1]] = ({next[g] : g \in f[n - 1]} \ {NhNull})
        BY <1>4, <1>5, <2>4
    <2>6. f = [n \in 0 .. k |-> IF n = 0 THEN first ELSE f[n - 1] \cup ({next[g] : g \in f[n - 1]} \ {NhNull})]
        BY <1>2, <1>8 DEF ListGrows
    <2>7. QED BY <2>5, <2>6 DEF Grows
<1>9. QED BY <1>2, <1>3, <1>7, <1>8

\* The first child leads to all of them.
LEMMA ListedIs ==
    ASSUME NhInv, NEW h \in NhHeaps
    PROVE  Listed(child[h]) = Children(h)
<1> PICK k : k = Cardinality(NhHeaps)
    OBVIOUS
<1>1. IsFiniteSet(NhHeaps) /\ NhNull \notin NhHeaps /\ k \in Nat /\ h # NhNull
    BY NhAssumption, FS_CardinalityType
<1>2. PICK f : ListGrows(f, h) /\ Listed(child[h]) = f[Cardinality(NhHeaps)]
    <2> DEFINE f == CHOOSE f : f = [n \in 0 .. Cardinality(NhHeaps) |->
                   IF n = 0 THEN {child[h]} \ {NhNull}
                   ELSE LET some == f[n - 1] IN some \cup ({next[g] : g \in some} \ {NhNull})]
    <2>1. Listed(child[h]) = f[Cardinality(NhHeaps)]
        BY DEF Listed
    <2>2. f = [n \in 0 .. Cardinality(NhHeaps) |->
                   IF n = 0 THEN {child[h]} \ {NhNull}
                   ELSE LET some == f[n - 1] IN some \cup ({next[g] : g \in some} \ {NhNull})]
        BY ListGrowth DEF ListGrows
    <2> HIDE DEF f
    <2>3. QED BY <2>1, <2>2 DEF ListGrows
<1>3. PICK first : first = {child[h]} \ {NhNull}
    OBVIOUS
<1>4. PICK adds : adds = NextOf
    OBVIOUS
<1>5. /\ Grows(f, Cardinality(NhHeaps), first, adds)
      /\ adds \in [SUBSET NhHeaps -> SUBSET NhHeaps] /\ first \in SUBSET NhHeaps
      /\ \A X \in SUBSET NhHeaps : adds[X] = {next[g] : g \in X} \ {NhNull}
    <2>1. first \in SUBSET NhHeaps
        BY <1>3 DEF NhInv, NhTypes, NhPlace
    <2>2. QED BY <1>2, <1>3, <1>4, <2>1, ListGrowth, NextOfIs
<1>6. adds[f[k]] \subseteq f[k]
    BY <1>1, <1>5, GrowthEnds
<1>7. /\ f[0] = first
      /\ \A n \in Nat : n < k => f[n + 1] = f[n] \cup adds[f[n]]
      /\ \A n \in 0 .. k : f[n] \in SUBSET NhHeaps /\ first \subseteq f[n]
    <2>1. GrowsIn(f, k, NhHeaps, first, adds)
        BY <1>1, <1>5 DEF GrowsIn
    <2>2. GrownIn(f, k, NhHeaps, first, adds)
        BY <2>1, GrowthIs
    <2>3. QED BY <2>2 DEF GrownIn
<1>8. k \in 0 .. k
    BY <1>1
<1>9. f[k] \in SUBSET NhHeaps /\ first \subseteq f[k] /\ {next[g] : g \in f[k]} \ {NhNull} \subseteq f[k]
    BY <1>5, <1>6, <1>7, <1>8
\* Only children are reached ...
<1> DEFINE S == {n \in Nat : n <= k => f[n] \subseteq Children(h)}
<1>10. 0 \in S
    <2>1. first \subseteq Children(h)
        BY <1>3 DEF NhInv, NhTypes, NhPlace, ChildIsFirst, Children
    <2>2. QED BY <1>7, <2>1
<1>11. ASSUME NEW n \in Nat, n < k, n \in S PROVE n + 1 \in S
    <2>1. f[n] \subseteq Children(h) /\ f[n] \in SUBSET NhHeaps
        BY <1>1, <1>7, <1>11
    <2>2. f[n + 1] = f[n] \cup ({next[g] : g \in f[n]} \ {NhNull})
        BY <1>5, <1>7, <1>11, <2>1
    <2>3. \A g \in f[n] : next[g] # NhNull => next[g] \in Children(h)
        BY <2>1 DEF NhInv, NhTypes, NhPlace, NextGoesBack, Children
    <2>4. f[n + 1] \subseteq Children(h)
        BY <2>1, <2>2, <2>3
    <2>5. QED BY <2>4
<1>12. f[k] \subseteq Children(h)
    <2>1. 0 .. k \subseteq S
        <3> HIDE DEF S
        <3>1. QED BY <1>1, <1>10, <1>11, OneMore
    <2>2. QED BY <1>8, <2>1
\* ... and all of them are.
<1>13. Children(h) \subseteq f[k]
    <2>1. SUFFICES ASSUME Children(h) \ f[k] # {} PROVE FALSE
        OBVIOUS
    <2>2. PICK U : U = Children(h) \ f[k]
        OBVIOUS
    <2>3. PICK c \in U : \/ prev[c] = NhNull /\ c = child[h]
                         \/ prev[c] \in Children(h) \ U /\ next[prev[c]] = c
        <3>1. U \subseteq Children(h) /\ U # {}
            BY <2>1, <2>2
        <3>2. QED BY <3>1, SomeIsBehind
    <2>4. c \in NhHeaps /\ c # NhNull /\ c \notin f[k]
        BY <1>1, <2>2 DEF Children
    <2>5. c # child[h]
        BY <1>3, <1>9, <2>4
    <2>6. prev[c] \in f[k] /\ next[prev[c]] = c
        BY <2>2, <2>3, <2>5
    <2>7. QED BY <1>9, <2>4, <2>6
<1>14. QED BY <1>2, <1>12, <1>13

LEMMA BelowOfIs ==
    BelowOf \in [SUBSET nhMade -> SUBSET nhMade]
    /\ \A X \in SUBSET nhMade : BelowOf[X] = {g \in nhMade : parent[g] \in X}
BY DEF BelowOf

LEMMA ListsBelow ==
    ASSUME NhInv
    PROVE  /\ BelowOf \in [SUBSET nhMade -> SUBSET nhMade]
           /\ \A X \in SUBSET nhMade : BelowOf[X] = UNION {Listed(child[g]) : g \in X}
<1>1. ASSUME NEW X \in SUBSET nhMade PROVE BelowOf[X] = UNION {Listed(child[g]) : g \in X}
    <2>1. \A g \in X : Listed(child[g]) = Children(g)
        BY ListedIs DEF NhInv, NhTypes
    <2>2. UNION {Listed(child[g]) : g \in X} = UNION {Children(g) : g \in X}
        BY <2>1
    <2>3. UNION {Children(g) : g \in X} = {c \in NhHeaps : parent[c] \in X}
        BY DEF Children
    <2>4. \A c \in NhHeaps : parent[c] \in X => c \in nhMade
        BY NhAssumption DEF NhInv, NhTypes, Rooted
    <2>5. {c \in NhHeaps : parent[c] \in X} = {g \in nhMade : parent[g] \in X}
        BY <2>4 DEF NhInv, NhTypes
    <2>6. QED BY <2>2, <2>3, <2>5, BelowOfIs
<1>2. QED BY <1>1, BelowOfIs

ClearGrows(f, h) ==
    f = [n \in 0 .. Cardinality(NhHeaps) |->
          IF n = 0 THEN {h} ELSE LET some == f[n - 1] IN some \cup UNION {Listed(child[g]) : g \in some}]

LEMMA ClearGrowth ==
    ASSUME NhInv, NEW h \in nhMade
    PROVE  /\ \E f : ClearGrows(f, h)
           /\ \A f : ClearGrows(f, h) => Grows(f, Cardinality(NhHeaps), {h}, BelowOf)
<1>1. Cardinality(NhHeaps) \in Nat
    BY NhAssumption, FS_CardinalityType
<1> PICK k \in Nat : k = Cardinality(NhHeaps)
    BY <1>1
<1>2. PICK first \in SUBSET nhMade : first = {h}
    OBVIOUS
<1>3. PICK adds : adds = BelowOf
    OBVIOUS
<1>4. adds \in [SUBSET nhMade -> SUBSET nhMade] /\ \A X \in SUBSET nhMade : adds[X] = UNION {Listed(child[g]) : g \in X}
    BY <1>3, ListsBelow
<1>5. \A n \in 0 .. k : n # 0 => n - 1 \in 0 .. k
    OBVIOUS
<1>6. PICK w : Grows(w, k, first, adds)
    BY <1>4, GrowthExists
<1>7. ClearGrows(w, h)
    <2>1. \A n \in 0 .. k : w[n] \in SUBSET nhMade
        <3>1. GrowsIn(w, k, nhMade, first, adds)
            BY <1>4, <1>6 DEF GrowsIn
        <3>2. GrownIn(w, k, nhMade, first, adds)
            BY <3>1, GrowthIs
        <3>3. QED BY <3>2 DEF GrownIn
    <2>2. \A n \in 0 .. k : n # 0 => adds[w[n - 1]] = UNION {Listed(child[g]) : g \in w[n - 1]}
        BY <1>4, <1>5, <2>1
    <2>3. w = [n \in 0 .. k |-> IF n = 0 THEN first ELSE w[n - 1] \cup adds[w[n - 1]]]
        BY <1>6 DEF Grows
    <2>4. QED BY <1>2, <2>2, <2>3 DEF ClearGrows
<1>8. ASSUME NEW f, ClearGrows(f, h) PROVE Grows(f, k, first, adds)
    <2>1. \A n \in 0 .. k : f[n] = IF n = 0 THEN first ELSE f[n - 1] \cup UNION {Listed(child[g]) : g \in f[n - 1]}
        BY <1>2, <1>8 DEF ClearGrows
    <2> DEFINE S == {n \in Nat : n <= k => f[n] \in SUBSET nhMade}
    <2>2. 0 \in S
        <3>1. 0 \in 0 .. k
            OBVIOUS
        <3>2. f[0] = first
            BY <1>2, <2>1, <3>1
        <3>3. QED BY <3>2
    <2>3. ASSUME NEW n \in Nat, n < k, n \in S PROVE n + 1 \in S
        <3>1. PICK m \in 0 .. k : m = n + 1 /\ m # 0 /\ m - 1 = n
            BY <2>3
        <3>2. f[n] \in SUBSET nhMade
            BY <2>3
        <3>3. f[m] = f[n] \cup UNION {Listed(child[g]) : g \in f[n]}
            BY <2>1, <3>1
        <3>4. f[m] = f[n] \cup adds[f[n]] /\ adds[f[n]] \in SUBSET nhMade
            BY <1>4, <3>2, <3>3
        <3>5. QED BY <3>1, <3>2, <3>4
    <2>4. 0 .. k \subseteq S
        <3> HIDE DEF S
        <3>1. QED BY <2>2, <2>3, OneMore
    <2>5. \A n \in 0 .. k : n # 0 => adds[f[n - 1]] = UNION {Listed(child[g]) : g \in f[n - 1]}
        BY <1>4, <1>5, <2>4
    <2>6. f = [n \in 0 .. k |-> IF n = 0 THEN first ELSE f[n - 1] \cup UNION {Listed(child[g]) : g \in f[n - 1]}]
        BY <1>2, <1>8 DEF ClearGrows
    <2>7. QED BY <2>5, <2>6 DEF Grows
<1>9. QED BY <1>2, <1>3, <1>7, <1>8

BelowGrows(f, h) ==
    f = [n \in 0 .. Cardinality(NhHeaps) |->
          IF n = 0 THEN {h} ELSE LET some == f[n - 1] IN some \cup {g \in nhMade : parent[g] \in some}]

LEMMA BelowGrowth ==
    ASSUME NhInv, NEW h \in nhMade
    PROVE  /\ \E f : BelowGrows(f, h)
           /\ \A f : BelowGrows(f, h) => Grows(f, Cardinality(NhHeaps), {h}, BelowOf)
<1>1. Cardinality(NhHeaps) \in Nat
    BY NhAssumption, FS_CardinalityType
<1> PICK k \in Nat : k = Cardinality(NhHeaps)
    BY <1>1
<1>2. PICK first \in SUBSET nhMade : first = {h}
    OBVIOUS
<1>3. PICK adds : adds = BelowOf
    OBVIOUS
<1>4. adds \in [SUBSET nhMade -> SUBSET nhMade] /\ \A X \in SUBSET nhMade : adds[X] = {g \in nhMade : parent[g] \in X}
    BY <1>3, BelowOfIs
<1>5. \A n \in 0 .. k : n # 0 => n - 1 \in 0 .. k
    OBVIOUS
<1>6. PICK w : Grows(w, k, first, adds)
    BY <1>4, GrowthExists
<1>7. BelowGrows(w, h)
    <2>1. \A n \in 0 .. k : w[n] \in SUBSET nhMade
        <3>1. GrowsIn(w, k, nhMade, first, adds)
            BY <1>4, <1>6 DEF GrowsIn
        <3>2. GrownIn(w, k, nhMade, first, adds)
            BY <3>1, GrowthIs
        <3>3. QED BY <3>2 DEF GrownIn
    <2>2. \A n \in 0 .. k : n # 0 => adds[w[n - 1]] = {g \in nhMade : parent[g] \in w[n - 1]}
        BY <1>4, <1>5, <2>1
    <2>3. w = [n \in 0 .. k |-> IF n = 0 THEN first ELSE w[n - 1] \cup adds[w[n - 1]]]
        BY <1>6 DEF Grows
    <2>4. QED BY <1>2, <2>2, <2>3 DEF BelowGrows
<1>8. ASSUME NEW f, BelowGrows(f, h) PROVE Grows(f, k, first, adds)
    <2>1. \A n \in 0 .. k : f[n] = IF n = 0 THEN first ELSE f[n - 1] \cup {g \in nhMade : parent[g] \in f[n - 1]}
        BY <1>2, <1>8 DEF BelowGrows
    <2> DEFINE S == {n \in Nat : n <= k => f[n] \in SUBSET nhMade}
    <2>2. 0 \in S
        <3>1. 0 \in 0 .. k
            OBVIOUS
        <3>2. f[0] = first
            BY <1>2, <2>1, <3>1
        <3>3. QED BY <3>2
    <2>3. ASSUME NEW n \in Nat, n < k, n \in S PROVE n + 1 \in S
        <3>1. PICK m \in 0 .. k : m = n + 1 /\ m # 0 /\ m - 1 = n
            BY <2>3
        <3>2. f[n] \in SUBSET nhMade
            BY <2>3
        <3>3. f[m] = f[n] \cup {g \in nhMade : parent[g] \in f[n]}
            BY <2>1, <3>1
        <3>4. f[m] = f[n] \cup adds[f[n]] /\ adds[f[n]] \in SUBSET nhMade
            BY <1>4, <3>2, <3>3
        <3>5. QED BY <3>1, <3>2, <3>4
    <2>4. 0 .. k \subseteq S
        <3> HIDE DEF S
        <3>1. QED BY <2>2, <2>3, OneMore
    <2>5. \A n \in 0 .. k : n # 0 => adds[f[n - 1]] = {g \in nhMade : parent[g] \in f[n - 1]}
        BY <1>4, <1>5, <2>4
    <2>6. f = [n \in 0 .. k |-> IF n = 0 THEN first ELSE f[n - 1] \cup {g \in nhMade : parent[g] \in f[n - 1]}]
        BY <1>2, <1>8 DEF BelowGrows
    <2>7. QED BY <2>5, <2>6 DEF Grows
<1>9. QED BY <1>2, <1>3, <1>7, <1>8

LEMMA GrowthAgrees ==
    ASSUME NEW k \in Nat, NEW first, NEW adds, NEW f, Grows(f, k, first, adds), NEW g, Grows(g, k, first, adds)
    PROVE  f[k] = g[k]
<1> DEFINE S == {n \in Nat : n <= k => f[n] = g[n]}
<1>1. /\ \A n \in 0 .. k : f[n] = IF n = 0 THEN first ELSE f[n - 1] \cup adds[f[n - 1]]
      /\ \A n \in 0 .. k : g[n] = IF n = 0 THEN first ELSE g[n - 1] \cup adds[g[n - 1]]
    BY DEF Grows
<1>2. 0 \in S
    <2>1. 0 \in 0 .. k
        OBVIOUS
    <2>2. QED BY <1>1, <2>1
<1>3. ASSUME NEW n \in Nat, n < k, n \in S PROVE n + 1 \in S
    <2>1. PICK m \in 0 .. k : m = n + 1 /\ m # 0 /\ m - 1 = n
        BY <1>3
    <2>2. f[n] = g[n]
        BY <1>3
    <2>3. f[m] = f[n] \cup adds[f[n]] /\ g[m] = g[n] \cup adds[g[n]]
        BY <1>1, <2>1
    <2>4. QED BY <2>1, <2>2, <2>3
<1>4. 0 .. k \subseteq S
    <2> HIDE DEF S
    <2>1. QED BY <1>2, <1>3, OneMore
<1>5. k \in 0 .. k
    OBVIOUS
<1>6. QED BY <1>4, <1>5

\* clear reaches a heap and what is below it.
LEMMA ClearedIs ==
    ASSUME NhInv, NEW h \in nhMade
    PROVE  Cleared(h) = Beneath(h) /\ h \in Cleared(h)
<1> PICK k : k = Cardinality(NhHeaps)
    OBVIOUS
<1>1. k \in Nat
    BY NhAssumption, FS_CardinalityType
<1>2. PICK f : ClearGrows(f, h) /\ Cleared(h) = f[Cardinality(NhHeaps)]
    <2> DEFINE f == CHOOSE f : f = [n \in 0 .. Cardinality(NhHeaps) |->
                   IF n = 0 THEN {h}
                   ELSE LET some == f[n - 1] IN some \cup UNION {Listed(child[g]) : g \in some}]
    <2>1. Cleared(h) = f[Cardinality(NhHeaps)]
        BY DEF Cleared
    <2>2. f = [n \in 0 .. Cardinality(NhHeaps) |->
                   IF n = 0 THEN {h}
                   ELSE LET some == f[n - 1] IN some \cup UNION {Listed(child[g]) : g \in some}]
        BY ClearGrowth DEF ClearGrows
    <2> HIDE DEF f
    <2>3. QED BY <2>1, <2>2 DEF ClearGrows
<1>3. PICK b : BelowGrows(b, h) /\ Beneath(h) = b[Cardinality(NhHeaps)]
    <2> DEFINE b == CHOOSE b : b = [n \in 0 .. Cardinality(NhHeaps) |->
                   IF n = 0 THEN {h}
                   ELSE LET some == b[n - 1] IN some \cup {g \in nhMade : parent[g] \in some}]
    <2>1. Beneath(h) = b[Cardinality(NhHeaps)]
        BY DEF Beneath
    <2>2. b = [n \in 0 .. Cardinality(NhHeaps) |->
                   IF n = 0 THEN {h}
                   ELSE LET some == b[n - 1] IN some \cup {g \in nhMade : parent[g] \in some}]
        BY BelowGrowth DEF BelowGrows
    <2> HIDE DEF b
    <2>3. QED BY <2>1, <2>2 DEF BelowGrows
<1>4. Grows(f, k, {h}, BelowOf) /\ Grows(b, k, {h}, BelowOf)
    BY <1>2, <1>3, ClearGrowth, BelowGrowth
<1>5. f[k] = b[k]
    BY <1>1, <1>4, GrowthAgrees
<1>6. h \in f[k]
    <2>1. PICK first : first = {h}
        OBVIOUS
    <2>2. PICK adds : adds = BelowOf
        OBVIOUS
    <2>3. first \in SUBSET nhMade /\ adds \in [SUBSET nhMade -> SUBSET nhMade] /\ Grows(f, k, first, adds)
        BY <1>4, <2>1, <2>2, BelowOfIs
    <2>4. GrowsIn(f, k, nhMade, first, adds)
        BY <1>1, <2>3 DEF GrowsIn
    <2>5. GrownIn(f, k, nhMade, first, adds)
        BY <2>4, GrowthIs
    <2>6. k \in 0 .. k
        BY <1>1
    <2>7. QED BY <2>1, <2>5, <2>6 DEF GrownIn
<1>7. QED BY <1>2, <1>3, <1>5, <1>6

-----------------------------------------------------------------------------
(* The heaps come and go *)

LEMMA NhInitGood == NhInit => NhInv
<1> SUFFICES ASSUME NhInit PROVE NhInv
    OBVIOUS
<1>1. /\ nhMade = {} /\ nhFull = {} /\ parent = [h \in NhHeaps |-> NhNull]
      /\ child = parent /\ prev = parent /\ next = parent
    BY DEF NhInit
<1>2. NhTypes
    BY <1>1 DEF NhTypes, NhPlace
<1>3. Rooted /\ NextGoesBack /\ PrevGoesBack /\ ChildIsFirst /\ FirstIsChild
    BY <1>1 DEF Rooted, NextGoesBack, PrevGoesBack, ChildIsFirst, FirstIsChild
<1>4. Ranks([h \in NhHeaps |-> 0])
    BY <1>1 DEF Ranks
<1>5. QED BY <1>2, <1>3, <1>4 DEF NhInv

\* What there is of a heap that does not live.
LEMMA DeadIsAlone ==
    ASSUME NhInv, NEW h \in NhHeaps, h \notin nhMade
    PROVE  parent[h] = NhNull /\ child[h] = NhNull /\ prev[h] = NhNull /\ next[h] = NhNull
<1>1. parent[h] = NhNull /\ prev[h] = NhNull /\ next[h] = NhNull
    BY DEF NhInv, Rooted, NextGoesBack, PrevGoesBack
<1>2. child[h] = NhNull
    <2>1. SUFFICES ASSUME child[h] # NhNull PROVE FALSE
        OBVIOUS
    <2>2. child[h] \in NhHeaps /\ parent[child[h]] = h
        BY <2>1 DEF NhInv, NhTypes, NhPlace, ChildIsFirst
    <2>3. QED BY <2>2, NhAssumption DEF NhInv, Rooted
<1>3. QED BY <1>1, <1>2

LEMMA NhConstructKeeps ==
    ASSUME NhInv, NEW h \in NhHeaps, NhConstruct(h)
    PROVE  NhInv'
<1>1. /\ parent' = parent /\ child' = child /\ prev' = prev /\ next' = next
      /\ nhMade' = nhMade \cup {h} /\ nhFull' = nhFull
    <2>1. /\ parent[h] = NhNull /\ child[h] = NhNull /\ prev[h] = NhNull /\ next[h] = NhNull
        BY DeadIsAlone DEF NhConstruct
    <2>2. QED BY <2>1 DEF NhConstruct, NhInv, NhTypes
<1>2. NhTypes'
    BY <1>1 DEF NhInv, NhTypes
<1>3. Rooted' /\ NextGoesBack' /\ PrevGoesBack' /\ ChildIsFirst' /\ FirstIsChild'
    BY <1>1 DEF NhInv, Rooted, NextGoesBack, PrevGoesBack, ChildIsFirst, FirstIsChild
<1>4. \E d : Ranks(d)'
    BY <1>1 DEF NhInv, Ranks
<1>5. QED BY <1>2, <1>3, <1>4 DEF NhInv

LEMMA NhFullKeeps ==
    ASSUME NhInv, UNCHANGED <<nhMade, parent, child, prev, next>>, nhFull' \subseteq nhMade
    PROVE  NhInv'
<1>1. NhTypes'
    BY DEF NhInv, NhTypes
<1>2. Rooted' /\ NextGoesBack' /\ PrevGoesBack' /\ ChildIsFirst' /\ FirstIsChild'
    BY DEF NhInv, Rooted, NextGoesBack, PrevGoesBack, ChildIsFirst, FirstIsChild
<1>3. \E d : Ranks(d)'
    BY DEF NhInv, Ranks
<1>4. QED BY <1>1, <1>2, <1>3 DEF NhInv

LEMMA AddChildKeeps ==
    ASSUME NhInv, NEW h \in NhHeaps, NEW ch \in NhHeaps \ {h}, AddChild(h, ch)
    PROVE  NhInv'
<1>1. /\ h \in nhMade /\ ch \in nhMade /\ parent[ch] = NhNull /\ nhMade' = nhMade /\ nhFull' = nhFull
      /\ h # NhNull /\ ch # NhNull /\ NhNull \notin NhHeaps
    BY NhAssumption DEF AddChild
<1>2. PICK f \in NhPlace : f = child[h]
    BY DEF NhInv, NhTypes
<1>3. /\ child' = [child EXCEPT ![h] = ch] /\ parent' = [parent EXCEPT ![ch] = h]
      /\ next' = [next EXCEPT ![ch] = f]
      /\ prev' = [g \in NhHeaps |-> IF g = ch THEN NhNull ELSE IF g = f THEN ch ELSE prev[g]]
    BY <1>2 DEF AddChild
<1>4. prev[ch] = NhNull /\ next[ch] = NhNull
    BY <1>1 DEF NhInv, PrevGoesBack, NextGoesBack
<1>5. \A g \in NhHeaps : next[g] # ch /\ prev[g] # ch /\ child[g] # ch
    <2>1. \A g \in NhHeaps : next[g] # ch
        BY <1>1 DEF NhInv, NextGoesBack
    <2>2. \A g \in NhHeaps : prev[g] # ch
        BY <1>1 DEF NhInv, PrevGoesBack
    <2>3. \A g \in NhHeaps : child[g] # ch
        BY <1>1 DEF NhInv, ChildIsFirst
    <2>4. QED BY <2>1, <2>2, <2>3
<1>6. f # ch /\ (f # NhNull => f \in NhHeaps /\ parent[f] = h /\ prev[f] = NhNull)
    BY <1>2, <1>5 DEF NhInv, ChildIsFirst, NhPlace
<1>7. /\ \A g \in NhHeaps : parent'[g] = IF g = ch THEN h ELSE parent[g]
      /\ \A g \in NhHeaps : child'[g] = IF g = h THEN ch ELSE child[g]
      /\ \A g \in NhHeaps : next'[g] = IF g = ch THEN f ELSE next[g]
      /\ \A g \in NhHeaps : prev'[g] = IF g = ch THEN NhNull ELSE IF g = f THEN ch ELSE prev[g]
    BY <1>3 DEF NhInv, NhTypes
<1>8. NhTypes'
    BY <1>1, <1>2, <1>3 DEF NhInv, NhTypes, NhPlace
<1>9. Rooted'
    BY <1>1, <1>7 DEF NhInv, Rooted
<1>10. NextGoesBack'
    <2>1. SUFFICES ASSUME NEW g \in NhHeaps, next'[g] # NhNull
                   PROVE  parent'[g] # NhNull /\ parent'[next'[g]] = parent'[g] /\ prev'[next'[g]] = g
        BY DEF NextGoesBack
    <2>2. CASE g = ch
        BY <1>1, <1>6, <1>7, <2>1, <2>2
    <2>3. CASE g # ch
        <3>1. PICK x : x = next[g]
            OBVIOUS
        <3>2. x \in NhHeaps /\ x # ch /\ parent[g] # NhNull /\ parent[x] = parent[g] /\ prev[x] = g /\ next'[g] = x
            BY <1>5, <1>7, <2>1, <2>3, <3>1 DEF NhInv, NhTypes, NhPlace, NextGoesBack
        <3>3. x # f
            BY <1>1, <1>6, <3>2
        <3>4. QED BY <1>7, <2>3, <3>2, <3>3
    <2>4. QED BY <2>2, <2>3
<1>11. PrevGoesBack'
    <2>1. SUFFICES ASSUME NEW g \in NhHeaps, prev'[g] # NhNull
                   PROVE  parent'[g] # NhNull /\ parent'[prev'[g]] = parent'[g] /\ next'[prev'[g]] = g
        BY DEF PrevGoesBack
    <2>2. g # ch
        BY <1>7, <2>1
    <2>3. CASE g = f
        BY <1>1, <1>6, <1>7, <2>1, <2>2, <2>3
    <2>4. CASE g # f
        <3>1. PICK y : y = prev[g]
            OBVIOUS
        <3>2. y \in NhHeaps /\ y # ch /\ parent[g] # NhNull /\ parent[y] = parent[g] /\ next[y] = g /\ prev'[g] = y
            BY <1>5, <1>7, <2>1, <2>2, <2>4, <3>1 DEF NhInv, NhTypes, NhPlace, PrevGoesBack
        <3>3. QED BY <1>7, <2>2, <3>2
    <2>5. QED BY <2>3, <2>4
<1>12. ChildIsFirst'
    <2>1. SUFFICES ASSUME NEW g \in NhHeaps, child'[g] # NhNull
                   PROVE  parent'[child'[g]] = g /\ prev'[child'[g]] = NhNull
        BY DEF ChildIsFirst
    <2>2. CASE g = h
        BY <1>7, <2>2
    <2>3. CASE g # h
        <3>1. PICK c : c = child[g]
            OBVIOUS
        <3>2. c \in NhHeaps /\ c # ch /\ parent[c] = g /\ prev[c] = NhNull /\ child'[g] = c
            BY <1>5, <1>7, <2>1, <2>3, <3>1 DEF NhInv, NhTypes, NhPlace, ChildIsFirst
        <3>3. c # f
            BY <1>1, <1>6, <2>3, <3>2
        <3>4. QED BY <1>7, <3>2, <3>3
    <2>4. QED BY <2>2, <2>3
<1>13. FirstIsChild'
    <2>1. SUFFICES ASSUME NEW x \in NhHeaps, parent'[x] # NhNull, prev'[x] = NhNull
                   PROVE  child'[parent'[x]] = x
        BY DEF FirstIsChild
    <2>2. CASE x = ch
        BY <1>7, <2>2
    <2>3. CASE x # ch
        <3>1. x # f /\ prev[x] = NhNull /\ parent'[x] = parent[x] /\ parent[x] # NhNull
            BY <1>1, <1>7, <2>1, <2>3
        <3>2. child[parent[x]] = x /\ parent[x] \in NhHeaps
            BY <3>1 DEF NhInv, FirstIsChild, NhTypes, NhPlace
        <3>3. parent[x] # h
            BY <1>2, <3>1, <3>2
        <3>4. QED BY <1>7, <3>1, <3>2, <3>3
    <2>4. QED BY <2>2, <2>3
<1>14. \E d : Ranks(d)'
    <2>1. PICK d : Ranks(d)
        BY DEF NhInv
    <2>2. PICK e : e = [g \in NhHeaps |-> IF g = ch THEN 0 ELSE d[g] + 1]
        OBVIOUS
    <2>3. d \in [NhHeaps -> Nat] /\ \A g \in NhHeaps : prev[g] # NhNull => d[prev[g]] < d[g]
        BY <2>1 DEF Ranks
    <2>4. e \in [NhHeaps -> Nat]
        BY <2>2, <2>3
    <2>5. ASSUME NEW g \in NhHeaps, prev'[g] # NhNull PROVE e[prev'[g]] < e[g]
        <3>1. g # ch /\ e[g] = d[g] + 1 /\ d[g] \in Nat
            BY <1>7, <2>2, <2>3, <2>5
        <3>2. CASE g = f
            <4>1. prev'[g] = ch /\ e[ch] = 0
                BY <1>7, <2>2, <3>1, <3>2
            <4>2. QED BY <3>1, <4>1
        <3>3. CASE g # f
            <4>1. PICK y : y = prev[g]
                OBVIOUS
            <4>2. y \in NhHeaps /\ y # ch /\ prev'[g] = y /\ d[y] < d[g] /\ d[y] \in Nat
                BY <1>5, <1>7, <2>3, <2>5, <3>1, <3>3, <4>1 DEF NhInv, NhTypes, NhPlace
            <4>3. e[y] = d[y] + 1
                BY <2>2, <4>2
            <4>4. QED BY <3>1, <4>2, <4>3
        <3>4. QED BY <3>2, <3>3
    <2>6. Ranks(e)'
        BY <2>4, <2>5 DEF Ranks
    <2>7. QED BY <2>6
<1>15. QED BY <1>8, <1>9, <1>10, <1>11, <1>12, <1>13, <1>14 DEF NhInv

LEMMA NhDestroyKeeps ==
    ASSUME NhInv, NEW h \in NhHeaps, NhDestroy(h)
    PROVE  NhInv'
<1>1. /\ h \in nhMade /\ child[h] = NhNull /\ nhMade' = nhMade \ {h} /\ nhFull' = nhFull \ Cleared(h)
      /\ h # NhNull /\ NhNull \notin NhHeaps
    BY NhAssumption DEF NhDestroy
<1>2. Children(h) = {}
    <2>1. SUFFICES ASSUME Children(h) # {} PROVE FALSE
        OBVIOUS
    <2>2. PICK c \in Children(h) : \/ prev[c] = NhNull /\ c = child[h]
                                   \/ prev[c] \in Children(h) \ Children(h) /\ next[prev[c]] = c
        BY <2>1, SomeIsBehind
    <2>3. c \in NhHeaps /\ c = NhNull
        BY <1>1, <2>2 DEF Children
    <2>4. QED BY <1>1, <2>3
<1>3. \A g \in NhHeaps : parent[g] # h
    BY <1>2 DEF Children
<1>4. PICK p \in NhPlace : p = parent[h]
    BY DEF NhInv, NhTypes
<1>5. PICK a \in NhPlace : a = prev[h]
    BY DEF NhInv, NhTypes
<1>6. PICK b \in NhPlace : b = next[h]
    BY DEF NhInv, NhTypes
<1>7. PICK d : Ranks(d)
    BY DEF NhInv
<1>8. d \in [NhHeaps -> Nat] /\ \A g \in NhHeaps : prev[g] # NhNull => d[prev[g]] < d[g]
    BY <1>7 DEF Ranks
<1>9. /\ \A g \in NhHeaps : parent'[g] = IF g = h THEN NhNull ELSE parent[g]
      /\ \A g \in NhHeaps : child'[g] = IF g = p /\ child[g] = h THEN IF a # NhNull THEN a ELSE b ELSE child[g]
      /\ \A g \in NhHeaps : next'[g] = IF g = h THEN NhNull ELSE IF g = a THEN b ELSE next[g]
      /\ \A g \in NhHeaps : prev'[g] = IF g = h THEN NhNull ELSE IF g = b THEN a ELSE prev[g]
      /\ parent' \in [NhHeaps -> NhPlace] /\ child' \in [NhHeaps -> NhPlace]
      /\ next' \in [NhHeaps -> NhPlace] /\ prev' \in [NhHeaps -> NhPlace]
    BY <1>4, <1>5, <1>6 DEF NhDestroy, RemoveChild, RemoveSibling, NhInv, NhTypes, NhPlace
<1>10. a # NhNull => a \in NhHeaps /\ p # NhNull /\ parent[a] = p /\ next[a] = h
    BY <1>4, <1>5 DEF NhInv, PrevGoesBack, NhPlace
<1>11. b # NhNull => b \in NhHeaps /\ p # NhNull /\ parent[b] = p /\ prev[b] = h
    BY <1>4, <1>6 DEF NhInv, NextGoesBack, NhPlace
<1>12. a # NhNull => d[a] < d[h] /\ d[a] \in Nat
    BY <1>5, <1>8, <1>10
<1>13. b # NhNull => d[h] < d[b] /\ d[b] \in Nat
    BY <1>1, <1>8, <1>11
<1>14. d[h] \in Nat
    BY <1>8
<1>15. a # h /\ b # h /\ (a = b => a = NhNull)
    BY <1>1, <1>12, <1>13, <1>14
<1>16. NhTypes'
    <2>1. nhFull' \subseteq nhMade'
        BY <1>1, ClearedIs DEF NhInv, NhTypes
    <2>2. QED BY <1>1, <1>9, <2>1 DEF NhInv, NhTypes, NhPlace
<1>17. Rooted'
    BY <1>1, <1>3, <1>9 DEF NhInv, Rooted
<1>18. NextGoesBack'
    <2>1. SUFFICES ASSUME NEW g \in NhHeaps, next'[g] # NhNull
                   PROVE  parent'[g] # NhNull /\ parent'[next'[g]] = parent'[g] /\ prev'[next'[g]] = g
        BY DEF NextGoesBack
    <2>2. g # h
        BY <1>9, <2>1
    <2>3. CASE g = a
        <3>1. next'[g] = b /\ b # NhNull /\ a # NhNull
            BY <1>1, <1>9, <2>1, <2>2, <2>3
        <3>2. QED BY <1>9, <1>10, <1>11, <1>15, <2>2, <2>3, <3>1
    <2>4. CASE g # a
        <3>1. PICK x : x = next[g]
            OBVIOUS
        <3>2. x \in NhHeaps /\ parent[g] # NhNull /\ parent[x] = parent[g] /\ prev[x] = g /\ next'[g] = x
            BY <1>9, <2>1, <2>2, <2>4, <3>1 DEF NhInv, NhTypes, NhPlace, NextGoesBack
        <3>3. x # h /\ x # b
            BY <1>1, <1>5, <1>11, <2>2, <2>4, <3>2
        <3>4. QED BY <1>9, <2>2, <3>2, <3>3
    <2>5. QED BY <2>3, <2>4
<1>19. PrevGoesBack'
    <2>1. SUFFICES ASSUME NEW g \in NhHeaps, prev'[g] # NhNull
                   PROVE  parent'[g] # NhNull /\ parent'[prev'[g]] = parent'[g] /\ next'[prev'[g]] = g
        BY DEF PrevGoesBack
    <2>2. g # h
        BY <1>9, <2>1
    <2>3. CASE g = b
        <3>1. prev'[g] = a /\ b # NhNull /\ a # NhNull
            BY <1>1, <1>9, <2>1, <2>2, <2>3
        <3>2. QED BY <1>9, <1>10, <1>11, <1>15, <2>2, <2>3, <3>1
    <2>4. CASE g # b
        <3>1. PICK x : x = prev[g]
            OBVIOUS
        <3>2. x \in NhHeaps /\ parent[g] # NhNull /\ parent[x] = parent[g] /\ next[x] = g /\ prev'[g] = x
            BY <1>9, <2>1, <2>2, <2>4, <3>1 DEF NhInv, NhTypes, NhPlace, PrevGoesBack
        <3>3. x # h /\ x # a
            BY <1>1, <1>6, <1>10, <2>2, <2>4, <3>2
        <3>4. QED BY <1>9, <2>2, <3>2, <3>3
    <2>5. QED BY <2>3, <2>4
<1>20. ChildIsFirst'
    <2>1. SUFFICES ASSUME NEW g \in NhHeaps, child'[g] # NhNull
                   PROVE  parent'[child'[g]] = g /\ prev'[child'[g]] = NhNull
        BY DEF ChildIsFirst
    <2>2. CASE g = p /\ child[g] = h
        <3>1. a = NhNull
            BY <1>1, <1>5, <2>2 DEF NhInv, ChildIsFirst
        <3>2. child'[g] = b /\ b # NhNull
            BY <1>9, <2>1, <2>2, <3>1
        <3>3. QED BY <1>9, <1>11, <1>15, <2>2, <3>1, <3>2
    <2>3. CASE ~(g = p /\ child[g] = h)
        <3>1. PICK c : c = child[g]
            OBVIOUS
        <3>2. c \in NhHeaps /\ parent[c] = g /\ prev[c] = NhNull /\ child'[g] = c
            BY <1>9, <2>1, <2>3, <3>1 DEF NhInv, NhTypes, NhPlace, ChildIsFirst
        <3>3. c # h /\ c # b
            BY <1>1, <1>4, <1>11, <2>3, <3>1, <3>2
        <3>4. QED BY <1>9, <3>2, <3>3
    <2>4. QED BY <2>2, <2>3
<1>21. FirstIsChild'
    <2>1. SUFFICES ASSUME NEW x \in NhHeaps, parent'[x] # NhNull, prev'[x] = NhNull
                   PROVE  child'[parent'[x]] = x
        BY DEF FirstIsChild
    <2>2. x # h /\ parent'[x] = parent[x] /\ parent[x] \in NhHeaps
        BY <1>9, <2>1 DEF NhInv, NhTypes, NhPlace
    <2>3. CASE x = b
        <3>1. a = NhNull /\ p # NhNull /\ parent[x] = p
            BY <1>1, <1>9, <1>11, <2>1, <2>2, <2>3
        <3>2. child[p] = h
            BY <1>4, <1>5, <3>1 DEF NhInv, FirstIsChild
        <3>3. QED BY <1>9, <2>2, <2>3, <3>1, <3>2
    <2>4. CASE x # b
        <3>1. prev[x] = NhNull /\ child[parent[x]] = x
            BY <1>9, <2>1, <2>2, <2>4 DEF NhInv, FirstIsChild
        <3>2. QED BY <1>9, <2>2, <3>1
    <2>5. QED BY <2>3, <2>4
<1>22. Ranks(d)'
    <2>1. ASSUME NEW g \in NhHeaps, prev'[g] # NhNull PROVE d[prev'[g]] < d[g]
        <3>1. g # h
            BY <1>9, <2>1
        <3>2. CASE g = b
            <4>1. prev'[g] = a /\ a # NhNull /\ b # NhNull
                BY <1>1, <1>9, <2>1, <3>1, <3>2
            <4>2. QED BY <1>12, <1>13, <1>14, <3>2, <4>1
        <3>3. CASE g # b
            BY <1>8, <1>9, <2>1, <3>1, <3>3
        <3>4. QED BY <3>2, <3>3
    <2>2. QED BY <1>8, <2>1 DEF Ranks
<1>23. QED BY <1>16, <1>17, <1>18, <1>19, <1>20, <1>21, <1>22 DEF NhInv

LEMMA NhNextGood == NhInv /\ [NhNext]_nhVars => NhInv'
<1> SUFFICES ASSUME NhInv, [NhNext]_nhVars PROVE NhInv'
    OBVIOUS
<1>1. CASE UNCHANGED nhVars
    <2>1. UNCHANGED <<nhMade, parent, child, prev, next>> /\ nhFull' \subseteq nhMade
        BY <1>1 DEF nhVars, NhInv, NhTypes
    <2>2. QED BY <2>1, NhFullKeeps
<1>2. ASSUME NEW h \in NhHeaps, NhMalloc(h) \/ NhClear(h) PROVE NhInv'
    <2>1. UNCHANGED <<nhMade, parent, child, prev, next>> /\ nhFull' \subseteq nhMade
        BY <1>2 DEF NhMalloc, NhClear, NhInv, NhTypes
    <2>2. QED BY <2>1, NhFullKeeps
<1>3. QED BY <1>1, <1>2, NhConstructKeeps, NhDestroyKeeps, AddChildKeeps DEF NhNext

LEMMA NhInvSuffices == NhInv => ClearReachesAllBelow
<1> SUFFICES ASSUME NhInv PROVE ClearReachesAllBelow
    OBVIOUS
<1>1. \A h \in nhMade : Cleared(h) = Beneath(h)
    BY ClearedIs
<1>2. ASSUME NEW h \in nhMade
      PROVE  /\ next[h] # NhNull => next[h] \in nhMade /\ prev[next[h]] = h
             /\ prev[h] # NhNull => prev[h] \in nhMade /\ next[prev[h]] = h
    <2>1. h \in NhHeaps
        BY DEF NhInv, NhTypes
    <2>2. ASSUME next[h] # NhNull PROVE next[h] \in nhMade /\ prev[next[h]] = h
        BY <2>1, <2>2 DEF NhInv, NhTypes, NhPlace, NextGoesBack, Rooted
    <2>3. ASSUME prev[h] # NhNull PROVE prev[h] \in nhMade /\ next[prev[h]] = h
        BY <2>1, <2>3 DEF NhInv, NhTypes, NhPlace, PrevGoesBack, Rooted
    <2>4. QED BY <2>2, <2>3
<1>3. nhFull \subseteq nhMade
    BY DEF NhInv, NhTypes
<1>4. QED BY <1>1, <1>2, <1>3 DEF ClearReachesAllBelow

\* Whatever the heaps and the order in which they come, go and are linked, clear reaches
\* exactly a heap and the heaps below it, and the lists of children lead to living heaps
\* only and back.
THEOREM ClearReachesThemAll == NhSpec => []ClearReachesAllBelow
<1>1. NhInv /\ [NhNext]_nhVars => NhInv'
    BY NhNextGood
<1>2. QED BY NhInitGood, <1>1, NhInvSuffices, PTL DEF NhSpec
=============================================================================
