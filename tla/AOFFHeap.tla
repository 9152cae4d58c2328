------------------------------ MODULE AOFFHeap ------------------------------
(***************************************************************************)
(* AOFFHeap: first fit over a list of freed objects in address order, with *)
(* immediate coalescing.                                                   *)
(*                                                                         *)
(* An object is named by the address of its header; sizes do not count the *)
(* header. The super heap hands out one object behind the other and may    *)
(* not reuse what it gets back.                                            *)
(***************************************************************************)
EXTENDS Integers, SequencesExt

CONSTANTS
    AofSizes,       \* the sizes that are asked for
    AofEnd,         \* bound: the memory of the super heap
    AofThreshold    \* FreeThreshold

ASSUME AofAssumption == /\ \A n \in AofSizes : n \in Nat /\ n >= 8 /\ n % 8 = 0
                        /\ AofEnd \in Nat /\ AofThreshold \in Nat

VARIABLES
    aofList,        \* the free list: records of at and size
    aofLive,        \* the objects the program holds: header -> size
    aofTop,         \* the super heap's next object
    aofReturned     \* history: what the super heap has got back: header -> size

aofVars == <<aofList, aofLive, aofTop, aofReturned>>

AofHeader == 8      \* sizeof(allocatedObject)
AofNode == 16       \* sizeof(freedObject)

AofInit ==
    /\ aofList = <<>>
    /\ aofLive = <<>>
    /\ aofTop = 0
    /\ aofReturned = <<>>

AofPut(f, at, size) == [a \in DOMAIN f \cup {at} |-> IF a = at THEN size ELSE f[a]]
AofDrop(f, at) == [a \in DOMAIN f \ {at} |-> f[a]]
Successor(o) == o.at + AofHeader + o.size

\* The first object that fits, and has room for the node that will be spliced off.
FirstFit(sz) == SelectInSeq(aofList, LAMBDA o : o.size >= sz + AofNode)

\* Seeded fault: the header of what is spliced off is forgotten.
SplicedOffWhole(o, sz) == [at |-> o.at + AofHeader + sz, size |-> o.size - sz]

\* What is left of a listed object behind sz bytes.
SplicedOff(o, sz) == [at |-> o.at + AofHeader + sz, size |-> o.size - sz - AofNode]

AofMalloc(sz) ==
    LET i == FirstFit(sz)
    IN  IF i = 0
        THEN /\ aofTop + sz + AofHeader <= AofEnd
             /\ aofTop' = aofTop + sz + AofHeader
             /\ aofLive' = AofPut(aofLive, aofTop, sz)
             /\ UNCHANGED <<aofList, aofReturned>>
        ELSE /\ aofLive' = AofPut(aofLive, aofList[i].at, sz)
             /\ aofList' = [aofList EXCEPT ![i] = SplicedOff(@, sz)]
             /\ UNCHANGED <<aofTop, aofReturned>>

\* coalesce, for the objects at i and i + 1, if they touch.
Coalesced(list, i) ==
    IF i \in 1 .. Len(list) - 1 /\ Successor(list[i]) = list[i + 1].at
    THEN [RemoveAt(list, i + 1) EXCEPT ![i].size = @ + list[i + 1].size + AofHeader]
    ELSE list

\* How many listed objects lie below this address.
Below(at) == Cardinality({i \in 1 .. Len(aofList) : aofList[i].at < at})

\* An object joins the list in address order and is merged with the one before
\* it and the one behind it; what is then large enough goes to the super heap.
AofFree(at) ==
    LET i == Below(at) + 1
        inserted == InsertAt(aofList, i, [at |-> at, size |-> aofLive[at]])
        withPrev == Coalesced(inserted, i - 1)
        this == IF Len(withPrev) < Len(inserted) THEN i - 1 ELSE i
        merged == Coalesced(withPrev, this)
    IN  /\ at \in DOMAIN aofLive
        /\ aofLive' = AofDrop(aofLive, at)
        /\ IF merged[this].size >= AofThreshold
           THEN /\ aofList' = RemoveAt(merged, this)
                /\ aofReturned' = AofPut(aofReturned, merged[this].at, merged[this].size)
           ELSE aofList' = merged /\ UNCHANGED aofReturned
        /\ UNCHANGED aofTop

AofNext ==
    \/ \E n \in AofSizes : AofMalloc(n)
    \/ \E at \in DOMAIN aofLive : AofFree(at)

AofSpec == AofInit /\ [][AofNext]_aofVars
-----------------------------------------------------------------------------
\* The pieces of memory: live, listed and given back, as records.
AofPieces ==
    LET pieces(f) == {[at |-> a, size |-> f[a]] : a \in DOMAIN f}
    IN  pieces(aofLive) \cup pieces(aofReturned) \cup ToSet(aofList)

\* After any splicing and merging, the pieces of memory do not overlap and lie in
\* what the super heap gave, the list is in address order, and no two objects on
\* it touch: every merge that could be made has been made.
AofListIsCoalesced ==
    /\ \A o, p \in AofPieces : o # p => Successor(o) <= p.at \/ Successor(p) <= o.at
    /\ \A o \in AofPieces : Successor(o) <= aofTop
    /\ \A i \in 1 .. Len(aofList) - 1 : Successor(aofList[i]) < aofList[i + 1].at
=============================================================================
