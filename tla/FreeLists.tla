----------------------------- MODULE FreeLists -----------------------------
(***************************************************************************)
(* Three heaps that keep what is freed on a linked list before they ask    *)
(* their super heap: FIFOFreelistHeap (singly linked, with the place of    *)
(* the last object kept in tail.next), FIFODLFreelistHeap (doubly linked)  *)
(* and FirstFitHeap (singly linked, by address, first fit).                *)
(*                                                                         *)
(* Objects are addresses. The links are in the objects: a link that the    *)
(* heap writes into an object the program holds tramples on its data; the  *)
(* links of such an object mean nothing, and are set to an end of the list.*)
(***************************************************************************)
EXTENDS Integers, SequencesExt

CONSTANTS
    FlObjects,      \* bound: how many objects the super heap has
    FlSizes,        \* the sizes of objects (the FIFO heaps hold one size)
    FlBatch         \* BatchNumber

ASSUME FlAssumption ==
    FlObjects \in Nat /\ FlSizes \subseteq Nat /\ FlSizes # {} /\ FlBatch \in Nat \ {0}

VARIABLES
    flKind,         \* which heap it is
    flNext, flPrev, \* the links, of head, objects and tail
    flHeld,         \* the objects the program holds
    flSize,         \* the size of the objects got from the super heap
    flCount,        \* nObjects (of FirstFitHeap)
    flTrampled,     \* whether an object the program holds has been written into
    flFreed,        \* history: the listed objects in the order they were freed
    btLists,        \* BatchHeap: freeList,
    btCount,        \* nObjects, and
    btSpare,        \* the objects the super heap has
    btHeld,         \* history: the objects the program holds
    btCrashed       \* history: the end of a list has been followed

flVars == <<flKind, flNext, flPrev, flHeld, flSize, flCount, flTrampled, flFreed>>

head == 0
tail == FlObjects + 1       \* (the NULL that ends the list of FirstFitHeap, too)
FlObject == 1 .. FlObjects

\* The constructors: head.next and tail.next are tail, tail.prev is head.
FlInit ==
    /\ flKind \in {"FIFO", "FIFODL", "FirstFit"}
    /\ flNext = [o \in head .. tail |-> tail]
    /\ flPrev = [o \in head .. tail |-> head]
    /\ flHeld = {} /\ flSize = <<>> /\ flCount = 0
    /\ flTrampled = FALSE /\ flFreed = <<>>

\* The objects of the list, from head on.
FlWalk ==
    LET walk[n \in 0 .. FlObjects] ==
          IF n = 0 THEN <<head>>
          ELSE LET list == walk[n - 1]
                   o == flNext[Last(list)]
               IN  IF o = tail THEN list ELSE Append(list, o)
    IN  Tail(walk[FlObjects])

FlGive(o) ==
    /\ flHeld' = flHeld \cup {o}
    /\ flFreed' = LET i == SelectInSeq(flFreed, LAMBDA p : p = o)
                  IN  IF i = 0 THEN flFreed ELSE RemoveAt(flFreed, i)

FlTake(o) ==
    /\ flHeld' = flHeld \ {o}
    /\ flFreed' = Append(flFreed, o)

\* The super heap's malloc: an object at some address.
FlFresh(sz) ==
    /\ \E o \in FlObject \ DOMAIN flSize :
          /\ flSize' = [p \in DOMAIN flSize \cup {o} |-> IF p = o THEN sz ELSE flSize[p]]
          /\ FlGive(o)
    /\ UNCHANGED <<flNext, flPrev, flCount, flTrampled>>

\* Seeded fault: tail.next is not reset.
FifoMallocStale ==
    LET o == flNext[head]
    IN  /\ o # tail
        /\ flNext' = [flNext EXCEPT ![head] = flNext[o]]
        /\ FlGive(o)
        /\ UNCHANGED <<flPrev, flSize, flCount, flTrampled>>

\* FIFOFreelistHeap: the first is taken; with the last, tail.next is reset.
FifoMalloc ==
    LET o == flNext[head]
    IN  /\ o # tail
        /\ flNext' = [flNext EXCEPT ![head] = flNext[o], ![o] = tail,
                                    ![tail] = IF flNext[o] = tail THEN tail ELSE @]
        /\ FlGive(o)
        /\ UNCHANGED <<flPrev, flSize, flCount, flTrampled>>

\* The object that tail.next names (tail itself, if there is none) gets a successor.
FifoFree(o) ==
    LET last == flNext[tail]
        linked == [flNext EXCEPT ![o] = tail, ![last] = o]
    IN  /\ flNext' = [linked EXCEPT ![tail] = o,
                                    ![head] = IF linked[head] = tail THEN o ELSE @]
        /\ flTrampled' = (flTrampled \/ last \in flHeld \ {o})
        /\ FlTake(o)
        /\ UNCHANGED <<flPrev, flSize, flCount>>

\* FIFODLFreelistHeap: the one before tail is taken.
FifoDlMalloc ==
    LET o == flPrev[tail]
    IN  /\ o # head
        /\ flNext' = [flNext EXCEPT ![flPrev[o]] = tail, ![o] = tail]
        /\ flPrev' = [flPrev EXCEPT ![tail] = flPrev[o], ![o] = head]
        /\ FlGive(o)
        /\ UNCHANGED <<flSize, flCount, flTrampled>>

FifoDlFree(o) ==
    /\ flNext' = [flNext EXCEPT ![o] = flNext[head], ![head] = o]
    /\ flPrev' = [flPrev EXCEPT ![o] = head, ![flNext[head]] = o]
    /\ flTrampled' = (flTrampled \/ flNext[head] \in flHeld \ {o})
    /\ FlTake(o)
    /\ UNCHANGED <<flSize, flCount>>

\* remove, of a listed object: here for the program to hold.
FifoDlRemove(o) ==
    /\ flNext' = [flNext EXCEPT ![flPrev[o]] = flNext[o], ![o] = tail]
    /\ flPrev' = [flPrev EXCEPT ![flNext[o]] = flPrev[o], ![o] = head]
    /\ FlGive(o)
    /\ UNCHANGED <<flSize, flCount, flTrampled>>

\* FirstFitHeap: the first listed object that is large enough is taken.
FirstFitMalloc(sz) ==
    LET list == <<head>> \o FlWalk
        i == SelectInSeq(FlWalk, LAMBDA o : flSize[o] >= sz)
    IN  IF i = 0 THEN FlFresh(sz)
        ELSE /\ flNext' = [flNext EXCEPT ![list[i]] = flNext[list[i + 1]], ![list[i + 1]] = tail]
             /\ flCount' = flCount - 1
             /\ FlGive(list[i + 1])
             /\ UNCHANGED <<flPrev, flSize, flTrampled>>

\* The object goes behind those at lower addresses.
FirstFitFree(o) ==
    LET list == <<head>> \o FlWalk
        i == SelectInSeq(FlWalk, LAMBDA p : p > o)
        prev == IF i = 0 THEN Last(list) ELSE list[i]
    IN  /\ flNext' = [flNext EXCEPT ![o] = flNext[prev], ![prev] = o]
        /\ flCount' = flCount + 1
        /\ FlTake(o)
        /\ UNCHANGED <<flPrev, flSize, flTrampled>>

FlMalloc ==
    \/ flKind = "FIFO" /\ FifoMalloc
    \/ flKind = "FIFODL" /\ FifoDlMalloc
    \/ flKind # "FirstFit" /\ flNext[head] = tail /\ FlFresh(Max(FlSizes))
    \/ flKind = "FirstFit" /\ \E sz \in FlSizes : FirstFitMalloc(sz)

FlFree(o) ==
    /\ o \in flHeld
    /\ \/ flKind = "FIFO" /\ FifoFree(o)
       \/ flKind = "FIFODL" /\ FifoDlFree(o)
       \/ flKind = "FirstFit" /\ FirstFitFree(o)

\* The destructors give the listed objects back. (Another heap is made in the
\* place of this one, and takes over what the program holds.)
FlDestroy ==
    /\ flSize' = [o \in DOMAIN flSize \ ToSet(FlWalk) |-> flSize[o]]
    /\ flNext' = [o \in head .. tail |-> tail]
    /\ flPrev' = [o \in head .. tail |-> head]
    /\ flCount' = 0
    /\ flFreed' = <<>>
    /\ UNCHANGED <<flHeld, flTrampled>>

FlStep ==
    /\ \/ FlMalloc
       \/ \E o \in FlObject : FlFree(o)
       \/ flKind = "FIFODL" /\ \E o \in ToSet(flFreed) : FifoDlRemove(o)
       \/ FlDestroy
    /\ UNCHANGED flKind
-----------------------------------------------------------------------------
(* BatchHeap *)

btVars == <<btLists, btCount, btSpare, btHeld, btCrashed>>

BtInit ==
    /\ btLists = [l \in {0, 1} |-> <<>>] /\ btCount = 0
    /\ btSpare = FlObject
    /\ btHeld = {} /\ btCrashed = FALSE

BtCrashes == btCrashed' = TRUE /\ UNCHANGED <<btLists, btCount, btSpare, btHeld>>

\* A list of up to a batch of objects, as far as the super heap has them.
MultiMalloc ==
    LET all == SetToSeq(btSpare) IN SubSeq(all, 1, Min({FlBatch, Len(all)}))

\* The first num objects of a list: it has to have as many.
MultiFree(num, list) == ToSet(SubSeq(list, 1, num))

\* Objects come from the list that is filled up last, but go by the count alone.
BtListOf(count) == IF count > FlBatch THEN 1 ELSE 0

BtMalloc ==
    LET got == IF btCount = 0 THEN MultiMalloc ELSE <<>>
        lists == IF btCount = 0 THEN [btLists EXCEPT ![0] = got] ELSE btLists
        count == IF btCount = 0 THEN Len(got) ELSE btCount
        l == BtListOf(count)
    IN  IF lists[l] = <<>> THEN BtCrashes
        ELSE /\ btLists' = [lists EXCEPT ![l] = Tail(@)]
             /\ btCount' = count - 1
             /\ btSpare' = btSpare \ ToSet(got)
             /\ btHeld' = btHeld \cup {Head(lists[l])}
             /\ UNCHANGED btCrashed

\* Two batches are too many: the second list goes. (The count stays.)
BtFree(o) ==
    LET lists == [btLists EXCEPT ![BtListOf(btCount)] = <<o>> \o @]
        full == btCount + 1 = 2 * FlBatch
    IN  /\ o \in btHeld
        /\ IF full /\ Len(lists[1]) < FlBatch THEN BtCrashes
           ELSE /\ btLists' = IF full THEN [lists EXCEPT ![1] = <<>>] ELSE lists
                /\ btSpare' = btSpare \cup (IF full THEN MultiFree(FlBatch, lists[1]) ELSE {})
                /\ btCount' = btCount + 1
                /\ btHeld' = btHeld \ {o}
                /\ UNCHANGED btCrashed

\* The destructor; another heap takes this one's place.
BtDestroy ==
    LET first == Min({btCount, FlBatch})
        rest == btCount - first
    IN  IF Len(btLists[0]) < first \/ Len(btLists[1]) < rest THEN BtCrashes
        ELSE /\ btSpare' = btSpare \cup MultiFree(first, btLists[0]) \cup MultiFree(rest, btLists[1])
             /\ btLists' = [l \in {0, 1} |-> <<>>] /\ btCount' = 0
             /\ UNCHANGED <<btHeld, btCrashed>>

BtNext == ~btCrashed /\ (BtMalloc \/ BtDestroy \/ \E o \in btHeld : BtFree(o))

\* A free list and a BatchHeap, which have nothing to do with each other.
FlSpec == FlInit /\ BtInit /\ [][(FlStep /\ UNCHANGED btVars) \/ (BtNext /\ UNCHANGED flVars)]_<<flVars, btVars>>
-----------------------------------------------------------------------------
Ascending(list) == \A i \in 1 .. Len(list) - 1 : list[i] < list[i + 1]

\* However lists run empty and fill again, an object is either held or listed, once,
\* and no link is written into one that is held. The FIFO heaps list what was freed
\* in the order it was freed (FIFODL from its tail), so it is reused in that order;
\* FirstFitHeap lists it by address, and counts it. BatchHeap has each object in one
\* place and counts those on its lists, up to the step that follows a NULL.
FreedObjectsInOrder ==
    /\ ~flTrampled
    /\ flHeld \cap ToSet(flFreed) = {}
    /\ flHeld \cup ToSet(flFreed) = DOMAIN flSize
    /\ flKind = "FIFO"     => FlWalk = flFreed
    /\ flKind = "FIFODL"   => FlWalk = Reverse(flFreed)
    /\ flKind = "FirstFit" => /\ ToSet(FlWalk) = ToSet(flFreed) /\ Ascending(FlWalk)
                              /\ flCount = Len(flFreed)
    /\ btCount = Len(btLists[0]) + Len(btLists[1])
    /\ LET listed == ToSet(btLists[0] \o btLists[1])
       IN  /\ Cardinality(listed) = btCount
           /\ listed \cap (btHeld \cup btSpare) = {} /\ btHeld \cap btSpare = {}
           /\ listed \cup btHeld \cup btSpare = FlObject
=============================================================================
