---------------------------- MODULE LooseSlotHeap ----------------------------
(***************************************************************************)
(* LooseSlotHeap over BigChunk: slots of one size, in chunks that are kept *)
(* in lists by how full they are.  When too much is free, one of the       *)
(* emptiest chunks goes to the super heap, with slots in it that may still *)
(* be in use.                                                              *)
(*                                                                         *)
(* The super heap hands out chunks whose slots are all free (what malloc   *)
(* asserts).  A null pointer that is followed ends a behaviour: lsCrashed. *)
(*                                                                         *)
(* Then LazySlotHeap over Chunk, which keeps one chunk to allocate from    *)
(* and returns any other as soon as all its slots are free.                *)
(***************************************************************************)
EXTENDS Naturals, Sequences, FiniteSets, SequencesExt, FiniteSetsExt

CONSTANTS
    LsChunks,       \* the chunks there are
    LsSlots,        \* getNumSlots()
    LsFraction,     \* emptyFraction
    LsSlack         \* 2 * chunkSize / slotSize

ASSUME LsAssumption ==
    LsSlots \in Nat \ {0} /\ LsFraction \in Nat \ {0}
    /\ IsFiniteSet(LsChunks) /\ LsChunks # {}
    /\ LsSlack \in Nat /\ LsSlack >= 2 * LsSlots

VARIABLES
    lsFree,         \* freeSlots of every chunk: a sequence of slots
    lsOwned,        \* the chunks whose heap is this one (it is NULL in the others)
    lsLists,        \* myChunks: fullness -> sequence of chunks
    lsInUse,        \* inUse
    lsSpace,        \* space
    lsHeld,         \* history: the slots the program holds: <<chunk, slot>>
    lsSent,         \* history: the free slots of the chunk that went last
    lsCrashed,      \* history: a null pointer has been followed
    lzMine,         \* LazySlotHeap: myChunk,
    lzFree,         \* freeSlots of every chunk,
    lzOwned,        \* the chunks that are not the super heap's, and
    lzHeld          \* history: the slots the program holds: <<chunk, slot>>

lsVars == <<lsFree, lsOwned, lsLists, lsInUse, lsSpace, lsHeld, lsSent, lsCrashed>>

\* BigChunk carves itself up: the last slot is the first on its list.
LsCarved == [s \in 1 .. LsSlots |-> LsSlots + 1 - s]

LsInit ==
    /\ lsFree = [c \in LsChunks |-> LsCarved]
    /\ lsOwned = {}
    /\ lsLists = [i \in 0 .. LsFraction |-> <<>>]
    /\ lsInUse = 0
    /\ lsSpace = 0
    /\ lsHeld = {}
    /\ lsSent = LsSlots
    /\ lsCrashed = FALSE

\* putSlot, and getNumSlotsInUse, of a chunk with this list of free slots.
LsPut(free, s) == <<s>> \o free
SlotsInUse(free) == LsSlots - Len(free)

\* getFullness, of a chunk with this list of free slots.
Fullness(free) == (LsFraction * SlotsInUse(free)) \div LsSlots

\* Seeded fault: the chunk is not taken off the list it was on.
LsUpdatedTwice(lists, c, from, to) == IF from = to THEN lists ELSE [lists EXCEPT ![to] = <<c>> \o @]

LsPlace(list, c) == CHOOSE i \in DOMAIN list : list[i] = c

\* update: a chunk whose fullness has changed moves to the front of another list.
LsUpdated(lists, c, from, to) ==
    IF from = to THEN lists ELSE [lists EXCEPT ![from] = RemoveAt(@, LsPlace(@, c)), ![to] = <<c>> \o @]

\* malloc takes a slot of the first chunk of the fullest list with room ...
LsTake(lists, c) ==
    LET free == Tail(lsFree[c])
    IN  /\ lsFree' = [lsFree EXCEPT ![c] = free]
        /\ lsLists' = LsUpdated(lists, c, Fullness(lsFree[c]), Fullness(free))
        /\ lsHeld' = lsHeld \cup {<<c, Head(lsFree[c])>>}
        /\ lsInUse' = lsInUse + 1

WithRoom == {i \in 0 .. LsFraction - 1 : lsLists[i] # <<>>}

LsMallocListed ==
    /\ WithRoom # {}
    /\ LsTake(lsLists, Head(lsLists[Max(WithRoom)]))
    /\ UNCHANGED <<lsOwned, lsSpace, lsSent, lsCrashed>>

Spare == {c \in LsChunks \ lsOwned : Len(lsFree[c]) = LsSlots}

\* ... or of a chunk from the super heap ...
LsMallocNew(c) ==
    /\ WithRoom = {} /\ c \in Spare
    /\ lsOwned' = lsOwned \cup {c}
    /\ lsSpace' = lsSpace + LsSlots
    /\ LsTake([lsLists EXCEPT ![0] = <<c>>], c)
    /\ UNCHANGED <<lsSent, lsCrashed>>

\* ... and follows the null pointer that comes when there is none.
LsMallocFails ==
    /\ WithRoom = {} /\ Spare = {}
    /\ lsCrashed' = TRUE
    /\ UNCHANGED <<lsFree, lsOwned, lsLists, lsInUse, lsSpace, lsHeld, lsSent>>

TooEmpty(space, inUse) == space - inUse > LsSlack /\ LsFraction * (space - inUse) > space

\* localFree: the slot goes back to its chunk, and when the heap is too empty the
\* first chunk of the emptiest list goes to the super heap.
LsFreeSlot(c, s) ==
    LET free == LsPut(lsFree[c], s)
        lists == LsUpdated(lsLists, c, Fullness(lsFree[c]), Fullness(free))
        frees == [lsFree EXCEPT ![c] = free]
        inUse == lsInUse - 1
        emptiest == Min({i \in 0 .. LsFraction - 1 : lists[i] # <<>>})
        out == Head(lists[emptiest])
    IN  /\ <<c, s>> \in lsHeld /\ c \in lsOwned
        /\ lsFree' = frees
        /\ lsHeld' = lsHeld \ {<<c, s>>}
        /\ IF TooEmpty(lsSpace, inUse)
           THEN /\ lsLists' = [lists EXCEPT ![emptiest] = Tail(@)]
                /\ lsOwned' = lsOwned \ {out}
                /\ lsSpace' = lsSpace - LsSlots
                /\ lsInUse' = inUse - SlotsInUse(frees[out])
                /\ lsSent' = Len(frees[out])
           ELSE lsLists' = lists /\ lsInUse' = inUse /\ UNCHANGED <<lsOwned, lsSpace, lsSent>>
        /\ UNCHANGED lsCrashed

\* free of a slot whose chunk has gone: the chunk has no heap.
LsFreeGone(c, s) ==
    /\ <<c, s>> \in lsHeld /\ c \notin lsOwned
    /\ lsCrashed' = TRUE
    /\ UNCHANGED <<lsFree, lsOwned, lsLists, lsInUse, lsSpace, lsHeld, lsSent>>

LsNext ==
    /\ ~lsCrashed
    /\ \/ LsMallocListed \/ LsMallocFails
       \/ \E c \in LsChunks : LsMallocNew(c)
       \/ \E c \in LsChunks, s \in 1 .. LsSlots : LsFreeSlot(c, s) \/ LsFreeGone(c, s)
-----------------------------------------------------------------------------
(* LazySlotHeap. (free asks getNumSlotsAvailable, which Chunk calls getNumSlotsFree.) *)

lzVars == <<lzMine, lzFree, lzOwned, lzHeld>>

\* Chunk's constructor: one list of all slots.
LzCarved == [s \in 1 .. LsSlots |-> LsSlots + 1 - s]

LzInit ==
    /\ lzMine = CHOOSE c \in LsChunks : TRUE
    /\ lzFree = [c \in LsChunks |-> LzCarved]
    /\ lzOwned = {lzMine}
    /\ lzHeld = {}

\* getSlot: the first slot of a chunk that has one.
LzTakes(c, frees) ==
    /\ lzFree' = [frees EXCEPT ![c] = Tail(@)]
    /\ lzHeld' = lzHeld \cup {<<c, Head(frees[c])>>}

\* malloc: from the chunk at hand, or from a new one when that is used up. (Bound: it
\* is not called when the super heap has no chunk: what the null pointer then does
\* is LsMallocFails' case.)
LzMalloc ==
    IF lzFree[lzMine] # <<>>
    THEN LzTakes(lzMine, lzFree) /\ UNCHANGED <<lzMine, lzOwned>>
    ELSE \E c \in LsChunks \ lzOwned :
            /\ lzMine' = c
            /\ lzOwned' = lzOwned \cup {c}
            /\ LzTakes(c, [lzFree EXCEPT ![c] = LzCarved])

\* getNumSlotsFree of a chunk says that nobody holds any of its slots.
LzEmpty(free) == Len(free) = LsSlots

\* free: the slot goes back, and a chunk that is not at hand goes when it is empty.
LzFree(c, s) ==
    LET free == <<s>> \o lzFree[c]
    IN  /\ <<c, s>> \in lzHeld
        /\ lzFree' = [lzFree EXCEPT ![c] = free]
        /\ lzHeld' = lzHeld \ {<<c, s>>}
        /\ lzOwned' = IF c # lzMine /\ LzEmpty(free) THEN lzOwned \ {c} ELSE lzOwned
        /\ UNCHANGED lzMine

LzNext == LzMalloc \/ \E c \in LsChunks, s \in 1 .. LsSlots : LzFree(c, s)

LsSpec == LsInit /\ LzInit
          /\ [][(LsNext /\ UNCHANGED lzVars) \/ (LzNext /\ UNCHANGED lsVars)]_<<lsVars, lzVars>>
-----------------------------------------------------------------------------
LsListed == UNION {ToSet(lsLists[i]) : i \in 0 .. LsFraction}

\* checkClassInvariant: the two counters are what the listed chunks add up to.
CheckClassInvariant ==
    /\ lsInUse <= lsSpace
    /\ LsListed \subseteq lsOwned
    /\ lsSpace = LsSlots * Cardinality(LsListed)
    /\ lsInUse = MapThenSumSet(LAMBDA c : SlotsInUse(lsFree[c]), LsListed)

\* checkClassInvariant, and what the lists are for: after chunks have filled up,
\* emptied, gone with slots in use and come back, every chunk of the heap is on
\* the list of its fullness and on no other, the slots it has given out are those
\* the program holds, and what goes to the super heap is "a chunk that is at least
\* that empty" as the heap is (looseslotheap.h:18). LazySlotHeap has, besides
\* the chunk at hand, exactly those with a slot in use: "once a chunk (except for our
\* current one) is COMPLETELY empty, it is returned" (lazyslotheap.h:12).
ChunksSortedByFullness ==
    /\ \A i \in 0 .. LsFraction :
            /\ \A c \in ToSet(lsLists[i]) : c \in lsOwned /\ Fullness(lsFree[c]) = i
            /\ Cardinality(ToSet(lsLists[i])) = Len(lsLists[i])
    /\ lsOwned = LsListed
    /\ CheckClassInvariant
    /\ \A c \in LsChunks :
            {s \in 1 .. LsSlots : <<c, s>> \in lsHeld} = (1 .. LsSlots) \ ToSet(lsFree[c])
    /\ LsFraction * lsSent >= LsSlots
    /\ \A c \in LsChunks :
            LET held == {s \in 1 .. LsSlots : <<c, s>> \in lzHeld}
            IN  /\ c \in lzOwned => held = (1 .. LsSlots) \ ToSet(lzFree[c])
                /\ c \in lzOwned \ {lzMine} <=> c # lzMine /\ held # {}
=============================================================================
