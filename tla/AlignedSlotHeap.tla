-------------------------- MODULE AlignedSlotHeap --------------------------
(***************************************************************************)
(* AlignedSlotHeap over AlignedChunkHeap: one thread takes slots from its  *)
(* chunk, any thread puts slots back into theirs.  A chunk is found from a *)
(* slot by its alignment; its bitmap says which slots are given out.       *)
(*                                                                         *)
(* A bitmap is changed by reading it, working out the new value and        *)
(* exchanging it (InterlockedExchange), which stores the new value even if *)
(* somebody has changed the bitmap in between, and then tries again.  And  *)
(* whoever empties a chunk looks later, in another step, whether the chunk *)
(* has been let go.  AsLocked says whether the heap is used under a lock   *)
(* (LockedHeap): if not, threads do all this at the same time.             *)
(***************************************************************************)
EXTENDS Naturals, Sequences

CONSTANTS
    AsThreads,      \* the threads
    AsOwner,        \* the one that calls malloc
    AsChunks,       \* the chunks the super heap has memory for
    AsSlots,        \* getNumSlots(), 31
    AsMaxFree,      \* maxFree
    AsLocked,       \* whether one thread at a time uses the heap
    AsNone          \* NULL

ASSUME AsAssumption ==
    /\ AsOwner \in AsThreads /\ AsNone \notin AsChunks
    /\ AsSlots \in Nat \ {0} /\ AsMaxFree \in Nat /\ AsLocked \in BOOLEAN

VARIABLES
    asBitmap,       \* freeBitmap: the bits that are set, 0 always
    asReleased,     \* status is RELEASED
    asMine,         \* myChunk
    asList,         \* chunkList
    asMade,         \* the chunks the super heap has given and not got back
    asPc,           \* where each thread is: at, chunk, bit, and the bitmap it has read
    asHeld          \* history: the slots the program holds: <<chunk, bit>>

asVars == <<asBitmap, asReleased, asMine, asList, asMade, asPc, asHeld>>

AsIdle == [at |-> "idle", chunk |-> AsNone, bit |-> 0, seen |-> {}]

AsInit ==
    /\ asBitmap = [c \in AsChunks |-> {0}]
    /\ asReleased = [c \in AsChunks |-> FALSE]
    /\ asMine = AsNone
    /\ asList = <<>>
    /\ asMade = {}
    /\ asPc = [t \in AsThreads |-> AsIdle]
    /\ asHeld = {}

\* msb of the lowest bit that is not set.
FirstUnset(bits) == CHOOSE b \in 0 .. AsSlots : b \notin bits /\ \A a \in 0 .. b - 1 : a \in bits

AllBits == 0 .. AsSlots

\* t may begin to use the heap.  (Under a lock nobody else is between the reading
\* of a bitmap and what follows from it; the lock may be free between the steps
\* of malloc's loop.)
MayUse(t) == AsLocked => \A u \in AsThreads \ {t} : asPc[u].at = "idle"
-----------------------------------------------------------------------------
(* malloc, by the owner *)

\* A chunk from the list is acquired ...
TakeListed ==
    /\ asPc[AsOwner].at = "idle" /\ MayUse(AsOwner) /\ asMine = AsNone /\ asList # <<>>
    /\ asMine' = Head(asList)
    /\ asList' = Tail(asList)
    /\ asReleased' = [asReleased EXCEPT ![Head(asList)] = FALSE]
    /\ UNCHANGED <<asBitmap, asMade, asPc, asHeld>>

\* ... or one is made.
MakeAligned(c) ==
    /\ asPc[AsOwner].at = "idle" /\ MayUse(AsOwner) /\ asMine = AsNone /\ asList = <<>>
    /\ c \notin asMade
    /\ asMine' = c
    /\ asMade' = asMade \cup {c}
    /\ asBitmap' = [asBitmap EXCEPT ![c] = {0}]
    /\ asReleased' = [asReleased EXCEPT ![c] = FALSE]
    /\ UNCHANGED <<asList, asPc, asHeld>>

\* getSlot reads the bitmap, for the first time or again ...
GetReads ==
    /\ asPc[AsOwner].at \in {"idle", "reget"} /\ MayUse(AsOwner) /\ asMine # AsNone
    /\ LET seen == asBitmap[asMine]
       IN  asPc' = [asPc EXCEPT ![AsOwner] =
                IF seen = AllBits
                THEN [at |-> "release", chunk |-> asMine, bit |-> 0, seen |-> {}]
                ELSE [at |-> "get", chunk |-> asMine, bit |-> FirstUnset(seen), seen |-> seen]]
    /\ UNCHANGED <<asBitmap, asReleased, asMine, asList, asMade, asHeld>>

\* ... and stores it with one more bit.  If the bitmap was another one by then,
\* it has been overwritten all the same, and getSlot tries again.
GetExchanges ==
    LET p == asPc[AsOwner]
    IN  /\ p.at = "get"
        /\ asBitmap' = [asBitmap EXCEPT ![p.chunk] = p.seen \cup {p.bit}]
        /\ IF asBitmap[p.chunk] = p.seen
           THEN /\ asPc' = [asPc EXCEPT ![AsOwner] = AsIdle]
                /\ asHeld' = asHeld \cup {<<p.chunk, p.bit>>}
           ELSE /\ asPc' = [asPc EXCEPT ![AsOwner].at = "reget"]
                /\ UNCHANGED asHeld
        /\ UNCHANGED <<asReleased, asMine, asList, asMade>>

\* A chunk that was seen full is let go.
AsRelease ==
    /\ asPc[AsOwner].at = "release"
    /\ asReleased' = [asReleased EXCEPT ![asMine] = TRUE]
    /\ asMine' = AsNone
    /\ asPc' = [asPc EXCEPT ![AsOwner] = AsIdle]
    /\ UNCHANGED <<asBitmap, asList, asMade, asHeld>>
-----------------------------------------------------------------------------
(* free, by any thread *)

\* putSlot reads the bitmap of the slot's chunk, for the first time or again ...
PutReads(t, c, b) ==
    /\ IF asPc[t].at = "idle"
       THEN <<c, b>> \in asHeld /\ asHeld' = asHeld \ {<<c, b>>}
       ELSE asPc[t].at = "reput" /\ asPc[t].chunk = c /\ asPc[t].bit = b /\ UNCHANGED asHeld
    /\ MayUse(t)
    /\ asPc' = [asPc EXCEPT ![t] = [at |-> "put", chunk |-> c, bit |-> b, seen |-> asBitmap[c]]]
    /\ UNCHANGED <<asBitmap, asReleased, asMine, asList, asMade>>

\* AlignedChunkHeap::free: the chunk goes to the list, or back to the super heap.
ChunkFreed(c) ==
    IF Len(asList) > AsMaxFree THEN asMade' = asMade \ {c} /\ UNCHANGED asList
                               ELSE asList' = <<c>> \o asList /\ UNCHANGED asMade

\* ... stores it with one bit less, whatever it is by then, and if it was the one
\* read and that leaves the chunk empty ...
PutExchanges(t) ==
    LET p == asPc[t]
        bits == p.seen \ {p.bit}
    IN  /\ p.at = "put"
        /\ asBitmap' = [asBitmap EXCEPT ![p.chunk] = bits]
        /\ asPc' = [asPc EXCEPT ![t] =
                IF asBitmap[p.chunk] # p.seen
                THEN [at |-> "reput", chunk |-> p.chunk, bit |-> p.bit, seen |-> {}]
                ELSE IF bits = {0}
                THEN [at |-> "check", chunk |-> p.chunk, bit |-> 0, seen |-> {}]
                ELSE AsIdle]
        /\ UNCHANGED <<asReleased, asMine, asList, asMade, asHeld>>

\* Seeded fault: an empty chunk is given back although it is in use.
GoesBackInUse(c) == TRUE

\* Only a chunk that has been let go is given back.
GoesBack(c) == asReleased[c]

\* ... sees whether it goes back.
PutChecks(t) ==
    LET p == asPc[t]
    IN  /\ p.at = "check"
        /\ asPc' = [asPc EXCEPT ![t] = AsIdle]
        /\ IF GoesBack(p.chunk) THEN ChunkFreed(p.chunk) ELSE UNCHANGED <<asList, asMade>>
        /\ UNCHANGED <<asBitmap, asReleased, asMine, asHeld>>

AsNext ==
    \/ TakeListed \/ (\E c \in AsChunks : MakeAligned(c)) \/ GetReads \/ GetExchanges \/ AsRelease
    \/ \E t \in AsThreads, c \in AsChunks, b \in 1 .. AsSlots : PutReads(t, c, b)
    \/ \E t \in AsThreads : PutExchanges(t) \/ PutChecks(t)

AsSpec == AsInit /\ [][AsNext]_asVars
-----------------------------------------------------------------------------
\* t is giving slot b of chunk c back, whose bit is still set.
Putting(t, c, b) == asPc[t].at = "put" /\ asPc[t].chunk = c /\ asPc[t].bit = b

\* Slot b of chunk c is held, or on its way back.
TakenOut(c, b) == <<c, b>> \in asHeld \/ \E t \in AsThreads : Putting(t, c, b)

\* Getting and putting slots is atomic: whichever thread frees while the owner
\* allocates or lets its chunk go, the set bits of a chunk are exactly the slots
\* held or on their way back (none is given out twice, none is lost), no chunk
\* goes back to the super heap with a slot taken out, and the chunks on the list
\* are distinct, empty, let go, not the owner's, and one more than maxFree at most.
BitmapsMatchSlots ==
    /\ \A c \in asMade : asBitmap[c] = {0} \cup {b \in 1 .. AsSlots : TakenOut(c, b)}
    /\ \A c \in AsChunks \ asMade : \A b \in 1 .. AsSlots : ~TakenOut(c, b)
    /\ \A i \in 1 .. Len(asList) :
            /\ asBitmap[asList[i]] = {0} /\ asReleased[asList[i]] /\ asList[i] # asMine
            /\ \A j \in 1 .. i - 1 : asList[i] # asList[j]
    /\ Len(asList) <= AsMaxFree + 1
=============================================================================
