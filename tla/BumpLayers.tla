----------------------------- MODULE BumpLayers -----------------------------
(***************************************************************************)
(* Three layers that hand out memory from the end of what they hold:       *)
(* ChunkHeap, which takes whole chunks from its super heap; SlopHeap,      *)
(* which keeps SLOP bytes behind the last object; and XallocHeap, a stack  *)
(* in one arena, with the size of the block before in front of each block. *)
(* Their super heap hands out memory upwards, to others, too, so that what *)
(* it gives may or may not continue what the layer has.                    *)
(***************************************************************************)
EXTENDS Integers, FiniteSets

CONSTANTS
    BlSizes,        \* the sizes the program asks for
    BlChunk,        \* ChunkSize
    BlSlop,         \* SLOP
    BlArena,        \* ArenaSize
    BlEnd           \* the end of the super heap's memory

ASSUME BlAssumption ==
    /\ BlSizes \subseteq Nat \ {0} /\ BlChunk \in Nat \ {0} /\ BlSlop \in Nat
    /\ BlArena \in Nat /\ BlArena % 8 = 0 /\ BlEnd \in Nat

VARIABLES
    blKind,         \* which of the layers it is
    blTop,          \* where the super heap's memory is free
    blPtr,          \* buffer, ptr, or end_of_array
    blEob,          \* eob (ChunkHeap)
    blRemaining,    \* remaining (SlopHeap)
    blLast,         \* last_block (XallocHeap), and
    blTag,          \* the Nuggie in front of each address: size and in_use
    blLive,         \* history: the objects of the program
    blGot,          \* history: the bytes that the super heap has given
    blTwice,        \* history: bytes of an object have been given out again
    blFailed        \* history: a request has failed since end_of_array was right

blSuper == <<blTop, blGot>>
blXalloc == <<blLast, blTag, blFailed>>
blVars == <<blKind, blSuper, blPtr, blEob, blRemaining, blXalloc, blLive, blTwice>>

BlNull == 0
BlBase == 8
CeilTo(n, unit) == ((n + unit - 1) \div unit) * unit
BlockSize(sz) == CeilTo(sz + 8, 8)
BytesOf(o) == o.ptr .. o.ptr + o.size - 1
LiveBytes == UNION {BytesOf(o) : o \in blLive}

BlInit ==
    /\ blKind \in {"chunk", "slop", "xalloc"}
    /\ blTop = BlBase + (IF blKind = "xalloc" THEN BlArena ELSE 0)
    /\ blGot = BlBase .. blTop - 1
    /\ blPtr = IF blKind = "xalloc" THEN BlBase + 8 ELSE BlNull
    /\ blEob = BlNull /\ blRemaining = 0
    /\ blLast = BlNull
    /\ blTag = [p \in {blPtr} |-> [size |-> 0, inUse |-> FALSE]]
    /\ blLive = {} /\ blTwice = FALSE /\ blFailed = FALSE

SuperMalloc(n) ==
    /\ blTop' = blTop + n
    /\ blGot' = blGot \cup blTop .. blTop + n - 1

BlGives(p, sz) ==
    LET o == [ptr |-> p, size |-> sz]
    IN  /\ blLive' = blLive \cup {o}
        /\ blTwice' = (blTwice \/ BytesOf(o) \cap LiveBytes # {})

BlFails == UNCHANGED <<blSuper, blPtr, blEob, blRemaining, blLive, blTwice>>
-----------------------------------------------------------------------------
(* ChunkHeap *)

\* If the new chunk continues the old one, what is left of that is used, too.
GetMoreChunks(sz) ==
    LET reqSize == CeilTo(sz, BlChunk)
        p == IF blEob = blTop THEN blPtr ELSE blTop
    IN  IF blTop + reqSize > BlEnd THEN BlFails
        ELSE /\ SuperMalloc(reqSize)
             /\ blPtr' = p + sz
             /\ blEob' = p + reqSize + (IF blEob = blTop THEN blEob - blPtr ELSE 0)
             /\ BlGives(p, sz)
             /\ UNCHANGED blRemaining

ChunkMalloc(sz) ==
    IF blPtr + sz <= blEob
    THEN /\ blPtr' = blPtr + sz
         /\ BlGives(blPtr, sz)
         /\ UNCHANGED <<blSuper, blEob, blRemaining>>
    ELSE GetMoreChunks(sz)

(* SlopHeap *)

\* If the new memory continues the old one, the slop between them is used.
GetMoreSlop(sz) ==
    LET near == blPtr # BlNull /\ blPtr + blRemaining + BlSlop = blTop
        p == IF near THEN blPtr ELSE blTop
    IN  IF blTop + sz + BlSlop > BlEnd THEN BlFails
        ELSE /\ SuperMalloc(sz + BlSlop)
             /\ blPtr' = p + sz
             /\ blRemaining' = IF near THEN blRemaining + BlSlop ELSE 0
             /\ BlGives(p, sz)
             /\ UNCHANGED blEob

SlopMalloc(sz) ==
    IF sz <= blRemaining
    THEN /\ blPtr' = blPtr + sz
         /\ blRemaining' = blRemaining - sz
         /\ BlGives(blPtr, sz)
         /\ UNCHANGED <<blSuper, blEob>>
    ELSE GetMoreSlop(sz)

\* clear of ChunkHeap and SlopHeap clears the super heap.
BlClear ==
    /\ blKind # "xalloc"
    /\ blPtr' = BlNull /\ blEob' = BlNull /\ blRemaining' = 0
    /\ blTop' = BlBase /\ blGot' = {} /\ blLive' = {}
    /\ UNCHANGED <<blTwice, blXalloc>>

\* The super heap serves somebody else.
SuperServes ==
    /\ blTop + 8 <= BlEnd
    /\ blTop' = blTop + 8
    /\ UNCHANGED <<blGot, blPtr, blEob, blRemaining, blXalloc, blLive, blTwice>>
-----------------------------------------------------------------------------
(* XallocHeap *)

\* The end moves even if there is no room: it comes back with a free of the last
\* block. (Bound: requests that fail end when the end is BlEnd.)
XallocMalloc(sz) ==
    LET end == blPtr + BlockSize(sz)
        tagged == [p \in DOMAIN blTag \cup {end} |->
                      IF p = end THEN [size |-> BlockSize(sz), inUse |-> FALSE]
                      ELSE IF p = blPtr THEN [blTag[p] EXCEPT !.inUse = TRUE]
                      ELSE blTag[p]]
    IN  /\ end <= BlEnd
        /\ blPtr' = end
        /\ IF blPtr + sz >= BlBase + BlArena
           THEN blFailed' = TRUE /\ UNCHANGED <<blTag, blLast, blLive, blTwice>>
           ELSE blTag' = tagged /\ blLast' = blPtr /\ BlGives(blPtr, sz) /\ UNCHANGED blFailed
        /\ UNCHANGED <<blSuper, blEob, blRemaining>>

\* Seeded fault: the block before is not looked at.
RolledBackOne(tag, last) == [end |-> last, last |-> last - tag[last].size]

\* From the last block back over those that are free: where the end of the array
\* comes to be, and which block is the last one then.
RolledBack(tag, last) ==
    LET from[p \in DOMAIN tag] ==
          LET q == p - tag[p].size
          IN  IF q = p THEN [end |-> p, last |-> BlNull]
              ELSE IF tag[q].inUse THEN [end |-> p, last |-> q]
              ELSE from[q]
    IN  from[last]

XallocFree(o) ==
    LET tag == [blTag EXCEPT ![o.ptr].inUse = FALSE]
        back == RolledBack(tag, o.ptr)
    IN  /\ o \in blLive
        /\ blTag' = tag
        /\ IF o.ptr = blLast
           THEN blPtr' = back.end /\ blLast' = back.last /\ blFailed' = FALSE
           ELSE UNCHANGED <<blPtr, blLast, blFailed>>
        /\ blLive' = blLive \ {o}
        /\ UNCHANGED <<blSuper, blEob, blRemaining, blTwice>>

BlNext ==
    /\ \/ \E sz \in BlSizes :
             \/ blKind = "chunk"  /\ ChunkMalloc(sz) /\ UNCHANGED blXalloc
             \/ blKind = "slop"   /\ SlopMalloc(sz) /\ UNCHANGED blXalloc
             \/ blKind = "xalloc" /\ XallocMalloc(sz)
       \/ blKind = "xalloc" /\ \E o \in blLive : XallocFree(o)
       \/ BlClear
       \/ SuperServes
    /\ UNCHANGED blKind

BlSpec == BlInit /\ [][BlNext]_blVars
-----------------------------------------------------------------------------
\* Whether or not new memory continues the old, and in whatever order blocks are
\* freed: no byte is given out twice, and what a layer takes for its room is its own
\* and free. ChunkHeap loses nothing of chunks in a row; SlopHeap always has its
\* slop behind the last object ("you always have an extra N bytes available after
\* the most recent malloc"); XallocHeap's end is that of the last block in use, and
\* each block finds the one before it.
RoomStaysKnown ==
    /\ ~blTwice
    /\ blKind = "chunk" => blPtr .. blEob - 1 \subseteq blGot \ LiveBytes
    /\ blKind = "slop" /\ blPtr # BlNull =>
            blPtr .. blPtr + blRemaining + BlSlop - 1 \subseteq blGot \ LiveBytes
    /\ blKind = "xalloc" =>
            /\ \A o \in blLive :
                  /\ BytesOf(o) \subseteq blGot /\ o.ptr <= blLast
                  /\ blTag[o.ptr].inUse
                  /\ blTag[o.ptr + BlockSize(o.size)].size = BlockSize(o.size)
            /\ blLast # BlNull => \E o \in blLive :
                  o.ptr = blLast /\ (~blFailed => blPtr = o.ptr + BlockSize(o.size))
            /\ blLast = BlNull /\ ~blFailed => blPtr = BlBase + 8
=============================================================================
