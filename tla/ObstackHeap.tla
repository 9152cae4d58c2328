---------------------------- MODULE ObstackHeap ----------------------------
(***************************************************************************)
(* ObstackHeap: a stack of chunks that holds a stack of objects, of which  *)
(* the last may be growing.  Addresses are in bytes, 0 is the null         *)
(* pointer.  The super heap gives the lowest memory that is free.          *)
(***************************************************************************)
EXTENDS Integers, SequencesExt

CONSTANTS
    ObSizes,        \* the sizes that are asked for, and grown by
    ObChunkSize,    \* ChunkSize
    ObMaxHeld,      \* bound: the finished objects
    ObEnd           \* bound: the memory of the super heap

ASSUME ObAssumption == /\ ObSizes \subseteq Nat \ {0} /\ ObEnd \in Nat /\ ObMaxHeld \in Nat
                       /\ ObChunkSize \in Nat /\ ObChunkSize >= 16

VARIABLES
    obChunks,       \* the chunks from the first to currentChunk: header address
                    \* and limit; none after an allocation has failed
    obBase,         \* currentBase
    obNext,         \* nextPos
    obLost,         \* chunks that are on the chain no more but not given back
    obHeld,         \* history: the finished objects, in their order
    obGrown         \* history: by how much the growing object has grown

obVars == <<obChunks, obBase, obNext, obLost, obHeld, obGrown>>

ChunkHeader == 8
ObAlign(n) == ((n + 7) \div 8) * 8

\* The size of a new chunk for sz bytes, without its header.
ChunkFor(sz) ==
    LET least == ObChunkSize - ChunkHeader IN ObAlign(IF sz > least THEN sz ELSE least)

\* makeChunk: the chunk, a singleton, or nothing when memory is short.
MakeChunk(others, sz) ==
    LET taken == ToSet(others) \cup obLost
        whole == ChunkHeader + ChunkFor(sz)
        fits(at) == /\ at + whole <= ObEnd
                    /\ \A c \in taken : at + whole <= c.at \/ c.limit <= at
        places == {at \in {8} \cup {c.limit : c \in taken} : fits(at)}
    IN  {[at |-> a, limit |-> a + whole] : a \in {p \in places : \A q \in places : p <= q}}

ObInit ==
    /\ obChunks = <<[at |-> 8, limit |-> 8 + ChunkHeader + ChunkFor(ObChunkSize)]>>
    /\ obBase = 8 + ChunkHeader
    /\ obNext = 8 + ChunkHeader
    /\ obLost = {}
    /\ obHeld = <<>>
    /\ obGrown = 0

Current == Last(obChunks)
Room == Current.limit - obNext

\* currentChunk becomes NULL; the chunks before it are out of reach.
ChainIsLost ==
    /\ obChunks' = <<>>
    /\ obLost' = obLost \cup ToSet(obChunks)
    /\ obHeld' = <<>>
    /\ obGrown' = 0
    /\ UNCHANGED <<obBase, obNext>>

\* The object that was growing, if any, stays where it is.
KeptGrowing == IF obNext > obBase THEN Append(obHeld, [at |-> obBase, size |-> obNext - obBase]) ELSE obHeld

\* malloc in the current chunk ...
ObMallocHere(sz) ==
    /\ obChunks # <<>> /\ Room >= sz /\ Len(obHeld) < ObMaxHeld
    /\ obHeld' = Append(KeptGrowing, [at |-> obNext, size |-> sz])
    /\ obNext' = ObAlign(obNext + sz)
    /\ obBase' = obNext'
    /\ obGrown' = 0
    /\ UNCHANGED <<obChunks, obLost>>

\* ... and in a new one.
ObMallocNew(sz) ==
    /\ obChunks # <<>> /\ Room < sz /\ Len(obHeld) < ObMaxHeld
    /\ \/ \E c \in MakeChunk(obChunks, sz) :
            /\ obChunks' = Append(obChunks, c)
            /\ obHeld' = Append(KeptGrowing, [at |-> c.at + ChunkHeader, size |-> sz])
            /\ obNext' = ObAlign(c.at + ChunkHeader + sz)
            /\ obBase' = obNext'
            /\ obGrown' = 0
            /\ UNCHANGED obLost
       \/ MakeChunk(obChunks, sz) = {} /\ ChainIsLost

ObjectSize == obNext - obBase

\* grow in place ...
GrowHere(sz) ==
    /\ obChunks # <<>> /\ Room >= sz
    /\ obNext' = obNext + sz
    /\ obGrown' = obGrown + sz
    /\ UNCHANGED <<obChunks, obBase, obLost, obHeld>>

\* Seeded fault: the object is copied but the position is not moved behind it.
GrowMovedShort(sz) ==
    /\ obChunks # <<>> /\ Room < sz
    /\ \E c \in MakeChunk(obChunks, ObjectSize + sz + ObjectSize \div 8 + 100) :
            /\ obChunks' = Append(obChunks, c)
            /\ obBase' = c.at + ChunkHeader
            /\ obNext' = c.at + ChunkHeader + sz
            /\ obGrown' = obGrown + sz
            /\ UNCHANGED <<obLost, obHeld>>

\* ... and after copying the object to a new chunk (copyToNew).
GrowMoved(sz) ==
    LET more == ObjectSize + sz + ObjectSize \div 8 + 100
    IN  /\ obChunks # <<>> /\ Room < sz
        /\ \/ \E c \in MakeChunk(obChunks, more) :
                /\ obChunks' = Append(obChunks, c)
                /\ obBase' = c.at + ChunkHeader
                /\ obNext' = c.at + ChunkHeader + ObjectSize + sz
                /\ obGrown' = obGrown + sz
                /\ UNCHANGED <<obLost, obHeld>>
           \/ MakeChunk(obChunks, more) = {} /\ ChainIsLost

\* finalize
ObFinalize ==
    /\ obChunks # <<>> /\ obNext > obBase /\ Len(obHeld) < ObMaxHeld
    /\ obHeld' = KeptGrowing
    /\ obNext' = ObAlign(obNext)
    /\ obBase' = obNext'
    /\ obGrown' = 0
    /\ UNCHANGED <<obChunks, obLost>>

\* How many chunks stay when everything from ptr on goes.
ChunksUpTo(ptr) == SelectLastInSeq(obChunks, LAMBDA c : c.at <= ptr /\ ptr <= c.limit)

\* free of the i-th object: it and all that came after it go.
ObFree(i) ==
    /\ obChunks # <<>> /\ i \in 1 .. Len(obHeld)
    /\ obChunks' = SubSeq(obChunks, 1, ChunksUpTo(obHeld[i].at))
    /\ obBase' = obHeld[i].at
    /\ obNext' = obHeld[i].at
    /\ obHeld' = SubSeq(obHeld, 1, i - 1)
    /\ obGrown' = 0
    /\ UNCHANGED obLost

\* free(NULL): the obstack starts anew.
ObFreeAll ==
    /\ \E c \in MakeChunk(<<>>, ObChunkSize) :
            /\ obChunks' = <<c>>
            /\ obBase' = c.at + ChunkHeader
            /\ obNext' = c.at + ChunkHeader
    /\ obHeld' = <<>>
    /\ obGrown' = 0
    /\ UNCHANGED obLost

ObNextStep ==
    \/ \E n \in ObSizes : ObMallocHere(n) \/ ObMallocNew(n) \/ GrowHere(n) \/ GrowMoved(n)
    \/ \E i \in 1 .. Len(obHeld) : ObFree(i)
    \/ ObFinalize \/ ObFreeAll

ObSpec == ObInit /\ [][ObNextStep]_obVars
-----------------------------------------------------------------------------
Inside(c, o) == c.at + ChunkHeader <= o.at /\ o.at + o.size <= c.limit

\* After growing into new chunks, finishing and freeing back in any order, the
\* growing object has every byte it has grown by, all objects lie in chunks that
\* are still on the chain, behind their headers, and none overlaps another.
ObjectsKeepTheirPlace ==
    obChunks # <<>> =>
        LET growing == [at |-> obBase, size |-> obNext - obBase]
            all == Append(obHeld, growing)
        IN  /\ growing.size = obGrown /\ Inside(Current, growing)
            /\ \A o \in ToSet(all) : \E c \in ToSet(obChunks) : Inside(c, o)
            /\ \A i, j \in 1 .. Len(all) :
                    i < j => \/ all[i].at + all[i].size <= all[j].at
                             \/ all[j].at + all[j].size <= all[i].at
=============================================================================
