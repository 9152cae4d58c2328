------------------------------ MODULE DLMalloc ------------------------------
(***************************************************************************)
(* The allocator behind PrivateHeap: dlmalloc 2.7.2 as it is built here    *)
(* (32-bit words, sbrk, mmap, mremap), with its real sizes, in bytes.      *)
(*                                                                         *)
(* The whole malloc_state is one record, av, because every operation is a  *)
(* composition of functions on it:                                         *)
(*   ch          the heads of the chunks: address -> size, PREV_INUSE and  *)
(*               prev_size (heads that were merged away are dropped)       *)
(*   mm          the mmapped chunks: address -> size and prev_size         *)
(*   fast        the fastbins: chunk size -> chunks, last freed first      *)
(*   unsorted    bin 1; bins, the others (index -> chunks); binmap         *)
(*   top         the top chunk, 0 for initial_top                          *)
(*   remainder   last_remainder                                            *)
(*   maxfast, fastchunks, contiguous    max_fast and its two flags         *)
(*   trim, pad, mmapAt, mmapMax         the tunable parameters             *)
(*   mmaps, mmapped, sbrked             statistics (not the high-water     *)
(*                                      marks)                             *)
(* and what the system knows:                                              *)
(*   brk         the end of the data segment                               *)
(*   lent        the mapped regions used instead of sbrk: <<from, to>>     *)
(* A pointer is its chunk's address (mem2chunk), 0 is the null pointer.    *)
(* What the memory holds, and sizes near 2^32, are left out.               *)
(***************************************************************************)
EXTENDS Integers, Sequences, FiniteSets
LOCAL INSTANCE SequencesExt
LOCAL INSTANCE FiniteSetsExt

CONSTANTS
    DlRequests,     \* the sizes that are asked for
    DlGroups,       \* the sequences of sizes that are asked for at once
    DlAlignments,   \* the alignments that are asked for
    DlOptions,      \* what mallopt is called with: pairs of parameter and value
    DlForeign,      \* by how much other code moves the break
    DlBase,         \* the break at the start
    DlBreakLimit,   \* the break cannot be moved beyond this address
    DlMapLow,       \* mmap hands out regions from here
    DlMapHigh,      \*   up to here
    DlMaxLive,      \* bound: the objects held at a time
    DlMaxSteps      \* bound: the operations of a behaviour

VARIABLES
    av,             \* av_
    dlLive,         \* history: the objects the program holds
    dlTwice,        \* history: an object has been given out that is held already
    dlSteps

dlVars == <<av, dlLive, dlTwice, dlSteps>>

SIZE_SZ == 4
MINSIZE == 16
OSPage == 4096
MinLarge == 512
ConsolidateAt == 65536
MmapAsMorecore == 1024 * 1024

RoundUp(n, unit) == ((n + unit - 1) \div unit) * unit
PageUp(n) == RoundUp(n, OSPage)
Larger(m, n) == IF m >= n THEN m ELSE n
\* A function with another value at p, and without p.
With(f, p, v) == [q \in DOMAIN f \cup {p} |-> IF q = p THEN v ELSE f[q]]
Dropped(f, p) == [q \in DOMAIN f \ {p} |-> f[q]]

Least(S) == CHOOSE n \in S : \A m \in S : n <= m

\* Seeded fault: the word of overhead is forgotten.
Request2SizeBare(bytes) == Larger(MINSIZE, RoundUp(bytes, 8))

Request2Size(bytes) == Larger(MINSIZE, RoundUp(bytes + SIZE_SZ, 8))
-----------------------------------------------------------------------------
(* Chunks and bins *)

Size(a, p) == a.ch[p].size
NextChunk(a, p) == p + Size(a, p)
Inuse(a, p) == a.ch[NextChunk(a, p)].pinuse
Mmapped(a, p) == p \in DOMAIN a.mm

SetHead(a, p, size, pinuse) ==
    LET prev == IF p \in DOMAIN a.ch THEN a.ch[p].prev ELSE 0
    IN  [a EXCEPT !.ch = With(a.ch, p, [size |-> size, pinuse |-> pinuse, prev |-> prev])]

SetHeadSize(a, p, size) == [a EXCEPT !.ch = With(a.ch, p, [a.ch[p] EXCEPT !.size = size])]
SetPinuse(a, q, inuse) == [a EXCEPT !.ch = With(a.ch, q, [a.ch[q] EXCEPT !.pinuse = inuse])]
SetFoot(a, p, size) == [a EXCEPT !.ch = With(a.ch, p + size, [a.ch[p + size] EXCEPT !.prev = size])]
Forget(a, p) == [a EXCEPT !.ch = Dropped(a.ch, p)]

InSmallbinRange(size) == size < MinLarge

BinIndex(size) ==
    IF InSmallbinRange(size)      THEN size \div 8
    ELSE IF size \div 64 <= 32    THEN 56 + size \div 64
    ELSE IF size \div 512 <= 20   THEN 91 + size \div 512
    ELSE IF size \div 4096 <= 10  THEN 110 + size \div 4096
    ELSE IF size \div 32768 <= 4  THEN 119 + size \div 32768
    ELSE IF size \div 262144 <= 2 THEN 124 + size \div 262144
    ELSE 126

FastbinIndex(size) == size \div 8 - 2
NFASTBINS == FastbinIndex(Request2Size(80)) + 1

Bin(a, i) == IF i \in DOMAIN a.bins THEN a.bins[i] ELSE <<>>
Binned(a) == UNION {Range(a.bins[i]) : i \in DOMAIN a.bins}
Fast(a) == UNION {Range(a.fast[n]) : n \in DOMAIN a.fast}

\* unlink: p leaves the list it is on.
Unlink(a, p) ==
    [a EXCEPT !.unsorted = Remove(a.unsorted, p),
              !.bins = [i \in DOMAIN a.bins |-> Remove(a.bins[i], p)]]

\* Where a chunk of this size is put into its bin: at the front of a small bin;
\* into a large bin in decreasing order, and behind the smallest if it is not
\* larger.
BinPlace(a, size) ==
    LET list == Bin(a, BinIndex(size))
    IN  IF InSmallbinRange(size) \/ list = <<>> THEN 1
        ELSE IF size <= Size(a, Last(list)) THEN Len(list) + 1
        ELSE Least({k \in 1 .. Len(list) : size >= Size(a, list[k])})

MarkBin(a, i) == [a EXCEPT !.binmap = @ \cup {i}]
UnmarkBins(a, bins) == [a EXCEPT !.binmap = @ \ bins]

MarkAndInsert(a, p) ==
    LET i == BinIndex(Size(a, p))
    IN  MarkBin([a EXCEPT !.bins = With(a.bins, i, InsertAt(Bin(a, i), BinPlace(a, Size(a, p)), p))], i)

OnUnsorted(a, p) == [a EXCEPT !.unsorted = <<p>> \o a.unsorted]

\* The flag of fastchunks is cleared with it.
SetMaxFast(a, value) ==
    [a EXCEPT !.maxfast = IF value = 0 THEN 8 ELSE Request2Size(value), !.fastchunks = FALSE]

InitState(a) == \* malloc_init_state
    SetMaxFast([a EXCEPT !.pad = 0, !.mmapMax = 65536, !.mmapAt = 128 * 1024,
                         !.trim = 1024 * 1024 * 1024, !.top = 0], 64)
-----------------------------------------------------------------------------
(* free *)

\* Seeded fault: the chunk before p is not looked at.
MergedFromItself(a, p) == p

\* The chunk that p becomes part of.
MergedFrom(a, p) == IF a.ch[p].pinuse THEN p ELSE p - a.ch[p].prev

MergeBackward(a, p) ==
    LET prev == MergedFrom(a, p)
    IN  IF prev = p THEN a
        ELSE SetHeadSize(Forget(Unlink(a, prev), p), prev, NextChunk(a, p) - prev)

FreeUnsorted(a, p, size) ==
    SetFoot(SetHead(OnUnsorted(a, p), p, size, TRUE), p, size)

\* It goes into top with the chunk after it, or to the unsorted chunks.
MergeForward(a, p) ==
    LET next == NextChunk(a, p)
        both == Size(a, p) + Size(a, next)
    IN  IF next = a.top THEN [SetHead(Forget(a, next), p, both, TRUE) EXCEPT !.top = p]
        ELSE IF Inuse(a, next) THEN FreeUnsorted(SetPinuse(a, next, FALSE), p, Size(a, p))
        ELSE FreeUnsorted(Forget(Unlink(a, next), next), p, both)

\* A chunk is consolidated with its neighbours.
Merge(a, p) == MergeForward(MergeBackward(a, p), MergedFrom(a, p))

RECURSIVE MergeAll(_, _)
MergeAll(a, chunks) ==
    IF chunks = <<>> THEN a ELSE MergeAll(Merge(a, Head(chunks)), Tail(chunks))

\* malloc_consolidate
Consolidate(a) ==
    IF a.maxfast = 0 THEN InitState(a)
    ELSE MergeAll([a EXCEPT !.fast = [n \in DOMAIN a.fast |-> <<>>], !.fastchunks = FALSE],
                  FlattenSeq([k \in 1 .. NFASTBINS |-> a.fast[8 * (k + 1)]]))

ConsolidateIfAny(a) == IF a.maxfast = 0 \/ a.fastchunks THEN Consolidate(a) ELSE a

TopSize(a) == IF a.top = 0 THEN 0 ELSE Size(a, a.top)

\* Seeded fault: what is given back is not counted.
SysTrimUncounted(a, pad) ==
    LET extra == ((TopSize(a) - pad - MINSIZE + OSPage - 1) \div OSPage - 1) * OSPage
    IN  IF extra > 0 /\ a.brk = a.top + TopSize(a)
        THEN SetHead([a EXCEPT !.brk = @ - extra], a.top, TopSize(a) - extra, TRUE)
        ELSE a

\* sYSTRIm
SysTrim(a, pad) ==
    LET extra == ((TopSize(a) - pad - MINSIZE + OSPage - 1) \div OSPage - 1) * OSPage
    IN  IF extra > 0 /\ a.brk = a.top + TopSize(a)
        THEN SetHead([a EXCEPT !.brk = @ - extra, !.sbrked = @ - extra],
                     a.top, TopSize(a) - extra, TRUE)
        ELSE a

TrimIfLarge(a) == IF TopSize(a) >= a.trim THEN SysTrim(a, a.pad) ELSE a

\* What follows when p has been merged into a chunk: a large one is the occasion
\* to consolidate, and to give memory back.
AfterMerge(a, p) ==
    IF Size(a, p) < ConsolidateAt THEN a
    ELSE TrimIfLarge(IF a.fastchunks THEN Consolidate(a) ELSE a)

\* fREe, of a chunk in the heap.
FreeChunk(a, p) ==
    LET size == Size(a, p)
    IN  IF size <= a.maxfast
        THEN [a EXCEPT !.fastchunks = TRUE, !.fast = With(a.fast, size, <<p>> \o a.fast[size])]
        ELSE AfterMerge(Merge(a, p), MergedFrom(a, p))

\* fREe
Free(a, p) ==
    IF Mmapped(a, p)
    THEN [a EXCEPT !.mm = Dropped(a.mm, p), !.mmaps = @ - 1,
                   !.mmapped = @ - (a.mm[p].size + a.mm[p].prev)]
    ELSE FreeChunk(a, p)
-----------------------------------------------------------------------------
(* The system *)

Regions(a) == a.lent \cup {<<p - a.mm[p].prev, p + a.mm[p].size>> : p \in DOMAIN a.mm}

\* Where mmap finds room for so many bytes; 0 if it fails.
Mmap(a, size) ==
    LET at == {m \in {DlMapLow} \cup {r[2] : r \in Regions(a)} :
                  /\ m + size <= DlMapHigh
                  /\ \A r \in Regions(a) : m + size <= r[1] \/ r[2] <= m}
    IN  IF at = {} THEN 0 ELSE Least(at)

\* MORECORE(size) works.
Morecore(a, size) == a.brk + size <= DlBreakLimit

\* An allocation of nb bytes from top.
SplitTop(a, nb) ==
    LET p == a.top
    IN  <<[SetHead(SetHead(a, p, nb, TRUE), p + nb, Size(a, p) - nb, TRUE) EXCEPT !.top = p + nb], p>>

\* The old top gives its end to two fenceposts, and is freed if anything is left.
Fence(a, old, oldSize) ==
    LET size == ((oldSize - 3 * SIZE_SZ) \div 8) * 8
        fenced == SetHead(SetHead(SetHead(a, old, size, TRUE), old + size, SIZE_SZ, TRUE),
                          old + size + SIZE_SZ, SIZE_SZ, TRUE)
    IN  IF oldSize = 0 THEN a
        ELSE IF size >= MINSIZE THEN FreeChunk(fenced, old)
        ELSE fenced

\* A top of this size, at this address.
NewTop(a, at, size) ==
    Fence(SetHead([a EXCEPT !.top = at], at, size, TRUE), a.top, TopSize(a))

\* The memory that sbrk has returned becomes top, or part of it.
MoreTop(a, size) ==
    LET grown == [a EXCEPT !.brk = @ + size, !.sbrked = @ + size]
        aligned == RoundUp(a.brk, 8)
        end == grown.brk + (aligned - a.brk) + TopSize(a)
        correction == PageUp(end) - grown.brk
        more == IF Morecore(grown, correction) THEN correction ELSE 0
    IN  IF a.top # 0 /\ a.brk = a.top + TopSize(a)
        THEN SetHeadSize(grown, a.top, TopSize(a) + size)
        ELSE IF ~a.contiguous THEN NewTop(grown, a.brk, size)
        ELSE NewTop([grown EXCEPT !.brk = @ + more, !.sbrked = @ + more],
                    aligned, grown.brk + more - aligned)

\* MORECORE, or mmap if that fails.
GrowTop(a, nb) ==
    LET size == PageUp(nb + a.pad + MINSIZE - IF a.contiguous THEN TopSize(a) ELSE 0)
        backup == Larger(MmapAsMorecore,
                         IF a.contiguous THEN PageUp(size + TopSize(a)) ELSE size)
        lent == Mmap(a, backup)
    IN  IF Morecore(a, size) THEN MoreTop(a, size)
        ELSE IF lent = 0 THEN a
        ELSE NewTop([a EXCEPT !.contiguous = FALSE, !.sbrked = @ + backup,
                              !.lent = @ \cup {<<lent, lent + backup>>}],
                    lent, backup)

TakeFromTop(a, nb) == IF TopSize(a) >= nb + MINSIZE THEN SplitTop(a, nb) ELSE <<a, 0>>

\* sYSMALLOc
SysMalloc(a, nb) ==
    LET mapSize == PageUp(nb + SIZE_SZ + 7)
        map == Mmap(a, mapSize)
    IN  IF nb >= a.mmapAt /\ a.mmaps < a.mmapMax /\ map # 0
        THEN <<[a EXCEPT !.mm = With(a.mm, map, [size |-> mapSize, prev |-> 0]),
                         !.mmaps = @ + 1, !.mmapped = @ + mapSize], map>>
        ELSE TakeFromTop(GrowTop(a, nb), nb)
-----------------------------------------------------------------------------
(* malloc *)

\* A free chunk is split: the rest becomes the only unsorted chunk.
Split(a, p, nb) ==
    LET rest == Size(a, p) - nb
    IN  [SetFoot(SetHead(SetHead(a, p, nb, TRUE), p + nb, rest, TRUE), p + nb, rest)
            EXCEPT !.unsorted = <<p + nb>>]

\* Seeded fault: a chunk is used whole, however large.
UseWhole(a, p, nb) == SetPinuse(a, NextChunk(a, p), TRUE)

\* A free chunk that is large enough and on no list any more is used, whole if
\* what would be left is no chunk.
Use(a, p, nb) ==
    IF Size(a, p) - nb < MINSIZE THEN SetPinuse(a, NextChunk(a, p), TRUE) ELSE Split(a, p, nb)

\* The unsorted chunks, oldest first: an exact fit is used, and so is the last
\* remainder if it is the only chunk; the others go into their bins.
RECURSIVE Sort(_, _)
Sort(a, nb) ==
    IF a.unsorted = <<>> THEN <<a, 0>>
    ELSE LET victim == Last(a.unsorted)
             size == Size(a, victim)
             b == [a EXCEPT !.unsorted = Front(a.unsorted)]
         IN  IF /\ InSmallbinRange(nb) /\ Len(a.unsorted) = 1
                /\ victim = a.remainder /\ size > nb + MINSIZE
             THEN <<[Split(a, victim, nb) EXCEPT !.remainder = victim + nb], victim>>
             ELSE IF size = nb THEN <<SetPinuse(b, victim + size, TRUE), victim>>
             ELSE Sort(MarkAndInsert(b, victim), nb)

\* Seeded fault: the scan starts one bin too late.
LaterBinsMissed(a, nb) == {i \in a.binmap : i > BinIndex(nb) + 1}

\* The marked bins after nb's own bin.
LaterBins(a, nb) == {i \in a.binmap : i > BinIndex(nb)}

\* The sorted chunks: the smallest of nb's own bin that fits, if that is a large
\* bin; else the last of the first bin after it that has any; else top.
RECURSIVE Search(_, _), Retry(_, _)
SearchBins(a, nb) ==
    LET own == Bin(a, BinIndex(nb))
        fits == {k \in 1 .. Len(own) : Size(a, own[1]) >= nb /\ Size(a, own[k]) >= nb}
        best == own[CHOOSE k \in fits : \A j \in fits : j <= k]
        later == LaterBins(a, nb)
        filled == {i \in later : Bin(a, i) # <<>>}
        victim == Last(Bin(a, Least(filled)))
        c == UnmarkBins(a, {i \in later : \A j \in filled : i < j})
        used == Use(Unlink(c, victim), victim, nb)
    IN  IF ~InSmallbinRange(nb) /\ fits # {} THEN <<Use(Unlink(a, best), best, nb), best>>
        ELSE IF filled # {}
        THEN <<IF used.unsorted # <<>> /\ InSmallbinRange(nb)
               THEN [used EXCEPT !.remainder = used.unsorted[1]] ELSE used, victim>>
        ELSE IF TopSize(c) >= nb + MINSIZE THEN SplitTop(c, nb)
        ELSE Retry(c, nb)

\* With chunks on the fastbins it is worth a second search.
Retry(a, nb) == IF a.fastchunks THEN Search(Consolidate(a), nb) ELSE SysMalloc(a, nb)

Search(a, nb) ==
    LET sorted == Sort(a, nb)
    IN  IF sorted[2] # 0 THEN sorted ELSE SearchBins(sorted[1], nb)

\* mALLOc, of a chunk of nb bytes
MAlloc(a, nb) ==
    IF nb <= a.maxfast /\ a.fast[nb] # <<>>
    THEN <<[a EXCEPT !.fast = With(a.fast, nb, Tail(a.fast[nb]))], a.fast[nb][1]>>
    ELSE IF InSmallbinRange(nb) /\ Bin(a, nb \div 8) # <<>>
    THEN LET victim == Last(Bin(a, nb \div 8))
         IN  <<SetPinuse(Unlink(a, victim), victim + nb, TRUE), victim>>
    ELSE Search(IF a.maxfast = 0 \/ ~InSmallbinRange(nb) THEN ConsolidateIfAny(a) ELSE a, nb)
-----------------------------------------------------------------------------
(* realloc, memalign, independent_calloc and independent_comalloc *)

\* The end of a chunk in use is given back if it is large enough.
Shrink(a, p, size, nb) ==
    LET rest == p + nb
        b == SetHead(SetHeadSize(a, p, nb), rest, size - nb, TRUE)
    IN  IF size - nb < MINSIZE THEN SetPinuse(SetHeadSize(a, p, size), p + size, TRUE)
        ELSE FreeChunk(SetPinuse(b, p + size, TRUE), rest)

\* A chunk is copied to another one and freed; nothing is copied if the new chunk
\* follows it directly.
Moved(a, p, q, nb) ==
    IF q = 0 THEN <<a, 0>>
    ELSE IF ~Mmapped(a, p) /\ ~Mmapped(a, q) /\ q = NextChunk(a, p)
    THEN <<Shrink(Forget(a, q), p, Size(a, p) + Size(a, q), nb), p>>
    ELSE <<Free(a, p), q>>

MoveTo(p, nb, got) == Moved(got[1], p, got[2], nb)

\* mremap: where a region grows or shrinks to so many bytes; 0 if it fails.
Mremap(a, p, size) ==
    LET from == p - a.mm[p].prev
        others == Regions(a) \ {<<from, p + a.mm[p].size>>}
    IN  IF from + size <= DlMapHigh /\ \A r \in others : from + size <= r[1] \/ r[2] <= from
        THEN from ELSE Mmap(a, size)

ReallocMapped(a, p, nb) ==
    LET offset == a.mm[p].prev
        oldSize == a.mm[p].size
        newSize == PageUp(nb + offset + SIZE_SZ)
        q == Mremap(a, p, newSize) + offset
    IN  IF oldSize = newSize - offset THEN <<a, p>>
        ELSE IF q # offset
        THEN <<[a EXCEPT !.mm = With(Dropped(a.mm, p), q, [size |-> newSize - offset, prev |-> offset]),
                         !.mmapped = @ + newSize - oldSize], q>>
        ELSE IF oldSize >= nb + SIZE_SZ THEN <<a, p>>
        ELSE MoveTo(p, nb, MAlloc(a, nb))

ReallocChunk(a, p, nb) ==
    LET size == Size(a, p)
        next == p + size
        both == size + Size(a, next)
    IN  IF size >= nb THEN <<Shrink(a, p, size, nb), p>>
        ELSE IF next = a.top /\ both >= nb + MINSIZE
        THEN <<[SetHead(SetHeadSize(Forget(a, next), p, nb), p + nb, both - nb, TRUE)
                   EXCEPT !.top = p + nb], p>>
        ELSE IF next # a.top /\ ~Inuse(a, next) /\ both >= nb
        THEN <<Shrink(Forget(Unlink(a, next), next), p, both, nb), p>>
        ELSE MoveTo(p, nb, MAlloc(a, nb))

Realloc(a, p, nb) == IF Mmapped(a, p) THEN ReallocMapped(a, p, nb) ELSE ReallocChunk(a, p, nb)

\* A chunk starts too early and is longer than it has to be.
TrimBoth(a, p, start, nb) ==
    LET size == NextChunk(a, p) - start
        b == IF start = p THEN a
             ELSE FreeChunk(SetHeadSize(SetHead(a, start, size, TRUE), p, start - p), p)
    IN  IF size > nb + MINSIZE
        THEN FreeChunk(SetHeadSize(SetHead(b, start + nb, size - nb, TRUE), start, nb), start + nb)
        ELSE b

\* mEMALIGn; an alignment that is no power of two is rounded up to one.
PowerOfTwo(wanted) == Least({2 ^ k : k \in {i \in 3 .. 20 : 2 ^ i >= wanted}})

\* The place of this alignment in a chunk that was made long enough.
AlignIn(b, p, alignment, nb) ==
    LET first == RoundUp(p + 8, alignment) - 8
        start == IF first # p /\ first - p < MINSIZE THEN first + alignment ELSE first
    IN  IF p = 0 THEN <<b, 0>>
        ELSE IF Mmapped(b, p)
        THEN <<[b EXCEPT !.mm = With(Dropped(b.mm, p), start,
                                     [size |-> b.mm[p].size - (start - p),
                                      prev |-> b.mm[p].prev + (start - p)])], start>>
        ELSE <<TrimBoth(b, p, start, nb), start>>

AlignGot(got, alignment, nb) == AlignIn(got[1], got[2], alignment, nb)

Memalign(a, wanted, bytes) ==
    LET alignment == Larger(PowerOfTwo(wanted), MINSIZE)
        nb == Request2Size(bytes)
    IN  IF wanted <= 8 THEN MAlloc(a, nb)
        ELSE AlignGot(MAlloc(a, Request2Size(nb + alignment + MINSIZE)), alignment, nb)

\* cALLOc and rEALLOc: how many words of a chunk with so many, an odd number, are
\* cleared or copied.
WordsUnrolled(words) ==
    IF words > 9 THEN words ELSE 3 + 2 * Cardinality({n \in {4, 6, 8} : words > n})

\* iALLOc: a chunk is cut into parts of these chunk sizes, the last of which
\* absorbs what is left over. The pointers to them are returned.
Offsets(sizes) ==
    LET offset[k \in 1 .. Len(sizes) + 1] ==
            IF k = 1 THEN 0 ELSE offset[k - 1] + sizes[k - 1]
    IN  offset

Cut(a, p, sizes, offset) ==
    LET n == Len(sizes)
        Part(k) == [pinuse |-> TRUE, prev |-> IF k = 1 THEN a.ch[p].prev ELSE 0,
                    size |-> IF k = n THEN NextChunk(a, p) - (p + offset[n]) ELSE sizes[k]]
        at == {p + offset[k] : k \in 1 .. n}
    IN  IF p = 0 THEN <<a, <<>>>>
        ELSE <<[a EXCEPT !.ch = [q \in at \cup DOMAIN a.ch |->
                                    IF q \in at THEN Part(CHOOSE k \in 1 .. n : q = p + offset[k])
                                    ELSE a.ch[q]]],
               [k \in 1 .. n |-> p + offset[k]]>>

CutGot(got, mmapMax, sizes, offset) == Cut([got[1] EXCEPT !.mmapMax = mmapMax], got[2], sizes, offset)

IallocIn(a, sizes, offset) ==
    CutGot(MAlloc([a EXCEPT !.mmapMax = 0], Request2Size(offset[Len(sizes) + 1] - 7)),
           a.mmapMax, sizes, offset)

Ialloc(a, sizes) == IallocIn(ConsolidateIfAny(a), sizes, Offsets(sizes))
-----------------------------------------------------------------------------
(* What the program does *)

DlInit ==
    /\ av = [ch |-> <<>>, mm |-> <<>>, fast |-> [n \in {8 * k : k \in 2 .. NFASTBINS + 1} |-> <<>>],
             unsorted |-> <<>>, bins |-> <<>>, binmap |-> {}, top |-> 0, remainder |-> 0,
             maxfast |-> 0, fastchunks |-> TRUE, contiguous |-> TRUE,
             trim |-> 0, pad |-> 0, mmapAt |-> 0, mmapMax |-> 0,
             mmaps |-> 0, mmapped |-> 0, sbrked |-> 0, brk |-> DlBase, lent |-> {}]
    /\ dlLive = {}
    /\ dlTwice = FALSE
    /\ dlSteps = 0

Object(p, bytes, alignment) ==
    IF p = 0 THEN {} ELSE {[p |-> p, bytes |-> bytes, alignment |-> alignment]}

\* An operation leaves this state, returns new objects, and frees old ones.
Step(a, new, freed) ==
    /\ dlSteps < DlMaxSteps
    /\ dlSteps' = dlSteps + 1
    /\ av' = a
    /\ dlLive' = (dlLive \ freed) \cup new
    /\ dlTwice' = (dlTwice \/ \E o \in dlLive \ freed, n \in new : o.p = n.p)

Allocates(result, bytes, alignment) ==
    /\ Cardinality(dlLive) < DlMaxLive
    /\ Step(result[1], Object(result[2], bytes, alignment), {})

DlMalloc(bytes) == Allocates(MAlloc(av, Request2Size(bytes)), bytes, 8)
DlFree(o) == Step(Free(av, o.p), {}, {o})

Replaces(result, o, bytes) ==
    Step(result[1], Object(result[2], bytes, 8), IF result[2] = 0 THEN {} ELSE {o})

DlRealloc(o, bytes) == Replaces(Realloc(av, o.p, Request2Size(bytes)), o, bytes)

DlMemalign(alignment, bytes) ==
    Allocates(Memalign(av, alignment, bytes), bytes, PowerOfTwo(alignment))

DlValloc(bytes) == Allocates(Memalign(ConsolidateIfAny(av), OSPage, bytes), bytes, OSPage)

DlPvalloc(bytes) ==
    Allocates(Memalign(ConsolidateIfAny(av), OSPage, PageUp(bytes)), PageUp(bytes), OSPage)

\* iALLOc of elements of these sizes; unless the caller has provided an array for
\* the pointers, it is allocated with the elements.
AllocatesAll(result, asked) ==
    /\ Cardinality(dlLive) + Len(asked) <= DlMaxLive
    /\ Step(result[1], UNION {Object(result[2][k], asked[k], 8) : k \in DOMAIN result[2]}, {})

DlIndependent(requests, provided) ==
    LET asked == IF provided THEN requests ELSE Append(requests, 4 * Len(requests))
    IN  AllocatesAll(Ialloc(av, [k \in DOMAIN asked |-> Request2Size(asked[k])]), asked)

DlIcalloc(n, size, provided) == DlIndependent([k \in 1 .. n |-> size], provided)
DlIcomalloc(sizes, provided) == DlIndependent(sizes, provided)

\* mTRIm
DlTrim(pad) == Step(SysTrim(Consolidate(av), pad), {}, {})

\* mALLOPt (what it says of a value out of range is left out).
DlMallopt(param, value) ==
    LET a == Consolidate(av)
    IN  Step(CASE param = "M_MXFAST" ->
                      SetMaxFast(a, value)
               [] param = "M_TRIM_THRESHOLD" -> [a EXCEPT !.trim = value]
               [] param = "M_TOP_PAD" -> [a EXCEPT !.pad = value]
               [] param = "M_MMAP_THRESHOLD" -> [a EXCEPT !.mmapAt = value]
               [] param = "M_MMAP_MAX" -> [a EXCEPT !.mmapMax = value], {}, {})

\* Other code of the program calls sbrk.
DlForeignSbrk(n) == Morecore(av, n) /\ Step([av EXCEPT !.brk = @ + n], {}, {})

DlNext ==
    \/ \E bytes \in DlRequests :
          \/ DlMalloc(bytes) \/ DlValloc(bytes) \/ DlPvalloc(bytes)
          \/ \E o \in dlLive : DlRealloc(o, bytes)
          \/ \E alignment \in DlAlignments : DlMemalign(alignment, bytes)
    \/ \E provided \in BOOLEAN :
          \E sizes \in DlGroups : DlIcomalloc(sizes, provided) \/ DlIcalloc(2, Head(sizes), provided)
    \/ \E o \in dlLive : DlFree(o)
    \/ \E option \in DlOptions : DlMallopt(option[1], option[2])
    \/ DlTrim(0)
    \/ \E n \in DlForeign : DlForeignSbrk(n)

DlSpec == DlInit /\ [][DlNext]_dlVars
-----------------------------------------------------------------------------
(* The checks of the debugging build *)

\* A chunk lies below top, which is never too small and never follows a free chunk;
\* a mapped region is made of pages and lies elsewhere. (That p is not below
\* min_address is left out: sbrked_mem does not count what other code got.)
CheckChunk(a, p) ==
    LET max == a.top + TopSize(a)
    IN  IF Mmapped(a, p)
        THEN /\ a.contiguous /\ a.top # 0 => p < max - a.sbrked \/ p > max
             /\ (a.mm[p].prev + a.mm[p].size) % OSPage = 0
             /\ (p + 8) % 8 = 0
        ELSE IF p = a.top THEN Size(a, p) >= MINSIZE /\ a.ch[p].pinuse
        ELSE a.contiguous => NextChunk(a, p) <= a.top

\* A free chunk is aligned, its size is noted behind it, and no free chunk borders it.
CheckFreeChunk(a, p) ==
    LET next == NextChunk(a, p)
    IN  /\ CheckChunk(a, p)
        /\ ~Inuse(a, p)
        /\ IF Size(a, p) < MINSIZE THEN Size(a, p) = SIZE_SZ
           ELSE /\ Size(a, p) % 8 = 0 /\ (p + 8) % 8 = 0
                /\ a.ch[next].prev = Size(a, p)
                /\ a.ch[p].pinuse
                /\ next = a.top \/ Inuse(a, next)

\* A chunk in use, and the free ones next to it.
CheckInuseChunk(a, p) ==
    LET next == NextChunk(a, p)
        prev == p - a.ch[p].prev
    IN  /\ CheckChunk(a, p)
        /\ Mmapped(a, p) \/
              /\ Inuse(a, p)
              /\ ~a.ch[p].pinuse => NextChunk(a, prev) = p /\ CheckFreeChunk(a, prev)
              /\ IF next = a.top THEN a.ch[next].pinuse /\ Size(a, next) >= MINSIZE
                 ELSE Inuse(a, next) \/ CheckFreeChunk(a, next)

\* A chunk that was on a fastbin is given out for nb bytes.
CheckRemallocedChunk(a, p, nb) ==
    /\ CheckInuseChunk(a, p)
    /\ Size(a, p) % 8 = 0 /\ Size(a, p) >= MINSIZE
    /\ (p + 8) % 8 = 0
    /\ 0 <= Size(a, p) - nb /\ Size(a, p) - nb < MINSIZE

\* Any other chunk that is given out is taken from the low end of free memory.
CheckMallocedChunk(a, p, nb) == CheckRemallocedChunk(a, p, nb) /\ a.ch[p].pinuse

InHeap(a) == {p \in DOMAIN a.ch : p # a.top /\ Size(a, p) > SIZE_SZ}
FreeChunks(a) == {p \in InHeap(a) : ~Inuse(a, p)}

\* The fastbins hold chunks in use of their size, up to max_fast.
CheckFastbins(a) ==
    /\ a.maxfast <= Request2Size(80)
    /\ Fast(a) # {} => a.fastchunks
    /\ \A n \in DOMAIN a.fast :
          /\ FastbinIndex(n) > FastbinIndex(a.maxfast) => a.fast[n] = <<>>
          /\ \A p \in Range(a.fast[n]) : CheckInuseChunk(a, p) /\ Size(a, p) = n

\* The other bins hold free chunks, in a marked bin of their size, which is in order.
CheckBins(a) ==
    /\ \A p \in Range(a.unsorted) : CheckFreeChunk(a, p)
    /\ \A i \in DOMAIN a.bins :
          LET list == a.bins[i]
          IN  /\ i \notin a.binmap => list = <<>>
              /\ \A k \in 1 .. Len(list) :
                    /\ CheckFreeChunk(a, list[k])
                    /\ BinIndex(Size(a, list[k])) = i
                    /\ k > 1 => Size(a, list[k - 1]) >= Size(a, list[k])

\* do_check_malloc_state; every chunk in use is checked here, there those that
\* follow a free one. (That n_mmaps <= n_mmaps_max is left out: mallopt lowers the
\* limit while there are mapped chunks.)
CheckMallocState(a) ==
    a.top # 0 =>
        /\ CheckFastbins(a)
        /\ CheckBins(a)
        /\ \A p \in InHeap(a) \ FreeChunks(a) : Size(a, p) >= MINSIZE => CheckInuseChunk(a, p)
        /\ CheckChunk(a, a.top)
-----------------------------------------------------------------------------
\* What dlmalloc asserts of all its chunks and bins in a debugging build
\* (check_malloc_state) holds between any two operations: no free chunks border,
\* and every one is in its place in the right bin, whatever has been split, merged,
\* fenced, trimmed, aligned and cut before.  The chunks lie one after the other:
\* each ends where another one begins, except top and the second fencepost, and
\* none begins inside another one; the free ones are those on the lists, each on one.
MallocStateChecks ==
    /\ CheckMallocState(av)
    /\ \A p \in DOMAIN av.ch :
          /\ p = av.top \/ Size(av, p) = SIZE_SZ \/ NextChunk(av, p) \in DOMAIN av.ch
          /\ ~\E q \in DOMAIN av.ch : p < q /\ q < NextChunk(av, p)
    /\ Range(av.unsorted) \cup Binned(av) = FreeChunks(av)
    /\ Range(av.unsorted) \cap Binned(av) = {}

\* Whether this allocation takes a chunk from a fastbin.
FromFastbin(a, nb) == nb <= a.maxfast /\ a.fast[nb] # <<>>

\* What dlmalloc asserts of each chunk as it gives it out holds for every operation:
\* malloc never wastes the room of a chunk, and takes the low end of what it splits.
\* Of such a chunk calloc clears all the words.
MallocedChunkChecks ==
    [][/\ \A o \in dlLive' \ dlLive :
             IF Mmapped(av', o.p) THEN CheckChunk(av', o.p) ELSE CheckInuseChunk(av', o.p)
       /\ \A bytes \in DlRequests, o \in dlLive' \ dlLive :
             DlMalloc(bytes) /\ ~Mmapped(av', o.p)
               => LET nb == Request2Size(bytes)
                      words == (Size(av', o.p) - SIZE_SZ) \div SIZE_SZ
                  IN  /\ IF FromFastbin(av, nb) THEN CheckRemallocedChunk(av', o.p, nb)
                         ELSE CheckMallocedChunk(av', o.p, nb)
                      /\ words >= 3 /\ WordsUnrolled(words) = words]_dlVars

Sizes(a, S) == MapThenSumSet(LAMBDA p : Size(a, p), S)

Span(a, p) == IF Mmapped(a, p) THEN a.mm[p].size - 2 * SIZE_SZ ELSE Size(a, p) - SIZE_SZ

\* An object the program holds is where it was asked to be and as large, is not
\* on a fastbin, and is not given out again; the mapped ones do not overlap.  And
\* nothing leaks: a chunk in use is held by the program or on a fastbin, unless it
\* is a part of a fence.
ObjectsIntact ==
    /\ ~dlTwice
    /\ \A o \in dlLive :
          /\ Span(av, o.p) >= o.bytes
          /\ (o.p + 8) % o.alignment = 0
          /\ o.p \notin Fast(av)
    /\ \A r, s \in Regions(av) : r # s => r[2] <= s[1] \/ s[2] <= r[1]
    /\ {p \in InHeap(av) \ FreeChunks(av) : Size(av, p) >= MINSIZE} \ Fast(av)
           = {o.p : o \in dlLive} \ DOMAIN av.mm
    /\ DOMAIN av.mm \subseteq {o.p : o \in dlLive}
    /\ Fast(av) # {} => av.fastchunks

\* mallinfo: uordblks, what is in use of the memory from sbrk.
Uordblks(a) ==
    a.sbrked - (TopSize(a) + Sizes(a, Fast(a)) + Sizes(a, Range(a.unsorted) \cup Binned(a)))

\* What mallinfo says is in use are the chunks of the program, and the fences;
\* every byte got from the system and given back to it has been counted. (Of
\* mapped memory too much is counted: ReallocMapped adds the offset of an aligned
\* object, which was counted before.)
AccountsAddUp ==
    /\ av.top # 0 =>
           Uordblks(av) = Sizes(av, InHeap(av) \ (FreeChunks(av) \cup Fast(av)))
                             + 8 * Cardinality({p \in DOMAIN av.ch : Size(av, p) = SIZE_SZ})
    /\ av.mmaps = Cardinality(DOMAIN av.mm)
    /\ av.mmapped >= MapThenSumSet(LAMBDA p : av.mm[p].size + av.mm[p].prev, DOMAIN av.mm)

\* malloc asks the system for memory only if no free chunk is large enough, not even
\* when those of the fastbins have been consolidated.
AsksSystemLast ==
    [][\A bytes \in DlRequests :
          DlMalloc(bytes) /\ av'.sbrked + av'.mmapped > av.sbrked + av.mmapped
             => LET a == ConsolidateIfAny(av)
                    nb == Request2Size(bytes)
                IN  TopSize(a) < nb + MINSIZE /\ \A p \in FreeChunks(a) : Size(a, p) < nb]_dlVars
=============================================================================
