------------------------------ MODULE LeaHeap ------------------------------
(***************************************************************************)
(* LeaHeap of Heap Layers: SelectMmapHeap over Threshold over the small    *)
(* heap (StrictSegHeap, no coalescing) over the big heap (CoalesceHeap     *)
(* over SegHeap) over CoalesceableHeap, with sizes in bytes.               *)
(* (NullHeap is taken to pass getSize on, as its use here demands.)        *)
(*                                                                         *)
(* An object is named by the address of its 8-byte header.  The state of   *)
(* the layers is one record, every layer's operation a function on it:     *)
(*   hd        the headers: address -> size, prevSize, prevFree; the last  *)
(*             one is behind the last object                               *)
(*   big       the bins of SegHeap, doubly-linked lists; the first is _head*)
(*   binmap    the bins of SegHeap that may hold something                 *)
(*   small     the bins of StrictSegHeap: object size -> list              *)
(*   held      memoryHeld of StrictSegHeap                                 *)
(*   inUse, maxInUse   Threshold's                                         *)
(*   crashed   a null pointer has been followed                            *)
(***************************************************************************)
EXTENDS Integers, SequencesExt

CONSTANTS
    LhSizes,        \* the sizes that are asked for
    LhEnd,          \* bound: the memory of the Sbrk heap, in bytes
    LhSlack,        \* what Threshold lets be held beside half of the maximum
    LhMmapAbove,    \* ThresholdBytes of SelectMmapHeap
    LhMaxMapped,    \* bound: the mapped objects at a time
    LhMaxSteps,     \* bound: the operations of a behaviour
    LhBefore        \* the word in front of the heap may be (a size)

LhLargest == 2147483647         \* BIG_OBJECT less one; what is larger belongs to no bin

ASSUME LhAssumption == /\ \A n \in LhSizes : n \in Nat \ {0} /\ n % 8 = 0
                       /\ LhEnd \in 0 .. LhLargest /\ LhSlack \in Nat /\ LhMmapAbove \in 0 .. LhLargest
                       /\ LhMaxMapped \in Nat /\ LhMaxSteps \in Nat /\ LhBefore \subseteq Nat /\ LhBefore # {}

VARIABLES
    lea,            \* the record
    lhFirst,        \* the word in front of the heap
    lhLive,         \* history: the objects the program holds: header -> request
    lhMapped,       \* how many mapped objects the program holds
    lhSteps

lhVars == <<lea, lhFirst, lhLive, lhMapped, lhSteps>>

LhHeader == 8           \* sizeof(Header)
SmallMax == 64          \* the largest size class of the small heap
-----------------------------------------------------------------------------
(* Size classes *)

Twos == <<1, 2, 4, 8, 16, 32, 64, 128, 256, 512, 1024, 2048, 4096, 8192>>

Log2(n) == CHOOSE c \in 0 .. 12 : Twos[c + 1] <= n /\ n < Twos[c + 2]

\* DLBigHeapNS::getSizeClass
BigClass(sz) ==
    LET n == sz - 1
    IN  IF n <= 513                 THEN n \div 8
        ELSE IF n \div 64 <= 32     THEN 56 + n \div 64
        ELSE IF n \div 512 <= 20    THEN 91 + n \div 512
        ELSE IF n \div 4096 <= 10   THEN 104 + n \div 4096
        ELSE IF n \div 32768 <= 4   THEN 113 + n \div 32768
        ELSE IF n \div 262144 <= 2  THEN 118 + n \div 262144
        ELSE 120 + Log2(n \div 524288)

\* DLBigHeapNS::bins, by the runs of equal distances in that table.
BigClassSize(i) ==
    IF i < 64       THEN (i + 1) * 8
    ELSE IF i < 89  THEN (i - 55) * 64
    ELSE IF i < 106 THEN (i - 84) * 512
    ELSE IF i < 114 THEN (IF i = 106 THEN 12288 ELSE (i - 103) * 4096)
    ELSE IF i < 118 THEN (IF i = 114 THEN 65536 ELSE (i - 112) * 32768)
    ELSE 262144 * Twos[i - 117]

\* SegHeap::free: the last class, from the size's own down, that is no larger.
BigBin(size) == Max({i \in 0 .. BigClass(size) : BigClassSize(i) <= size})

\* DLSmallHeapNS: the size of the class of sz.
SmallClassSize(sz) == ((sz - 1) \div 8 + 1) * 8
-----------------------------------------------------------------------------
(* Headers (RequireCoalesceable) *)

LhNext(a, h) == h + LhHeader + a.hd[h].size
LhPrev(a, h) == h - LhHeader - a.hd[h].prevSize
IsFree(a, h) == a.hd[LhNext(a, h)].prevFree
IsPrevFree(a, h) == a.hd[h].prevFree

Marked(a, h, free) == [a EXCEPT !.hd[LhNext(a, h)].prevFree = free]

LhPut(f, h, v) == [g \in DOMAIN f \cup {h} |-> IF g = h THEN v ELSE f[g]]
LhDrop(f, h) == [g \in DOMAIN f \ {h} |-> f[g]]

\* An object gets a size, which the header behind it records too.
Resized(a, h, size) ==
    [a EXCEPT !.hd = LhPut(LhPut(a.hd, h, [a.hd[h] EXCEPT !.size = size]), h + LhHeader + size,
                           [a.hd[h + LhHeader + size] EXCEPT !.prevSize = size])]
-----------------------------------------------------------------------------
(* SegHeap over doubly-linked lists *)

BigList(a, i) == IF i \in DOMAIN a.big THEN a.big[i] ELSE <<>>
BigBinned(a) == UNION {ToSet(a.big[i]) : i \in DOMAIN a.big}
InBin(a, h) == CHOOSE i \in DOMAIN a.big : h \in ToSet(a.big[i])

\* SegHeap::free
SegInsert(a, h) ==
    LET i == BigBin(a.hd[h].size)
    IN  [a EXCEPT !.big = LhPut(@, i, <<h>> \o BigList(a, i)), !.binmap = @ \cup {i}]

\* remove is inherited from a list of its own, which is empty: the node is
\* unlinked through its neighbours, and the head of a bin has none in front.
Removed(a, h) ==
    IF Head(a.big[InBin(a, h)]) = h THEN [a EXCEPT !.crashed = TRUE]
    ELSE [a EXCEPT !.big[InBin(a, h)] = RemoveAt(@, CHOOSE k \in 1 .. Len(@) : @[k] = h)]

\* SegHeap::malloc looks at the marked bins from the size's class on; those it
\* finds empty lose their mark.
FullBins(a, sz) == {i \in a.binmap : i >= BigClass(sz) /\ BigList(a, i) # <<>>}
Unmarked(a, sz) ==
    {i \in a.binmap : /\ i >= BigClass(sz) /\ BigList(a, i) = <<>>
                      /\ \A j \in FullBins(a, sz) : i < j}
-----------------------------------------------------------------------------
(* CoalesceableHeap *)

Brk(a) == Max(DOMAIN a.hd)
CanExtend(a, sz) == Brk(a) + LhHeader + sz <= LhEnd

\* The header that was behind the last object becomes the new object's: its size
\* is set, and another one is put behind it.
Extended(a, sz) ==
    LET h == Brk(a)
    IN  [a EXCEPT !.hd = LhPut(LhPut(a.hd, h, [a.hd[h] EXCEPT !.size = sz]), h + LhHeader + sz,
                               [size |-> 0, prevSize |-> sz, prevFree |-> FALSE])]
-----------------------------------------------------------------------------
(* CoalesceHeap *)

\* Seeded fault: the piece that is split off is not marked as free.
LeaSplitUnmarked(a, h, sz) ==
    LET rest == a.hd[h].size - sz - LhHeader
        piece == h + LhHeader + sz
        made == [a EXCEPT !.hd = LhPut(@, piece, [size |-> 0, prevSize |-> 0, prevFree |-> FALSE])]
    IN  IF rest < 8 THEN a
        ELSE SegInsert(Resized(Resized(made, h, sz), piece, rest), piece)

\* split: what is left of the object, if a header and 8 bytes fit, is an object
\* of its own, and free.
LeaSplit(a, h, sz) ==
    LET rest == a.hd[h].size - sz - LhHeader
        piece == h + LhHeader + sz
        made == [a EXCEPT !.hd = LhPut(@, piece, [size |-> 0, prevSize |-> 0, prevFree |-> FALSE])]
    IN  IF rest < 8 THEN a
        ELSE SegInsert(Marked(Resized(Resized(made, h, sz), piece, rest), piece, TRUE), piece)

\* malloc: the object and the record, or 0 if there is no memory.
BigMalloc(a, sz) ==
    LET seen == [a EXCEPT !.binmap = @ \ Unmarked(a, sz)]
        i == Min(FullBins(a, sz))
        h == Head(a.big[i])
        taken == [seen EXCEPT !.big[i] = Tail(@)]
    IN  IF FullBins(a, sz) # {}   THEN [obj |-> h, to |-> LeaSplit(Marked(taken, h, FALSE), h, sz)]
        ELSE IF CanExtend(a, sz)  THEN [obj |-> Brk(a), to |-> Marked(Extended(seen, sz), Brk(a), FALSE)]
        ELSE [obj |-> -1, to |-> seen]

\* coalesce: the first of two objects takes the second in.
LhMerged(a, first, second) ==
    LET size == second - first + a.hd[second].size
    IN  Resized([a EXCEPT !.hd = LhDrop(@, second)], first, size)

\* The first object is not merged, nor marked, if its header's neighbour disagrees.
Disagrees(h) == h = 0 /\ lhFirst # 0

BigFree(a, h) ==
    LET prev == LhPrev(a, h)
        removed == IF IsPrevFree(a, h) THEN Removed(a, prev) ELSE a
        merged == IF IsPrevFree(a, h) THEN LhMerged(removed, prev, h) ELSE a
        this == IF IsPrevFree(a, h) THEN prev ELSE h
        next == LhNext(a, h)
        clear == IF IsFree(a, next) THEN Removed(merged, next) ELSE merged
        whole == IF IsFree(a, next) THEN LhMerged(clear, this, next) ELSE merged
    IN  IF a.crashed                            THEN a
        ELSE IF Disagrees(h)                    THEN SegInsert(a, h)
        ELSE IF removed.crashed                 THEN removed
        ELSE IF next # Brk(a) /\ clear.crashed  THEN clear
        ELSE IF next = Brk(a)                   THEN SegInsert(Marked(merged, this, TRUE), this)
        ELSE SegInsert(Marked(whole, this, TRUE), this)
-----------------------------------------------------------------------------
(* The small heap, Threshold and SelectMmapHeap *)

SmallList(a, n) == IF n \in DOMAIN a.small THEN a.small[n] ELSE <<>>

SmallMalloc(a, sz) ==
    LET n == SmallClassSize(sz)
    IN  IF sz > SmallMax                THEN BigMalloc(a, sz)
        ELSE IF SmallList(a, n) # <<>>  THEN [obj |-> Head(a.small[n]), to |-> [a EXCEPT !.small[n] = Tail(@)]]
        ELSE BigMalloc(a, n)

SmallFree(a, h) ==
    LET n == a.hd[h].size
    IN  IF n > SmallMax THEN BigFree(a, h)
        ELSE [a EXCEPT !.small = LhPut(@, n, <<h>> \o SmallList(a, n)), !.held = @ + n]

\* StrictSegHeap::freeAll: bin by bin, all goes to the big heap.
FreeAll(a) ==
    LET order == SmallList(a, 8) \o SmallList(a, 16) \o SmallList(a, 24) \o SmallList(a, 32)
                 \o SmallList(a, 40) \o SmallList(a, 48) \o SmallList(a, 56) \o SmallList(a, SmallMax)
        after[k \in 0 .. Len(order)] ==    \* when k of them have been freed
            IF k = 0 THEN [a EXCEPT !.small = <<>>, !.held = 0] ELSE BigFree(after[k - 1], order[k])
    IN  after[Len(order)]

LhThreshold(a) == IF a.maxInUse = 0 THEN 0 ELSE LhSlack + a.maxInUse \div 2

Counted(a, h) ==
    LET use == a.inUse + a.hd[h].size
    IN  [a EXCEPT !.inUse = use, !.maxInUse = Max({use, @})]

ThresholdFree(a, h) ==
    LET freed == SmallFree([a EXCEPT !.inUse = @ - a.hd[h].size], h)
    IN  IF ~freed.crashed /\ freed.held > LhThreshold(freed) THEN FreeAll(freed) ELSE freed

LhInit ==
    /\ lea = [hd |-> [h \in {0} |-> [size |-> 0, prevSize |-> 0, prevFree |-> FALSE]], big |-> <<>>,
              binmap |-> {}, small |-> <<>>, held |-> 0, inUse |-> 0, maxInUse |-> 0,
              crashed |-> FALSE]
    /\ lhFirst \in LhBefore
    /\ lhLive = <<>>
    /\ lhMapped = 0
    /\ lhSteps = 0

\* malloc of what the small heap has memory for ...
LhMalloc(sz) ==
    LET got == SmallMalloc(lea, sz)
    IN  /\ ~lea.crashed /\ sz <= LhMmapAbove /\ got.obj # -1
        /\ lea' = Counted(got.to, got.obj)
        /\ lhLive' = LhPut(lhLive, got.obj, sz)
        /\ UNCHANGED <<lhFirst, lhMapped>>

\* ... and of all else.  The header behind a mapped object is written although it
\* may lie on a page that is not there.
LhMallocMapped(sz) ==
    /\ ~lea.crashed
    /\ sz <= LhMmapAbove => SmallMalloc(lea, sz).obj = -1
    /\ lhMapped < LhMaxMapped
    /\ lhMapped' = lhMapped + 1
    /\ \E c \in BOOLEAN :
        /\ c => (sz + LhHeader) % 4096 = 0
        /\ lea' = [IF sz <= LhMmapAbove THEN SmallMalloc(lea, sz).to ELSE lea EXCEPT !.crashed = c]
    /\ UNCHANGED <<lhFirst, lhLive>>

LhFree(h) ==
    /\ ~lea.crashed /\ h \in DOMAIN lhLive
    /\ lea' = ThresholdFree(lea, h)
    /\ lhLive' = LhDrop(lhLive, h)
    /\ UNCHANGED <<lhFirst, lhMapped>>

LhFreeMapped ==
    /\ ~lea.crashed /\ lhMapped > 0
    /\ lhMapped' = lhMapped - 1
    /\ UNCHANGED <<lea, lhFirst, lhLive>>

LhStep ==
    /\ lhSteps < LhMaxSteps
    /\ lhSteps' = lhSteps + 1
    /\ \/ \E n \in LhSizes : LhMalloc(n) \/ LhMallocMapped(n)
       \/ \E h \in DOMAIN lhLive : LhFree(h)
       \/ LhFreeMapped

LhSpec == LhInit /\ [][LhStep]_lhVars
-----------------------------------------------------------------------------
\* The objects, one behind the other.
LhObjects(a) == DOMAIN a.hd \ {Brk(a)}

\* Up to a crash, the headers lead from one object to the next and back; every
\* object is held by the program, in a small bin or in the big bin of its size
\* that is marked, and only what is in a big bin is marked as free; of two
\* neighbours one is in use (if the first object is merged at all); and a held object is as large as was asked for.
BoundaryTagsAgree ==
    ~lea.crashed =>
        LET small == UNION {ToSet(lea.small[n]) : n \in DOMAIN lea.small}
        IN  /\ \A h \in LhObjects(lea) :
                    /\ LhNext(lea, h) \in DOMAIN lea.hd
                    /\ lea.hd[LhNext(lea, h)].prevSize = lea.hd[h].size
                    /\ h # 0 => (IsFree(lea, h) <=> h \in BigBinned(lea))
                    /\ lhFirst = 0 /\ LhNext(lea, h) # Brk(lea) => ~(IsFree(lea, h) /\ IsFree(lea, LhNext(lea, h)))
            /\ DOMAIN lhLive \cap small = {} /\ BigBinned(lea) \cap (small \cup DOMAIN lhLive) = {}
            /\ DOMAIN lhLive \cup small \cup BigBinned(lea) = LhObjects(lea)
            /\ \A h \in BigBinned(lea) : InBin(lea, h) = BigBin(lea.hd[h].size) /\ InBin(lea, h) \in lea.binmap
            /\ \A h \in DOMAIN lhLive : lea.hd[h].size >= lhLive[h]
=============================================================================
