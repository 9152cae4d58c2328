----------------------------- MODULE GraceHeap -----------------------------
(***************************************************************************)
(* The heap of one process, layer by layer: malloc, free and realloc of    *)
(* libgrace over ANSIWrapper, StrictSegHeap with Kingsley's size classes   *)
(* and DLList free lists, NewSourceHeap's object headers, ZoneHeap and     *)
(* bumpheap.  Addresses are numbers.                                       *)
(*                                                                         *)
(* The state of the layers is one record, and every layer a function from  *)
(* it: a result is [heap, ptr].                                            *)
(***************************************************************************)
EXTENDS Naturals, Sequences, FiniteSets

CONSTANTS
    HpPage,         \* the size of a page
    HpChunk,        \* CHUNKY, the size of an arena
    HpBase,         \* where the bump pointer starts, and
    HpEnd,          \* the end of the heap
    HpSizes,        \* the sizes the program asks for
    HpMaxLive       \* bound: the objects it has at a time

ASSUME HpAssumption ==
    /\ HpPage \in Nat \ {0} /\ HpChunk \in Nat /\ HpBase \in Nat \ {0} /\ HpEnd \in Nat
    /\ HpSizes \subseteq Nat /\ HpMaxLive \in Nat

VARIABLES
    heap,           \* the state of the layers
    live,           \* the objects the program has: where, and how much was asked
    reusable,       \* history: an object that was moved to a page boundary has
                    \* been freed into a class above its own
    misplaced       \* history: a header was written before the block it is for

hpVars == <<heap, live, reusable, misplaced>>

NULL == 0
HeaderSize == 8         \* sizeof(objectHeader)
ArenaSize == 16         \* sizeof(Arena)

Roundup(n, k) == ((n + k - 1) \div k) * k
-----------------------------------------------------------------------------
(* bumpheap *)

BumpMalloc(h, n) ==
    LET sz == Roundup(IF n < 8 THEN 8 ELSE n, 8)
    IN  IF h.position + sz > HpEnd THEN [heap |-> h, ptr |-> NULL]
        ELSE [heap |-> [h EXCEPT !.position = @ + sz], ptr |-> h.position]

(* ZoneHeap *)

\* Seeded fault: the header of an arena is not asked for.
SlowMallocNoHeader(h, sz) ==
    LET size == IF HpChunk < sz THEN sz ELSE HpChunk
        b    == BumpMalloc(h, size)
    IN  IF b.ptr = NULL THEN [heap |-> [b.heap EXCEPT !.left = 0], ptr |-> NULL]
        ELSE [heap |-> [b.heap EXCEPT !.space = b.ptr + ArenaSize + sz, !.left = size - sz,
                                      !.arenas = @ \cup {b.ptr}],
              ptr  |-> b.ptr + ArenaSize]

\* The current arena is given up, whether or not there is a new one.
SlowMalloc(h, sz) ==
    LET size == IF HpChunk < sz THEN sz ELSE HpChunk
        b    == BumpMalloc(h, ArenaSize + size)
    IN  IF b.ptr = NULL THEN [heap |-> [b.heap EXCEPT !.left = 0], ptr |-> NULL]
        ELSE [heap |-> [b.heap EXCEPT !.space = b.ptr + ArenaSize + sz, !.left = size - sz,
                                      !.arenas = @ \cup {b.ptr}],
              ptr  |-> b.ptr + ArenaSize]

ZoneMalloc(h, n) ==
    LET sz == Roundup(n, 8)
    IN  IF h.left >= sz
        THEN [heap |-> [h EXCEPT !.space = @ + sz, !.left = @ - sz], ptr |-> h.space]
        ELSE SlowMalloc(h, sz)

(* NewSourceHeap *)

\* A word written in the header in front of an object.
HeaderWritten(f, ptr, word) == [p \in DOMAIN f \cup {ptr} |-> IF p = ptr THEN word ELSE f[p]]

IsLarge(sz) == sz >= HpPage - HeaderSize

\* A large object is moved to a page boundary in a block made larger by a page;
\* its header says how much was made of it, not how much is left.
SourceMalloc(h, n) ==
    LET sz == IF IsLarge(n) THEN n + HpPage ELSE n
        z  == ZoneMalloc(h, sz + HeaderSize)
        p  == IF IsLarge(sz) THEN Roundup(z.ptr, HpPage) ELSE z.ptr + HeaderSize
    IN  IF z.ptr = NULL THEN z
        ELSE [heap |-> [z.heap EXCEPT !.size = HeaderWritten(@, p, sz),
                                      !.begin = HeaderWritten(@, p, z.ptr)],
              ptr  |-> p]

(* Kingsley *)

SmallClass == <<0, 1, 2, 2, 3, 3, 3, 3, 4, 4, 4, 4, 4, 4, 4, 4>>
Shifts[n \in Nat] == IF n <= 7 THEN 5 ELSE Shifts[n \div 2] + 1

Size2Class(n) ==
    LET sz == IF n < 8 THEN 8 ELSE n
    IN  IF sz <= 128 THEN SmallClass[((sz - 1) \div 8) + 1] ELSE Shifts[(sz - 1) \div 32]

\* 1 << n.
Shifted[n \in Nat] == IF n = 0 THEN 1 ELSE 2 * Shifted[n - 1]
Class2Size(c) == Shifted[c + 3]

(* StrictSegHeap over AdaptHeap<DLList> *)

SegMalloc(h, n) ==
    LET c == Size2Class(n)
    IN  IF h.bins[c] # <<>>
        THEN [heap |-> [h EXCEPT !.bins[c] = Tail(@)], ptr |-> Head(h.bins[c])]
        ELSE SourceMalloc(h, Class2Size(c))

\* The largest class whose objects are not larger.
BinOf(objectSize) ==
    LET c == Size2Class(objectSize)
    IN  CHOOSE d \in 0 .. c : /\ Class2Size(d) <= objectSize
                              /\ \A e \in d + 1 .. c : Class2Size(e) > objectSize

SegFree(h, ptr) == [h EXCEPT !.bins[BinOf(h.size[ptr])] = <<ptr>> \o @]

(* ANSIWrapper *)

Malloc(h, n) == SegMalloc(h, Roundup(IF n < 8 THEN 8 ELSE n, 8))
-----------------------------------------------------------------------------
HpClasses == 0 .. 12

\* The classes are enough for the sizes, and the heap for the first object. A page holds
\* more than the smallest object and its header.
ASSUME HpRoomAssumption ==
    /\ \A n \in HpSizes : Size2Class(n) \in HpClasses
    /\ HpPage > HeaderSize + 8
    /\ HpChunk >= HeaderSize + 8 /\ HpBase + Roundup(ArenaSize + HpChunk, 8) <= HpEnd

\* Every heap has had an object of eight bytes (PPHeap::malloc).
HpInit ==
    /\ LET h == [position |-> HpBase, space |-> NULL, left |-> 0, arenas |-> {},
                 size |-> << >>, begin |-> << >>, bins |-> [c \in HpClasses |-> <<>>]]
           m == Malloc(h, 8)
       IN  heap = SegFree(m.heap, m.ptr)
    /\ live = {}
    /\ reusable = FALSE
    /\ misplaced = FALSE

\* What malloc and free do to the history.
Remember(h, freed) ==
    /\ heap' = h
    /\ reusable' = (reusable \/ \E o \in freed : Class2Size(BinOf(h.size[o.ptr])) > Class2Size(Size2Class(o.asked)))
    /\ misplaced' = (misplaced \/ \E p \in DOMAIN h.begin : p - HeaderSize < h.begin[p])

HpMalloc(n) ==
    LET m == Malloc(heap, n)
    IN  /\ Cardinality(live) < HpMaxLive
        /\ Remember(m.heap, {})
        /\ live' = IF m.ptr = NULL THEN live ELSE live \cup {[ptr |-> m.ptr, asked |-> n]}

HpFree(o) ==
    /\ o \in live
    /\ Remember(SegFree(heap, o.ptr), {o})
    /\ live' = live \ {o}

\* realloc of libgrace: the old object goes even if there is no new one.
HpRealloc(o, n) ==
    LET m == Malloc(heap, n)
    IN  /\ o \in live
        /\ Remember(SegFree(m.heap, o.ptr), {o})
        /\ live' = (live \ {o}) \cup (IF m.ptr = NULL THEN {} ELSE {[ptr |-> m.ptr, asked |-> n]})

\* Whatever of an object somebody relies on: its header and what was asked for.
Extent(o) == [from |-> o.ptr - HeaderSize, to |-> o.ptr + o.asked]
ArenaExtent(a) == [from |-> a, to |-> a + ArenaSize]
Disjoint(x, y) == x.to <= y.from \/ y.to <= x.from

ObjectsDisjoint ==
    /\ \A o, q \in live : o # q => Disjoint(Extent(o), Extent(q))
    /\ \A o \in live, a \in heap.arenas : Disjoint(Extent(o), ArenaExtent(a))
    /\ \A o \in live : o.ptr + o.asked <= HpEnd

\* When objects overlap, their headers are overwritten and anything may follow.
HpNext ==
    /\ ObjectsDisjoint
    /\ \/ \E n \in HpSizes : HpMalloc(n)
       \/ \E o \in live : HpFree(o)
       \/ \E o \in live, n \in HpSizes : HpRealloc(o, n)

HpSpec == HpInit /\ [][HpNext]_hpVars
-----------------------------------------------------------------------------
\* (ObjectsDisjoint says that malloc gives out what was asked for, and nothing
\* that is in use.)  It holds until an object of a page's class has been freed,
\* or a block started at a page boundary: sizes, headers and the ends of arenas
\* fit together everywhere else.
OnlyMovedObjectsCollide == reusable \/ misplaced \/ ObjectsDisjoint

\* "Put the freed object into the right sizeclass heap" (StrictSegHeap::free):
\* what is left of its block behind a free object holds an object of the class
\* whose bin it is in.
BinsServeTheirClass ==
    \A c \in HpClasses : \A i \in 1 .. Len(heap.bins[c]) :
        LET p == heap.bins[c][i]
        IN  heap.begin[p] + heap.size[p] + HeaderSize - p >= Class2Size(c)
=============================================================================
