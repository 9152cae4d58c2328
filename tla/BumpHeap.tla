------------------------------ MODULE BumpHeap ------------------------------
(***************************************************************************)
(* Where the heap's memory comes from: every process takes objects from    *)
(* the arena of its own heap (PPHeap), and new arenas from a bump pointer. *)
(* Arenas are in transactional memory, and so are the pointers to them;    *)
(* the bump pointer is in the library's memory, which fork copies, and     *)
(* which no commit publishes and no rollback restores.                     *)
(*                                                                         *)
(* Two kinds of pages are told apart: the metadata page of a heap, and the *)
(* first page of an arena, which holds its header.  A transaction that has *)
(* touched a page somebody else commits to is stale (XMemory).  The order  *)
(* is ForkJoin's.                                                          *)
(***************************************************************************)
EXTENDS Naturals, FiniteSets

CONSTANTS
    BhProcs,        \* the processes, and
    BhMain,         \* the one of main()
    BhHeaps,        \* the heaps of PPHeap; which one a process uses depends on its pid
    BhChunks,       \* how many arenas the source has
    BhSlots,        \* how many objects an arena has
    BhAllRefill     \* whether processes other than main exhaust their arenas

ASSUME BhAssumption ==
    /\ BhMain \in BhProcs
    /\ BhHeaps = 1 .. Cardinality(BhHeaps) /\ 1 \in BhHeaps
    /\ BhChunks \in Nat /\ BhHeaps \subseteq 1 .. BhChunks /\ BhSlots \in Nat \ {0}
    /\ BhAllRefill \in BOOLEAN

VARIABLES
    bhBorn, bhFinished, bhEarlier,  \* the order, as in ForkJoin
    heapOf,         \* PPHeap::thisHeap
    position,       \* bumpheap::_position, one per process
    currentArena,   \* committed: ZoneHeap::_currentArena of every heap
    remaining,      \* committed: Arena::_remaining, in the arena itself
    view,           \* what a process sees of these two: the committed values
                    \* when it first touched a page, and what it has done since
    bhTouched,      \* the pages it has recorded in its transaction
    bhStale,        \* somebody has committed to one of them since
    fresh,          \* the objects its transaction has allocated
    given           \* how often an object has been handed out by transactions
                    \* that committed

bhOrder == <<bhBorn, bhFinished, bhEarlier>>
bhShared == <<currentArena, remaining, given>>
bhTx == <<view, bhTouched, bhStale, fresh>>
bhVars == <<bhOrder, heapOf, position, bhShared, bhTx>>

BhOrder == INSTANCE ForkJoin
    WITH Threads <- BhProcs, Main <- BhMain, publishing <- {},
         born <- bhBorn, finished <- bhFinished, earlier <- bhEarlier

Arenas  == 1 .. BhChunks
Objects == Arenas \X (1 .. BhSlots)
Meta(h) == <<"heap", h>>
Page(a) == <<"arena", a>>

\* The view of a process that has touched nothing: nobody looks at it.
NoView == [arena |-> [h \in BhHeaps |-> h], left |-> [a \in Arenas |-> BhSlots]]

\* PPHeap::malloc has given every heap its first arena.
BhInit ==
    /\ BhOrder!Init
    /\ heapOf = [p \in BhProcs |-> 1]
    /\ position = [p \in BhProcs |-> Cardinality(BhHeaps) + 1]
    /\ currentArena = [h \in BhHeaps |-> h]
    /\ remaining = [a \in Arenas |-> BhSlots]
    /\ view = [p \in BhProcs |-> NoView]
    /\ bhTouched = [p \in BhProcs |-> {}]
    /\ bhStale = [p \in BhProcs |-> FALSE]
    /\ fresh = [p \in BhProcs |-> {}]
    /\ given = [o \in Objects |-> 0]

Running == bhBorn \ bhFinished

\* What p sees on a page: its own view if it has touched the page before.
ArenaSeen(p, h) == IF Meta(h) \in bhTouched[p] THEN view[p].arena[h] ELSE currentArena[h]
LeftSeen(p, a)  == IF Page(a) \in bhTouched[p] THEN view[p].left[a] ELSE remaining[a]

\* p has pages touched in its transaction, and sees l left in arena a, which is
\* the current one of its heap; in an arena that it has only looked at it sees
\* what it saw.
Touches(p, a, l, pages) ==
    /\ bhTouched' = [bhTouched EXCEPT ![p] = @ \cup pages]
    /\ view' = [view EXCEPT ![p] =
                  [arena |-> [@.arena EXCEPT ![heapOf[p]] = a],
                   left  |-> [b \in Arenas |-> IF b = a THEN l
                                               ELSE IF Page(b) \in pages THEN LeftSeen(p, b)
                                               ELSE view[p].left[b]]]]

\* malloc finds room in the heap's arena.
MallocFromArena(p) ==
    LET a == ArenaSeen(p, heapOf[p])
        l == LeftSeen(p, a)
    IN  /\ p \in Running /\ l > 0
        /\ Touches(p, a, l - 1, {Meta(heapOf[p]), Page(a)})
        /\ fresh' = [fresh EXCEPT ![p] = @ \cup {<<a, l>>}]
        /\ UNCHANGED <<bhOrder, heapOf, position, bhShared, bhStale>>

\* malloc finds none, and takes an arena from the bump pointer.
MallocRefills(p) ==
    LET a == position[p]
    IN  /\ p \in Running /\ (p = BhMain \/ BhAllRefill)
        /\ LeftSeen(p, ArenaSeen(p, heapOf[p])) = 0
        /\ a \in Arenas
        /\ position' = [position EXCEPT ![p] = @ + 1]
        /\ Touches(p, a, BhSlots - 1,
                   {Meta(heapOf[p]), Page(ArenaSeen(p, heapOf[p])), Page(a)})
        /\ fresh' = [fresh EXCEPT ![p] = @ \cup {<<a, BhSlots>>}]
        /\ UNCHANGED <<bhOrder, heapOf, bhShared, bhStale>>

\* Seeded fault: a check that never finds anything changed.
UnchangedAlways(p) == TRUE

\* The recorded versions are current.
UnchangedSince(p) == ~bhStale[p]

\* A transaction that has touched something commits.  (Of the pages it has
\* touched, it has written to all but its heap's metadata, perhaps.)
BhCommit(p) ==
    /\ bhTouched[p] # {} /\ BhOrder!First(p)
    /\ UnchangedSince(p)
    /\ LET h == heapOf[p]
           written == bhTouched[p] \ (IF currentArena[h] = view[p].arena[h] THEN {Meta(h)} ELSE {})
       IN  /\ currentArena' = [currentArena EXCEPT ![h] = view[p].arena[h]]
           /\ remaining' = [a \in Arenas |-> LeftSeen(p, a)]
           /\ bhStale' = [q \in BhProcs |-> q # p /\ (bhStale[q] \/ bhTouched[q] \cap written # {})]
    /\ given' = [o \in Objects |-> IF o \in fresh[p] THEN given[o] + 1 ELSE given[o]]
    /\ fresh' = [fresh EXCEPT ![p] = {}]
    /\ bhTouched' = [bhTouched EXCEPT ![p] = {}]
    /\ view' = [view EXCEPT ![p] = NoView]
    /\ UNCHANGED <<bhOrder, heapOf, position>>

\* Or it fails, and starts again: with the bump pointer where it is.
BhRollback(p) ==
    /\ bhTouched[p] # {} /\ BhOrder!First(p)
    /\ bhStale[p]
    /\ bhStale' = [bhStale EXCEPT ![p] = FALSE]
    /\ fresh' = [fresh EXCEPT ![p] = {}]
    /\ bhTouched' = [bhTouched EXCEPT ![p] = {}]
    /\ view' = [view EXCEPT ![p] = NoView]
    /\ UNCHANGED <<bhOrder, heapOf, position, bhShared>>

\* fork, between transactions.  Which heap the child uses depends on its pid.
BhFork(p, c) ==
    /\ bhTouched[p] = {}
    /\ BhOrder!Spawn(p, c)
    /\ \E h \in BhHeaps : heapOf' = [heapOf EXCEPT ![c] = h]
    /\ position' = [position EXCEPT ![c] = position[p]]
    /\ UNCHANGED <<bhShared, bhTx>>

BhExit(p) ==
    /\ bhTouched[p] = {}
    /\ BhOrder!Finish(p)
    /\ UNCHANGED <<heapOf, position, bhShared, bhTx>>

BhNext ==
    \E p \in BhProcs :
        \/ MallocFromArena(p) \/ MallocRefills(p)
        \/ BhCommit(p) \/ BhRollback(p)
        \/ BhExit(p) \/ \E c \in BhProcs : BhFork(p, c)

BhSpec == BhInit /\ [][BhNext]_bhVars
-----------------------------------------------------------------------------
\* malloc never gives out memory that is in use: no two transactions that have
\* committed were given the same object, whichever heaps their processes use
\* and however often they ran again.  (Nothing is freed here.)
ObjectsGivenOnce == \A o \in Objects : given[o] <= 1
=============================================================================
