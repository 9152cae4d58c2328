------------------------------- MODULE WinSbrk -------------------------------
(***************************************************************************)
(* dlmalloc's emulation of sbrk, mmap and munmap on Windows, under the     *)
(* lock that its public wrappers take there.                               *)
(*                                                                         *)
(* Memory is reserved in granules, committed in pages and handed out in    *)
(* bytes, all of them small here.  Other code of the process reserves and  *)
(* releases granules at any time without the lock: a search for a free     *)
(* place is a step of its own, and by the time the place is reserved it    *)
(* may be taken.  Every failure of sbrk ends the program (wsEnded).        *)
(*                                                                         *)
(* The older emulation that the Heap Layers have in sbrk.c, which reserves *)
(* its range once and never gives any of it back, is at the end (rs).      *)
(***************************************************************************)
EXTENDS Integers, SequencesExt

CONSTANTS
    WsThreads,      \* the threads of the program
    WsSizes,        \* what sbrk is called with
    WsPage,         \* dwPageSize, in bytes
    WsGranule,      \* dwAllocationGranularity
    WsGranules,     \* the address space: granules 0 .. WsGranules - 1
    WsMaxBytes,     \* bound: the bytes that are handed out
    RsReserve,      \* PRE_RESERVE, in bytes
    WsNone          \* nobody

ASSUME WsAssumption ==
    /\ WsSizes \subseteq Int /\ WsNone \notin WsThreads
    /\ WsPage \in Nat \ {0} /\ WsGranule \in Nat \ {0} /\ WsGranule % WsPage = 0
    /\ WsGranules \in Nat /\ WsMaxBytes \in Nat
    /\ RsReserve \in Nat /\ RsReserve % WsPage = 0

VARIABLES
    wsRegions,      \* the region list, g_last at its end: base, allocated, committed, top
    wsTaken,        \* the granules that mmap or other code has
    wsLock,         \* mALLOC_MUTEx: who holds it, or WsNone
    wsCall,         \* where each thread is in a call, and the call's local variables
    wsEnded,        \* history: the program has been aborted
    wsGiven,        \* history: the bytes sbrk has handed out and not taken back
    rs,             \* the static variables of sbrk.c
    rsEnded         \* history: exit(1) was called

wsVars == <<wsRegions, wsTaken, wsLock, wsCall, wsEnded, wsGiven>>
rsVars == <<rs, rsEnded>>

Ceil(n, unit) == ((n + unit - 1) \div unit) * unit
Floor(n, unit) == (n \div unit) * unit

RegionAt(base, size) == [base |-> base, allocated |-> base, committed |-> base, top |-> base + size]
WsIdle == [at |-> "idle", size |-> 0, place |-> 0, granules |-> 0, contiguous |-> FALSE, found |-> FALSE]

\* The list starts with a region of no size at address 0.
WsInit ==
    /\ wsRegions = <<RegionAt(0, 0)>>
    /\ wsTaken = {}
    /\ wsLock = WsNone
    /\ wsCall = [t \in WsThreads |-> WsIdle]
    /\ wsEnded = FALSE
    /\ wsGiven = {}

GLast == Last(wsRegions)
WithLast(r) == [wsRegions EXCEPT ![Len(wsRegions)] = r]

Granules(r) == {g \in 0 .. WsGranules - 1 : r.base <= g * WsGranule /\ g * WsGranule < r.top}
Unreserved == (0 .. WsGranules - 1) \ (wsTaken \cup UNION {Granules(r) : r \in ToSet(wsRegions)})
FreeFrom(g, n) == \A k \in g .. g + n - 1 : k \in Unreserved

\* VirtualQuery looks at run after run of granules in the same state; the first
\* that is free and long enough, behind the run that starts at g.
Places(g, n) == {k \in Unreserved : k > g /\ k - 1 \notin Unreserved /\ FreeFrom(k, n)}
-----------------------------------------------------------------------------
(* The public wrappers *)

\* slwait: the lock is taken by a compare-and-exchange, tried until it succeeds.
SlWait(t, size, at) ==
    /\ wsCall[t].at = "idle" /\ wsLock = WsNone
    /\ wsLock' = t
    /\ wsCall' = [wsCall EXCEPT ![t] = [WsIdle EXCEPT !.at = at, !.size = size]]
    /\ UNCHANGED <<wsRegions, wsTaken, wsEnded, wsGiven>>

SlRelease(t) ==
    /\ wsCall[t].at = "return"
    /\ wsLock' = WsNone
    /\ wsCall' = [wsCall EXCEPT ![t] = WsIdle]
    /\ UNCHANGED <<wsRegions, wsTaken, wsEnded, wsGiven>>

Returns(t) == wsCall' = [wsCall EXCEPT ![t] = [WsIdle EXCEPT !.at = "return"]]

\* Whatever else fails, the process is aborted.
WsAborts(t) ==
    /\ wsCall[t].at \in {"sbrk", "reserve"}
    /\ wsEnded' = TRUE
    /\ UNCHANGED <<wsRegions, wsTaken, wsLock, wsCall, wsGiven>>
-----------------------------------------------------------------------------
(* sbrk of a positive size *)

\* What has to be committed, and beyond that reserved, for so many bytes.
ToCommit(r, size) == r.allocated + size - r.committed
ToReserve(r, size) == r.committed + Ceil(ToCommit(r, size), WsPage) - r.top

\* The allocation top of the last region moves, behind what is committed.
Extends(regions, size, asked) ==
    LET r == Last(regions)
        grown == [r EXCEPT !.allocated = @ + size,
                           !.committed = @ + Ceil(ToCommit(r, size), WsPage)]
        s == IF ToCommit(r, size) > 0 THEN grown ELSE [grown EXCEPT !.committed = r.committed]
    IN  /\ wsRegions' = [regions EXCEPT ![Len(regions)] = s]
        /\ wsGiven' = wsGiven \cup (s.allocated - asked .. s.allocated - 1)

SbrkHere(t) ==
    LET size == wsCall[t].size
    IN  /\ wsCall[t].at = "sbrk" /\ size >= 0
        /\ ToCommit(GLast, size) <= 0 \/ ToReserve(GLast, size) <= 0
        /\ Extends(wsRegions, size, size)
        /\ Returns(t)
        /\ UNCHANGED <<wsTaken, wsLock, wsEnded>>

\* The rest of the region is committed, and a place for another one is sought:
\* right behind it, and else anywhere above.  Without one the program is aborted,
\* unless an earlier search of this call has found one: found stays TRUE, and the
\* end of the address space is tried.
SbrkSearches(t) ==
    LET size == wsCall[t].size
        g == GLast.top \div WsGranule
        near == Ceil(ToReserve(GLast, size), WsGranule) \div WsGranule
        far == Ceil(size, WsGranule) \div WsGranule
        Seek(place, n, contiguous) ==
            /\ wsRegions' = WithLast([GLast EXCEPT !.committed = GLast.top])
            /\ wsCall' = [wsCall EXCEPT ![t] = [@ EXCEPT !.at = "reserve", !.place = place, !.granules = n,
                                                         !.contiguous = contiguous, !.found = TRUE]]
    IN  /\ wsCall[t].at = "sbrk" /\ size >= 0
        /\ ToCommit(GLast, size) > 0 /\ ToReserve(GLast, size) > 0
        /\ IF FreeFrom(g, near)          THEN Seek(g, near, TRUE) /\ UNCHANGED wsEnded
           ELSE IF Places(g, far) # {}   THEN Seek(CHOOSE k \in Places(g, far) : \A j \in Places(g, far) : k <= j,
                                                   far, FALSE) /\ UNCHANGED wsEnded
           ELSE IF wsCall[t].found       THEN Seek(WsGranules, far, FALSE) /\ UNCHANGED wsEnded
           ELSE wsEnded' = TRUE /\ UNCHANGED <<wsRegions, wsCall>>
        /\ UNCHANGED <<wsTaken, wsLock, wsGiven>>

\* Where VirtualAlloc reserves: at the place, or anywhere if that is 0.
Reservable(place, n) == {g \in 1 .. WsGranules - 1 : FreeFrom(g, n) /\ (place = 0 \/ g = place)}

\* The place is still free: the region joins the list.  If it is contiguous, the
\* bytes left over in the region before it are handed out with it.
SbrkReserves(t) ==
    LET c == wsCall[t]
    IN  /\ c.at = "reserve"
        /\ \E g \in Reservable(c.place, c.granules) :
              LET region == RegionAt(g * WsGranule, c.granules * WsGranule)
                  left == IF c.contiguous THEN GLast.committed - GLast.allocated ELSE 0
                  filled == [GLast EXCEPT !.allocated = @ + left]
              IN  Extends(Append(WithLast(filled), region), c.size - left, c.size)
        /\ Returns(t)
        /\ UNCHANGED <<wsTaken, wsLock, wsEnded>>

\* Somebody has taken the place: the search starts again.
SbrkRetries(t) ==
    /\ wsCall[t].at = "reserve" /\ wsCall[t].place # 0
    /\ Reservable(wsCall[t].place, wsCall[t].granules) = {}
    /\ wsCall' = [wsCall EXCEPT ![t].at = "sbrk"]
    /\ UNCHANGED <<wsRegions, wsTaken, wsLock, wsEnded, wsGiven>>
-----------------------------------------------------------------------------
(* sbrk of a negative size *)

\* While the new top lies before the last region, the region is released: what is
\* left of the list and of n.
RegionsReleased(regions, n) ==
    LET last == Len(regions)
        rest[m \in 0 .. last] ==    \* what is left of n when m regions have been released
            IF m = 0 THEN n
            ELSE rest[m - 1] - (regions[last - m + 1].allocated - regions[last - m + 1].base)
        released == Min({m \in 0 .. last - 1 :
                            regions[last - m].allocated - rest[m] >= regions[last - m].base})
    IN  [regions |-> SubSeq(regions, 1, last - released), n |-> rest[released]]

\* Seeded fault: a page that is needed in part is decommitted.
DecommittedCeil(r, n) ==
    LET unused == r.committed - (r.allocated - n)
    IN  [r EXCEPT !.committed = IF unused >= WsPage THEN @ - Ceil(unused, WsPage) ELSE @, !.allocated = @ - n]

\* The whole pages behind the new top are decommitted.
Decommitted(r, n) ==
    LET unused == r.committed - (r.allocated - n)
    IN  [r EXCEPT !.committed = IF unused >= WsPage THEN @ - Floor(unused, WsPage) ELSE @, !.allocated = @ - n]

\* An allocation top outside of what is committed is set back, and the program
\* aborted.
SbrkShrinks(t) ==
    LET n == -wsCall[t].size
        left == RegionsReleased(wsRegions, n)
        r == Decommitted(Last(left.regions), left.n)
        underflow == r.base > r.allocated \/ r.allocated > r.committed
    IN  /\ wsCall[t].at = "sbrk" /\ n > 0
        /\ wsRegions' = [left.regions EXCEPT ![Len(left.regions)] =
                            [r EXCEPT !.allocated = IF underflow THEN r.base ELSE @]]
        /\ wsGiven' = wsGiven \ (GLast.allocated - n .. GLast.allocated - 1)
        /\ wsEnded' = underflow
        /\ Returns(t)
        /\ UNCHANGED <<wsTaken, wsLock>>

\* sYSTRIm calls it only for bytes at the end that it holds.
CanShrink(n) == (GLast.allocated - n .. GLast.allocated - 1) \subseteq wsGiven
-----------------------------------------------------------------------------
(* mmap, munmap, and other code *)

WsMmap(t) ==
    /\ wsCall[t].at = "mmap"
    /\ \E g \in Reservable(0, 1) : wsTaken' = wsTaken \cup {g}
    /\ Returns(t)
    /\ UNCHANGED <<wsRegions, wsLock, wsEnded, wsGiven>>

WsMunmap(t) ==
    /\ wsCall[t].at = "munmap"
    /\ \E g \in wsTaken : wsTaken' = wsTaken \ {g}
    /\ Returns(t)
    /\ UNCHANGED <<wsRegions, wsLock, wsEnded, wsGiven>>

OtherCode ==
    /\ \/ \E g \in Reservable(0, 1) : wsTaken' = wsTaken \cup {g}
       \/ \E g \in wsTaken : wsTaken' = wsTaken \ {g}
    /\ UNCHANGED <<wsRegions, wsLock, wsCall, wsEnded, wsGiven>>

WsCalls(t) ==
    \/ \E size \in WsSizes :
          /\ size >= 0 => Cardinality(wsGiven) + size <= WsMaxBytes
          /\ size < 0 => CanShrink(-size)
          /\ SlWait(t, size, "sbrk")
    \/ Reservable(0, 1) # {} /\ SlWait(t, 0, "mmap")
    \/ wsTaken # {} /\ SlWait(t, 0, "munmap")

WsNext ==
    /\ ~wsEnded
    /\ \/ OtherCode
       \/ \E t \in WsThreads :
             \/ WsCalls(t) \/ SlRelease(t) \/ WsAborts(t)
             \/ SbrkHere(t) \/ SbrkSearches(t) \/ SbrkReserves(t) \/ SbrkRetries(t)
             \/ SbrkShrinks(t) \/ WsMmap(t) \/ WsMunmap(t)
-----------------------------------------------------------------------------
(* sbrk of the Heap Layers *)

RsInit ==
    /\ rs = [initialized |-> FALSE, position |-> 0, nextPage |-> 0,
             remainingCommitted |-> 0, remainingReserved |-> RsReserve]
    /\ rsEnded = FALSE

\* The first call reserves the range, at WsGranule.
RsOpened == IF rs.initialized THEN rs
            ELSE [rs EXCEPT !.initialized = TRUE, !.position = WsGranule, !.nextPage = WsGranule]

\* Whole pages are committed, for what the last commit has not left over.
RsCommit(r, size) ==
    LET bytes == Ceil(size - r.remainingCommitted, WsPage)
    IN  IF size <= r.remainingCommitted THEN r
        ELSE [r EXCEPT !.nextPage = @ + bytes, !.remainingCommitted = @ + bytes]

\* A negative size changes nothing, and neither does 0.  A page behind the range
\* cannot be committed.
RsSbrk(size) ==
    LET r == RsCommit(RsOpened, size)
    IN  IF size <= 0 THEN rs' = RsOpened /\ UNCHANGED rsEnded
        ELSE IF r.nextPage > WsGranule + RsReserve THEN rs' = RsOpened /\ rsEnded' = TRUE
        ELSE /\ rs' = [r EXCEPT !.position = @ + size, !.remainingCommitted = @ - size,
                                !.remainingReserved = @ - size]
             /\ UNCHANGED rsEnded

RsNext == ~rsEnded /\ \E size \in WsSizes : RsSbrk(size)

WsSpec == WsInit /\ RsInit
          /\ [][(WsNext /\ UNCHANGED rsVars) \/ (RsNext /\ UNCHANGED wsVars)]_<<wsVars, rsVars>>
-----------------------------------------------------------------------------
\* Whatever other code takes between a search and the reservation, and however often
\* the program grows and shrinks over the ends of regions, the bytes it holds are in
\* the allocated part of a region on the list, which is committed and reserved for
\* nobody else; the regions are as sbrk2 asserts.  What sbrk.c has handed out ends
\* in the pages it has committed, which are in its range, and its counts say so.
BytesStayCommitted ==
    /\ wsGiven \subseteq UNION {r.base .. r.allocated - 1 : r \in ToSet(wsRegions)}
    /\ \A r \in ToSet(wsRegions) :
          /\ r.base <= r.allocated /\ r.allocated <= r.committed /\ r.committed <= r.top
          /\ r.committed % WsPage = 0 /\ r.top % WsGranule = 0
          /\ Granules(r) \cap wsTaken = {}
    /\ \A i, j \in 1 .. Len(wsRegions) :
          i # j => Granules(wsRegions[i]) \cap Granules(wsRegions[j]) = {}
    /\ rs.position <= rs.nextPage /\ rs.nextPage = rs.position + rs.remainingCommitted
    /\ rs.initialized => /\ rs.position + rs.remainingReserved = WsGranule + RsReserve
                         /\ rs.nextPage <= WsGranule + RsReserve
=============================================================================
