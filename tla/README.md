# Verification of Grace

Grace (Berger, Yang, Liu, Novark) replaces pthreads: every thread is a forked
process, everything a thread does between two synchronisation points is a
transaction over shared memory-mapped pages, and transactions commit in the
order in which a sequential run of the program would have executed them. Its heap
is built from Heap Layers and a modified dlmalloc, which the repository holds in
full. This directory has TLA+ models of the runtime and of those allocators, the
TLC runs that check them, and machine-checked proofs about the transactional
memory, the ordering protocol, what lies outside the transactions (results,
output, condition flags, arenas, contexts, files), the heap of a process and four of
the Heap Layers.

Paths below are relative to the repository's `src/` directory.

## 1. Inventory

| Component | State | Operations | Talks to |
|---|---|---|---|
| `include/xmemory.h`: STM engine and SEGV handler | `_pages`, the pages touched in this transaction; page protections | `begin`, `handle` (trap), `isNop`, `isConsistent`, `tryToCommit`, `abort`, `updateAll` | both xpersists, called by xrun and by the kernel |
| `include/xpersist.h`, `xglobals.h`: a versioned space | the file mapped shared and private; `_persistentVersions`, `_localVersions`; `_read`, `_dirtied` | `begin`, `recordRead`, `recordWrite`, `consistent`, `commit`, `updatePage`, `updateAll`, `lock`, `unlock` | xplock |
| `include/xplock.h` | a word shared by all processes | `lock`, `unlock` | - |
| `include/xrun.h`: transaction engine | `_pred`, the process it must wait for | `atomicBegin`, `atomicEnd`, `atomicCommit`, `ensureIrrevocable`, `abort`, `waitPred`, `punctuate`, `finalize` | xmemory, xcontext, xthread, xio |
| `include/xthread.h`, `source/xthread.cpp` | `_nestingLevel`, `_tid`, the latches, `ThreadStatus` blocks | `spawn`, `forkSpawn`, `run_thread`, `sync`, `waitExited`, `setExited` | xrun, xlatch, fork |
| `include/xlatch.h` | `_unlatched`, `_semaphore` | `wait`, `unlatch` | - |
| `include/xcontext.h`, `source/xcontext.cpp` | saved registers and stack | `commit`, `abort` | xrun |
| `include/xio.h`, `xfile.h`, `xsection.h` | per descriptor: a list of buffered sections | `open`, `creat`, `connect`, `accept`, `write`, `read`, `lseek`, `close`, `commit` | xrun |
| `source/libgrace.cpp` | condition flags, stdio's buffer | pthread shims, `gracewait`, `gracesignal`, printf, the malloc family | xrun |
| the heap: `bumpheap.h`, `warpheap.h`, `ppheap.h`, `graceheap.h` over ZoneHeap, KingsleyHeap, SegHeap, DLList | bump pointer, one heap per process, free lists, headers | `malloc`, `free`, `realloc` | xpersist (heap space) |
| `privateheap.h`, `source/dlmalloc.c`, `heaplayers/sbrk.c` | `malloc_state`, regions | the whole malloc interface, sbrk emulation | the system |
| Heap Layers (`heaplayers/`): heaps, locks, data structures | per layer | `malloc`, `free`, ... | the layer below |

How they interact. `pthread_create` ends the caller's transaction, forks, and
makes the child the parent's predecessor (`_pred`); the child inherits the
parent's old predecessor. `atomicEnd` waits until the predecessor has *exited*
and then tries to commit, under the locks of both spaces: if every page read
still has the version recorded at its first touch, the dirtied pages are copied
to the shared mapping and their versions incremented; otherwise private copies
are dropped and the saved context is restored. A transaction that recorded
nothing (the "NULL optimization") neither waits nor commits and keeps `_pred`.

What is hard. Page traps race with commits; which accesses trap at all depends on
earlier transactions; waits are skipped, predecessors cleared by commits and
inherited by forks; a latch is two words; ids come back; a rollback restores the
stack but not the library's own data; fork copies that data, and nothing
publishes it; the heaps keep the same fact in several places (boundary tags,
bitmaps, lists by size, counters) through any sequence of operations. The
`hazards` of `PROJECT.json` name the line where each of these bites and the
properties that watch it. Four have no property: a fork that fails, M_MXFAST 0,
an overcount of mapped memory (section 7), and products of sizes that wrap around
(section 8).

## 2. Modules

The runtime:

| Module | Models | Kind |
|---|---|---|
| Transactions | transactions that take effect one at a time | abstract |
| XMemory | xmemory, the SEGV handler, xpersist, xplock | implements Transactions |
| ForkJoin | the sequential order of a fork-join program | abstract |
| XThread | xthread, xrun, xlatch | implements ForkJoin |
| ThreadStatus | the blocks that carry results from `spawn` to `sync` | uses two allocators |
| Output | the printf shim, stdout's buffer, fork and `_exit` | over ForkJoin |
| Conditions | `gracesignal`, `gracewait` | over ForkJoin |
| BumpHeap | arenas and the bump pointer across fork | over ForkJoin |
| GraceHeap | the heap of one process: ANSIWrapper, StrictSegHeap, Kingsley, DLList, NewSourceHeap, ZoneHeap, bumpheap | functions on one record |
| XContext | save and restore of the stack | |
| XIO | xio, xfile, xsection | over ForkJoin |
| XThreadProofs | proofs about XThread, ThreadStatus, BumpHeap and XContext | TLAPS |
| WritesProofs | proofs about XMemory, Output, XIO and Conditions | TLAPS |
| GraceHeapProofs | proofs about GraceHeap, and about WinSbrk and BitString of the next table | TLAPS |
| ProofFacts | facts about numbers, recursive functions and sequences that the proofs share | TLAPS |

The allocators and Heap Layers:

| Module | Models |
|---|---|
| DLMalloc | all of dlmalloc's operations, with the real sizes of 32-bit words |
| WinSbrk | its emulation of sbrk, mmap and the lock on Windows; `sbrk.c` |
| TreapHeap | CartesianHeap over Treap |
| AOFFHeap | address-ordered first fit with splicing and coalescing |
| MmapHeap | MmapHeap of two threads over MyHashMap |
| LeaHeap | LeaHeap: Threshold, StrictSegHeap, CoalesceHeap, SegHeap, CoalesceableHeap |
| ObstackHeap | a stack of chunks, objects that grow |
| ObstackReap | a stack of reaps over DynamicArray |
| AlignedSlotHeap | AlignedChunk's bitmaps under concurrent frees |
| LooseSlotHeap | LooseSlotHeap over BigChunk; LazySlotHeap over Chunk |
| HeapLocks | RecursiveLockType over SpinLockType, under a LockedHeap |
| BitString | allocation in a bit string |
| NestedHeap | a tree of heaps that are cleared together |
| FreeLists | FIFO, doubly-linked FIFO and first-fit free lists; BatchHeap |
| BumpLayers | ChunkHeap, SlopHeap, XallocHeap |
| HeapProofs | proofs about HeapLocks, MmapHeap, AlignedSlotHeap, FreeLists and LooseSlotHeap (TLAPS) |
| LayerProofs | proofs about AOFFHeap, BumpLayers, ObstackHeap, ObstackReap and NestedHeap (TLAPS) |
| LeaHeapProofs | proofs about LeaHeap (TLAPS) |
| TreapHeapProofs | proofs about TreapHeap (TLAPS) |

MCXMemory and MCXThread instantiate XMemory and XThread for TLC. MCLibrary puts
everything else in one run: its variable `component` says which component moves,
all others keep their initial state, so the states are the sum and not the
product of the components'. The composition has no meaning beyond that: no
component sees another one's variables.

Actions are named after the functions they stand for, and `map` in `PROJECT.json`
gives the lines of every definition. In the sequential allocators an operation of
the program is one action, and the steps of its code are functions on the state;
where threads or processes interleave (XMemory, XThread, MmapHeap,
AlignedSlotHeap, HeapLocks, WinSbrk, Conditions, Output, BumpHeap, XIO), an action
ends wherever another one can see or change what was done. History variables are
marked "history" and influence no step, except where a behaviour ends at the
first access the code leaves undefined (`lsCrashed`, `ioLost`, `btCrashed`,
`wsEnded`): what follows a wild pointer is not followed.

## 3. The transactional memory: XMemory

State. `persistent` and `versions` are the shared mappings; `prot` and `frame`
are the private mapping of every process (`frame[p][pg] = NoFrame` while the file
shows through, which is how `MAP_PRIVATE` works); `localVersions`, `seen`,
`read`, `dirtied` are the fields of xpersist and xmemory. `seen` is `_pages`;
`read` and `dirtied` join the two spaces' sets, `HeapPages` says which page is in
which space. `pc` places a process between the steps of `atomicEnd`.

Data. A page's contents are a counter. A store puts on the private copy what was
on the page plus one, and `updates`, which is history, counts the commits that have
written the page. So a lost, repeated or half-done update is a gap between
contents and count: two processes that copy the same page and both commit would
leave contents and version 1 after two commits. `Torn` is a page in the middle of its memcpy. `saw` and
`blind` remember the committed contents a transaction used, on pages it recorded
and on pages it did not; they are history and influence nothing but which
repeated loads are left out.

Steps. A trapping access is up to three steps (first trap, second trap, the
access itself), and any other process may step between them. `tryToCommit` is:
lock the heap, lock the globals, validate, then per page start and end of the
memcpy and the version update, then dropping the private copies, unlock, unlock.
`xrun::abort` is one step. Of the waits of xrun only the fact that they happen
before the lock is used; the order they produce is the subject of XThread, and
XMemory allows every order.

Two branches of the handler are left out: `SEGV_MAPERR` ends the program, and the
last branch, for another code, cannot happen on the tracked pages. Left out of
the accesses are those to a page the process already has a copy of (nobody else
is involved), and a repeated load (it returns what the first did unless the page
was committed to in between, and then the first is already stale).

## 4. The ordering protocol: XThread, and what is built on it

A thread is a process with an id; `pred` is `_pred`, `unlatched` and `semaphore`
are the latches, indexed by process id like `_isExited`. Of a transaction only
two bits are kept: whether it touched anything (`touched`, which decides the NULL
optimisation) and whether somebody else committed since it began (`stale`, the
only case in which its version check can fail). A commit that fails, and a check
of `ensureIrrevocable` that fails, go back to the last `atomicBegin`;
`ensureIrrevocable` waits for the predecessor but, unlike a commit, does not
clear it, and a transaction that passed the check is `irrevocable` until it ends.
`UsesIO` and `UsesExit` say whether a program performs such operations and calls
`pthread_exit`. `wait()` of a latch is two steps, test of the flag and then the
semaphore; `unlatch` is three: flag, post, post. `nesting` is `_nestingLevel`,
`depth` and `savedDepth` are how deep the stack of inline threads is now and at
the last `atomicBegin`. `earlier` is history: the threads a sequential run would
have finished before this one goes on. `lognCPUs`, from which level on spawns are inline,
is the machine's and never changes. Threads are born in one order of their names,
which are all that tells them apart. Process ids are handed out in turn, and
again when their owner and its parent are gone, as fork does.

ForkJoin states the promise: commits ("publishing") and exits happen only when
everything earlier in the sequential order is finished. XThread implements it
with `publishing` = the threads past their wait and before the end of the commit.
Output, Conditions, BumpHeap and XIO take their order from ForkJoin, which is
what XThread has been shown to implement: an `atomicEnd` that commits is a step of
the first thread in order, one whose transaction touched nothing is not. Each of
them looks at one thing the transactions do not cover: stdio's buffer, a flag on a
shared page, the bump pointer, and the list of files.

## 5. Runs

Bounds: `MaxVersion` limits how often a page is committed, `MaxPid` the process
ids, `MaxInline` how far above `lognCPUs` spawns go, the sets `Threads`, `Procs`, `Pages` the rest.

| Run | Instance | Properties | Shows |
|---|---|---|---|
| memory_safety | 2 processes, a heap page and a page of globals, each committed once | VersionsCountUpdates, RecordedVersionsVouch, PrivateCopiesTracked, RecordedAccessesSerialise | contents and version of a page count its commits, so none is lost, repeated or torn; a recorded version vouches for what was read; no private copy is orphaned; refinement of Transactions: recorded accesses serialise, the writes of a commit appear at once |
| memory_progress | 2 processes, 1 page committed up to twice; checks, and accesses between transactions | IInv, LockIsReleased | whoever takes the lock gives it back; the inductive invariant of the proofs (which contains the type invariant) |
| thread_order | 3 threads on machines with `lognCPUs` 1 (siblings that call inline) and 2 (also a chain of forks), 3 ids, `ensureIrrevocable`, `pthread_exit`; fairness | RetrySucceeds, NobodyLeftAsleep, IrrevocableIsFinal, IInv, CommitsInSequentialOrder, LevelDriftsOnlyByRollback, ThreadsEnd | refinement of ForkJoin; a rollback after a wait is followed by a success; two posts suffice; nothing irrevocable is rolled back; waits for predecessors, joins and latches do not block each other: only who waits for a thread that called `pthread_exit` is left |
| library | every other component, one at a time | the 27 properties below | |

Two processes suffice for the memory because the locks admit one committer at a
time and everything another process can observe of it is a page that is old,
torn, new with the old version, or new; one page of each space is needed for the
two locks, the order of commits and a check that must look at both. Three threads
are the least with a chain of predecessors, a fork after a cleared predecessor
and a join of a sibling; the proofs of section 6 do away with these bounds for the
properties that matter most.

The properties of `library`, with the instance of their component:

| Component | Instance | Property |
|---|---|---|
| ThreadStatus | 3 processes, 2 inline threads, 2 pages; no fork after a join | JoinGetsResult: a join returns what its thread returned |
| Output | 3 processes, 3 steps each, buffers of 0 and 9 | FirstWritesInOrder, TouchingOutputIsSequential: in programs whose transactions touch something, lines appear once and in sequential order |
| Conditions | 3 threads, 2 calls each | OneWaitPerSignal: no signal ends two waits (programs that touch memory first) |
| BumpHeap | 3 processes, 2 heaps, 3 chunks | ObjectsGivenOnce, as long as only the first process takes new arenas |
| GraceHeap | pages of 64, arenas of 256, three sizes around the class and page limits | OnlyMovedObjectsCollide |
| XContext | stacks of 2 values up to 5 deep | RollbackRestores, with the frame that copies out of the way |
| XIO | 2 processes, a file and a socket, 2 writes | WritesReachTheFile, once and in order |
| DLMalloc | requests of 20, 2000 and 140000 bytes, alignment 64, foreign sbrk, two tunings; 4 operations | MallocStateChecks, ObjectsIntact, AccountsAddUp, AsksSystemLast, MallocedChunkChecks |
| WinSbrk | 2 threads, 5 granules of 2 pages; `sbrk.c` with 12 bytes of reserve | BytesStayCommitted |
| TreapHeap | 4 addresses, 3 sizes | TreapFindsBestFit |
| AOFFHeap | 3 sizes, 96 bytes, threshold 64 | AofListIsCoalesced |
| MmapHeap | 2 threads, 3 pages, 2 bins | HeldRegionsRecorded |
| LeaHeap | a small, a big and a mapped size, 8 operations | BoundaryTagsAgree |
| ObstackHeap | sizes 12 and 24, chunks of 48 | ObjectsKeepTheirPlace |
| AlignedSlotHeap | 2 threads, 2 chunks of 2 slots, under a lock | BitmapsMatchSlots |
| LooseSlotHeap, LazySlotHeap | 3 chunks of 3 slots | ChunksSortedByFullness |
| HeapLocks | 3 threads, recursion up to 3 | OneThreadInside |
| BitString | 40 bits (two words), runs of 9 and 20, alignments 1 and 8 | BitsMatchRuns |
| ObstackReap | 4 reaps, 6 objects | ReapsStackUp |
| NestedHeap | 4 heaps | ClearReachesAllBelow |
| FreeLists, BatchHeap | 4 objects, 2 sizes, batches of 2 | FreedObjectsInOrder |
| ChunkHeap, SlopHeap, XallocHeap | sizes 5 and 24, chunks of 32, slop 16, an arena of 64, with somebody else allocating in between | RoomStaysKnown |

The sizes are the smallest at which every branch of the component's code is
taken: a list with a first, a middle and a last element, a merge with both
neighbours, a word boundary, a class above and below, a resource that runs out.
DLMalloc is explored from the empty heap to a depth (`DlMaxSteps`), LeaHeap
likewise (`LhMaxSteps`); all others completely within the bounds above. `CHECK_DEADLOCK FALSE`
is set where `pthread_exit`, an exhausted resource, a bound, or an access the code
leaves undefined really stops the component.

Every property of a passing run has a seeded fault that breaks it: a definition
next to the operation it changes, under the comment "Seeded fault" (a comparison
that forgets a space, a version written back without its increment, a post too
few, a boundary tag that is not updated ...), used by nothing else.

### Fairness

`XMemory!FairSpec` asks for weak fairness of the runtime's steps of each process
(the system schedules every process). It is enough for LockIsReleased: the holder
of the heap's lock waits for the globals' lock only while another process is on
its way to releasing it. Nothing is said of how fair the lock is, so nothing is
claimed about a process that waits for it. `XThread!FairSpec` asks for weak
fairness of the runtime's steps, and that no function of the program, forked or
inline, runs forever: a thread that is back in its program again and again (after
inline calls, rollbacks, joins, commits) returns from its own function again and
again. That is an assumption on the program; programs that never return are
outside the claim. No other run uses fairness.

## 6. Proofs

| Module | Theorems | Assuming |
|---|---|---|
| WritesProofs | Typing, Invariance (IInv), UpdatesCounted, VersionsVouch, Refinement (RecordedAccessesSerialise); CopiesAreTracked; LinesReachTheFileInOrder, TouchingProgramsPrintSequentially, WritesReachTheirFile, SignalsAreNotShared | - ; `OutsidePages = {}`; - |
| XThreadProofs | Typing, LevelCounts; Invariance, RetriesSucceed, IrrevocableStays, Refinement (CommitsInSequentialOrder), NobodySleepsOn; JoinsGetResults; ObjectsAreGivenOnce; RollbacksRestore | - ; `EnoughIds`: a process id for every thread; no fork after a join (`~TsForkAfterJoin`); only the first process takes new arenas (`~BhAllRefill`); - |
| GraceHeapProofs | OnlyMovedCollide, ClassHoldsItsSizes; BytesAreCommitted; SearchesAreExact | `HpRoomAssumption`: there is a class for every size asked for, and room for the first arena; -; - |
| HeapProofs | HlInvariant, HeapLockExcludes, HeldRegionsAreRecorded, BitmapsFollowSlots, FreedObjectsAreInOrder, ChunksStaySorted | BitmapsFollowSlots: one thread at a time in the heap (`AsLocked`); - |
| LayerProofs | FirstFitListIsCoalesced, RoomIsKnown, ObstackKeepsObjects, ReapsAreStacked, ClearReachesThemAll | - |
| LeaHeapProofs | BoundaryTagsHold | `LhAssumption`: sizes are multiples of 8, memory and thresholds below 2 GB (BIG_OBJECT) |
| TreapHeapProofs | TreapFindsTheBestFit | `TrAssumption`: finitely many addresses, none of them 0 |

They hold for all values of the constants that meet the modules' named
assumptions. The run thread_pids shows why `EnoughIds` is needed, and
memory_orphan_copy why `OutsidePages = {}` is.

*XMemory.* Neither safety property is inductive. That contents, version and the
count of commits go up by one together (the version is written back from the local
copy, the contents from the private one, neither from the page) rests on the private copy having been one ahead of the
page when it was validated; that rests on the page having been copied after its
version was recorded and not while it was torn; and that the page stays as
validated rests on the lock. `IInv` adds, per process: `LockHeld` (inside the
second lock is to be its holder), `PendingAccess` (a trapped access is pending
only while the program runs, on a page without a copy), `Recorded` (the sets
agree, recorded versions are not from the future), `Copies` (a recorded page does
not trap on loads again, so in a transaction only stores make a page dirty; a
copy is one ahead of an unchanged page) and `CommitPlan` (what is still to be
written is validated and ready). The argument has two halves. A *private* step of
p changes no shared page and starts no commit; it disturbs nobody else
(`PrivateOthers`), so one lemma per action shows it keeps p's own part. A
*publishing* step (start and end of the memcpy, the version update) is taken by
the only process inside the lock; versions only grow, and a page that leaves the
commit has a version nobody recorded, so every claim about other processes'
copies and reads becomes vacuous (`PublishingOthers`).

*The refinement of Transactions* takes the successful version check as the point
where a transaction takes effect: `Committed` is the shared memory with the
committer's plan carried out. It needs `LockDiscipline` (who holds the heap's
lock, and where pages are left to be written), with which every other step maps to
a stutter or to an access of the abstract transaction. `CopyDiscipline` gives
CopiesAreTracked: without accesses between transactions a copy exists only where
the page is dirty.

*XThread.* The invariant says, of everyone who comes before a thread: it has
exited, is the thread's predecessor, or comes before the predecessor
(`PredecessorsCover`). A wait on the predecessor's latch then means that all of
them have exited, because whoever has exited was first itself (`WaitedIsFirst`);
two threads that are both first are one (`TotalOrder`), so nobody else commits
while a thread that has waited is in its transaction (`WaitedIsFresh`). From this
follow the refinement, RetrySucceeds and IrrevocableIsFinal. For the latches: a
thread is the predecessor of at most one other, and joined by at most one
(`OneFollower`, `OneJoiner`), so at most two threads ever sleep on one latch.

*Conditions.* In a program that touches memory before it signals or waits, whoever
is inside `gracewait` or `gracesignal` has just committed, so it is first in order,
and there is one first thread: test and clear of the flag are not interrupted
although nothing makes them atomic.

*HeapLocks.* The thread with the spin lock is unique, and the owner's name and
the count follow where it is; so a thread that reads its own name without the
lock has the lock.

*ThreadStatus.* A result is in a block of a page that all processes share. The
invariant says in whose hands a block is: every thread that was forked has a page
of its own, its block holds what spawn and the thread wrote until it is joined
(`TsBlocksKept`), and no process that may still fork has the block of a thread
that has not been joined on its free list. A fork after a join breaks exactly
this, which is what the run results shows.

*BumpHeap.* While only the first process takes new arenas, its bump pointer
is ahead of every object and every arena, the copies that fork makes of it are used
by nobody, and each heap's arena is its own.

*XContext.* The saved copy holds what was on the stack below `_pbos` when the
context was saved; restoring it is a copy from a frame that lies beyond both, so
that what is copied out is not what is copied over.

*Output.* Lines are named by their place in the sequential order (paths in the
tree of forks), so the order needs no clock. What is in the file precedes, in that
order, what is in anybody's buffer, and what is in a buffer precedes what its owner
and everyone after it will print. With the NULL optimisation copies of lines stay
in buffers that fork has duplicated; the invariant then speaks of the *first* copy of
each line, which is why the theorem does, and needs a buffer that never fills up.

*XIO.* The list of files is part of a process and is copied by fork. Sections are
numbered by the calls that made them: a process's list holds consecutive calls
that continue what the file has, and only the first process in order adds to
them.

*GraceHeap.* `HeapGood` describes the layout: an object's block runs from the
pointer ZoneHeap gave to the end of what was asked of it, blocks are disjoint from
one another, from the arenas' headers and from what is left of the current arena
(`Placed`); no object is in two bins, or in a bin and with the program
(`BinsHold`, `ProgramHas`); and behind every pointer there is the room its class
promises. One lemma per layer says what the layer gives and keeps (`BumpGives`,
`SlowMallocGives`, `ZoneGives`, `SourceGives`, `MallocKeeps`, `FreeKeeps`). Room is
lost in one way only, an object that was moved to a page boundary and is filed by
the size of its block (`reusable`); and a header lies outside its block only
when the block began at a page boundary (`misplaced`). `ClassHoldsItsSizes` is the
assertion of size2Class for every size, through its table and its loop.

*WinSbrk.* Regions ascend in address, lie in granules of their own and in none that
other code has, and a thread in a call has the lock, so no region changes between a
thread's search and its reservation but by that thread; what others may change is
`wsTaken`. While it is between the two, the last region is committed to its top and the
place it means to reserve begins there, or lies above (`Reserving`). A call that shrinks asks for
bytes at the end the program holds: where the new top lies before a region, all of
the region is given back and the one before it ends, allocated, where this one begins
(`RegionsAbut`). So the loop over the list releases exactly the regions behind the new
top (`ReleasedIs`), the underflow that sbrk2 tests for never happens, and what is decommitted is
pages behind the new top.

*BitString.* The bits that are set are the slots of the held runs and, in the last
word, everything from N on; `firstPos` never leaves 0. A search is a function on
positions, and each of its jumps passes no aligned run that is free (`BsGoesOn`): not
over a full word, not over a set bit, not to behind the first set bit of a run. What it
finds ends before N because bit N is set. So an upward induction (`LargerFirst`, after
`SearchExists` has shown that there is such a function) gives that the search from a
position is the least free aligned run from there on. firstAfter goes up in the
same way, word by word, and `LsbIs` is the de Bruijn sequence's correctness for each
of the 32 bits.

*MmapHeap.* A region is mapped, held by the program, or on its way from one to the
other in a thread; the map has an entry for each that is held or about to be, and a
thread that looks up a size does so while nobody else can change that entry.

*AlignedSlotHeap.* A bit is set exactly for a slot that is held or in the hands of the
thread that frees it, each such slot is in one thread's hands only, and the chunks on
the list are empty and nobody's. Under the lock one thread at a time is inside
(`OneInHeap`), and so (`AloneInside`) what it has read is still so when it acts on it
(`NothingStale`): the bitmap that it exchanges is the one that it read, and a chunk
that it found empty is empty and not on the list when it goes back. Without
the lock the last fact is false, and so is the property (section 7).

*AOFFHeap.* Everything that has come from the super heap lies apart (`Objects`
held, listed or lost), and the list is in address order with a gap after each
object; so what a freed object touches can only be the two objects between which
it belongs, and after the merges a gap is left on both sides.

*ChunkHeap, SlopHeap, XallocHeap.* A chunk holds the objects given out of it below
the pointer and the room above it. XallocHeap's tags are shown to be a chain: each
block names its size and whether it is in use, the blocks follow each other from the
start of the arena to the pointer, and the last one is in use; taking back the last
one moves the pointer to the end of the last one in use before it.

*ObstackHeap.* The chunks on the chain are apart, and everything held lies in one of
them, above what lies in the chunks before; `obBase` and `obNext` enclose the
growing object, whose length is what it has grown by. freeing back pops whole chunks
until the one that holds the object.

*ObstackReap.* The reaps put aside and the current one are a stack without
repetition, the array is as long as its doublings made it and at least as long as
the stack, and the reaps' objects are older the deeper the reap.

*FreeLists.* The links from `head` to `tail` are described by the sequence of the
objects they lead through: removing an object from the sequence or inserting one
rewrites the two links around it and no other (`LinksRemoved`, `LinksInserted`, and
`BackRemoved`, `BackInserted` for the links back). The walk that the property takes
is then shown to be that sequence. In BatchHeap the first list holds at most one
more than the batch and the second the rest.

*LooseSlotHeap.* The list a chunk is on is described by its fullness alone, and `inUse`
by the number of slots the program holds in the heap's chunks; that number is the
sum checkClassInvariant computes, in whatever order (`SumIsHeld`). Among chunks that
are together emptier than `emptyFraction` asks, one is itself (`SomeIsEmpty`, by
induction on their number), and then so is the first of the emptiest list, because
being that empty is a matter of fullness (`FullnessIs`).

*NestedHeap.* The links of a child lead to children of the same parent and back, and
a child with nothing before it is the one its parent names. A rank that grows
along each list, of which it is enough that it exists, gives every list a
beginning, so following the links from the first child reaches every child. The
lists of `clear` are iterations cut off at the number of heaps; a set that grows and
has at most N members has stopped growing after N steps (`GrowthEnds`), so nothing
is cut off, and `Cleared` and `Beneath` grow by the same sets.

*LeaHeap.* The invariant names the set of objects that the big heap has given out,
`used`, and says of it alone what the tags and bins are: the headers lead from 0 to
the last one and back with nothing in between (`LhLayout`), the mark behind an object
says whether it is used (`LhTagged`), of two neighbours one is used (`LhApart`),
and the bins hold the rest, each object once, in the marked bin of its size
(`LhFiled`). What is used is what the program holds and what the small bins hold, each
object in the bin of its exact size (`LhKept`). Each operation of a layer is shown to do
one thing to headers and bins, first to the layout, then to these four, with
one object at a time excepted from the marks (it is being split, merged or
taken). The lists of a bin are used as sets, and FreeAll is a recursion over the list of
all small bins, whose steps each free one used object. That malloc gives
out enough rests on the size classes: no request is larger than its class, the classes
rise, and an object is filed in a class no larger than itself (`BinServes`), although
getSizeClass and the bins disagree about which one. A crash (the head of a bin is
removed) ends what the property claims, as it ends the program.

*TreapHeap.* A tree is described by its links and by the set of nodes of each subtree,
`S`: the two subtrees of a node are apart, every subtree lies in those of the nodes above it, and
the order by size goes from left to right (`TrTree`). Rotating changes two of these
sets and no order (`TurnedTree`); rotateLeft is rotateRight in the mirror image of the tree
(`MirroredTree`), so there is one proof. While a node goes up, it alone may come
before its parent (`HeapBelow`), and while it goes down it alone may come after its children
(`HeapBut`); its subtree grows with each rotation up and shrinks with each one down, so the
loops end before they are cut off at the number of nodes (`RotatedUpGood`,
`RotatedDownGood`), with the heap order restored or the node a leaf. The size of a
subtree is also the rank that the walks down descend by (`RankedWalkExists`).
What lookupGeq has found so far is large enough and no smaller than anything that the walk
can still see (`TrSoFar`), so a node found later is never worse, and an exact
match ends the walk because nothing fits better.

Induction over data is done by least counterexample: the order of the naturals is
well-founded (a fact of the library without an operator parameter), so a set of
naturals has a least element, and the counterexamples to a claim are such a set.
Recursive functions (Kingsley's shifts, the powers of two, the searches of BitString,
LeaHeap's FreeAll, the walks of TreapHeap) get a
lemma that they exist (`RecursionExists`, `SearchExists`, `RepeatExists`,
`RankedWalkExists`), without which their
definition says nothing to the provers.

What the proofs changed: FirstWritesInOrder said how large a buffer is that never
fills up in terms of the steps alone, which is right for the checked instance only;
it now counts the threads. BumpHeap and GraceHeap state what their instances relied on
(as many heaps as chunks at most; `HpRoomAssumption`). XIO follows the list of files
only as long as no iterator of it has been lost (`ioLost`). ObstackReap must have a reap to begin with, and the heaps of NestedHeap are finitely
many. ChunksSortedByFullness said that LooseSlotHeap is never left too empty, which holds
when `emptyFraction` divides the number of slots or there are few chunks: with two and
three, six chunks with 2, 2, 2, 2, 1 and 1 free slots are still too empty after the next
free has given one up. It now says what the header says, that a chunk given up is as
empty as that (`lsSent`). FreeLists' history removes the object
at the place where it is (`RemoveAt`), and its property says of the first-fit list
that it is ascending, where it compared with a sorted sequence. In BatchHeap the
proof shows why the counts agree: free at two batches finds less than a batch on the
second list and malloc at one more than the batch finds that list empty, so both end
the behaviour before the counts would part. The regions that WinSbrk releases are counted by a
recursive function (`RegionsReleased`), and its history starts with nothing taken.
BitString's property excused the state after clear, and holds there too; the
precondition is gone, and lsb takes the de Bruijn sequence bit by bit. LeaHeap states
that its memory is smaller than BIG_OBJECT, above which no bin exists, and takes the
powers of two from a table. TreapHeap has one function for each field of the nodes,
walks by recursive functions, and takes a rotating loop as many steps as there are nodes,
which the proof shows to be enough; its bstProperty speaks of all nodes below a
node instead of carrying bounds down. Elsewhere
(`Shifted` for `1 << n`, `HeaderWritten`, the views of BumpHeap) a definition was put in a form the
provers expand.

Only model-checked: liveness (ThreadsEnd, LockIsReleased), which needs fairness
and ENABLED; and DLMalloc, whose recursive operators keep the
provers out.

## 7. Where the code and its documentation part

Eight runs are expected to fail; each checks one property that a comment or the
repository's README states, and TLC's trace shows what the code does instead.
The `findings` of `PROJECT.json` quote the lines.

* memory_every_access (EveryAccessSerialises). `xmemory::begin` clears the sets
  and changes no protection, and commit re-protects only the pages it wrote. A
  page that was only read stays readable, so the next transaction reads it without
  a trap, and commits although the page has changed since.
* memory_orphan_copy (PrivateCopiesTracked). `xthread::sync` stores `*result`
  between `atomicEnd` and `atomicBegin`; the record of that store is cleared by
  `begin`, so no transaction commits it.
* thread_pids (CommitsInSequentialOrder). Latches are indexed by process id and
  never re-armed: with a reused id the parent does not wait for its child.
* results (JoinGetsResult). A forked thread's block, a page shared by all
  processes, goes to a free list that later forks inherit.
* output (OutputIsSequential). Printing after a transaction that touched nothing
  is out of turn, and what is in stdout's buffer is copied by fork and dropped by
  `_exit`.
* heap_fork (ObjectsGivenOnce). The bump pointer is copied by fork and published
  by no commit.
* heap_sizes (BinsServeTheirClass). A large object is moved inside its block and
  filed by the size of the whole block.

* slots_race (BitmapsMatchSlots). getSlot and putSlot of AlignedChunk are said to be
  "ATOMIC and lock-free", but InterlockedExchange stores the new bitmap before the
  comparison tells that another thread had changed it. A slot freed between the
  owner's read and its exchange stays marked, and the slot the owner chose the first
  time is lost when it tries again.

The passing runs say what does hold around these: the recorded accesses of the
first two cases still serialise, order holds as long as ids are fresh, results are
right without a fork after a join, output is sequential when transactions touch
something, bitmaps match when the heap is used under a lock, and so on.

Met while modelling, and recorded here without a run (most are outside what a
model of the components as used would execute):

* `dlmalloc.c`: realloc of a mapped chunk from memalign counts too much mapped
  memory (4044; 1010 says what `hblkhd` counts). With `M_MXFAST` 0 the loop of
  malloc_consolidate runs past the fastbins (3792; allowed by 988). The debugging
  check `n_mmaps <= n_mmaps_max` (2748) fails after `M_MMAP_MAX` is lowered, and that
  of `min_address` (2479) after somebody else has called sbrk. sbrk2 keeps
  `found` from an earlier attempt when it retries.
* `heaplayers/sbrk.c`: a negative size is ignored; what remains of the reserve is
  never checked.
* `xio.h`: connect returns its descriptor on failure, too (182); lseek asserts that
  the file is NULL (216).
* AOFFHeap: above the threshold the pointer that goes to the super heap may be
  interior or merged; splicing loses a header's size of memory.
* LeaHeap: `dlheap.h` names NullHeap as a template, `nullheap.h` defines a class;
  `super::remove` of CoalesceHeap reaches an empty list when a neighbour is the
  head of its bin; getSizeClass and the bins disagree above 2112 bytes, so a freed
  object of 2560 bytes is never found by malloc(2560).
* ObstackHeap: a zero-sized object at the limit of a chunk belongs to the next one;
  one failed allocation loses the chain; malloc while an object grows gives
  unaligned pointers.
* AlignedChunk: whether a chunk is empty and whether it has been released are looked
  at in two steps, so without a lock the owner may release in between and the chunk
  goes back to nobody.
* LooseSlotHeap: a chunk returned with slots in use has a NULL heap, which freeing
  such a slot follows; malloc does not check the super heap's answer. LazySlotHeap
  calls `getNumSlotsAvailable`, which Chunk does not have.
* BatchHeap: the list is chosen by `nObjects <= BatchNumber` before the object is
  counted, so the first list gets BatchNumber + 1 objects ("the first free list
  holds the first BatchNumber objects", 126) and the next malloc follows the NULL
  of the second one; multifree leaves the count.
* BitString: with N a multiple of the word size, searches read beyond B; `get`
  asserts an index that a search at the end exceeds; lsb is wrong for 64-bit words.
* ObstackReap: freeAll names an undeclared variable; grow reallocates to the
  increment and does not update `actualObjectSize`; freeAfter leaves
  `currentObject` in a deleted reap.
* NestedHeap: destroying a parent before its children leaves their pointers.
* XallocHeap: a failed request leaves `end_of_array` moved until the last block is
  freed (an empty heap never recovers); the tag behind a last block whose size is
  not a multiple of 8 is written beyond the arena.
* UniqueHeap destroys its static heap when the last reference goes and never
  rebuilds it.

## 8. Not modelled

* A fork that fails (`xthread.cpp:103`): the parent waits for latch -1, outside the
  array; what it finds there is not determined.
* Sizes near the width of a word: DLMalloc's requests are far below 2^32.
* What memory contains in the allocators, except for the allocators' own words;
  calloc is therefore an allocation.
* Statistics, tracing and timing; the pthread shims that return 0; xsemaphore.
* `libgrace2.cpp`, `wrapper.cpp`, `testdiffs.cpp`: not part of the library the
  Makefile builds. Linker scripts and example programs: no state of their own.
* Heap Layers that only choose a heap or pass a call on, and experiments that
  include files the repository does not have (`seg.h` needs `reaplet.h`) or do not
  compile.
* The composition of XMemory and XThread in one module: XMemory holds for every
  order of commits, XThread reduces memory to `touched` and `stale`, and the link
  between them (a version check fails only if somebody committed since the
  transaction began) is RecordedVersionsVouch.

## 9. Plan

Done: the runtime with its two refinements proved; results, output, conditions,
arenas, the heap's layers, contexts and file I/O, each with its property proved;
dlmalloc with its Windows emulation (proved: the emulation); fifteen heaps and
structures of Heap Layers, all with proofs. Left: DLMalloc without recursive
operators, to be proved about, and with larger depths; fork failure once the code
defines what a failed spawn returns.
