------------------------------- MODULE XMemory -------------------------------
(***************************************************************************)
(* Grace's virtual-memory based transactional memory: xmemory, the SEGV    *)
(* handler, and the two xpersist spaces (heap and globals) under it.       *)
(*                                                                         *)
(* Every process maps the backing file twice: MAP_SHARED (persistent) and  *)
(* MAP_PRIVATE (what the program uses).  A page of the private map shows   *)
(* the backing file until the process stores to it and gets a copy of its  *)
(* own.  Pages start PROT_NONE; the first touch of a page in a transaction *)
(* traps and is recorded as a read, the second trap is recorded as a write.*)
(*                                                                         *)
(* A page's contents are abstracted to a counter: a store leaves on the    *)
(* page what was there plus one, so contents that skip or repeat a value   *)
(* are a lost or a doubled update.  Torn is a page in the middle of a      *)
(* memcpy.  A trapping access and its restart are separate steps, and so   *)
(* are the memcpy of a page and the update of its version: nothing of this *)
(* is protected from processes that do not hold the locks.                 *)
(***************************************************************************)
EXTENDS Integers

CONSTANTS
    Procs,          \* processes; all were forked before the behaviour starts
    Pages,          \* pages of the two spaces
    HeapPages,      \* the pages of the heap space; the others are globals
    OutsidePages,   \* pages the program touches between atomicEnd and atomicBegin
    NoProc,         \* "the lock is free"
    NoPage,         \* "no page"
    Checks,         \* whether the program calls operations that are ensureIrrevocable
    MaxVersion      \* bound: no store is issued to a page that reached it

ASSUME HeapAssumption    == HeapPages \subseteq Pages
ASSUME OutsideAssumption == OutsidePages \subseteq Pages
ASSUME NoProcAssumption  == NoProc \notin Procs
ASSUME NoPageAssumption  == NoPage \notin Pages
ASSUME ChecksAssumption  == Checks \in BOOLEAN
ASSUME BoundAssumption   == MaxVersion \in Nat

VARIABLES
    persistent,     \* _persistentMemory: the MAP_SHARED view of the backing file
    versions,       \* _persistentVersions
    updates,        \* history: how many commits have written a page
    heapLock,       \* the holder of the heap's xplock
    globalsLock,    \* the holder of the globals' xplock
    pc,             \* where each process is in atomicBegin / atomicEnd
    goal,           \* the caller of xmemory's lock(): tryToCommit or isConsistent
    ok,             \* what consistent() returned
    prot,           \* page protections of the private mapping
    frame,          \* private copies of pages, NoFrame while the file shows through
    localVersions,  \* _localVersions
    seen,           \* xmemory::_pages
    read,           \* xpersist::_read (both spaces)
    dirtied,        \* xpersist::_dirtied (both spaces)
    todo,           \* pages commit() has still to write
    kind, addr,     \* the access that trapped and is to be restarted, or the page
                    \* being committed
    saw,            \* committed contents this transaction used, on pages it recorded
    blind           \* committed contents it used on pages it had not recorded

shared == <<persistent, versions, updates>>
locks  == <<heapLock, globalsLock>>
ctl    == <<pc, goal, ok, todo>>
access == <<kind, addr>>
mapping == <<prot, frame>>
sets   == <<seen, read, dirtied>>
used   == <<saw, blind>>
vars   == <<shared, locks, ctl, access, mapping, localVersions, sets, used>>

NoFrame == -1
Torn    == -2
Content == Nat \cup {Torn}

Stored(c) == IF c = Torn THEN Torn ELSE c + 1

NoValues == [pg \in Pages |-> {}]

\* What p reads at pg: its own copy, or the backing file as it is now.
Visible(p, pg) == IF frame[p][pg] = NoFrame THEN persistent[pg] ELSE frame[p][pg]

Goto(p, from, to) == pc[p] = from /\ pc' = [pc EXCEPT ![p] = to]

\* Every process has just begun its first transaction.
Init ==
    /\ persistent    = [pg \in Pages |-> 0]
    /\ versions      = [pg \in Pages |-> 0]
    /\ updates       = [pg \in Pages |-> 0]
    /\ heapLock      = NoProc
    /\ globalsLock   = NoProc
    /\ pc            = [p \in Procs |-> "run"]
    /\ goal          = [p \in Procs |-> "commit"]
    /\ ok            = [p \in Procs |-> FALSE]
    /\ prot          = [p \in Procs |-> [pg \in Pages |-> "none"]]
    /\ frame         = [p \in Procs |-> [pg \in Pages |-> NoFrame]]
    /\ localVersions = [p \in Procs |-> [pg \in Pages |-> 0]]
    /\ seen          = [p \in Procs |-> {}]
    /\ read          = [p \in Procs |-> {}]
    /\ dirtied       = [p \in Procs |-> {}]
    /\ todo          = [p \in Procs |-> {}]
    /\ kind          = [p \in Procs |-> "none"]
    /\ addr          = [p \in Procs |-> NoPage]
    /\ saw           = [p \in Procs |-> NoValues]
    /\ blind         = [p \in Procs |-> NoValues]

-----------------------------------------------------------------------------
(* Transaction boundaries *)

\* xmemory::begin empties the sets.  It leaves every page protection and every
\* private copy as it is.
EmptySets(p) ==
    /\ seen'    = [seen EXCEPT ![p] = {}]
    /\ read'    = [read EXCEPT ![p] = {}]
    /\ dirtied' = [dirtied EXCEPT ![p] = {}]

\* xpersist::updateAll on both spaces: a fresh PROT_NONE private mapping.
\* (The madvise of _localVersions is left out: recordRead writes the entry
\* of a page before any entry of a page in _read is compared.)
UpdateAll(p) ==
    /\ prot'  = [prot EXCEPT ![p] = [pg \in Pages |-> "none"]]
    /\ frame' = [frame EXCEPT ![p] = [pg \in Pages |-> NoFrame]]

\* What the transaction used is forgotten when the transaction is over.
ForgetUses(p) ==
    /\ saw'   = [saw EXCEPT ![p] = NoValues]
    /\ blind' = [blind EXCEPT ![p] = NoValues]

Begin(p) ==
    /\ Goto(p, "outside", "run") /\ kind[p] = "none"
    /\ EmptySets(p)
    /\ ForgetUses(p)
    /\ UNCHANGED <<shared, locks, goal, ok, todo, access, mapping, localVersions>>

\* atomicEnd of a transaction that recorded nothing: the NULL optimisation.
EndNop(p) ==
    /\ Goto(p, "run", "outside") /\ kind[p] = "none"
    /\ read[p] = {} /\ dirtied[p] = {}
    /\ UpdateAll(p)
    /\ ForgetUses(p)
    /\ UNCHANGED <<shared, locks, goal, ok, todo, access, localVersions, sets>>

\* atomicEnd of any other transaction, once waitPred has returned.
EndTx(p) ==
    /\ Goto(p, "run", "lockHeap") /\ kind[p] = "none"
    /\ ~(read[p] = {} /\ dirtied[p] = {})
    /\ goal' = [goal EXCEPT ![p] = "commit"]
    /\ UNCHANGED <<shared, locks, ok, todo, access, mapping, localVersions, sets, used>>

\* ensureIrrevocable, once waitPred has returned: isConsistent in the middle
\* of a transaction.
EnsureIrrevocable(p) ==
    /\ Checks
    /\ Goto(p, "run", "lockHeap") /\ kind[p] = "none"
    /\ goal' = [goal EXCEPT ![p] = "check"]
    /\ UNCHANGED <<shared, locks, ok, todo, access, mapping, localVersions, sets, used>>

-----------------------------------------------------------------------------
(* Memory accesses of the program, and the SEGV handler *)

Permitted(p, k, pg) ==
    prot[p][pg] \in IF k = "load" THEN {"read", "write"} ELSE {"write"}

\* The committed contents of pg that p's transaction used so far.
UsedOf(p, pg) == IF pg \in read[p] THEN saw[p][pg] ELSE blind[p][pg]

\* The program starts a load or a store.  In a transaction it may touch any
\* page; between atomicEnd and atomicBegin (the *result of pthread_join, the
\* arguments of printf) it touches OutsidePages.  Left out: accesses to a page
\* it has a private copy of, which involve nobody else, and a second load of
\* the same page, which returns what the first did unless the page has been
\* committed to since, and then the first one is already stale.
Starts(p, k, pg) ==
    /\ pc[p] = "run" \/ (pc[p] = "outside" /\ pg \in OutsidePages)
    /\ kind[p] = "none"
    /\ frame[p][pg] = NoFrame
    /\ k = "load"  => UsedOf(p, pg) = {}
    /\ k = "store" => versions[pg] < MaxVersion

\* The access of p to be executed is k on pg: a new one or a restarted one.
Executes(p, k, pg) == Starts(p, k, pg) \/ (kind[p] = k /\ addr[p] = pg)

\* After the handler returns, the access that trapped is executed again.
Restart(p, k, pg) ==
    /\ kind' = [kind EXCEPT ![p] = k]
    /\ addr' = [addr EXCEPT ![p] = pg]

\* recordRead of the space pg belongs to: the committed version is remembered.
RecordRead(p, pg) ==
    /\ localVersions' = [localVersions EXCEPT ![p][pg] = versions[pg]]
    /\ read' = [read EXCEPT ![p] = @ \cup {pg}]

\* recordWrite.
RecordWrite(p, pg) ==
    /\ dirtied' = [dirtied EXCEPT ![p] = @ \cup {pg}]
    /\ read'    = [read EXCEPT ![p] = @ \cup {pg}]

\* The handler, page not yet in _pages: a read, and the page becomes PROT_READ.
TrapFirst(p, k, pg) ==
    /\ Executes(p, k, pg) /\ ~Permitted(p, k, pg)
    /\ pg \notin seen[p]
    /\ seen' = [seen EXCEPT ![p] = @ \cup {pg}]
    /\ prot' = [prot EXCEPT ![p][pg] = "read"]
    /\ RecordRead(p, pg)
    /\ Restart(p, k, pg)
    /\ UNCHANGED <<shared, locks, ctl, frame, dirtied, used>>

\* The handler, page already in _pages: a write, and full access.
TrapAgain(p, k, pg) ==
    /\ Executes(p, k, pg) /\ ~Permitted(p, k, pg)
    /\ pg \in seen[p]
    /\ prot' = [prot EXCEPT ![p][pg] = "write"]
    /\ RecordWrite(p, pg)
    /\ Restart(p, k, pg)
    /\ UNCHANGED <<shared, locks, ctl, frame, localVersions, seen, used>>

\* The committed contents of pg reach the program: through a load, or through
\* the rest of the page a store copies.
Use(p, pg) ==
    IF pg \in read[p]
    THEN /\ saw' = [saw EXCEPT ![p][pg] = @ \cup {persistent[pg]}]
         /\ UNCHANGED blind
    ELSE /\ blind' = [blind EXCEPT ![p][pg] = @ \cup {persistent[pg]}]
         /\ UNCHANGED saw

AccessDone(p) ==
    /\ kind' = [kind EXCEPT ![p] = "none"]
    /\ addr' = [addr EXCEPT ![p] = NoPage]

Load(p, pg) ==
    /\ Executes(p, "load", pg) /\ Permitted(p, "load", pg)
    /\ Use(p, pg)
    /\ AccessDone(p)
    /\ UNCHANGED <<shared, locks, ctl, mapping, localVersions, sets>>

\* The store copies the page (copy on write) and changes it.
Store(p, pg) ==
    /\ Executes(p, "store", pg) /\ Permitted(p, "store", pg)
    /\ frame' = [frame EXCEPT ![p][pg] = Stored(persistent[pg])]
    /\ Use(p, pg)
    /\ AccessDone(p)
    /\ UNCHANGED <<shared, locks, ctl, prot, localVersions, sets>>

-----------------------------------------------------------------------------
(* xmemory::tryToCommit and xmemory::isConsistent *)

LockHeap(p) ==
    /\ Goto(p, "lockHeap", "lockGlobals")
    /\ heapLock = NoProc
    /\ heapLock' = p
    /\ UNCHANGED <<shared, globalsLock, goal, ok, todo, access, mapping,
                   localVersions, sets, used>>

LockGlobals(p) ==
    /\ Goto(p, "lockGlobals", "validate")
    /\ globalsLock = NoProc
    /\ globalsLock' = p
    /\ UNCHANGED <<shared, heapLock, goal, ok, todo, access, mapping,
                   localVersions, sets, used>>

\* Seeded fault: only one of the two spaces is compared.
ConsistentHeapOnly(p) ==
    \A pg \in read[p] \cap HeapPages : versions[pg] = localVersions[p][pg]

\* Seeded fault: only the pages that will be written are compared.
ConsistentDirtiedOnly(p) == \A pg \in dirtied[p] : versions[pg] = localVersions[p][pg]

\* _heap.consistent() && _globals.consistent().  Versions change only under
\* both locks, so the loop over _read is one step.
Consistent(p) == \A pg \in read[p] : versions[pg] = localVersions[p][pg]

Validate(p) ==
    /\ pc[p] = "validate"
    /\ ok' = [ok EXCEPT ![p] = Consistent(p)]
    /\ IF Consistent(p) /\ goal[p] = "commit"
       THEN /\ pc'   = [pc EXCEPT ![p] = "copy"]
            /\ todo' = [todo EXCEPT ![p] = dirtied[p]]
       ELSE /\ pc'   = [pc EXCEPT ![p] = "unlockHeap"]
            /\ UNCHANGED todo
    /\ UNCHANGED <<shared, locks, goal, access, mapping, localVersions, sets, used>>

\* xpersist::commit: the heap's pages, then the globals'.  Within a space any
\* order is allowed (the code goes by page number).
CopyStart(p, pg) ==
    /\ Goto(p, "copy", "copying")
    /\ pg \in todo[p]
    /\ pg \in HeapPages \/ todo[p] \cap HeapPages = {}
    /\ addr' = [addr EXCEPT ![p] = pg]
    /\ persistent' = [persistent EXCEPT ![pg] = Torn]
    /\ UNCHANGED <<versions, updates, locks, goal, ok, todo, kind, mapping,
                   localVersions, sets, used>>

CopyEnd(p) ==
    /\ Goto(p, "copying", "bump")
    /\ persistent' = [persistent EXCEPT ![addr[p]] = Visible(p, addr[p])]
    /\ updates' = [updates EXCEPT ![addr[p]] = @ + 1]
    /\ todo' = [todo EXCEPT ![p] = @ \ {addr[p]}]
    /\ UNCHANGED <<versions, locks, goal, ok, access, mapping,
                   localVersions, sets, used>>

\* Seeded fault: the version is written back without the increment.
BumpVersionSame(p) ==
    /\ Goto(p, "bump", "copy")
    /\ versions' = [versions EXCEPT ![addr[p]] = localVersions[p][addr[p]]]
    /\ addr' = [addr EXCEPT ![p] = NoPage]
    /\ UNCHANGED <<persistent, updates, locks, goal, ok, todo, kind, mapping,
                   localVersions, sets, used>>

BumpVersion(p) ==
    /\ Goto(p, "bump", "copy")
    /\ versions' = [versions EXCEPT ![addr[p]] = localVersions[p][addr[p]] + 1]
    /\ addr' = [addr EXCEPT ![p] = NoPage]
    /\ UNCHANGED <<persistent, updates, locks, goal, ok, todo, kind, mapping,
                   localVersions, sets, used>>

\* updatePage: the private copy and the protection of each page of S go.
UpdatePages(p, S) ==
    /\ prot'  = [prot EXCEPT ![p] = [pg \in Pages |-> IF pg \in S THEN "none" ELSE @[pg]]]
    /\ frame' = [frame EXCEPT ![p] = [pg \in Pages |-> IF pg \in S THEN NoFrame ELSE @[pg]]]

\* Seeded fault: only the heap runs its updatePage loop.
DropHeapPages(p) ==
    /\ Goto(p, "copy", "unlockHeap")
    /\ todo[p] = {}
    /\ UpdatePages(p, dirtied[p] \cap HeapPages)
    /\ UNCHANGED <<shared, locks, goal, ok, todo, access, localVersions, sets, used>>

\* The updatePage loops that end commit(): the dirtied pages; pages that were
\* only read keep their protection.
DropPages(p) ==
    /\ Goto(p, "copy", "unlockHeap")
    /\ todo[p] = {}
    /\ UpdatePages(p, dirtied[p])
    /\ UNCHANGED <<shared, locks, goal, ok, todo, access, localVersions, sets, used>>

\* Seeded fault: a failed check leaves the heap's lock behind.
UnlockHeapIfConsistent(p) ==
    /\ Goto(p, "unlockHeap", "unlockGlobals")
    /\ heapLock' = IF ok[p] THEN NoProc ELSE heapLock
    /\ UNCHANGED <<shared, globalsLock, goal, ok, todo, access, mapping,
                   localVersions, sets, used>>

UnlockHeap(p) ==
    /\ Goto(p, "unlockHeap", "unlockGlobals")
    /\ heapLock' = NoProc
    /\ UNCHANGED <<shared, globalsLock, goal, ok, todo, access, mapping,
                   localVersions, sets, used>>

\* Back in xrun: rolled back if the check failed, otherwise the transaction
\* is over (commit) or goes on (ensureIrrevocable).
UnlockGlobals(p) ==
    /\ pc[p] = "unlockGlobals"
    /\ globalsLock' = NoProc
    /\ ok' = [ok EXCEPT ![p] = FALSE]
    /\ IF ~ok[p] THEN /\ pc' = [pc EXCEPT ![p] = "abort"]
                      /\ ForgetUses(p)
       ELSE IF goal[p] = "commit" THEN /\ pc' = [pc EXCEPT ![p] = "outside"]
                                       /\ ForgetUses(p)
       ELSE /\ pc' = [pc EXCEPT ![p] = "run"]
            /\ UNCHANGED used
    /\ UNCHANGED <<shared, heapLock, goal, todo, access, mapping, localVersions, sets>>

\* xrun::abort: updateAll, then the saved context is restored, which returns
\* into atomicBegin just before xmemory::begin.
Abort(p) ==
    /\ Goto(p, "abort", "run")
    /\ UpdateAll(p)
    /\ EmptySets(p)
    /\ UNCHANGED <<shared, locks, goal, ok, todo, access, localVersions, used>>

-----------------------------------------------------------------------------
\* What the program decides: its transactions and its accesses.
Program(p) ==
    \/ Begin(p) \/ EndNop(p) \/ EndTx(p) \/ EnsureIrrevocable(p)
    \/ \E pg \in Pages : Load(p, pg) \/ Store(p, pg)
    \/ \E k \in {"load", "store"}, pg \in Pages : TrapFirst(p, k, pg) \/ TrapAgain(p, k, pg)

\* The steps of a process inside tryToCommit, isConsistent and abort.
Runtime(p) ==
    \/ LockHeap(p) \/ LockGlobals(p) \/ Validate(p)
    \/ \E pg \in Pages : CopyStart(p, pg)
    \/ CopyEnd(p) \/ BumpVersion(p) \/ DropPages(p)
    \/ UnlockHeap(p) \/ UnlockGlobals(p) \/ Abort(p)

Next == \E p \in Procs : Program(p) \/ Runtime(p)

Spec == Init /\ [][Next]_vars

\* The operating system keeps running every process.
FairSpec == Spec /\ \A p \in Procs : WF_vars(Runtime(p))
-----------------------------------------------------------------------------
(* Properties *)

\* Type invariant: every variable of the memory system keeps its shape.
TypeOK ==
    /\ persistent \in [Pages -> Content]
    /\ versions \in [Pages -> Nat]
    /\ updates \in [Pages -> Nat]
    /\ heapLock \in Procs \cup {NoProc}
    /\ globalsLock \in Procs \cup {NoProc}
    /\ pc \in [Procs -> {"run", "outside", "lockHeap", "lockGlobals", "validate",
                         "copy", "copying", "bump", "unlockHeap", "unlockGlobals", "abort"}]
    /\ goal \in [Procs -> {"commit", "check"}]
    /\ ok \in [Procs -> BOOLEAN]
    /\ prot \in [Procs -> [Pages -> {"none", "read", "write"}]]
    /\ frame \in [Procs -> [Pages -> Content \cup {NoFrame}]]
    /\ localVersions \in [Procs -> [Pages -> Nat]]
    /\ seen \in [Procs -> SUBSET Pages]
    /\ read \in [Procs -> SUBSET Pages]
    /\ dirtied \in [Procs -> SUBSET Pages]
    /\ todo \in [Procs -> SUBSET Pages]
    /\ kind \in [Procs -> {"none", "load", "store"}]
    /\ addr \in [Procs -> Pages \cup {NoPage}]
    /\ saw \in [Procs -> [Pages -> SUBSET Content]]
    /\ blind \in [Procs -> [Pages -> SUBSET Content]]

\* Some process is between the memcpy of pg and the update of its version.
BeingCommitted(pg) == \E p \in Procs : addr[p] = pg /\ pc[p] \in {"copying", "bump"}

\* The committed contents of a page are made of every update that was committed
\* to it, and its version counts them: commit() never loses an update another
\* process committed, never applies one twice, never leaves a page half written,
\* and no two commits leave the same version behind.
VersionsCountUpdates ==
    \A pg \in Pages : ~BeingCommitted(pg) =>
        persistent[pg] = updates[pg] /\ versions[pg] = updates[pg]

\* What the version check is worth: if the version a process recorded when it
\* first touched a page is still the committed one, everything it used of the
\* page since is the committed contents, although recordRead, the restarted
\* access and the copying of the page by another process interleave freely.
RecordedVersionsVouch ==
    \A p \in Procs : \A pg \in read[p] :
        versions[pg] = localVersions[p][pg] /\ ~BeingCommitted(pg)
            => saw[p][pg] \subseteq {persistent[pg]}

\* A private copy of a page is never an orphan: the transaction that stored to
\* the page knows it is dirty, so the copy is committed or dropped.
PrivateCopiesTracked ==
    \A p \in Procs : \A pg \in Pages : frame[p][pg] # NoFrame => pg \in dirtied[p]

\* The locks of the two spaces cannot be held forever: whoever takes the heap's
\* lock, for a commit or for a check, gives it back.
LockIsReleased == \A p \in Procs : heapLock = p ~> heapLock # p

-----------------------------------------------------------------------------
(* The inductive invariant: why the two safety properties hold *)

\* A process that holds both locks, or the second of them.
InsideLock(p) == pc[p] \in {"validate", "copy", "copying", "bump", "unlockHeap", "unlockGlobals"}

Committing(p) == pc[p] \in {"copy", "copying", "bump"}

\* The transaction of p can still commit and has not dropped its copies.
MayCommit(p) ==
    \/ pc[p] \in {"run", "lockHeap", "lockGlobals", "validate", "copy", "copying", "bump"}
    \/ pc[p] \in {"unlockHeap", "unlockGlobals"} /\ goal[p] = "check"

\* One process at a time compares and copies.
LockHeld(p) == InsideLock(p) => globalsLock = p

\* An access is pending only while the program runs, on a page without a copy.
PendingAccess(p) ==
    kind[p] # "none" =>
        pc[p] \in {"run", "outside"} /\ addr[p] \in Pages /\ frame[p][addr[p]] = NoFrame

\* What the handler recorded.
Recorded(p) ==
    /\ seen[p] = read[p]
    /\ dirtied[p] \subseteq read[p]
    /\ \A pg \in Pages : pg \notin read[p] => saw[p][pg] = {}
    /\ \A pg \in read[p] : localVersions[p][pg] <= versions[pg]
    /\ pc[p] = "abort" => saw[p] = NoValues

\* A page of a transaction that may commit: once recorded it no longer traps
\* on loads, once dirtied it has a copy as soon as its store is restarted, and
\* the copy is one update ahead of a committed page that has not changed.
Copies(p) ==
    MayCommit(p) =>
        /\ \A pg \in seen[p] : prot[p][pg] # "none"
        /\ \A pg \in dirtied[p] :
            /\ frame[p][pg] = NoFrame => kind[p] = "store" /\ addr[p] = pg
            /\ frame[p][pg] # NoFrame /\ versions[pg] = localVersions[p][pg] /\ ~BeingCommitted(pg)
                => frame[p][pg] = versions[pg] + 1

\* The pages a commit has still to write, and the one it is writing.
CommitPlan(p) ==
    Committing(p) =>
        /\ goal[p] = "commit"
        /\ \A pg \in todo[p] :
            /\ pg \in dirtied[p]
            /\ versions[pg] = localVersions[p][pg]
            /\ frame[p][pg] = versions[pg] + 1
        /\ pc[p] = "copying" => addr[p] \in todo[p] /\ updates[addr[p]] = versions[addr[p]]
        /\ pc[p] = "bump" =>
            /\ addr[p] \in Pages \ todo[p]
            /\ versions[addr[p]] = localVersions[p][addr[p]]
            /\ persistent[addr[p]] = versions[addr[p]] + 1
            /\ updates[addr[p]] = versions[addr[p]] + 1

\* The inductive invariant: with the discipline of the locks, of the handler
\* and of the copies, the two safety properties are preserved by every step.
IInv ==
    /\ TypeOK
    /\ \A p \in Procs :
        LockHeld(p) /\ PendingAccess(p) /\ Recorded(p) /\ Copies(p) /\ CommitPlan(p)
    /\ VersionsCountUpdates
    /\ RecordedVersionsVouch

-----------------------------------------------------------------------------
(* Refinement *)

\* The transaction of p has not yet taken effect and has not been rolled back.
InTx(p) ==
    /\ pc[p] \notin {"outside", "abort"}
    /\ ~(goal[p] = "commit" /\ ok[p])

\* A commit takes effect when its version check succeeds: from then on the
\* lock holder's remaining pages are as good as written.
Committed ==
    [pg \in Pages |-> IF heapLock \in Procs /\ pg \in todo[heapLock]
                      THEN frame[heapLock][pg] ELSE persistent[pg]]

PrivateWrites ==
    [p \in Procs |-> [pg \in Pages |->
        IF InTx(p) /\ pg \in dirtied[p] THEN frame[p][pg] ELSE NoFrame]]

RecordedReads == [p \in Procs |-> IF InTx(p) THEN saw[p] ELSE NoValues]

AllReads == [p \in Procs |-> [pg \in Pages |->
                IF InTx(p) THEN saw[p][pg] \cup blind[p][pg] ELSE {}]]

Tx == INSTANCE Transactions WITH mem <- Committed, rd <- RecordedReads, wr <- PrivateWrites

\* Transactions are serialisable in commit order as far as the accesses that
\* trapped are concerned: what a committing transaction used of the pages it
\* recorded is the committed state, and its writes appear all at once.
RecordedAccessesSerialise == Tx!Spec

TxAll == INSTANCE Transactions WITH mem <- Committed, rd <- AllReads, wr <- PrivateWrites

\* Transactions are serialisable, every access counted: also the loads that no
\* longer trap because a committed transaction left the page readable, although
\* begin() is to "Reset global and heap protection."
EveryAccessSerialises == TxAll!Spec
=============================================================================
