------------------------------ MODULE XThread ------------------------------
(***************************************************************************)
(* Grace's ordering protocol: threads as forked processes (xthread), the   *)
(* predecessor each of them waits for (xrun), and the latches they wait on *)
(* (xlatch).                                                               *)
(*                                                                         *)
(* Of a transaction only this is kept: whether it touched anything (isNop) *)
(* and whether somebody committed since it began (only then can its        *)
(* version check fail).  XMemory has the rest.                             *)
(***************************************************************************)
EXTENDS Integers, FiniteSets

CONSTANTS
    Threads,        \* the threads of the program, forked ones only
    Main,           \* the process main() runs in
    MaxPid,         \* the process ids the system hands out go up to this one
    NoThread,       \* "no thread"
    LogCPUs,        \* the values of lognCPUs, one for each machine considered
    MaxInline,      \* bound: no spawn goes deeper than this above lognCPUs, by
                    \* _nestingLevel and in fact
    UsesExit,       \* whether threads may call pthread_exit
    UsesIO          \* whether they call operations that are ensureIrrevocable

ASSUME MainAssumption     == Main \in Threads
ASSUME PidAssumption      == MaxPid \in Nat \ {0}
ASSUME NoThreadAssumption == NoThread \notin Threads
ASSUME NestingAssumption  == LogCPUs \subseteq Nat /\ MaxInline \in Nat
ASSUME UsesAssumption     == UsesExit \in BOOLEAN /\ UsesIO \in BOOLEAN

VARIABLES
    lognCPUs,       \* the nesting level from which spawns are inline
    pc,             \* where each thread is
    then,           \* what follows the atomicEnd it is in
    target,         \* the thread whose handle it joins
    tid,            \* the process a thread runs in (ThreadStatus::tid, _tid)
    pred,           \* _pred
    touched,        \* ~isNop
    asleep,         \* whether it is inside sem_wait
    unlatched,      \* xlatch::_unlatched, by process id
    semaphore,      \* xlatch::_semaphore, by process id
    nesting,        \* _nestingLevel
    depth,          \* how many threads deep it really is
    savedDepth,     \* the same at its last atomicBegin, where a rollback returns
    entry,          \* the same when its own function was called
    parent,         \* the thread that forked it
    handles,        \* the threads whose handles it has
    stale,          \* somebody else committed since its transaction began, or was
                    \* last found consistent
    retried,        \* its transaction was rolled back after waiting for _pred
    irrevocable,    \* ensureIrrevocable has returned in this transaction
    earlier         \* history: the threads that run before it in a sequential run

runVars   == <<pc, then, target, tid>>
latchVars == <<asleep, unlatched, semaphore>>
txVars    == <<touched, stale, retried, irrevocable>>
nestVars  == <<nesting, depth, savedDepth, entry, parent>>
ghosts    == <<lognCPUs, handles, earlier>>
vars == <<runVars, pred, latchVars, txVars, nestVars, ghosts>>

Pids  == 1 .. MaxPid
NoPid == 0

Born == {t \in Threads : pc[t] # "unborn"}
Gone == {t \in Threads : pc[t] \in {"exited", "killed"}}

\* setExited has been called by t, for its own process.
Exited == {t \in Threads : pc[t] \in {"post1", "post2", "exited", "done"}}

Init ==
    /\ lognCPUs \in LogCPUs
    /\ pc         = [t \in Threads |-> IF t = Main THEN "run" ELSE "unborn"]
    /\ then       = [t \in Threads |-> "none"]
    /\ target     = [t \in Threads |-> NoThread]
    /\ tid        = [t \in Threads |-> IF t = Main THEN 1 ELSE NoPid]
    /\ pred       = [t \in Threads |-> NoPid]
    /\ touched    = [t \in Threads |-> FALSE]
    /\ asleep     = [t \in Threads |-> FALSE]
    /\ unlatched  = [i \in Pids |-> FALSE]
    /\ semaphore  = [i \in Pids |-> 0]
    /\ nesting    = [t \in Threads |-> 0]
    /\ depth      = [t \in Threads |-> 0]
    /\ savedDepth = [t \in Threads |-> 0]
    /\ entry      = [t \in Threads |-> 0]
    /\ parent     = [t \in Threads |-> NoThread]
    /\ handles    = [t \in Threads |-> {}]
    /\ stale      = [t \in Threads |-> FALSE]
    /\ retried    = [t \in Threads |-> FALSE]
    /\ irrevocable = [t \in Threads |-> FALSE]
    /\ earlier    = [t \in Threads |-> {}]

-----------------------------------------------------------------------------
(* xlatch *)

\* wait() finds the latch released.
PassesLatch(t, i) ==
    /\ ~asleep[t] /\ unlatched[i]
    /\ UNCHANGED <<asleep, semaphore>>

\* wait() returns from sem_wait.
WakesUp(t, i) ==
    /\ asleep[t] /\ semaphore[i] > 0
    /\ semaphore' = [semaphore EXCEPT ![i] = @ - 1]
    /\ asleep' = [asleep EXCEPT ![t] = FALSE]

Waited(t, i) == PassesLatch(t, i) \/ WakesUp(t, i)

\* waitPred() returns: at once if there is no predecessor.
WaitedPred(t) ==
    \/ pred[t] = NoPid /\ UNCHANGED <<asleep, semaphore>>
    \/ pred[t] # NoPid /\ Waited(t, pred[t])

\* The process t waits for where it is, if any.
WaitsFor(t) ==
    IF (pc[t] = "end" /\ touched[t]) \/ pc[t] \in {"ensure", "exit", "final"} THEN pred[t]
    ELSE IF pc[t] = "join" THEN tid[target[t]] ELSE NoPid

\* wait() has read _unlatched as false and goes into sem_wait.  The latch may
\* be released between the two.
FallsAsleep(t) ==
    /\ WaitsFor(t) # NoPid
    /\ ~asleep[t] /\ ~unlatched[WaitsFor(t)]
    /\ asleep' = [asleep EXCEPT ![t] = TRUE]
    /\ UNCHANGED <<runVars, pred, unlatched, semaphore, txVars, nestVars, ghosts>>

-----------------------------------------------------------------------------
(* Transactions *)

InTx == {t \in Threads : pc[t] \in {"run", "ensure", "check", "end", "commit"}}

\* The program reaches an atomicEnd, after which it goes on with next.  By now
\* its transaction has touched memory, or not.
Ends(t, next) ==
    /\ pc[t] = "run"
    /\ \E any \in BOOLEAN : touched' = [touched EXCEPT ![t] = any]
    /\ pc' = [pc EXCEPT ![t] = "end"]
    /\ then' = [then EXCEPT ![t] = next]
    /\ UNCHANGED <<tid, pred, latchVars, stale, retried, irrevocable, nestVars, ghosts>>

\* punctuate(), and printf: the next transaction begins at once.
Punctuate(t) == Ends(t, "run") /\ UNCHANGED target

\* atomicEnd returns.  An atomicBegin that follows at once saves the context.
Continues(t) ==
    /\ pc' = [pc EXCEPT ![t] = then[t]]
    /\ savedDepth' = [savedDepth EXCEPT ![t] = depth[t]]
    /\ then' = [then EXCEPT ![t] = "none"]
    /\ touched' = [touched EXCEPT ![t] = FALSE]
    /\ retried' = [retried EXCEPT ![t] = FALSE]
    /\ irrevocable' = [irrevocable EXCEPT ![t] = FALSE]

\* Seeded fault: the predecessor is cleared although nobody waited for it.
EndOptimizedClearsPred(t) ==
    /\ pc[t] = "end" /\ ~touched[t]
    /\ Continues(t)
    /\ stale' = [stale EXCEPT ![t] = FALSE]
    /\ pred' = [pred EXCEPT ![t] = NoPid]
    /\ UNCHANGED <<target, tid, latchVars, nesting, depth, entry, parent, ghosts>>

\* The NULL optimisation of atomicEnd: no wait, and the predecessor is kept.
EndOptimized(t) ==
    /\ pc[t] = "end" /\ ~touched[t]
    /\ Continues(t)
    /\ stale' = [stale EXCEPT ![t] = FALSE]
    /\ UNCHANGED <<target, tid, pred, latchVars, nesting, depth, entry, parent, ghosts>>

\* Otherwise atomicEnd waits for the predecessor ...
EndWaited(t) ==
    /\ pc[t] = "end" /\ touched[t]
    /\ WaitedPred(t)
    /\ pc' = [pc EXCEPT ![t] = "commit"]
    /\ UNCHANGED <<then, target, tid, pred, unlatched, txVars, nestVars, ghosts>>

\* ... and tries to commit: SUCCEEDED.  Everybody else's view grows stale.
CommitSucceeds(t) ==
    /\ pc[t] = "commit"
    /\ Continues(t)
    /\ pred' = [pred EXCEPT ![t] = NoPid]
    /\ stale' = [s \in Threads |-> s # t /\ s \in InTx]
    /\ UNCHANGED <<target, tid, latchVars, nesting, depth, entry, parent, ghosts>>

\* xrun::abort: memory and context go back to the last atomicBegin.
\* _nestingLevel belongs to the runtime and is not rolled back.
GoesBack(t) ==
    /\ pc' = [pc EXCEPT ![t] = "run"]
    /\ then' = [then EXCEPT ![t] = "none"]
    /\ target' = [target EXCEPT ![t] = NoThread]
    /\ touched' = [touched EXCEPT ![t] = FALSE]
    /\ retried' = [retried EXCEPT ![t] = TRUE]
    /\ irrevocable' = [irrevocable EXCEPT ![t] = FALSE]
    /\ depth' = [depth EXCEPT ![t] = savedDepth[t]]
    /\ UNCHANGED <<tid, pred, latchVars, nesting, savedDepth, entry, parent, ghosts>>

\* Seeded fault: the rollback keeps the old view of memory.
CommitFailsStale(t) ==
    /\ pc[t] = "commit" /\ stale[t]
    /\ GoesBack(t)
    /\ UNCHANGED stale

\* FAILED.
CommitFails(t) ==
    /\ pc[t] = "commit" /\ stale[t]
    /\ GoesBack(t)
    /\ stale' = [stale EXCEPT ![t] = FALSE]

\* An operation that cannot be rolled back: ensureIrrevocable waits for the
\* predecessor even if the transaction has touched nothing ...
EnsureIrrevocable(t) ==
    /\ UsesIO
    /\ pc[t] = "run"
    /\ pc' = [pc EXCEPT ![t] = "ensure"]
    /\ UNCHANGED <<then, target, tid, pred, latchVars, txVars, nestVars, ghosts>>

\* Seeded fault: it does not wait.
EnsureNoWait(t) ==
    /\ pc[t] = "ensure" /\ ~asleep[t]
    /\ pc' = [pc EXCEPT ![t] = "check"]
    /\ UNCHANGED <<then, target, tid, pred, latchVars, txVars, nestVars, ghosts>>

EnsureWaited(t) ==
    /\ pc[t] = "ensure"
    /\ WaitedPred(t)
    /\ pc' = [pc EXCEPT ![t] = "check"]
    /\ UNCHANGED <<then, target, tid, pred, unlatched, txVars, nestVars, ghosts>>

\* ... and finds memory consistent, or not: then the transaction runs again.
CheckPasses(t) ==
    /\ pc[t] = "check"
    /\ pc' = [pc EXCEPT ![t] = "run"]
    /\ irrevocable' = [irrevocable EXCEPT ![t] = TRUE]
    /\ stale' = [stale EXCEPT ![t] = FALSE]
    /\ UNCHANGED <<then, target, tid, pred, latchVars, touched, retried, nestVars, ghosts>>

CheckFails(t) ==
    /\ pc[t] = "check" /\ stale[t]
    /\ GoesBack(t)
    /\ stale' = [stale EXCEPT ![t] = FALSE]

-----------------------------------------------------------------------------
(* pthread_create *)

\* A process id can be handed out if no process has it: none ever had, or the
\* ones that did are gone and so are the parents that would have waited for them.
Unused == Pids \ {tid[t] : t \in Born}
Reaped == {i \in Pids : \A t \in Born : tid[t] = i => {t, parent[t]} \subseteq Gone}

\* The system hands them out in turn, and starts again when it is at the end.
NextPid(i) ==
    LET free == IF Unused # {} THEN Unused ELSE Reaped
    IN  i \in free /\ \A j \in free : i <= j

\* _nestingLevel is unsigned: a negative one is beyond every limit.
DontFork(t) == nesting[t] >= lognCPUs \/ nesting[t] < 0

\* spawn with dontFork() false: atomicEnd, then the fork.  (Bound: no more
\* threads than Threads has.)
Spawn(t) ==
    /\ ~DontFork(t)
    /\ Cardinality({s \in Threads : "fork" \in {pc[s], then[s]}}) < Cardinality(Threads \ Born)
    /\ Ends(t, "fork")
    /\ UNCHANGED target

\* Threads differ in nothing but their names: any one not yet born is the next.
NextThread == CHOOSE c \in Threads : c \notin Born

\* forkSpawn.  The child inherits _pred and the memory of its parent, handles
\* included; the parent's predecessor is the child.  Both begin a transaction.
Fork(t, c, i) ==
    /\ pc[t] = "fork" /\ c \in Threads \ Born /\ c = NextThread /\ NextPid(i)
    /\ pc'      = [pc EXCEPT ![t] = "run", ![c] = "run"]
    /\ tid'     = [tid EXCEPT ![c] = i]
    /\ pred'    = [pred EXCEPT ![t] = i, ![c] = pred[t]]
    /\ nesting' = [nesting EXCEPT ![c] = nesting[t] + 1]
    /\ depth'   = [depth EXCEPT ![c] = depth[t] + 1]
    /\ entry'   = [entry EXCEPT ![c] = depth[t] + 1]
    /\ savedDepth' = [savedDepth EXCEPT ![t] = depth[t], ![c] = depth[t] + 1]
    /\ parent'  = [parent EXCEPT ![c] = t]
    /\ handles' = [handles EXCEPT ![t] = @ \cup {c}, ![c] = handles[t]]
    /\ earlier' = [s \in Threads |->
                    IF s = c THEN earlier[t]
                    ELSE IF s = t \/ t \in earlier[s] THEN earlier[s] \cup {c}
                    ELSE earlier[s]]
    /\ UNCHANGED <<lognCPUs, then, target, latchVars, txVars>>

\* spawn with dontFork() true: the function is called in the caller's
\* transaction ...
EnterInline(t) ==
    /\ pc[t] = "run" /\ DontFork(t)
    /\ nesting[t] < lognCPUs + MaxInline /\ depth[t] < lognCPUs + MaxInline
    /\ nesting' = [nesting EXCEPT ![t] = @ + 1]
    /\ depth' = [depth EXCEPT ![t] = @ + 1]
    /\ UNCHANGED <<runVars, pred, latchVars, txVars, savedDepth, entry, parent, ghosts>>

\* Seeded fault: a return that forgets the level.
LeaveInlineKeepsLevel(t) ==
    /\ pc[t] = "run" /\ depth[t] > entry[t]
    /\ depth' = [depth EXCEPT ![t] = @ - 1]
    /\ UNCHANGED <<runVars, pred, latchVars, txVars, nesting, savedDepth, entry, parent, ghosts>>

\* ... and returns.
LeaveInline(t) ==
    /\ pc[t] = "run" /\ depth[t] > entry[t]
    /\ nesting' = [nesting EXCEPT ![t] = @ - 1]
    /\ depth' = [depth EXCEPT ![t] = @ - 1]
    /\ UNCHANGED <<runVars, pred, latchVars, txVars, savedDepth, entry, parent, ghosts>>

-----------------------------------------------------------------------------
(* pthread_join *)

\* sync of a forked thread.  A program joins a thread once, from whichever
\* thread has its handle.
Join(t, c) ==
    /\ c \in handles[t] /\ \A s \in Threads : target[s] # c
    /\ Ends(t, "join")
    /\ target' = [target EXCEPT ![t] = c]

\* waitExited (t->tid) returns, and a transaction begins.
Joined(t) ==
    /\ pc[t] = "join"
    /\ Waited(t, tid[target[t]])
    /\ pc' = [pc EXCEPT ![t] = "run"]
    /\ savedDepth' = [savedDepth EXCEPT ![t] = depth[t]]
    /\ handles' = [s \in Threads |-> handles[s] \ {target[t]}]
    /\ target' = [target EXCEPT ![t] = NoThread]
    /\ UNCHANGED <<then, tid, pred, unlatched, txVars, nesting, depth, entry, parent, lognCPUs, earlier>>

-----------------------------------------------------------------------------
(* The end of a thread *)

\* The thread's function returns, or main does: atomicEnd.
Return(t) ==
    /\ depth[t] = entry[t]
    /\ Ends(t, IF t = Main THEN "final" ELSE "exit")
    /\ UNCHANGED target

\* The waitPred that follows returns, and a forked thread sets its latch: first
\* the flag ...
ExitWaited(t) ==
    /\ pc[t] = "exit"
    /\ WaitedPred(t)
    /\ pc' = [pc EXCEPT ![t] = "post1"]
    /\ unlatched' = [unlatched EXCEPT ![tid[t]] = TRUE]
    /\ UNCHANGED <<then, target, tid, pred, txVars, nestVars, ghosts>>

\* (finalize() has no latch to set)
FinalWaited(t) ==
    /\ pc[t] = "final"
    /\ WaitedPred(t)
    /\ pc' = [pc EXCEPT ![t] = "done"]
    /\ UNCHANGED <<then, target, tid, pred, unlatched, txVars, nestVars, ghosts>>

\* Seeded fault: the latch is made for one waiter.
PostOnce(t) ==
    /\ pc[t] \in {"post1", "post2"}
    /\ pc' = [pc EXCEPT ![t] = "exited"]
    /\ semaphore' = [semaphore EXCEPT ![tid[t]] = @ + 1]
    /\ UNCHANGED <<then, target, tid, pred, asleep, unlatched, txVars, nestVars, ghosts>>

\* ... then the semaphore, twice.  Then comes _exit.
Post(t) ==
    /\ pc[t] \in {"post1", "post2"}
    /\ pc' = [pc EXCEPT ![t] = IF pc[t] = "post1" THEN "post2" ELSE "exited"]
    /\ semaphore' = [semaphore EXCEPT ![tid[t]] = @ + 1]
    /\ UNCHANGED <<then, target, tid, pred, asleep, unlatched, txVars, nestVars, ghosts>>

\* pthread_exit: _exit, and nothing else.
PthreadExit(t) ==
    /\ UsesExit /\ pc[t] = "run"
    /\ pc' = [pc EXCEPT ![t] = "killed"]
    /\ UNCHANGED <<then, target, tid, pred, latchVars, txVars, nestVars, ghosts>>
-----------------------------------------------------------------------------
\* What the runtime does on its own.
Runtime(t) ==
    \/ FallsAsleep(t) \/ EndOptimized(t) \/ EndWaited(t)
    \/ CommitSucceeds(t) \/ CommitFails(t)
    \/ EnsureWaited(t) \/ CheckPasses(t) \/ CheckFails(t)
    \/ \E c \in Threads, i \in Pids : Fork(t, c, i)
    \/ Joined(t) \/ ExitWaited(t) \/ FinalWaited(t) \/ Post(t)

\* What the program decides.
Program(t) ==
    \/ Punctuate(t) \/ EnsureIrrevocable(t) \/ Spawn(t) \/ EnterInline(t) \/ LeaveInline(t)
    \/ \E c \in Threads : Join(t, c)
    \/ Return(t) \/ PthreadExit(t)

\* main has returned and every forked process is gone.
Ended == pc[Main] \in {"done", "killed"} /\ Born \subseteq Gone \cup {Main}

Next ==
    \/ \E t \in Threads : Program(t) \/ Runtime(t)
    \/ Ended /\ UNCHANGED vars

Spec == Init /\ [][Next]_vars

\* The system runs every process, and no function of the program runs forever:
\* a thread that comes back to its program again and again, from inline calls,
\* rollbacks, joins or atomicEnds, returns from its own function again and again.
FairSpec ==
    /\ Spec
    /\ \A t \in Threads :
        /\ WF_vars(Runtime(t))
        /\ []<>(pc[t] = "run") => []<><<Return(t)>>_vars
-----------------------------------------------------------------------------
(* Properties *)

\* Type invariant.
TypeOK ==
    /\ lognCPUs \in LogCPUs
    /\ pc \in [Threads -> {"unborn", "run", "ensure", "check", "end", "commit", "fork", "join", "exit",
                           "final", "post1", "post2", "exited", "done", "killed"}]
    /\ then \in [Threads -> {"none", "run", "fork", "join", "exit", "final"}]
    /\ target \in [Threads -> Threads \cup {NoThread}]
    /\ tid \in [Threads -> Pids \cup {NoPid}]
    /\ pred \in [Threads -> Pids \cup {NoPid}]
    /\ touched \in [Threads -> BOOLEAN]
    /\ asleep \in [Threads -> BOOLEAN]
    /\ unlatched \in [Pids -> BOOLEAN]
    /\ semaphore \in [Pids -> Nat]
    /\ nesting \in [Threads -> Int]
    /\ depth \in [Threads -> Nat]
    /\ savedDepth \in [Threads -> Nat]
    /\ entry \in [Threads -> Nat]
    /\ parent \in [Threads -> Threads \cup {NoThread}]
    /\ handles \in [Threads -> SUBSET Threads]
    /\ stale \in [Threads -> BOOLEAN]
    /\ retried \in [Threads -> BOOLEAN]
    /\ irrevocable \in [Threads -> BOOLEAN]
    /\ earlier \in [Threads -> SUBSET Threads]

FJ == INSTANCE ForkJoin
        WITH born <- Born, finished <- Exited,
             publishing <- {t \in Threads : pc[t] = "commit"}

\* Commits and exits come in the order of a sequential run: whoever commits
\* changes, or sets its latch, everyone who is before it has set its own.  The
\* NULL optimisation, which does not wait, and the predecessor that is cleared
\* by one commit and inherited by forks never let a thread overtake.
CommitsInSequentialOrder == FJ!Spec

\* A transaction is rolled back at most once after it has waited: when it runs
\* again, nobody who could still change what it reads is left.
RetrySucceeds == \A t \in Threads : pc[t] = "commit" /\ retried[t] => ~stale[t]

\* Once ensureIrrevocable has returned, nobody else commits until the
\* transaction is over: what it has done outside memory never needs undoing.
IrrevocableIsFinal == \A t \in Threads : irrevocable[t] => ~stale[t]

Sleepers(i) == {t \in Threads : asleep[t] /\ WaitsFor(t) = i}

PostsToCome(i) ==
    IF \E t \in Threads : tid[t] = i /\ pc[t] = "post1" THEN 2
    ELSE IF \E t \in Threads : tid[t] = i /\ pc[t] = "post2" THEN 1 ELSE 0

\* The two posts of unlatch are enough: no released latch leaves a thread in
\* sem_wait, whoever came to wait between the flag and the posts.
NobodyLeftAsleep ==
    \A i \in Pids : unlatched[i] =>
        Cardinality(Sleepers(i)) <= semaphore[i] + PostsToCome(i)

\* How far _nestingLevel is from the number of threads on the stack.
Drift(t) == nesting[t] - depth[t]

\* _nestingLevel, which limits the processes, counts the threads on the stack
\* through any mix of forks and inline calls.  Only a rollback, which restores
\* the stack and not the level, makes the two part, and forked threads inherit
\* the difference.
LevelDriftsOnlyByRollback ==
    [][/\ \A t \in Born : Drift(t)' # Drift(t) => stale[t] /\ pc[t] \in {"commit", "check"}
       /\ \A t \in Born' \ Born : Drift(t)' = Drift(parent'[t])]_vars

\* Threads wait for predecessors, for joined threads and for a place in the
\* order at once, roll back and run again; still every one of them comes to its
\* end.  The exception are those that a sequential run would have continued only
\* after a thread that called pthread_exit, which never releases its latch.
ThreadsEnd ==
    <>[](\A t \in Born :
            \/ pc[t] \in {"exited", "done", "killed"}
            \/ \E s \in earlier[t] : pc[s] = "killed")
-----------------------------------------------------------------------------
(* Inductive invariant: why the order holds (as long as no process id is used  *)
(* twice)                                                                      *)

TxPc == {"run", "ensure", "check", "end", "commit"}

\* An id names one thread.
IdsAreDistinct ==
    \A t \in Born : tid[t] \in Pids /\ \A s \in Born : tid[s] = tid[t] => s = t

\* A latch is released, or posted, by the exit of its thread.
LatchesAreExits ==
    \A i \in Pids : unlatched[i] \/ semaphore[i] > 0 => \E t \in Exited : tid[t] = i

\* A sequential run would have the threads in some order.
TotalOrder == \A s, t \in Born : s = t \/ s \in earlier[t] \/ t \in earlier[s]

\* Who has to end before t has ended, or is t's predecessor, or has to end
\* before the predecessor.  If it has none, all of them have ended.
PredecessorsCover ==
    \A t \in Born :
        IF pred[t] = NoPid THEN earlier[t] \subseteq Exited
        ELSE \E c \in Born : tid[c] = pred[t] /\ earlier[t] \subseteq Exited \cup {c} \cup earlier[c]

\* Whoever has exited, has passed a wait, or runs again after one, is first.
WaitedIsFirst ==
    \A t \in Born :
        t \in Exited \/ pc[t] \in {"commit", "check"} \/ retried[t] \/ irrevocable[t] =>
            earlier[t] \subseteq Exited

\* What a wait has given lasts until the transaction is over.
WaitedIsFresh ==
    \A t \in Threads : retried[t] \/ irrevocable[t] => pc[t] \in TxPc \cup {"killed"} /\ ~stale[t]

ThenFollows == \A t \in Threads : pc[t] \in {"end", "commit"} => then[t] # "none"

OrderInv ==
    /\ IdsAreDistinct /\ LatchesAreExits /\ TotalOrder /\ PredecessorsCover
    /\ WaitedIsFirst /\ WaitedIsFresh

IInv == TypeOK /\ ThenFollows /\ OrderInv

\* Why two posts are enough: at most one thread has a given predecessor, and at
\* most one joins a given thread.
WaitsAreKnown ==
    /\ \A t \in Threads : asleep[t] => WaitsFor(t) \in Pids
    /\ \A t \in Threads : handles[t] \subseteq Born /\ target[t] \in Born \cup {NoThread}
    /\ \A t \in Threads \ Born : pred[t] = NoPid
    /\ \A t \in Threads :
          pc[t] = "join" \/ (pc[t] \in {"end", "commit"} /\ then[t] = "join") => target[t] # NoThread

OneFollower == \A s, t \in Threads : pred[s] = pred[t] /\ pred[s] # NoPid => s = t
OneJoiner == \A s, t \in Threads : target[s] = target[t] /\ target[s] # NoThread => s = t

LatchInv == WaitsAreKnown /\ OneFollower /\ OneJoiner /\ NobodyLeftAsleep
=============================================================================
