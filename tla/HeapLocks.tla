------------------------------ MODULE HeapLocks ------------------------------
(***************************************************************************)
(* The lock of a LockedHeap: RecursiveLockType over SpinLockType.  Threads *)
(* lock and unlock the heap, and call its malloc and free, which lock it   *)
(* again through a Guard.  The owner's name is read without the spin lock, *)
(* and before the first thread is created the spin lock is a plain store.  *)
(***************************************************************************)
EXTENDS Naturals

CONSTANTS
    HlThreads,      \* the threads
    HlMain,         \* the one that runs first
    HlNone,         \* -1: no thread
    HlMaxDepth      \* bound: how deep a thread locks

ASSUME HlAssumption == HlMain \in HlThreads /\ HlNone \notin HlThreads /\ HlMaxDepth \in Nat

VARIABLES
    hlMutex,        \* the spin lock is LOCKED
    hlTid,          \* tid, the owner
    hlCount,        \* count, the recursion depth
    hlCreated,      \* anyThreadCreated
    hlPc,           \* where each thread is in lock or unlock
    hlDepth         \* history: the calls of lock that each thread has to answer by unlock

hlVars == <<hlMutex, hlTid, hlCount, hlCreated, hlPc, hlDepth>>

HlInit ==
    /\ hlMutex = FALSE
    /\ hlTid = HlNone
    /\ hlCount = 0
    /\ hlCreated = FALSE
    /\ hlPc = [t \in HlThreads |-> "idle"]
    /\ hlDepth = [t \in HlThreads |-> 0]

\* Only the main thread runs until it creates another.
Runs(t) == hlCreated \/ t = HlMain

HlCreate ==
    /\ ~hlCreated /\ hlPc[HlMain] = "idle"
    /\ hlCreated' = TRUE
    /\ UNCHANGED <<hlMutex, hlTid, hlCount, hlPc, hlDepth>>
-----------------------------------------------------------------------------
(* lock *)

\* Whoever owns the lock only counts.
CheckOwner(t) ==
    /\ Runs(t) /\ hlPc[t] = "idle" /\ hlDepth[t] < HlMaxDepth
    /\ hlPc' = [hlPc EXCEPT ![t] = IF hlTid = t THEN "count" ELSE "exchange"]
    /\ UNCHANGED <<hlMutex, hlTid, hlCount, hlCreated, hlDepth>>

\* The spin lock is set; it was not before, or it has to be tried again.
Exchange(t) ==
    /\ hlPc[t] = "exchange"
    /\ hlMutex' = TRUE
    /\ hlPc' = [hlPc EXCEPT ![t] = IF hlCreated /\ hlMutex THEN "spin" ELSE "own"]
    /\ UNCHANGED <<hlTid, hlCount, hlCreated, hlDepth>>

\* contendedLock tries when it has seen the lock free.
SpinEnds(t) ==
    /\ hlPc[t] = "spin" /\ ~hlMutex
    /\ hlPc' = [hlPc EXCEPT ![t] = "exchange"]
    /\ UNCHANGED <<hlMutex, hlTid, hlCount, hlCreated, hlDepth>>

BecomeOwner(t) ==
    /\ hlPc[t] = "own"
    /\ hlTid' = t
    /\ hlPc' = [hlPc EXCEPT ![t] = "count"]
    /\ UNCHANGED <<hlMutex, hlCount, hlCreated, hlDepth>>

CountUp(t) ==
    /\ hlPc[t] = "count"
    /\ hlCount' = hlCount + 1
    /\ hlDepth' = [hlDepth EXCEPT ![t] = @ + 1]
    /\ hlPc' = [hlPc EXCEPT ![t] = "idle"]
    /\ UNCHANGED <<hlMutex, hlTid, hlCreated>>
-----------------------------------------------------------------------------
(* unlock *)

\* Seeded fault: the lock is given up whatever the count.
CountDownOut(t) ==
    /\ hlPc[t] = "idle" /\ hlDepth[t] > 0 /\ hlTid = t
    /\ hlCount' = hlCount - 1
    /\ hlDepth' = [hlDepth EXCEPT ![t] = @ - 1]
    /\ hlPc' = [hlPc EXCEPT ![t] = "disown"]
    /\ UNCHANGED <<hlMutex, hlTid, hlCreated>>

\* The owner counts down, and gives the lock up when the count is zero.
CountDown(t) ==
    /\ hlPc[t] = "idle" /\ hlDepth[t] > 0 /\ hlTid = t
    /\ hlCount' = hlCount - 1
    /\ hlDepth' = [hlDepth EXCEPT ![t] = @ - 1]
    /\ hlPc' = [hlPc EXCEPT ![t] = IF hlCount = 1 THEN "disown" ELSE "idle"]
    /\ UNCHANGED <<hlMutex, hlTid, hlCreated>>

Disown(t) ==
    /\ hlPc[t] = "disown"
    /\ hlTid' = HlNone
    /\ hlPc' = [hlPc EXCEPT ![t] = "unlock"]
    /\ UNCHANGED <<hlMutex, hlCount, hlCreated, hlDepth>>

SpinUnlock(t) ==
    /\ hlPc[t] = "unlock"
    /\ hlMutex' = FALSE
    /\ hlPc' = [hlPc EXCEPT ![t] = "idle"]
    /\ UNCHANGED <<hlTid, hlCount, hlCreated, hlDepth>>

HlStep(t) ==
    \/ CheckOwner(t) \/ Exchange(t) \/ SpinEnds(t) \/ BecomeOwner(t) \/ CountUp(t)
    \/ CountDown(t) \/ Disown(t) \/ SpinUnlock(t)

HlNext == HlCreate \/ \E t \in HlThreads : HlStep(t)

HlSpec == HlInit /\ [][HlNext]_hlVars
-----------------------------------------------------------------------------
\* A thread that has the spin lock, whatever it does with it.
HasSpinLock(t) == hlDepth[t] > 0 \/ hlPc[t] \in {"own", "count", "disown", "unlock"}

HlTypeOK ==
    /\ hlMutex \in BOOLEAN /\ hlCreated \in BOOLEAN
    /\ hlTid \in HlThreads \cup {HlNone}
    /\ hlCount \in Nat
    /\ hlPc \in [HlThreads -> {"idle", "exchange", "spin", "own", "count", "disown", "unlock"}]
    /\ hlDepth \in [HlThreads -> Nat]

\* However the reads of the owner, the exchanges and the unlocks of threads mix, at
\* most one thread is inside the heap, the count is the number of unlocks it owes,
\* it can always unlock (the owner's name is its own), and the spin lock is not
\* left set when nobody has it.
OneThreadInside ==
    /\ \A t, u \in HlThreads : hlDepth[t] > 0 /\ hlDepth[u] > 0 => t = u
    /\ \A t \in HlThreads : hlDepth[t] > 0 => hlCount = hlDepth[t] /\ hlTid = t
    /\ hlMutex => \E t \in HlThreads : HasSpinLock(t)

\* What every step preserves: the thread that has the spin lock is the only one, and
\* the owner's name and the count follow where it is.
HlInv ==
    /\ HlTypeOK
    /\ \A t, u \in HlThreads : HasSpinLock(t) /\ HasSpinLock(u) => t = u
    /\ hlMutex <=> \E t \in HlThreads : HasSpinLock(t)
    /\ \A t \in HlThreads :
            /\ HasSpinLock(t) => hlCount = hlDepth[t]
            /\ hlTid = t <=> hlDepth[t] > 0 \/ hlPc[t] \in {"count", "disown"}
            /\ hlPc[t] \in {"exchange", "spin", "own", "disown", "unlock"} => hlDepth[t] = 0
            /\ ~hlCreated /\ t # HlMain => hlPc[t] = "idle" /\ hlDepth[t] = 0
    /\ (\A t \in HlThreads : ~HasSpinLock(t)) => hlCount = 0
=============================================================================
