----------------------------- MODULE Conditions -----------------------------
(***************************************************************************)
(* gracesignal and gracewait: a flag in a page that all processes share,   *)
(* outside the transactions, between calls of punctuate.  The ordering     *)
(* protocol is taken from ForkJoin, as in Output.                          *)
(***************************************************************************)
EXTENDS Naturals

CONSTANTS
    CvThreads,      \* the threads, all forked
    CvMain,         \* the one of main()
    CvMaxCalls,     \* bound: the calls of gracesignal and of gracewait
    CvOptimized     \* which programs there are: TRUE stands for those that may
                    \* call gracewait or gracesignal having touched nothing

ASSUME CvMainAssumption == CvMain \in CvThreads
ASSUME CvBoundsAssumption == CvMaxCalls \in Nat /\ CvOptimized \subseteq BOOLEAN

VARIABLES
    cvBorn, cvFinished, cvEarlier,      \* the order, as in ForkJoin
    cvMayOptimize,  \* which program this is
    flag,           \* p[0]
    cvPc,           \* where a thread is in gracesignal or gracewait
    signals, waits  \* how often the flag was set, and how often a wait was over

cvOrder == <<cvBorn, cvFinished, cvEarlier, cvMayOptimize>>
cvVars == <<cvOrder, flag, cvPc, signals, waits>>

CvOrder == INSTANCE ForkJoin
    WITH Threads <- CvThreads, Main <- CvMain, publishing <- {},
         born <- cvBorn, finished <- cvFinished, earlier <- cvEarlier

CvInit ==
    /\ CvOrder!Init
    /\ cvMayOptimize \in CvOptimized
    /\ flag = FALSE
    /\ cvPc = [t \in CvThreads |-> "run"]
    /\ signals = 0
    /\ waits = 0

\* Seeded fault: a punctuate that never waits.
PunctuatedAtOnce(t) == TRUE

\* A punctuate that follows a transaction of the program returns when the thread
\* is the first in order; one whose transaction was empty returns at once.
Punctuated(t) == CvOrder!First(t) \/ cvMayOptimize

At(t, from, to) == cvPc[t] = from /\ cvPc' = [cvPc EXCEPT ![t] = to]

\* gracesignal: punctuate ...
SignalEnters(t) ==
    /\ t \in cvBorn \ cvFinished /\ At(t, "run", "signal") /\ signals < CvMaxCalls
    /\ Punctuated(t)
    /\ UNCHANGED <<cvOrder, flag, signals, waits>>

\* ... and the flag is set.  The transaction that ends next is empty.
SignalSets(t) ==
    /\ At(t, "signal", "run")
    /\ flag' = TRUE
    /\ signals' = signals + 1
    /\ UNCHANGED <<cvOrder, waits>>

\* gracewait: the first punctuate ends the program's transaction ...
WaitEnters(t) ==
    /\ t \in cvBorn \ cvFinished /\ At(t, "run", "test") /\ waits < CvMaxCalls
    /\ Punctuated(t)
    /\ UNCHANGED <<cvOrder, flag, signals, waits>>

\* ... later ones end empty transactions, until the flag is found set ...
WaitPasses(t) ==
    /\ flag
    /\ At(t, "test", "reset")
    /\ UNCHANGED <<cvOrder, flag, signals, waits>>

\* ... and then it is cleared, whoever has set it by now.
WaitClears(t) ==
    /\ At(t, "reset", "run")
    /\ flag' = FALSE
    /\ waits' = waits + 1
    /\ UNCHANGED <<cvOrder, signals>>

\* (Whether the end of t's transaction waits does not matter here.)
CvSpawn(t, c) ==
    /\ cvPc[t] = "run"
    /\ CvOrder!Spawn(t, c)
    /\ UNCHANGED <<cvMayOptimize, flag, cvPc, signals, waits>>

CvFinish(t) ==
    /\ cvPc[t] = "run"
    /\ CvOrder!Finish(t)
    /\ UNCHANGED <<cvMayOptimize, flag, cvPc, signals, waits>>

CvNext ==
    \E t \in CvThreads :
        \/ SignalEnters(t) \/ SignalSets(t)
        \/ WaitEnters(t) \/ WaitPasses(t) \/ WaitClears(t)
        \/ CvFinish(t) \/ \E c \in CvThreads : CvSpawn(t, c)

CvSpec == CvInit /\ [][CvNext]_cvVars
-----------------------------------------------------------------------------
\* No signal ends two waits, although the flag is tested and cleared in two
\* steps and no transaction protects it: the ordering protocol keeps two threads
\* that have touched memory from being there at once.  (Without that, as many
\* waits as there are threads may see one signal.)
OneWaitPerSignal == ~cvMayOptimize => waits <= signals

=============================================================================
