------------------------------- MODULE Output -------------------------------
(***************************************************************************)
(* What a program prints: the printf shim of libgrace, libc's buffer of    *)
(* stdout, fork and _exit.                                                 *)
(*                                                                         *)
(* The ordering protocol is taken from ForkJoin, which XThread implements: *)
(* an atomicEnd whose transaction touched something returns when all that  *)
(* a sequential run would have run by now has been run, one whose          *)
(* transaction touched nothing returns at once.                            *)
(***************************************************************************)
EXTENDS Naturals, Sequences, FiniteSets

CONSTANTS
    OutThreads,     \* the threads, all forked
    OutMain,        \* the one of main()
    OutCapacities,  \* what stdout's buffer may hold; 0 if every line is written
                    \* at once
    OutMaxSteps,    \* bound: the steps of one thread that can be told apart
    OutOptimized    \* which programs there are: TRUE stands for those some of
                    \* whose transactions touch nothing

ASSUME OutThreadsAssumption == IsFiniteSet(OutThreads) /\ OutMain \in OutThreads
ASSUME OutBoundsAssumption ==
    OutCapacities \subseteq Nat /\ OutMaxSteps \in Nat /\ OutOptimized \subseteq BOOLEAN

VARIABLES
    outBorn, outFinished, outEarlier,   \* the order, as in ForkJoin
    outCapacity,    \* what stdout's buffer holds
    mayOptimize,    \* whether a transaction of this program may touch nothing
    outBuffer,      \* libc's buffer, one per process
    written,        \* what has reached the file
    outStep,        \* how many steps a thread has made
    outPath         \* history: where in a sequential run a thread starts

outSetting == <<outCapacity, mayOptimize>>
outVars == <<outBorn, outFinished, outEarlier, outSetting, outBuffer, written, outStep, outPath>>

Order == INSTANCE ForkJoin
    WITH Threads <- OutThreads, Main <- OutMain, publishing <- {},
         born <- outBorn, finished <- outFinished, earlier <- outEarlier

OutInit ==
    /\ Order!Init
    /\ outCapacity \in OutCapacities
    /\ mayOptimize \in OutOptimized
    /\ outBuffer = [t \in OutThreads |-> <<>>]
    /\ written = <<>>
    /\ outStep = [t \in OutThreads |-> 0]
    /\ outPath = [t \in OutThreads |-> <<>>]

\* What is printed is named by its place in a sequential run: the path of its
\* thread and the step of it.
Place(t) == Append(outPath[t], outStep[t])

\* atomicEnd can return: a commit has waited, the NULL optimisation does not.
CanEnd(t, touched) == IF touched THEN Order!First(t) ELSE mayOptimize

\* Seeded fault: a commit that leaves stdout alone.
FlushedNever(t, touched) == written

\* Seeded fault: the NULL optimisation flushes as well.
FlushedAlways(t, touched) == written \o outBuffer[t]

\* After a commit stdout is flushed, after the NULL optimisation it is not.
Flushed(t, touched) == IF touched THEN written \o outBuffer[t] ELSE written
Kept(t, touched)    == IF touched THEN <<>> ELSE outBuffer[t]

Steps(t) ==
    /\ t \in outBorn \ outFinished
    /\ outStep[t] < OutMaxSteps
    /\ outStep' = [outStep EXCEPT ![t] = @ + 1]

\* printf: atomicEnd, vprintf, atomicBegin.  vprintf writes what does not fit.
Printf(t, touched) ==
    /\ Steps(t)
    /\ CanEnd(t, touched)
    /\ LET buffer == Append(Kept(t, touched), Place(t))
       IN  IF Len(buffer) > outCapacity
           THEN /\ written' = Flushed(t, touched) \o buffer
                /\ outBuffer' = [outBuffer EXCEPT ![t] = <<>>]
           ELSE /\ written' = Flushed(t, touched)
                /\ outBuffer' = [outBuffer EXCEPT ![t] = buffer]
    /\ UNCHANGED <<outBorn, outFinished, outEarlier, outSetting, outPath>>

\* Any other end of a transaction.
OutPunctuate(t, touched) ==
    /\ t \in outBorn \ outFinished
    /\ CanEnd(t, touched)
    /\ written' = Flushed(t, touched)
    /\ outBuffer' = [outBuffer EXCEPT ![t] = Kept(t, touched)]
    /\ UNCHANGED <<outBorn, outFinished, outEarlier, outSetting, outStep, outPath>>

\* pthread_create: atomicEnd, then fork, which copies the buffer.
OutSpawn(t, c, touched) ==
    /\ Steps(t)
    /\ CanEnd(t, touched)
    /\ Order!Spawn(t, c)
    /\ outPath' = [outPath EXCEPT ![c] = Place(t)]
    /\ written' = Flushed(t, touched)
    /\ outBuffer' = [outBuffer EXCEPT ![t] = Kept(t, touched), ![c] = Kept(t, touched)]
    /\ UNCHANGED outSetting

\* A forked thread returns: atomicEnd, waitPred, setExited, _exit.  What is left
\* in the buffer is gone.
OutReturn(t, touched) ==
    /\ t # OutMain
    /\ CanEnd(t, touched)
    /\ Order!Finish(t)
    /\ written' = Flushed(t, touched)
    /\ outBuffer' = [outBuffer EXCEPT ![t] = <<>>]
    /\ UNCHANGED <<outSetting, outStep, outPath>>

\* main returns: finalize, and then libc flushes.
OutFinalize ==
    /\ Order!Finish(OutMain)
    /\ written' = written \o outBuffer[OutMain]
    /\ outBuffer' = [outBuffer EXCEPT ![OutMain] = <<>>]
    /\ UNCHANGED <<outSetting, outStep, outPath>>

OutNext ==
    \/ \E t \in OutThreads, touched \in BOOLEAN :
        \/ Printf(t, touched) \/ OutPunctuate(t, touched) \/ OutReturn(t, touched)
        \/ \E c \in OutThreads : OutSpawn(t, c, touched)
    \/ OutFinalize

OutSpec == OutInit /\ [][OutNext]_outVars
-----------------------------------------------------------------------------
\* p comes before q in a sequential run.
Precedes(p, q) ==
    \E k \in 1 .. Len(p) :
        /\ k <= Len(q)
        /\ p[k] < q[k]
        /\ \A l \in 1 .. k - 1 : p[l] = q[l]

\* With a buffer that holds all that can be printed between commits, lines reach the
\* file in sequential order, apart from copies of lines written before: the NULL
\* optimisation, which may overtake, keeps what it finds in the buffer, and what
\* a fork copies is older than what the child prints.
FirstWritesInOrder ==
    outCapacity >= OutMaxSteps * Cardinality(OutThreads) =>
        \A i, j \in 1 .. Len(written) :
            i < j /\ Precedes(written[j], written[i]) =>
                \E k \in 1 .. i : written[k] = written[j]

Printed == (UNION {{Append(outPath[t], n) : n \in 0 .. outStep[t] - 1} : t \in outBorn})
             \ {outPath[t] : t \in outBorn \ {OutMain}}

\* "In effect, running with Grace makes a multithreaded program act like each
\* thread is executing sequentially": when the program is over, the file has
\* every line that was printed, once, in sequential order.
OutputIsSequential ==
    outFinished = outBorn =>
        /\ \A i, j \in 1 .. Len(written) : i < j => Precedes(written[i], written[j])
        /\ {written[i] : i \in 1 .. Len(written)} = Printed

\* So it is if every transaction touches something: commits flush, and a thread
\* forks and exits with an empty buffer.
TouchingOutputIsSequential == ~mayOptimize => OutputIsSequential
=============================================================================
