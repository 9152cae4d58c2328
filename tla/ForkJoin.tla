------------------------------ MODULE ForkJoin ------------------------------
(***************************************************************************)
(* What Grace's ordering protocol promises: a fork-join program runs as if *)
(* every spawned thread ran to its end at the point of the spawn, so the   *)
(* threads alive at any moment are totally ordered, and only the first of  *)
(* them may change what all of them see.                                   *)
(***************************************************************************)
CONSTANTS
    Threads,        \* all the threads a program may have
    Main            \* the initial one

VARIABLES
    publishing,     \* the threads that are changing what all threads see
    born,           \* the threads that have been spawned
    finished,       \* the threads that have ended
    earlier         \* earlier[t]: the threads that run, to their end, before
                    \* whatever t still has to run

vars == <<publishing, born, finished, earlier>>

Init ==
    /\ publishing = {}
    /\ born = {Main}
    /\ finished = {}
    /\ earlier = [t \in Threads |-> {}]

\* All that a sequential run would have run by now has been run.
First(t) == t \in born \ finished /\ earlier[t] \subseteq finished

\* t spawns c: c inherits what precedes t, and precedes t and everyone who
\* follows t.
Spawn(t, c) ==
    /\ t \in born \ finished
    /\ c \in Threads \ born
    /\ born' = born \cup {c}
    /\ earlier' = [s \in Threads |->
                    IF s = c THEN earlier[t]
                    ELSE IF s = t \/ t \in earlier[s] THEN earlier[s] \cup {c}
                    ELSE earlier[s]]
    /\ UNCHANGED <<publishing, finished>>

\* t changes what all threads see.
StartPublishing(t) ==
    /\ First(t)
    /\ publishing' = publishing \cup {t}
    /\ UNCHANGED <<born, finished, earlier>>

StopPublishing(t) ==
    /\ publishing' = publishing \ {t}
    /\ UNCHANGED <<born, finished, earlier>>

\* t ends.
Finish(t) ==
    /\ First(t)
    /\ finished' = finished \cup {t}
    /\ UNCHANGED <<publishing, born, earlier>>

Next ==
    \E t \in Threads :
        \/ StartPublishing(t) \/ StopPublishing(t) \/ Finish(t)
        \/ \E c \in Threads : Spawn(t, c)

Spec == Init /\ [][Next]_vars
=============================================================================
