---------------------------- MODULE Transactions ----------------------------
(***************************************************************************)
(* What Grace's memory promises to the code that runs on it: transactions  *)
(* over the pages of a store that take effect one at a time.               *)
(*                                                                         *)
(* While it runs, a transaction may observe anything (Grace is optimistic: *)
(* a doomed transaction can see a mix of old and new pages) and it writes  *)
(* privately.  It commits only if everything it observed is still what the *)
(* store holds, and then all of its writes appear in the store in one      *)
(* step.  A transaction that cannot commit leaves no trace.                *)
(***************************************************************************)
EXTENDS Integers

CONSTANTS
    Procs,          \* the processes that run transactions
    Pages           \* the pages of the store

VARIABLES
    mem,            \* the committed contents of every page
    rd,             \* rd[p][pg]: the contents of pg that p's transaction has observed
    wr              \* wr[p][pg]: p's private contents of pg, or NoFrame

vars == <<mem, rd, wr>>

NoFrame == -1

NoReads  == [pg \in Pages |-> {}]
NoWrites == [pg \in Pages |-> NoFrame]

Init ==
    /\ mem = [pg \in Pages |-> 0]
    /\ rd  = [p \in Procs |-> NoReads]
    /\ wr  = [p \in Procs |-> NoWrites]

\* Everything p has observed is what the store holds now.
Current(p) == \A pg \in Pages : rd[p][pg] \subseteq {mem[pg]}

OthersUnchanged(p) ==
    \A q \in Procs \ {p} : rd'[q] = rd[q] /\ wr'[q] = wr[q]

\* The transaction of p runs: it observes and writes, privately.
Execute(p) ==
    /\ OthersUnchanged(p)
    /\ \A pg \in Pages : rd[p][pg] \subseteq rd'[p][pg]
    /\ UNCHANGED mem

\* The transaction of p takes effect.
Commit(p) ==
    /\ Current(p)
    /\ mem' = [pg \in Pages |-> IF wr[p][pg] = NoFrame THEN mem[pg] ELSE wr[p][pg]]
    /\ rd' = [rd EXCEPT ![p] = NoReads]
    /\ wr' = [wr EXCEPT ![p] = NoWrites]

\* The transaction of p is rolled back.
Abort(p) ==
    /\ rd' = [rd EXCEPT ![p] = NoReads]
    /\ wr' = [wr EXCEPT ![p] = NoWrites]
    /\ UNCHANGED mem

Next == \E p \in Procs : Execute(p) \/ Commit(p) \/ Abort(p)

Spec == Init /\ [][Next]_vars
=============================================================================
