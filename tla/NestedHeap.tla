----------------------------- MODULE NestedHeap -----------------------------
(***************************************************************************)
(* NestedHeap: heaps that have heaps below them, so that clearing one      *)
(* clears them all. The children of a heap are a doubly linked list.       *)
(*                                                                         *)
(* The program destroys a heap only when its children have been destroyed  *)
(* (they keep its address), and gives a heap to one parent.                *)
(***************************************************************************)
EXTENDS Naturals, FiniteSets

CONSTANTS
    NhHeaps,        \* the heaps
    NhNull          \* NULL

ASSUME NhAssumption == NhNull \notin NhHeaps /\ IsFiniteSet(NhHeaps)

VARIABLES
    nhMade,         \* the heaps that have been constructed and not destroyed
    parent, child, prev, next,
    nhFull          \* the heaps that hold memory

nhVars == <<nhMade, parent, child, prev, next, nhFull>>

NhInit ==
    /\ nhMade = {} /\ nhFull = {}
    /\ parent = [h \in NhHeaps |-> NhNull]
    /\ child = parent /\ prev = parent /\ next = parent

NhConstruct(h) ==
    /\ h \notin nhMade
    /\ nhMade' = nhMade \cup {h}
    /\ parent' = [parent EXCEPT ![h] = NhNull]
    /\ child' = [child EXCEPT ![h] = NhNull]
    /\ prev' = [prev EXCEPT ![h] = NhNull]
    /\ next' = [next EXCEPT ![h] = NhNull]
    /\ UNCHANGED nhFull

NhMalloc(h) ==
    /\ h \in nhMade
    /\ nhFull' = nhFull \cup {h}
    /\ UNCHANGED <<nhMade, parent, child, prev, next>>

\* The heaps on a list of children, by the links: after so many links at most.
Listed(first) ==
    LET upTo[n \in 0 .. Cardinality(NhHeaps)] ==
          IF n = 0 THEN {first} \ {NhNull}
          ELSE LET some == upTo[n - 1] IN some \cup ({next[h] : h \in some} \ {NhNull})
    IN  upTo[Cardinality(NhHeaps)]

\* What clear comes to, calling itself for the children.
Cleared(h) ==
    LET upTo[n \in 0 .. Cardinality(NhHeaps)] ==
          IF n = 0 THEN {h}
          ELSE LET some == upTo[n - 1] IN some \cup UNION {Listed(child[g]) : g \in some}
    IN  upTo[Cardinality(NhHeaps)]

NhClear(h) ==
    /\ h \in nhMade
    /\ nhFull' = nhFull \ Cleared(h)
    /\ UNCHANGED <<nhMade, parent, child, prev, next>>

\* A new child goes to the front of the list.
AddChild(h, ch) ==
    /\ {h, ch} \subseteq nhMade
    /\ parent[ch] = NhNull
    /\ h \notin Cleared(ch)
    /\ child' = [child EXCEPT ![h] = ch]
    /\ parent' = [parent EXCEPT ![ch] = h]
    /\ next' = [next EXCEPT ![ch] = child[h]]
    /\ prev' = [g \in NhHeaps |-> IF g = ch THEN NhNull
                                  ELSE IF g = child[h] THEN ch ELSE prev[g]]
    /\ UNCHANGED <<nhMade, nhFull>>

\* removeSibling: its neighbours are linked to each other. (Its own links go with it.)
RemoveSibling(h) ==
    /\ next' = [g \in NhHeaps |-> IF g = h THEN NhNull
                                  ELSE IF g = prev[h] THEN next[h] ELSE next[g]]
    /\ prev' = [g \in NhHeaps |-> IF g = h THEN NhNull
                                  ELSE IF g = next[h] THEN prev[h] ELSE prev[g]]

\* Seeded fault: the first child is removed as if it were the only one.
RemoveOnly(h) ==
    /\ child' = [g \in NhHeaps |-> IF g = parent[h] /\ child[g] = h THEN NhNull ELSE child[g]]
    /\ RemoveSibling(h)

\* removeChild: the first child's place is taken by a neighbour.
RemoveChild(h) ==
    /\ child' = [g \in NhHeaps |->
                   IF g = parent[h] /\ child[g] = h
                   THEN IF prev[h] # NhNull THEN prev[h] ELSE next[h]
                   ELSE child[g]]
    /\ RemoveSibling(h)

\* The destructor. (removeSibling is called once more, to no effect.)
NhDestroy(h) ==
    /\ h \in nhMade
    /\ child[h] = NhNull
    /\ nhFull' = nhFull \ Cleared(h)
    /\ RemoveChild(h)
    /\ nhMade' = nhMade \ {h}
    /\ parent' = [parent EXCEPT ![h] = NhNull]

NhNext ==
    \E h \in NhHeaps :
        \/ NhConstruct(h) \/ NhMalloc(h) \/ NhClear(h) \/ NhDestroy(h)
        \/ \E ch \in NhHeaps \ {h} : AddChild(h, ch)

NhSpec == NhInit /\ [][NhNext]_nhVars
-----------------------------------------------------------------------------
\* The heaps below a heap, by what their parents are.
Beneath(h) ==
    LET upTo[n \in 0 .. Cardinality(NhHeaps)] ==
          IF n = 0 THEN {h}
          ELSE LET some == upTo[n - 1] IN some \cup {g \in nhMade : parent[g] \in some}
    IN  upTo[Cardinality(NhHeaps)]

\* In whatever order heaps come and go, clear reaches exactly a heap and those below
\* it: the lists of children hold every living child once, are linked the same way in
\* both directions, and lead to no heap that has been destroyed.
ClearReachesAllBelow ==
    /\ \A h \in nhMade : Cleared(h) = Beneath(h)
    /\ \A h \in nhMade : /\ next[h] # NhNull => next[h] \in nhMade /\ prev[next[h]] = h
                         /\ prev[h] # NhNull => prev[h] \in nhMade /\ next[prev[h]] = h
    /\ nhFull \subseteq nhMade
=============================================================================
