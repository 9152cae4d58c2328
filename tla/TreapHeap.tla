------------------------------ MODULE TreapHeap ------------------------------
(***************************************************************************)
(* CartesianHeap over Treap: the freed objects are the nodes of a tree     *)
(* that is a search tree by their sizes and a heap by their addresses.     *)
(*                                                                         *)
(* A node is the freed object itself: it is named by its address, which is *)
(* its priority too, and 0 is the null pointer.                            *)
(***************************************************************************)
EXTENDS Naturals, FiniteSets

CONSTANTS
    TrAddresses,    \* where the super heap may put its objects
    TrSizes         \* the sizes that are asked for

ASSUME TrAssumption ==
    /\ TrAddresses \subseteq Nat \ {0} /\ IsFiniteSet(TrAddresses)
    /\ TrSizes \subseteq Nat /\ IsFiniteSet(TrSizes)

VARIABLES
    treap,          \* root; key, parent, left and right of the nodes, by address
    trSize,         \* the objects of the super heap: address -> getSize
    trLive          \* history: the objects the program holds

trVars == <<treap, trSize, trLive>>

\* sizeof (MyTreap::Node)
TreapNodeSize == 24

TrInit ==
    /\ treap = [root |-> 0, key |-> <<>>, parent |-> <<>>, left |-> <<>>, right |-> <<>>]
    /\ trSize = <<>>
    /\ trLive = {}

InTreap(t) == DOMAIN t.key
-----------------------------------------------------------------------------
(* Rotations *)

\* The link from x's parent, or the root, goes to y.
Relinked(t, x, y) ==
    LET p == t.parent[x]
    IN  IF p = 0                THEN [t EXCEPT !.root = y]
        ELSE IF t.left[p] = x   THEN [t EXCEPT !.left[p] = y]
                                ELSE [t EXCEPT !.right[p] = y]

\* Node a, if there is one, gets another parent.
Adopted(t, a, p) == IF a = 0 THEN t ELSE [t EXCEPT !.parent[a] = p]

RotateLeft(t, x) ==
    LET r == t.right[x]
    IN  [Relinked(Adopted(t, t.left[r], x), x, r) EXCEPT
            !.right[x] = t.left[r], !.parent[x] = r, !.left[r] = x, !.parent[r] = t.parent[x]]

\* Seeded fault: the child that changes sides keeps its parent pointer.
RotateRightUnadopted(t, x) ==
    LET l == t.left[x]
    IN  [Relinked(t, x, l) EXCEPT
            !.left[x] = t.right[l], !.parent[x] = l, !.right[l] = x, !.parent[l] = t.parent[x]]

RotateRight(t, x) ==
    LET l == t.left[x]
    IN  [Relinked(Adopted(t, t.right[l], x), x, l) EXCEPT
            !.left[x] = t.right[l], !.parent[x] = l, !.right[l] = x, !.parent[l] = t.parent[x]]
-----------------------------------------------------------------------------
(* Treap *)

\* The node below which a new node with this key goes, from the root down.
LeafFor(t, key) ==
    LET leaf[x \in InTreap(t)] ==
            LET next == IF key < t.key[x] THEN t.left[x] ELSE t.right[x]
            IN  IF next = 0 THEN x ELSE leaf[next]
    IN  leaf[t.root]

\* A parent of greater priority gives its place to x.
Lifted(t, x) ==
    LET p == t.parent[x]
    IN  IF p = 0 \/ p <= x      THEN t
        ELSE IF t.left[p] = x   THEN RotateRight(t, p)
                                ELSE RotateLeft(t, p)

\* While there is one: x cannot go up more often than there are nodes.
RotatedUp(t, x) ==
    LET most == Cardinality(InTreap(t))
        after[k \in 0 .. most] == IF k = 0 THEN t ELSE Lifted(after[k - 1], x)
    IN  after[most]

TreapInsert(t, x, key) ==
    LET p == IF t.root = 0 THEN 0 ELSE LeafFor(t, key)
        With(f, v) == [a \in InTreap(t) \cup {x} |-> IF a = x THEN v ELSE f[a]]
        grown == [root |-> t.root, key |-> With(t.key, key), parent |-> With(t.parent, p),
                  left |-> With(t.left, 0), right |-> With(t.right, 0)]
        linked == IF p = 0                  THEN [grown EXCEPT !.root = x]
                  ELSE IF key < t.key[p]    THEN [grown EXCEPT !.left[p] = x]
                                            ELSE [grown EXCEPT !.right[p] = x]
    IN  RotatedUp(linked, x)

\* If x is not a leaf, a child takes its place: the one that comes first.
Lowered(t, x) ==
    LET l == t.left[x]
        r == t.right[x]
    IN  IF l = 0 /\ r = 0                   THEN t
        ELSE IF r = 0 \/ (l # 0 /\ l < r)   THEN RotateRight(t, x)
                                            ELSE RotateLeft(t, x)

\* While it is not: nor can it go down more often.
RotatedDown(t, x) ==
    LET most == Cardinality(InTreap(t))
        after[k \in 0 .. most] == IF k = 0 THEN t ELSE Lowered(after[k - 1], x)
    IN  after[most]

TreapRemove(t, x) ==
    LET clipped == Relinked(RotatedDown(t, x), x, 0)
        Without(f) == [a \in InTreap(t) \ {x} |-> f[a]]
    IN  [root |-> clipped.root, key |-> Without(clipped.key), parent |-> Without(clipped.parent),
         left |-> Without(clipped.left), right |-> Without(clipped.right)]

\* The walk of lookupGeq: an exact match ends it, the last node passed on the
\* way left is the best so far.
LookupGeq(t, key) ==
    LET Node == InTreap(t) \cup {0}
        walk[at \in Node \X Node] ==
            LET x == at[1]
                best == at[2]
            IN  IF x = 0                THEN best
                ELSE IF key = t.key[x]  THEN x
                ELSE IF t.key[x] < key  THEN walk[<<t.right[x], best>>]
                ELSE walk[<<t.left[x], IF best = 0 \/ t.key[best] > t.key[x] THEN x ELSE best>>]
    IN  walk[<<t.root, 0>>]
-----------------------------------------------------------------------------
(* CartesianHeap *)

TrMalloc(request) ==
    LET sz == IF request < TreapNodeSize THEN TreapNodeSize ELSE request
        x == LookupGeq(treap, sz)
    IN  IF x # 0
        THEN /\ treap' = TreapRemove(treap, x)
             /\ trLive' = trLive \cup {x}
             /\ UNCHANGED trSize
        ELSE \E a \in TrAddresses \ DOMAIN trSize :
             /\ trSize' = [b \in DOMAIN trSize \cup {a} |-> IF b = a THEN sz ELSE trSize[b]]
             /\ trLive' = trLive \cup {a}
             /\ UNCHANGED treap

TrFree(x) ==
    /\ x \in trLive
    /\ treap' = TreapInsert(treap, x, trSize[x])
    /\ trLive' = trLive \ {x}
    /\ UNCHANGED trSize

\* remove: a heap on top takes a freed object (to coalesce it, say).
TrRemove(x) ==
    /\ x \in InTreap(treap)
    /\ treap' = TreapRemove(treap, x)
    /\ trLive' = trLive \cup {x}
    /\ UNCHANGED trSize

TrNext ==
    \/ \E n \in TrSizes : TrMalloc(n)
    \/ \E x \in TrAddresses : TrFree(x) \/ TrRemove(x)

TrSpec == TrInit /\ [][TrNext]_trVars
-----------------------------------------------------------------------------
\* The nodes that are reached from a node, itself included.
NodesBeneath(t) ==
    LET below[x \in InTreap(t) \cup {0}] ==
            IF x = 0 THEN {} ELSE {x} \cup below[t.left[x]] \cup below[t.right[x]]
    IN  below

\* What bstProperty and heapProperty ask of every node.
BstProperty(t) ==
    \A x \in InTreap(t) :
        /\ \A y \in NodesBeneath(t)[t.left[x]] : t.key[y] <= t.key[x]
        /\ \A y \in NodesBeneath(t)[t.right[x]] : t.key[x] <= t.key[y]

HeapProperty(t) == \A x \in InTreap(t) : \A y \in {t.left[x], t.right[x]} \ {0} : x <= y

\* However inserts, removals and their rotations follow each other, the tree holds
\* every freed object once with parent pointers that lead back up, its two orders
\* hold, and the lookup of any size finds a smallest object that is large enough.
TreapFindsBestFit ==
    /\ NodesBeneath(treap)[treap.root] = DOMAIN trSize \ trLive
    /\ treap.root # 0 =>
            /\ \A x \in InTreap(treap), y \in InTreap(treap) \cup {0} :
                    treap.parent[x] = y <=>
                        IF y = 0 THEN treap.root = x ELSE x \in {treap.left[y], treap.right[y]}
            /\ BstProperty(treap) /\ HeapProperty(treap)
            /\ \A n \in TrSizes :
                    LET fit == {x \in InTreap(treap) : trSize[x] >= n}
                        found == LookupGeq(treap, n)
                    IN  IF fit = {} THEN found = 0
                        ELSE found \in fit /\ \A x \in fit : trSize[found] <= trSize[x]
=============================================================================
