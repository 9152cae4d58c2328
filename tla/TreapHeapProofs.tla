-------------------------- MODULE TreapHeapProofs --------------------------
(***************************************************************************)
(* The treap is in both orders and finds the best fit (TreapHeap), for     *)
(* every set of addresses and sizes.                                       *)
(*                                                                         *)
(* First trees as they are drawn: what a rotation makes of the links and   *)
(* of the nodes of each subtree, with its mirror image.  Then the fields   *)
(* of the record, the loops that rotate, and the walks down; last what     *)
(* insert and remove yield, and the steps.                                 *)
(***************************************************************************)
EXTENDS ProofFacts, FiniteSetTheorems, TreapHeap

-----------------------------------------------------------------------------
(* Trees *)

\* A tree with the nodes D, and S the nodes of each subtree: what is in the left one comes
\* in the order W before the node, what is in the right one behind.
TrLinks(D, root, P, L, R, S) ==
    /\ 0 \notin D /\ root \in D \cup {0} /\ P \in [D -> D \cup {0}] /\ L \in [D -> D \cup {0}] /\ R \in [D -> D \cup {0}]
    /\ S \in [D \cup {0} -> SUBSET D] /\ S[0] = {} /\ S[root] = D
    /\ \A x \in D, y \in D : P[x] = y <=> (L[y] = x \/ R[y] = x)
    /\ \A x \in D : P[x] = 0 <=> root = x

\* The two subtrees of a node are apart ...
TrParts(D, L, R, S) ==
    \A x \in D : /\ S[x] = ({x} \cup S[L[x]]) \cup S[R[x]]
                 /\ x \notin S[L[x]] /\ x \notin S[R[x]] /\ \A y \in S[L[x]] : y \notin S[R[x]]

\* ... each subtree lies in those of the nodes above ...
TrNested(D, P, S) == \A w \in D, z \in D : z \in S[w] => S[z] \subseteq S[w] /\ (z # w => P[z] \in S[w])

\* ... and the nodes are sorted from left to right.
TrSorted(D, L, R, W, S) ==
    \A x \in D : (\A y \in S[L[x]] : <<y, x>> \in W) /\ (\A y \in S[R[x]] : <<x, y>> \in W)

TrTree(D, root, P, L, R, W, S) ==
    TrLinks(D, root, P, L, R, S) /\ TrParts(D, L, R, S) /\ TrNested(D, P, S) /\ TrSorted(D, L, R, W, S)

TrReversed(D, W, V) == \A a \in D, b \in D : <<a, b>> \in V <=> <<b, a>> \in W

\* The mirror image of a tree is a tree.
LEMMA MirroredTree ==
    ASSUME NEW D, NEW root, NEW P, NEW L, NEW R, NEW W, NEW S, TrTree(D, root, P, L, R, W, S), NEW V, TrReversed(D, W, V)
    PROVE  TrTree(D, root, P, R, L, V, S)
<1>1. TrLinks(D, root, P, R, L, S)
    BY DEF TrTree, TrLinks
<1>2. TrParts(D, R, L, S)
    BY DEF TrTree, TrParts
<1>3. TrSorted(D, R, L, V, S)
    <2>1. \A x \in D : S[L[x]] \subseteq D /\ S[R[x]] \subseteq D
        BY DEF TrTree, TrLinks
    <2>2. QED BY <2>1 DEF TrTree, TrSorted, TrReversed
<1>4. QED BY <1>1, <1>2, <1>3 DEF TrTree

LEMMA ReversedBack == ASSUME NEW D, NEW W, NEW V, TrReversed(D, W, V) PROVE TrReversed(D, V, W)
BY DEF TrReversed

\* The left child l of x takes its place.
TrTurned(D, root, P, L, R, x, l, root2, P2, L2, R2) ==
    /\ root2 = IF P[x] = 0 THEN l ELSE root
    /\ P2 = [y \in D |-> IF y = x THEN l ELSE IF y = l THEN P[x] ELSE IF y = R[l] THEN x ELSE P[y]]
    /\ L2 = [y \in D |-> IF y = x THEN R[l] ELSE IF L[y] = x THEN l ELSE L[y]]
    /\ R2 = [y \in D |-> IF y = l THEN x ELSE IF R[y] = x THEN l ELSE R[y]]

\* So the subtrees of x and l are others.
TrMoved(L, R, S, x, l, S2) ==
    S2 = [y \in DOMAIN S |-> IF y = x THEN ({x} \cup S[R[l]]) \cup S[R[x]] ELSE IF y = l THEN S[x] ELSE S[y]]

\* What is where, before x and its left child l change places.
LEMMA TurnPlaces ==
    ASSUME NEW D, NEW root, NEW P, NEW L, NEW R, NEW S, TrLinks(D, root, P, L, R, S), TrParts(D, L, R, S), NEW x \in D,
           NEW l \in D, l = L[x]
    PROVE  /\ x # l /\ P[l] = x /\ l # 0 /\ x # 0 /\ L[l] # x /\ R[l] # x /\ R[x] # x /\ R[x] # l /\ L[l] # l /\ R[l] # l
           /\ l \in S[l] /\ l \in S[x] /\ x \notin S[l] /\ l \notin S[R[x]] /\ l \notin S[R[l]] /\ x \notin S[R[x]]
           /\ x \notin S[R[l]] /\ x \notin S[L[l]] /\ l \notin S[L[l]]
           /\ S[x] = ({x} \cup S[l]) \cup S[R[x]] /\ S[l] = ({l} \cup S[L[l]]) \cup S[R[l]]
           /\ R[l] # 0 => P[R[l]] = l /\ R[l] \in D
           /\ R[x] # 0 => P[R[x]] = x /\ R[x] \in D
           /\ L[l] # 0 => P[L[l]] = l /\ L[l] \in D
           /\ P[x] \in D \cup {0} /\ P[x] # l /\ P[x] # x
<1>1. S[x] = ({x} \cup S[l]) \cup S[R[x]] /\ x \notin S[l] /\ x \notin S[R[x]] /\ \A y \in S[l] : y \notin S[R[x]]
    BY DEF TrParts
<1>2. S[l] = ({l} \cup S[L[l]]) \cup S[R[l]] /\ l \notin S[L[l]] /\ l \notin S[R[l]]
    BY DEF TrParts
<1>3. \A y \in D : y \in S[y]
    BY DEF TrParts
<1>4. P[l] = x /\ 0 \notin D
    BY DEF TrLinks
<1>5. /\ P[x] \in D \cup {0} /\ L[l] \in D \cup {0} /\ R[l] \in D \cup {0} /\ R[x] \in D \cup {0}
      /\ R[l] \in D => P[R[l]] = l
      /\ R[x] \in D => P[R[x]] = x
      /\ L[l] \in D => P[L[l]] = l
    BY DEF TrLinks
<1>6. P[x] # l
    <2>1. P[x] = l => L[l] = x \/ R[l] = x
        BY DEF TrLinks
    <2>2. L[l] # x /\ R[l] # x
        BY <1>1, <1>2, <1>3
    <2>3. QED BY <2>1, <2>2
<1>7. P[x] # x
    <2>1. P[x] = x => L[x] = x \/ R[x] = x
        BY DEF TrLinks
    <2>2. L[x] # x /\ R[x] # x
        BY <1>1, <1>3
    <2>3. QED BY <2>1, <2>2
<1>8. QED BY <1>1, <1>2, <1>3, <1>4, <1>5, <1>6, <1>7

TrTransitive(D, W) == \A a \in D, b \in D, c \in D : <<a, b>> \in W /\ <<b, c>> \in W => <<a, c>> \in W

LEMMA TurnedLinks ==
    ASSUME NEW D, NEW root, NEW P, NEW L, NEW R, NEW S, TrLinks(D, root, P, L, R, S), TrParts(D, L, R, S), NEW x \in D,
           NEW l \in D, l = L[x], NEW root2, NEW P2, NEW L2, NEW R2, TrTurned(D, root, P, L, R, x, l, root2, P2, L2, R2),
           NEW S2, TrMoved(L, R, S, x, l, S2)
    PROVE  TrLinks(D, root2, P2, L2, R2, S2)
<1>1. /\ x # l /\ P[l] = x /\ l # 0 /\ x # 0 /\ L[l] # x /\ R[l] # x /\ R[x] # x /\ R[x] # l /\ L[l] # l /\ R[l] # l
      /\ R[l] # 0 => P[R[l]] = l /\ R[l] \in D
      /\ R[x] # 0 => P[R[x]] = x /\ R[x] \in D
      /\ P[x] \in D \cup {0} /\ P[x] # l /\ P[x] # x
    BY TurnPlaces
<1>2. /\ 0 \notin D /\ root \in D \cup {0} /\ P \in [D -> D \cup {0}] /\ L \in [D -> D \cup {0}] /\ R \in [D -> D \cup {0}]
      /\ S \in [D \cup {0} -> SUBSET D] /\ S[0] = {} /\ S[root] = D
    BY DEF TrLinks
<1>3. /\ \A a \in D, b \in D : P[a] = b <=> (L[b] = a \/ R[b] = a)
      /\ \A a \in D : P[a] = 0 <=> root = a
    BY DEF TrLinks
<1>4. \A a \in D : P2[a] = IF a = x THEN l ELSE IF a = l THEN P[x] ELSE IF a = R[l] THEN x ELSE P[a]
    BY DEF TrTurned
<1>5. \A a \in D : L2[a] = IF a = x THEN R[l] ELSE IF L[a] = x THEN l ELSE L[a]
    BY DEF TrTurned
<1>6. \A a \in D : R2[a] = IF a = l THEN x ELSE IF R[a] = x THEN l ELSE R[a]
    BY DEF TrTurned
<1>7. S2 = [y \in D \cup {0} |-> IF y = x THEN ({x} \cup S[R[l]]) \cup S[R[x]] ELSE IF y = l THEN S[x] ELSE S[y]]
    BY <1>2 DEF TrMoved
<1>8. root2 = IF P[x] = 0 THEN l ELSE root
    BY DEF TrTurned
<1>9. P2 \in [D -> D \cup {0}]
    BY <1>1, <1>2 DEF TrTurned
<1>10. L2 \in [D -> D \cup {0}] /\ R2 \in [D -> D \cup {0}]
    BY <1>1, <1>2 DEF TrTurned
<1>11. S2 \in [D \cup {0} -> SUBSET D] /\ S2[0] = {}
    BY ONLY <1>1, <1>2, <1>7, x \in D, l \in D
<1>12. root2 \in D \cup {0} /\ S2[root2] = D
    BY ONLY <1>1, <1>2, <1>3, <1>7, <1>8, x \in D, l \in D
<1>13. ASSUME NEW a \in D, NEW b \in D PROVE P2[a] = b <=> (L2[b] = a \/ R2[b] = a)
    <2>1. L[b] = x <=> (b = P[x] /\ L[b] = x)
        BY <1>3
    <2>2. CASE a = x
        BY ONLY <1>1, <1>2, <1>3, <1>4, <1>5, <1>6, <2>2, a \in D, b \in D, x \in D, l \in D, l = L[x]
    <2>3. CASE a = l
        BY ONLY <1>1, <1>2, <1>3, <1>4, <1>5, <1>6, <2>3, a \in D, b \in D, x \in D, l \in D, l = L[x]
    <2>4. CASE a = R[l]
        <3>1. P2[a] = x /\ P[a] = l /\ a # x /\ a # l
            BY <1>1, <1>2, <1>4, <2>4
        <3>2. P[a] = b <=> (L[b] = a \/ R[b] = a)
            BY <1>3
        <3>3. L2[x] = a /\ R2[l] = x
            BY <1>5, <1>6, <2>4
        <3>4. CASE b = x
            BY <3>1, <3>3, <3>4
        <3>5. CASE b # x
            <4>1. L2[b] = (IF L[b] = x THEN l ELSE L[b]) /\ R2[b] = (IF b = l THEN x ELSE IF R[b] = x THEN l ELSE R[b])
                BY <1>5, <1>6, <3>5
            <4>2. L[l] # a
                <5>1. L[l] # R[l]
                    <6>1. \A y \in S[L[l]] : y \notin S[R[l]]
                        BY DEF TrParts
                    <6>2. R[l] \in D /\ R[l] \in S[R[l]]
                        BY <1>2, <2>4 DEF TrParts
                    <6>3. QED BY <6>1, <6>2
                <5>2. QED BY <2>4, <5>1
            <4>3. QED BY <3>1, <3>2, <3>5, <4>1, <4>2
        <3>6. QED BY <3>4, <3>5
    <2>5. CASE a # x /\ a # l /\ a # R[l]
        BY ONLY <1>1, <1>2, <1>3, <1>4, <1>5, <1>6, <2>5, a \in D, b \in D, x \in D, l \in D, l = L[x]
    <2>6. QED BY <2>2, <2>3, <2>4, <2>5
<1>14. ASSUME NEW a \in D PROVE P2[a] = 0 <=> root2 = a
    BY ONLY <1>1, <1>2, <1>3, <1>4, <1>8, a \in D, x \in D, l \in D, l = L[x]
<1>15. QED BY <1>2, <1>9, <1>10, <1>11, <1>12, <1>13, <1>14 DEF TrLinks

LEMMA TurnedParts ==
    ASSUME NEW D, NEW root, NEW P, NEW L, NEW R, NEW S, TrLinks(D, root, P, L, R, S), TrParts(D, L, R, S), NEW x \in D,
           NEW l \in D, l = L[x], NEW root2, NEW P2, NEW L2, NEW R2, TrTurned(D, root, P, L, R, x, l, root2, P2, L2, R2),
           NEW S2, TrMoved(L, R, S, x, l, S2)
    PROVE  TrParts(D, L2, R2, S2)
<1>1. /\ x # l /\ P[l] = x /\ l # 0 /\ x # 0 /\ L[l] # x /\ R[l] # x /\ R[x] # x /\ R[x] # l /\ L[l] # l /\ R[l] # l
      /\ l \in S[l] /\ l \in S[x] /\ x \notin S[l] /\ l \notin S[R[x]] /\ l \notin S[R[l]] /\ x \notin S[R[x]]
      /\ x \notin S[R[l]] /\ x \notin S[L[l]] /\ l \notin S[L[l]]
      /\ S[x] = ({x} \cup S[l]) \cup S[R[x]] /\ S[l] = ({l} \cup S[L[l]]) \cup S[R[l]]
    BY TurnPlaces
<1>2. /\ L \in [D -> D \cup {0}] /\ R \in [D -> D \cup {0}] /\ 0 \notin D
      /\ S \in [D \cup {0} -> SUBSET D] /\ S[0] = {}
      /\ \A b \in D : L[b] = l => b = x
      /\ \A b \in D : R[b] = l => b = x
    <2>1. \A b \in D : L[b] = l \/ R[b] = l => b = x
        BY <1>1 DEF TrLinks
    <2>2. QED BY <2>1 DEF TrLinks
<1>3. \A a \in D : /\ L2[a] = (IF a = x THEN R[l] ELSE IF L[a] = x THEN l ELSE L[a])
                   /\ R2[a] = (IF a = l THEN x ELSE IF R[a] = x THEN l ELSE R[a])
    BY DEF TrTurned
<1>4. \A y \in D \cup {0} : S2[y] = IF y = x THEN ({x} \cup S[R[l]]) \cup S[R[x]] ELSE IF y = l THEN S[x] ELSE S[y]
    BY <1>2 DEF TrMoved
<1>5. \A a \in D : /\ S[a] = ({a} \cup S[L[a]]) \cup S[R[a]]
                   /\ a \notin S[L[a]] /\ a \notin S[R[a]] /\ \A y \in S[L[a]] : y \notin S[R[a]]
    BY DEF TrParts
<1>6. SUFFICES ASSUME NEW a \in D
               PROVE  /\ S2[a] = ({a} \cup S2[L2[a]]) \cup S2[R2[a]]
                      /\ a \notin S2[L2[a]] /\ a \notin S2[R2[a]] /\ \A y \in S2[L2[a]] : y \notin S2[R2[a]]
    BY DEF TrParts
<1>7. L[a] \in D \cup {0} /\ R[a] \in D \cup {0} /\ L[l] \in D \cup {0} /\ R[l] \in D \cup {0} /\ R[x] \in D \cup {0}
    BY <1>2
<1>8. \A y \in S[l] : y \notin S[R[x]]
    BY <1>5
<1>9. CASE a = x
    <2>1. S2[L2[a]] = S[R[l]] /\ S2[R2[a]] = S[R[x]] /\ S2[a] = ({x} \cup S[R[l]]) \cup S[R[x]]
        <3>1. L2[a] = R[l] /\ R2[a] = R[x]
            BY <1>1, <1>3, <1>9
        <3>2. QED BY <1>1, <1>4, <1>7, <1>9, <3>1
    <2>2. QED BY <1>1, <1>8, <1>9, <2>1
<1>10. CASE a = l
    <2>1. L2[a] = L[l] /\ R2[a] = x
        BY <1>1, <1>3, <1>10
    <2>2. S2[L2[a]] = S[L[l]] /\ S2[R2[a]] = ({x} \cup S[R[l]]) \cup S[R[x]] /\ S2[a] = S[x]
        BY <1>1, <1>4, <1>7, <1>10, <2>1
    <2>3. \A y \in S[L[l]] : y \notin S[R[l]]
        BY <1>5
    <2>4. QED BY <1>1, <1>8, <1>10, <2>2, <2>3
<1>11. CASE a # x /\ a # l
    <2>1. S2[a] = S[a]
        BY <1>4, <1>11
    <2>2. S2[L2[a]] = S[L[a]]
        <3>1. L2[a] = (IF L[a] = x THEN l ELSE L[a]) /\ L[a] # l
            BY <1>2, <1>3, <1>11
        <3>2. S2[l] = S[x]
            BY <1>1, <1>4
        <3>3. L[a] # x => S2[L[a]] = S[L[a]]
            BY <1>4, <1>7, <3>1
        <3>4. QED BY <3>1, <3>2, <3>3
    <2>3. S2[R2[a]] = S[R[a]]
        <3>1. R2[a] = (IF R[a] = x THEN l ELSE R[a]) /\ R[a] # l
            BY <1>2, <1>3, <1>11
        <3>2. S2[l] = S[x]
            BY <1>1, <1>4
        <3>3. R[a] # x => S2[R[a]] = S[R[a]]
            BY <1>4, <1>7, <3>1
        <3>4. QED BY <3>1, <3>2, <3>3
    <2>4. QED BY <1>5, <2>1, <2>2, <2>3
<1>12. QED BY <1>9, <1>10, <1>11

LEMMA TurnedNested ==
    ASSUME NEW D, NEW root, NEW P, NEW L, NEW R, NEW S, TrLinks(D, root, P, L, R, S), TrParts(D, L, R, S), TrNested(D, P, S),
           NEW x \in D, NEW l \in D, l = L[x], NEW root2, NEW P2, NEW L2, NEW R2,
           TrTurned(D, root, P, L, R, x, l, root2, P2, L2, R2), NEW S2, TrMoved(L, R, S, x, l, S2)
    PROVE  TrNested(D, P2, S2)
<1>1. /\ x # l /\ P[l] = x /\ l # 0 /\ x # 0 /\ L[l] # x /\ R[l] # x /\ R[x] # x /\ R[x] # l /\ L[l] # l /\ R[l] # l
      /\ l \in S[l] /\ l \in S[x] /\ x \notin S[l] /\ l \notin S[R[x]] /\ l \notin S[R[l]] /\ x \notin S[R[x]]
      /\ x \notin S[R[l]] /\ x \notin S[L[l]] /\ l \notin S[L[l]]
      /\ S[x] = ({x} \cup S[l]) \cup S[R[x]] /\ S[l] = ({l} \cup S[L[l]]) \cup S[R[l]]
      /\ R[l] # 0 => P[R[l]] = l /\ R[l] \in D
      /\ R[x] # 0 => P[R[x]] = x /\ R[x] \in D
    BY TurnPlaces
<1>2. 0 \notin D /\ S \in [D \cup {0} -> SUBSET D] /\ S[0] = {}
    BY DEF TrLinks
<1>3. \A a \in D : P2[a] = IF a = x THEN l ELSE IF a = l THEN P[x] ELSE IF a = R[l] THEN x ELSE P[a]
    BY DEF TrTurned
<1>4. \A y \in D \cup {0} : S2[y] = IF y = x THEN ({x} \cup S[R[l]]) \cup S[R[x]] ELSE IF y = l THEN S[x] ELSE S[y]
    BY <1>2 DEF TrMoved
<1>5. \A w \in D, z \in D : z \in S[w] => S[z] \subseteq S[w] /\ (z # w => P[z] \in S[w])
    BY DEF TrNested
<1>6. x \in S[x] /\ S[l] \subseteq S[x] /\ S[R[x]] \subseteq S[x] /\ S[R[l]] \subseteq S[l]
    BY <1>1
<1>7. SUFFICES ASSUME NEW w \in D, NEW z \in D, z \in S2[w]
               PROVE  S2[z] \subseteq S2[w] /\ (z # w => P2[z] \in S2[w])
    BY DEF TrNested
<1>8. CASE w = x
    <2>1. S2[w] = ({x} \cup S[R[l]]) \cup S[R[x]]
        BY <1>4, <1>8
    <2>2. CASE z = x
        BY <1>8, <2>2
    <2>3. CASE z \in S[R[l]]
        <3>1. z # x /\ z # l /\ R[l] \in D
            BY <1>1, <1>2, <2>3
        <3>2. S2[z] = S[z] /\ S[z] \subseteq S[R[l]]
            BY <1>4, <1>5, <2>3, <3>1
        <3>3. z = R[l] => P2[z] = x
            BY <1>3, <3>1
        <3>4. z # R[l] => P2[z] = P[z] /\ P[z] \in S[R[l]]
            BY <1>3, <1>5, <2>3, <3>1
        <3>5. QED BY <2>1, <3>2, <3>3, <3>4
    <2>4. CASE z \in S[R[x]]
        <3>1. z # x /\ z # l /\ R[x] \in D
            BY <1>1, <1>2, <2>4
        <3>2. S2[z] = S[z] /\ S[z] \subseteq S[R[x]]
            BY <1>4, <1>5, <2>4, <3>1
        <3>3. z \notin S[R[l]]
            BY <1>6, <2>4 DEF TrParts
        <3>4. z # R[l]
            <4>1. z \in S[z]
                BY DEF TrParts
            <4>2. QED BY <3>3, <4>1
        <3>5. P2[z] = P[z]
            BY <1>3, <3>1, <3>4
        <3>6. z = R[x] => P[z] = x
            BY <1>1, <1>2, <3>1
        <3>7. z # R[x] => P[z] \in S[R[x]]
            BY <1>5, <2>4, <3>1
        <3>8. QED BY <2>1, <3>2, <3>5, <3>6, <3>7
    <2>5. QED BY <1>7, <2>1, <2>2, <2>3, <2>4
<1>9. CASE w = l
    <2>1. S2[w] = S[x]
        BY <1>1, <1>4, <1>9
    <2>2. CASE z = x
        <3>1. P2[z] = l /\ S2[z] = ({x} \cup S[R[l]]) \cup S[R[x]]
            BY <1>3, <1>4, <2>2
        <3>2. QED BY <1>1, <1>6, <2>1, <3>1
    <2>3. CASE z = l
        BY <1>9, <2>3
    <2>4. CASE z # x /\ z # l
        <3>1. S2[z] = S[z] /\ S[z] \subseteq S[x] /\ P[z] \in S[x]
            BY <1>4, <1>5, <1>7, <2>1, <2>4
        <3>2. P2[z] = x \/ P2[z] = P[z]
            BY <1>3, <2>4
        <3>3. QED BY <1>6, <2>1, <3>1, <3>2
    <2>5. QED BY <2>2, <2>3, <2>4
<1>10. CASE w # x /\ w # l
    <2>1. S2[w] = S[w]
        BY <1>4, <1>10
    <2>2. z \in S[w] /\ S[z] \subseteq S[w] /\ (z # w => P[z] \in S[w])
        BY <1>5, <1>7, <2>1
    <2>3. CASE z = x
        <3>1. P2[z] = l /\ S2[z] = ({x} \cup S[R[l]]) \cup S[R[x]]
            BY <1>3, <1>4, <2>3
        <3>2. QED BY <1>1, <1>6, <2>1, <2>2, <2>3, <3>1
    <2>4. CASE z = l
        <3>1. x \in S[w]
            BY <1>1, <1>10, <2>2, <2>4
        <3>2. S[x] \subseteq S[w] /\ P[x] \in S[w]
            BY <1>5, <1>10, <3>1
        <3>3. P2[z] = P[x] /\ S2[z] = S[x]
            BY <1>1, <1>3, <1>4, <2>4
        <3>4. QED BY <2>1, <3>2, <3>3
    <2>5. CASE z # x /\ z # l
        <3>1. S2[z] = S[z]
            BY <1>4, <2>5
        <3>2. CASE z = R[l] /\ z # w
            <4>1. P2[z] = x /\ P[z] = l
                BY <1>1, <1>2, <1>3, <2>5, <3>2
            <4>2. l \in S[w]
                BY <2>2, <3>2, <4>1
            <4>3. x \in S[w]
                BY <1>1, <1>5, <1>10, <4>2
            <4>4. QED BY <2>1, <2>2, <3>1, <4>1, <4>3
        <3>3. CASE z # R[l]
            <4>1. P2[z] = P[z]
                BY <1>3, <2>5, <3>3
            <4>2. QED BY <2>1, <2>2, <3>1, <4>1
        <3>4. QED BY <2>1, <2>2, <3>1, <3>2, <3>3
    <2>6. QED BY <2>3, <2>4, <2>5
<1>11. QED BY <1>8, <1>9, <1>10

LEMMA TurnedSorted ==
    ASSUME NEW D, NEW root, NEW P, NEW L, NEW R, NEW W, NEW S, TrLinks(D, root, P, L, R, S), TrParts(D, L, R, S),
           TrSorted(D, L, R, W, S), TrTransitive(D, W), NEW x \in D, NEW l \in D, l = L[x], NEW root2, NEW P2, NEW L2, NEW R2,
           TrTurned(D, root, P, L, R, x, l, root2, P2, L2, R2), NEW S2, TrMoved(L, R, S, x, l, S2)
    PROVE  TrSorted(D, L2, R2, W, S2)
<1>1. /\ x # l /\ P[l] = x /\ l # 0 /\ x # 0 /\ L[l] # x /\ R[l] # x /\ R[x] # x /\ R[x] # l /\ L[l] # l /\ R[l] # l
      /\ l \in S[l]
      /\ S[x] = ({x} \cup S[l]) \cup S[R[x]] /\ S[l] = ({l} \cup S[L[l]]) \cup S[R[l]]
    BY TurnPlaces
<1>2. /\ L \in [D -> D \cup {0}] /\ R \in [D -> D \cup {0}] /\ 0 \notin D
      /\ S \in [D \cup {0} -> SUBSET D] /\ S[0] = {}
      /\ \A b \in D : L[b] = l => b = x
      /\ \A b \in D : R[b] = l => b = x
    <2>1. \A b \in D : L[b] = l \/ R[b] = l => b = x
        BY <1>1 DEF TrLinks
    <2>2. QED BY <2>1 DEF TrLinks
<1>3. \A a \in D : /\ L2[a] = (IF a = x THEN R[l] ELSE IF L[a] = x THEN l ELSE L[a])
                   /\ R2[a] = (IF a = l THEN x ELSE IF R[a] = x THEN l ELSE R[a])
    BY DEF TrTurned
<1>4. \A y \in D \cup {0} : S2[y] = IF y = x THEN ({x} \cup S[R[l]]) \cup S[R[x]] ELSE IF y = l THEN S[x] ELSE S[y]
    BY <1>2 DEF TrMoved
<1>5. \A a \in D : (\A y \in S[L[a]] : <<y, a>> \in W) /\ (\A y \in S[R[a]] : <<a, y>> \in W)
    BY DEF TrSorted
<1>6. SUFFICES ASSUME NEW a \in D
               PROVE  (\A y \in S2[L2[a]] : <<y, a>> \in W) /\ (\A y \in S2[R2[a]] : <<a, y>> \in W)
    BY DEF TrSorted
<1>7. L[a] \in D \cup {0} /\ R[a] \in D \cup {0} /\ L[l] \in D \cup {0} /\ R[l] \in D \cup {0} /\ R[x] \in D \cup {0}
    BY <1>2
<1>9. CASE a = x
    <2>1. L2[a] = R[l] /\ R2[a] = R[x]
        BY <1>1, <1>3, <1>9
    <2>2. S2[L2[a]] = S[R[l]] /\ S2[R2[a]] = S[R[x]]
        BY <1>1, <1>4, <1>7, <1>9, <2>1
    <2>3. \A y \in S[l] : <<y, x>> \in W
        BY <1>5
    <2>4. QED BY <1>1, <1>5, <1>9, <2>2, <2>3
<1>10. CASE a = l
    <2>1. L2[a] = L[l] /\ R2[a] = x
        BY <1>1, <1>3, <1>10
    <2>2. S2[L2[a]] = S[L[l]] /\ S2[R2[a]] = ({x} \cup S[R[l]]) \cup S[R[x]]
        BY <1>1, <1>4, <1>7, <1>10, <2>1
    <2>3. <<l, x>> \in W
        BY <1>1, <1>5
    <2>4. ASSUME NEW y \in S[R[x]] PROVE <<l, y>> \in W
        <3>1. <<x, y>> \in W /\ y \in D
            BY <1>2, <1>5, <1>7
        <3>2. QED BY <2>3, <3>1 DEF TrTransitive
    <2>5. QED BY <1>5, <1>10, <2>2, <2>3, <2>4
<1>11. CASE a # x /\ a # l
    <2>2. S2[L2[a]] = S[L[a]]
        <3>1. L2[a] = (IF L[a] = x THEN l ELSE L[a]) /\ L[a] # l
            BY <1>2, <1>3, <1>11
        <3>2. S2[l] = S[x]
            BY <1>1, <1>4
        <3>3. L[a] # x => S2[L[a]] = S[L[a]]
            BY <1>4, <1>7, <3>1
        <3>4. QED BY <3>1, <3>2, <3>3
    <2>3. S2[R2[a]] = S[R[a]]
        <3>1. R2[a] = (IF R[a] = x THEN l ELSE R[a]) /\ R[a] # l
            BY <1>2, <1>3, <1>11
        <3>2. S2[l] = S[x]
            BY <1>1, <1>4
        <3>3. R[a] # x => S2[R[a]] = S[R[a]]
            BY <1>4, <1>7, <3>1
        <3>4. QED BY <3>1, <3>2, <3>3
    <2>4. QED BY <1>5, <2>2, <2>3
<1>12. QED BY <1>9, <1>10, <1>11

\* A rotation yields a tree.
LEMMA TurnedTree ==
    ASSUME NEW D, NEW root, NEW P, NEW L, NEW R, NEW W, NEW S, TrTree(D, root, P, L, R, W, S), TrTransitive(D, W),
           NEW x \in D, NEW l \in D, l = L[x], NEW root2, NEW P2, NEW L2, NEW R2,
           TrTurned(D, root, P, L, R, x, l, root2, P2, L2, R2), NEW S2, TrMoved(L, R, S, x, l, S2)
    PROVE  TrTree(D, root2, P2, L2, R2, W, S2)
<1>1. TrLinks(D, root, P, L, R, S) /\ TrParts(D, L, R, S) /\ TrNested(D, P, S) /\ TrSorted(D, L, R, W, S)
    BY DEF TrTree
<1>2. TrLinks(D, root2, P2, L2, R2, S2)
    BY <1>1, TurnedLinks
<1>3. TrParts(D, L2, R2, S2)
    BY <1>1, TurnedParts
<1>4. TrNested(D, P2, S2)
    BY <1>1, TurnedNested
<1>5. TrSorted(D, L2, R2, W, S2)
    BY <1>1, TurnedSorted
<1>6. QED BY <1>2, <1>3, <1>4, <1>5 DEF TrTree

-----------------------------------------------------------------------------
(* The heap order *)

\* The heap order, but for x: the children of x come after its parent.
HeapBut(D, P, x) == \A y \in D \ {x} : (P[y] # x => P[y] < y) /\ (P[y] = x => P[x] < y)

\* ... and after x.
HeapBelow(D, P, x) == HeapBut(D, P, x) /\ \A y \in D : P[y] = x => x < y

\* If l comes before x, it stays the only node that may come before its parent.
LEMMA TurnLifts ==
    ASSUME NEW D, D \subseteq Nat, NEW root, NEW P, NEW L, NEW R, NEW S, TrLinks(D, root, P, L, R, S), TrParts(D, L, R, S),
           NEW x \in D, NEW l \in D, l = L[x], l < x, NEW root2, NEW P2, NEW L2, NEW R2,
           TrTurned(D, root, P, L, R, x, l, root2, P2, L2, R2), HeapBelow(D, P, l)
    PROVE  HeapBelow(D, P2, l)
<1>1. /\ x # l /\ P[l] = x /\ P[x] # l /\ P[x] # x /\ R[l] # x /\ R[l] # l /\ (R[l] # 0 => P[R[l]] = l /\ R[l] \in D)
      /\ P[x] \in D \cup {0}
    BY TurnPlaces
<1>2. 0 \notin D /\ P \in [D -> D \cup {0}]
    BY DEF TrLinks
<1>3. \A a \in D : P2[a] = IF a = x THEN l ELSE IF a = l THEN P[x] ELSE IF a = R[l] THEN x ELSE P[a]
    BY DEF TrTurned
<1>4. P2[x] = l /\ P2[l] = P[x] /\ (R[l] # 0 => P2[R[l]] = x)
    BY <1>1, <1>3
<1>5. \A y \in D \ {l} : (P[y] # l => P[y] < y) /\ (P[y] = l => x < y /\ l < y)
    BY <1>1 DEF HeapBelow, HeapBut
<1>6. P[x] < x
    BY <1>1, <1>5
<1>7. ASSUME NEW y \in D, y # l PROVE (P2[y] # l => P2[y] < y) /\ (P2[y] = l => P2[l] < y /\ l < y)
    <2>1. CASE y = x
        BY <1>1, <1>4, <1>6, <2>1
    <2>2. CASE y = R[l]
        BY <1>1, <1>2, <1>4, <1>5, <2>2
    <2>3. CASE y # x /\ y # R[l]
        <3>1. P2[y] = P[y]
            BY <1>3, <1>7, <2>3
        <3>2. P[y] = l => x < y /\ l < y
            BY <1>5, <1>7
        <3>3. P[y] # l => P[y] < y
            BY <1>5, <1>7
        <3>4. P[x] \in Nat /\ x \in Nat /\ y \in Nat
            <4>1. P[x] \in D \cup {0} /\ 0 \in Nat
                BY <1>1
            <4>2. QED BY ONLY <4>1, D \subseteq Nat, x \in D, y \in D
        <3>5. QED BY ONLY <1>4, <1>6, <3>1, <3>2, <3>3, <3>4
    <2>4. QED BY <2>1, <2>2, <2>3
<1>8. P2[l] # l
    BY <1>1, <1>4
<1>9. QED BY <1>7, <1>8 DEF HeapBelow, HeapBut

\* If l is the first of the children of x, turning leaves only x out of order.
LEMMA TurnLowers ==
    ASSUME NEW D, D \subseteq Nat, NEW root, NEW P, NEW L, NEW R, NEW S, TrLinks(D, root, P, L, R, S), TrParts(D, L, R, S),
           NEW x \in D, NEW l \in D, l = L[x], R[x] = 0 \/ l < R[x], NEW root2, NEW P2, NEW L2, NEW R2,
           TrTurned(D, root, P, L, R, x, l, root2, P2, L2, R2), HeapBut(D, P, x)
    PROVE  HeapBut(D, P2, x)
<1>1. /\ x # l /\ P[l] = x /\ P[x] # l /\ P[x] # x /\ R[l] # x /\ R[l] # l /\ (R[l] # 0 => P[R[l]] = l /\ R[l] \in D)
      /\ P[x] \in D \cup {0}
    BY TurnPlaces
<1>2. 0 \notin D /\ P \in [D -> D \cup {0}] /\ \A y \in D : P[y] = x => y = l \/ y = R[x]
    BY DEF TrLinks
<1>3. \A a \in D : P2[a] = IF a = x THEN l ELSE IF a = l THEN P[x] ELSE IF a = R[l] THEN x ELSE P[a]
    BY DEF TrTurned
<1>4. P2[x] = l /\ P2[l] = P[x] /\ (R[l] # 0 => P2[R[l]] = x)
    BY <1>1, <1>3
<1>5. \A y \in D \ {x} : (P[y] # x => P[y] < y) /\ (P[y] = x => P[x] < y)
    BY DEF HeapBut
<1>6. ASSUME NEW y \in D, y # x PROVE (P2[y] # x => P2[y] < y) /\ (P2[y] = x => P2[x] < y)
    <2>1. CASE y = l
        BY <1>1, <1>4, <1>5, <2>1
    <2>2. CASE y = R[l]
        BY <1>1, <1>2, <1>4, <1>5, <2>2
    <2>3. CASE y # l /\ y # R[l]
        <3>1. P2[y] = P[y]
            BY <1>3, <1>6, <2>3
        <3>2. P[y] = x => l < y
            BY <1>2, <2>3
        <3>3. P[y] # x => P[y] < y
            BY <1>5, <1>6
        <3>4. QED BY <1>4, <3>1, <3>2, <3>3
    <2>4. QED BY <2>1, <2>2, <2>3
<1>7. QED BY <1>6 DEF HeapBut

-----------------------------------------------------------------------------
(* The record *)

TrRecords(D) == [root : D \cup {0}, key : [D -> Nat], parent : [D -> D \cup {0}], left : [D -> D \cup {0}],
                 right : [D -> D \cup {0}]]

TrOrder(t) == {ab \in InTreap(t) \X InTreap(t) : t.key[ab[1]] <= t.key[ab[2]]}

\* The treap t is a tree with the nodes D.
TrGood(t, D, S) ==
    /\ t \in TrRecords(D) /\ D \subseteq Nat
    /\ TrTree(D, t.root, t.parent, t.left, t.right, TrOrder(t), S)

LEMMA OrderIsTransitive == ASSUME NEW D, NEW t \in TrRecords(D) PROVE TrTransitive(D, TrOrder(t))
<1>1. t.key \in [D -> Nat] /\ DOMAIN t.key = D
    BY DEF TrRecords
<1>2. TrOrder(t) = {ab \in D \X D : t.key[ab[1]] <= t.key[ab[2]]}
    BY <1>1 DEF TrOrder, InTreap
<1>3. \A a \in D, b \in D : <<a, b>> \in TrOrder(t) <=> t.key[a] <= t.key[b]
    BY <1>2
<1>4. ASSUME NEW a \in D, NEW b \in D, NEW c \in D, t.key[a] <= t.key[b], t.key[b] <= t.key[c] PROVE t.key[a] <= t.key[c]
    <2>1. t.key[a] \in Nat /\ t.key[b] \in Nat /\ t.key[c] \in Nat
        BY <1>1
    <2>2. QED BY <1>4, <2>1
<1>5. QED BY <1>3, <1>4 DEF TrTransitive

\* The fields of a treap whose links are changed.
LEMMA SetParent ==
    ASSUME NEW D, NEW t \in TrRecords(D), NEW a \in D, NEW p \in D \cup {0}
    PROVE  /\ [t EXCEPT !.parent[a] = p] \in TrRecords(D)
           /\ [t EXCEPT !.parent[a] = p].root = t.root /\ [t EXCEPT !.parent[a] = p].key = t.key
           /\ [t EXCEPT !.parent[a] = p].parent = [t.parent EXCEPT ![a] = p]
           /\ [t EXCEPT !.parent[a] = p].left = t.left /\ [t EXCEPT !.parent[a] = p].right = t.right
BY DEF TrRecords

LEMMA SetLeft ==
    ASSUME NEW D, NEW t \in TrRecords(D), NEW a \in D, NEW p \in D \cup {0}
    PROVE  /\ [t EXCEPT !.left[a] = p] \in TrRecords(D)
           /\ [t EXCEPT !.left[a] = p].root = t.root /\ [t EXCEPT !.left[a] = p].key = t.key
           /\ [t EXCEPT !.left[a] = p].left = [t.left EXCEPT ![a] = p]
           /\ [t EXCEPT !.left[a] = p].parent = t.parent /\ [t EXCEPT !.left[a] = p].right = t.right
BY DEF TrRecords

LEMMA SetRight ==
    ASSUME NEW D, NEW t \in TrRecords(D), NEW a \in D, NEW p \in D \cup {0}
    PROVE  /\ [t EXCEPT !.right[a] = p] \in TrRecords(D)
           /\ [t EXCEPT !.right[a] = p].root = t.root /\ [t EXCEPT !.right[a] = p].key = t.key
           /\ [t EXCEPT !.right[a] = p].right = [t.right EXCEPT ![a] = p]
           /\ [t EXCEPT !.right[a] = p].parent = t.parent /\ [t EXCEPT !.right[a] = p].left = t.left
BY DEF TrRecords

LEMMA SetRoot ==
    ASSUME NEW D, NEW t \in TrRecords(D), NEW p \in D \cup {0}
    PROVE  /\ [t EXCEPT !.root = p] \in TrRecords(D)
           /\ [t EXCEPT !.root = p].root = p /\ [t EXCEPT !.root = p].key = t.key
           /\ [t EXCEPT !.root = p].left = t.left
           /\ [t EXCEPT !.root = p].parent = t.parent /\ [t EXCEPT !.root = p].right = t.right
BY DEF TrRecords

Parented(D, f, c, x) == [a \in D |-> IF a = c THEN x ELSE f[a]]

Replaced(D, f, x, y) == [a \in D |-> IF f[a] = x THEN y ELSE f[a]]

\* What relinking changes, if a node is the child of its parent on one side only.
LEMMA RelinkedFields ==
    ASSUME NEW D, 0 \notin D, NEW t \in TrRecords(D), NEW x \in D, NEW y \in D \cup {0},
           \A a \in D : t.left[a] = x \/ t.right[a] = x <=> t.parent[x] = a,
           \A a \in D : ~ (t.left[a] = x /\ t.right[a] = x)
    PROVE  /\ Relinked(t, x, y) \in TrRecords(D) /\ Relinked(t, x, y).key = t.key /\ Relinked(t, x, y).parent = t.parent
           /\ Relinked(t, x, y).root = IF t.parent[x] = 0 THEN y ELSE t.root
           /\ Relinked(t, x, y).left = Replaced(D, t.left, x, y)
           /\ Relinked(t, x, y).right = Replaced(D, t.right, x, y)
<1>1. PICK p \in D \cup {0} : p = t.parent[x]
    BY DEF TrRecords
<1>2. t.left \in [D -> D \cup {0}] /\ t.right \in [D -> D \cup {0}]
    BY DEF TrRecords
<1>3. PICK lefts : lefts = Replaced(D, t.left, x, y)
    OBVIOUS
<1>4. PICK rights : rights = Replaced(D, t.right, x, y)
    OBVIOUS
<1>5. CASE p = 0
    <2>1. Relinked(t, x, y) = [t EXCEPT !.root = y]
        BY <1>1, <1>5 DEF Relinked
    <2>2. \A a \in D : t.left[a] # x /\ t.right[a] # x
        BY <1>1, <1>5
    <2>3. lefts = t.left /\ rights = t.right
        BY <1>2, <1>3, <1>4, <2>2 DEF Replaced
    <2>4. QED BY <1>1, <1>3, <1>4, <1>5, <2>1, <2>3, SetRoot
<1>6. CASE p # 0 /\ t.left[p] = x
    <2>1. Relinked(t, x, y) = [t EXCEPT !.left[p] = y]
        BY <1>1, <1>6 DEF Relinked
    <2>2. p \in D /\ \A a \in D : t.right[a] # x /\ (t.left[a] = x <=> a = p)
        BY <1>1, <1>6
    <2>3. lefts = [t.left EXCEPT ![p] = y] /\ rights = t.right
        BY <1>2, <1>3, <1>4, <2>2 DEF Replaced
    <2>4. QED BY <1>1, <1>3, <1>4, <1>6, <2>1, <2>2, <2>3, SetLeft
<1>7. CASE p # 0 /\ t.left[p] # x
    <2>1. Relinked(t, x, y) = [t EXCEPT !.right[p] = y]
        BY <1>1, <1>7 DEF Relinked
    <2>2. p \in D /\ \A a \in D : t.left[a] # x /\ (t.right[a] = x <=> a = p)
        BY <1>1, <1>7
    <2>3. rights = [t.right EXCEPT ![p] = y] /\ lefts = t.left
        BY <1>2, <1>3, <1>4, <2>2 DEF Replaced
    <2>4. QED BY <1>1, <1>3, <1>4, <1>7, <2>1, <2>2, <2>3, SetRight
<1>8. QED BY <1>5, <1>6, <1>7

LEMMA AdoptedFields ==
    ASSUME NEW D, 0 \notin D, NEW t \in TrRecords(D), NEW x \in D, NEW c \in D \cup {0}
    PROVE  /\ Adopted(t, c, x) \in TrRecords(D) /\ Adopted(t, c, x).key = t.key /\ Adopted(t, c, x).root = t.root
           /\ Adopted(t, c, x).left = t.left /\ Adopted(t, c, x).right = t.right
           /\ Adopted(t, c, x).parent = Parented(D, t.parent, c, x)
<1>1. t.parent \in [D -> D \cup {0}]
    BY DEF TrRecords
<1>2. PICK new : new = Parented(D, t.parent, c, x)
    OBVIOUS
<1>3. CASE c = 0
    <2>1. new = t.parent
        BY <1>1, <1>2, <1>3 DEF Parented
    <2>2. QED BY <1>2, <1>3, <2>1 DEF Adopted
<1>4. CASE c # 0
    <2>1. new = [t.parent EXCEPT ![c] = x] /\ c \in D
        BY <1>1, <1>2, <1>4 DEF Parented
    <2>2. Adopted(t, c, x) = [t EXCEPT !.parent[c] = x]
        BY <1>4 DEF Adopted
    <2>3. QED BY <1>2, <2>1, <2>2, SetParent
<1>5. QED BY <1>3, <1>4

\* RotateRight turns x and its left child ...
LEMMA RotatedRight ==
    ASSUME NEW D, NEW t \in TrRecords(D), NEW S, TrLinks(D, t.root, t.parent, t.left, t.right, S),
           TrParts(D, t.left, t.right, S), NEW x \in D, NEW l \in D, l = t.left[x], NEW u, u = RotateRight(t, x)
    PROVE  /\ u \in TrRecords(D) /\ u.key = t.key
           /\ TrTurned(D, t.root, t.parent, t.left, t.right, x, l, u.root, u.parent, u.left, u.right)
<1> DEFINE P == t.parent
           L == t.left
           R == t.right
<1>1. /\ P \in [D -> D \cup {0}] /\ L \in [D -> D \cup {0}] /\ R \in [D -> D \cup {0}] /\ 0 \notin D
      /\ \A a \in D, b \in D : P[a] = b <=> (L[b] = a \/ R[b] = a)
    BY DEF TrLinks
<1>2. /\ x # l /\ P[l] = x /\ R[l] # x /\ R[x] # x /\ R[x] # l /\ L[l] # l /\ R[l] # l /\ L[l] # x
      /\ P[x] \in D \cup {0} /\ P[x] # l /\ P[x] # x
    BY TurnPlaces
<1>3. ASSUME NEW a \in D PROVE ~ (L[a] = x /\ R[a] = x)
    <2>1. x \in S[x] /\ \A y \in S[L[a]] : y \notin S[R[a]]
        BY DEF TrParts
    <2>2. QED BY <2>1
<1>4. PICK c \in D \cup {0} : c = R[l]
    BY <1>1
<1>5a. PICK t1 : t1 = Adopted(t, c, x)
    OBVIOUS
<1>5. /\ t1 \in TrRecords(D) /\ t1.key = t.key /\ t1.root = t.root /\ t1.left = L /\ t1.right = R
      /\ t1.parent = Parented(D, P, c, x)
    <2>1. 0 \notin D
        BY <1>1
    <2>2. /\ Adopted(t, c, x) \in TrRecords(D) /\ Adopted(t, c, x).key = t.key /\ Adopted(t, c, x).root = t.root
          /\ Adopted(t, c, x).left = t.left /\ Adopted(t, c, x).right = t.right
          /\ Adopted(t, c, x).parent = Parented(D, t.parent, c, x)
        BY ONLY <2>1, t \in TrRecords(D), x \in D, c \in D \cup {0}, AdoptedFields
    <2>3. QED BY ONLY <1>5a, <2>2
<1>6. t1.parent[x] = P[x]
    BY <1>1, <1>2, <1>4, <1>5 DEF Parented
<1>7a. PICK t2 : t2 = Relinked(t1, x, l)
    OBVIOUS
<1>7. /\ t2 \in TrRecords(D) /\ t2.key = t.key /\ t2.parent = t1.parent
      /\ t2.root = IF P[x] = 0 THEN l ELSE t.root
      /\ t2.left = Replaced(D, L, x, l)
      /\ t2.right = Replaced(D, R, x, l)
    <2>1. \A a \in D : t1.left[a] = x \/ t1.right[a] = x <=> t1.parent[x] = a
        BY ONLY <1>1, <1>5, <1>6, x \in D
    <2>2. \A a \in D : ~ (t1.left[a] = x /\ t1.right[a] = x)
        BY <1>3, <1>5
    <2>3. QED BY ONLY <1>1, <1>5, <1>6, <1>7a, <2>1, <2>2, x \in D, l \in D, RelinkedFields
<1>8a. PICK t3 : t3 = [t2 EXCEPT !.left[x] = c]
    OBVIOUS
<1>8. /\ t3 \in TrRecords(D) /\ t3.key = t.key /\ t3.parent = t1.parent /\ t3.root = t2.root
      /\ t3.left = [t2.left EXCEPT ![x] = c] /\ t3.right = t2.right
    BY ONLY <1>7, <1>8a, <1>1, <1>2, x \in D, l \in D, c \in D \cup {0}, SetLeft
<1>9a. PICK t4 : t4 = [t3 EXCEPT !.parent[x] = l]
    OBVIOUS
<1>9. /\ t4 \in TrRecords(D) /\ t4.key = t.key
      /\ t4.parent = [t1.parent EXCEPT ![x] = l] /\ t4.root = t2.root
      /\ t4.left = t3.left /\ t4.right = t2.right
    BY ONLY <1>8, <1>9a, <1>1, <1>2, x \in D, l \in D, c \in D \cup {0}, SetParent
<1>10a. PICK t5 : t5 = [t4 EXCEPT !.right[l] = x]
    OBVIOUS
<1>10. /\ t5 \in TrRecords(D) /\ t5.key = t.key
       /\ t5.parent = t4.parent /\ t5.root = t2.root
       /\ t5.left = t3.left /\ t5.right = [t2.right EXCEPT ![l] = x]
    BY ONLY <1>9, <1>10a, <1>1, <1>2, x \in D, l \in D, c \in D \cup {0}, SetRight
<1>11a. PICK t6 : t6 = [t5 EXCEPT !.parent[l] = P[x]]
    OBVIOUS
<1>11. /\ t6 \in TrRecords(D) /\ t6.key = t.key
       /\ t6.parent = [t4.parent EXCEPT ![l] = P[x]] /\ t6.root = t2.root
       /\ t6.left = t3.left /\ t6.right = t5.right
    BY ONLY <1>2, <1>10, <1>11a, <1>1, <1>2, x \in D, l \in D, c \in D \cup {0}, SetParent
<1>12. u = t6
    BY <1>4, <1>5a, <1>7a, <1>8a, <1>9a, <1>10a, <1>11a DEF RotateRight
<1>13. t6.parent = [y \in D |-> IF y = x THEN l ELSE IF y = l THEN P[x] ELSE IF y = R[l] THEN x ELSE P[y]]
    <2>1. DOMAIN t1.parent = D /\ \A a \in D : t1.parent[a] = IF a = c THEN x ELSE P[a]
        BY <1>5 DEF Parented
    <2>2. QED BY ONLY <1>2, <1>4, <1>9, <1>11, <2>1
<1>14. t6.left = [y \in D |-> IF y = x THEN R[l] ELSE IF L[y] = x THEN l ELSE L[y]]
    BY <1>2, <1>4, <1>7, <1>8, <1>11 DEF Replaced
<1>15. t6.right = [y \in D |-> IF y = l THEN x ELSE IF R[y] = x THEN l ELSE R[y]]
    BY <1>2, <1>7, <1>10, <1>11 DEF Replaced
<1>16. QED BY <1>7, <1>11, <1>12, <1>13, <1>14, <1>15 DEF TrTurned

\* ... and RotateLeft x and its right child, in the mirror.
LEMMA RotatedLeft ==
    ASSUME NEW D, NEW t \in TrRecords(D), NEW S, TrLinks(D, t.root, t.parent, t.right, t.left, S),
           TrParts(D, t.right, t.left, S), NEW x \in D, NEW r \in D, r = t.right[x], NEW u, u = RotateLeft(t, x)
    PROVE  /\ u \in TrRecords(D) /\ u.key = t.key
           /\ TrTurned(D, t.root, t.parent, t.right, t.left, x, r, u.root, u.parent, u.right, u.left)
<1> DEFINE P == t.parent
           L == t.right
           R == t.left
<1>1. /\ P \in [D -> D \cup {0}] /\ L \in [D -> D \cup {0}] /\ R \in [D -> D \cup {0}] /\ 0 \notin D
      /\ \A a \in D, b \in D : P[a] = b <=> (L[b] = a \/ R[b] = a)
    BY DEF TrLinks
<1>2. /\ x # r /\ P[r] = x /\ R[r] # x /\ R[x] # x /\ R[x] # r /\ L[r] # r /\ R[r] # r /\ L[r] # x
      /\ P[x] \in D \cup {0} /\ P[x] # r /\ P[x] # x
    BY TurnPlaces
<1>3. ASSUME NEW a \in D PROVE ~ (L[a] = x /\ R[a] = x)
    <2>1. x \in S[x] /\ \A y \in S[L[a]] : y \notin S[R[a]]
        BY DEF TrParts
    <2>2. QED BY <2>1
<1>4. PICK c \in D \cup {0} : c = R[r]
    BY <1>1
<1>5a. PICK t1 : t1 = Adopted(t, c, x)
    OBVIOUS
<1>5. /\ t1 \in TrRecords(D) /\ t1.key = t.key /\ t1.root = t.root /\ t1.right = L /\ t1.left = R
      /\ t1.parent = Parented(D, P, c, x)
    <2>1. 0 \notin D
        BY <1>1
    <2>2. /\ Adopted(t, c, x) \in TrRecords(D) /\ Adopted(t, c, x).key = t.key /\ Adopted(t, c, x).root = t.root
          /\ Adopted(t, c, x).left = t.left /\ Adopted(t, c, x).right = t.right
          /\ Adopted(t, c, x).parent = Parented(D, t.parent, c, x)
        BY ONLY <2>1, t \in TrRecords(D), x \in D, c \in D \cup {0}, AdoptedFields
    <2>3. QED BY ONLY <1>5a, <2>2
<1>6. t1.parent[x] = P[x]
    BY <1>1, <1>2, <1>4, <1>5 DEF Parented
<1>7a. PICK t2 : t2 = Relinked(t1, x, r)
    OBVIOUS
<1>7. /\ t2 \in TrRecords(D) /\ t2.key = t.key /\ t2.parent = t1.parent
      /\ t2.root = IF P[x] = 0 THEN r ELSE t.root
      /\ t2.right = Replaced(D, L, x, r)
      /\ t2.left = Replaced(D, R, x, r)
    <2>1. \A a \in D : t1.left[a] = x \/ t1.right[a] = x <=> t1.parent[x] = a
        BY ONLY <1>1, <1>5, <1>6, x \in D
    <2>2. \A a \in D : ~ (t1.left[a] = x /\ t1.right[a] = x)
        BY <1>3, <1>5
    <2>3. QED BY ONLY <1>1, <1>5, <1>6, <1>7a, <2>1, <2>2, x \in D, r \in D, RelinkedFields
<1>8a. PICK t3 : t3 = [t2 EXCEPT !.right[x] = c]
    OBVIOUS
<1>8. /\ t3 \in TrRecords(D) /\ t3.key = t.key /\ t3.parent = t1.parent /\ t3.root = t2.root
      /\ t3.right = [t2.right EXCEPT ![x] = c] /\ t3.left = t2.left
    BY ONLY <1>7, <1>8a, <1>1, <1>2, x \in D, r \in D, c \in D \cup {0}, SetRight
<1>9a. PICK t4 : t4 = [t3 EXCEPT !.parent[x] = r]
    OBVIOUS
<1>9. /\ t4 \in TrRecords(D) /\ t4.key = t.key
      /\ t4.parent = [t1.parent EXCEPT ![x] = r] /\ t4.root = t2.root
      /\ t4.right = t3.right /\ t4.left = t2.left
    BY ONLY <1>8, <1>9a, <1>1, <1>2, x \in D, r \in D, c \in D \cup {0}, SetParent
<1>10a. PICK t5 : t5 = [t4 EXCEPT !.left[r] = x]
    OBVIOUS
<1>10. /\ t5 \in TrRecords(D) /\ t5.key = t.key
       /\ t5.parent = t4.parent /\ t5.root = t2.root
       /\ t5.right = t3.right /\ t5.left = [t2.left EXCEPT ![r] = x]
    BY ONLY <1>9, <1>10a, <1>1, <1>2, x \in D, r \in D, c \in D \cup {0}, SetLeft
<1>11a. PICK t6 : t6 = [t5 EXCEPT !.parent[r] = P[x]]
    OBVIOUS
<1>11. /\ t6 \in TrRecords(D) /\ t6.key = t.key
       /\ t6.parent = [t4.parent EXCEPT ![r] = P[x]] /\ t6.root = t2.root
       /\ t6.right = t3.right /\ t6.left = t5.left
    BY ONLY <1>2, <1>10, <1>11a, <1>1, <1>2, x \in D, r \in D, c \in D \cup {0}, SetParent
<1>12. u = t6
    BY <1>4, <1>5a, <1>7a, <1>8a, <1>9a, <1>10a, <1>11a DEF RotateLeft
<1>13. t6.parent = [y \in D |-> IF y = x THEN r ELSE IF y = r THEN P[x] ELSE IF y = R[r] THEN x ELSE P[y]]
    <2>1. DOMAIN t1.parent = D /\ \A a \in D : t1.parent[a] = IF a = c THEN x ELSE P[a]
        BY <1>5 DEF Parented
    <2>2. QED BY ONLY <1>2, <1>4, <1>9, <1>11, <2>1
<1>14. t6.right = [y \in D |-> IF y = x THEN R[r] ELSE IF L[y] = x THEN r ELSE L[y]]
    BY <1>2, <1>4, <1>7, <1>8, <1>11 DEF Replaced
<1>15. t6.left = [y \in D |-> IF y = r THEN x ELSE IF R[y] = x THEN r ELSE R[y]]
    BY <1>2, <1>7, <1>10, <1>11 DEF Replaced
<1>16. QED BY <1>7, <1>11, <1>12, <1>13, <1>14, <1>15 DEF TrTurned

-----------------------------------------------------------------------------
(* Rotations, up and down *)

\* The child c of x has taken its place, and with it the nodes beneath x.
TrSwapped(t, u, D, S, S2, x, c) ==
    /\ TrGood(u, D, S2) /\ u.key = t.key
    /\ S2[c] = S[x] /\ S[c] \subseteq S[x] /\ x \in S[x] /\ x \notin S[c]
    /\ S2[x] \subseteq S[x] /\ c \in S[x] /\ c \notin S2[x]

LEMMA RightTurns ==
    ASSUME NEW D, NEW t, NEW S, TrGood(t, D, S), NEW x \in D, NEW c \in D, c = t.left[x], NEW u, u = RotateRight(t, x)
    PROVE  /\ \E S2 : TrSwapped(t, u, D, S, S2, x, c)
           /\ c < x /\ HeapBelow(D, t.parent, c) => HeapBelow(D, u.parent, c)
           /\ (t.right[x] = 0 \/ c < t.right[x]) /\ HeapBut(D, t.parent, x) => HeapBut(D, u.parent, x)
<1> DEFINE P == t.parent
           L == t.left
           R == t.right
<1>1. t \in TrRecords(D) /\ D \subseteq Nat /\ TrTree(D, t.root, P, L, R, TrOrder(t), S)
    BY DEF TrGood
<1>2. TrLinks(D, t.root, P, L, R, S) /\ TrParts(D, L, R, S)
    BY <1>1 DEF TrTree
<1>3. u \in TrRecords(D) /\ u.key = t.key /\ TrTurned(D, t.root, P, L, R, x, c, u.root, u.parent, u.left, u.right)
    BY ONLY <1>1, <1>2, x \in D, c \in D, c = t.left[x], u = RotateRight(t, x), RotatedRight DEF P, L, R
<1>4. PICK S2 : TrMoved(L, R, S, x, c, S2)
    BY DEF TrMoved
<1>5. TrOrder(u) = TrOrder(t) /\ TrTransitive(D, TrOrder(t))
    <2>1. TrTransitive(D, TrOrder(t))
        BY <1>1, OrderIsTransitive
    <2>2. QED BY <1>3, <2>1 DEF TrOrder, InTreap
<1>6. TrGood(u, D, S2)
    <2>1. c = L[x]
        OBVIOUS
    <2>2. TrTree(D, u.root, u.parent, u.left, u.right, TrOrder(t), S2)
        <3> HIDE DEF P, L, R
        <3>1. QED BY ONLY <1>1, <1>3, <1>4, <1>5, <2>1, x \in D, c \in D, TurnedTree
    <2>3. QED BY <1>1, <1>3, <1>5, <2>2 DEF TrGood
<1>7. /\ x # c /\ c \in S[c] /\ c \in S[x] /\ x \notin S[c] /\ c \notin S[R[x]] /\ c \notin S[R[c]]
      /\ S[x] = ({x} \cup S[c]) \cup S[R[x]] /\ S[c] = ({c} \cup S[L[c]]) \cup S[R[c]]
    <2>1. c = L[x]
        OBVIOUS
    <2> HIDE DEF P, L, R
    <2>2. QED BY ONLY <1>2, <2>1, x \in D, c \in D, TurnPlaces
<1>8. TrSwapped(t, u, D, S, S2, x, c)
    <2>1. DOMAIN S = D \cup {0}
        BY <1>2 DEF TrLinks
    <2>2. S2[c] = S[x] /\ S2[x] = ({x} \cup S[R[c]]) \cup S[R[x]]
        BY <1>4, <1>7, <2>1 DEF TrMoved
    <2>3. QED BY <1>3, <1>6, <1>7, <2>2 DEF TrSwapped
<1>9. c < x /\ HeapBelow(D, P, c) => HeapBelow(D, u.parent, c)
    <2>1. c = L[x]
        OBVIOUS
    <2> HIDE DEF P, L, R
    <2>2. QED BY ONLY <1>1, <1>2, <1>3, <2>1, x \in D, c \in D, TurnLifts
<1>10. (R[x] = 0 \/ c < R[x]) /\ HeapBut(D, P, x) => HeapBut(D, u.parent, x)
    <2>1. c = L[x]
        OBVIOUS
    <2> HIDE DEF P, L, R
    <2>2. QED BY ONLY <1>1, <1>2, <1>3, <2>1, x \in D, c \in D, TurnLowers
<1>11. QED BY <1>8, <1>9, <1>10

LEMMA LeftTurns ==
    ASSUME NEW D, NEW t, NEW S, TrGood(t, D, S), NEW x \in D, NEW c \in D, c = t.right[x], NEW u, u = RotateLeft(t, x)
    PROVE  /\ \E S2 : TrSwapped(t, u, D, S, S2, x, c)
           /\ c < x /\ HeapBelow(D, t.parent, c) => HeapBelow(D, u.parent, c)
           /\ (t.left[x] = 0 \/ c < t.left[x]) /\ HeapBut(D, t.parent, x) => HeapBut(D, u.parent, x)
<1> DEFINE P == t.parent
           L == t.right
           R == t.left
<1>0. PICK V : V = {ab \in D \X D : <<ab[2], ab[1]>> \in TrOrder(t)}
    OBVIOUS
<1>1. t \in TrRecords(D) /\ D \subseteq Nat /\ TrTree(D, t.root, P, R, L, TrOrder(t), S)
    BY DEF TrGood
<1>1a. TrReversed(D, TrOrder(t), V) /\ TrReversed(D, V, TrOrder(t))
    <2>1. \A a \in D, b \in D : <<a, b>> \in V <=> <<b, a>> \in TrOrder(t)
        BY <1>0
    <2>2. QED BY <2>1 DEF TrReversed
<1>1b. TrTree(D, t.root, P, L, R, V, S)
    <2> HIDE DEF P, L, R
    <2>1. QED BY <1>1, <1>1a, MirroredTree
<1>2. TrLinks(D, t.root, P, L, R, S) /\ TrParts(D, L, R, S)
    BY <1>1b DEF TrTree
<1>3. u \in TrRecords(D) /\ u.key = t.key /\ TrTurned(D, t.root, P, L, R, x, c, u.root, u.parent, u.right, u.left)
    BY ONLY <1>1, <1>2, x \in D, c \in D, c = t.right[x], u = RotateLeft(t, x), RotatedLeft DEF P, L, R
<1>4. PICK S2 : TrMoved(L, R, S, x, c, S2)
    BY DEF TrMoved
<1>5. TrOrder(u) = TrOrder(t) /\ TrTransitive(D, V)
    <2>1. TrTransitive(D, TrOrder(t))
        BY <1>1, OrderIsTransitive
    <2>2. TrTransitive(D, V)
        BY <1>1a, <2>1 DEF TrTransitive, TrReversed
    <2>3. QED BY <1>3, <2>2 DEF TrOrder, InTreap
<1>6. TrGood(u, D, S2)
    <2>1. c = L[x]
        OBVIOUS
    <2>2. TrTree(D, u.root, u.parent, u.right, u.left, V, S2)
        <3> HIDE DEF P, L, R
        <3>1. QED BY ONLY <1>1b, <1>3, <1>4, <1>5, <2>1, x \in D, c \in D, TurnedTree
    <2>3. TrTree(D, u.root, u.parent, u.left, u.right, TrOrder(t), S2)
        BY <1>1a, <2>2, MirroredTree
    <2>4. QED BY <1>1, <1>3, <1>5, <2>3 DEF TrGood
<1>7. /\ x # c /\ c \in S[c] /\ c \in S[x] /\ x \notin S[c] /\ c \notin S[R[x]] /\ c \notin S[R[c]]
      /\ S[x] = ({x} \cup S[c]) \cup S[R[x]] /\ S[c] = ({c} \cup S[L[c]]) \cup S[R[c]]
    <2>1. c = L[x]
        OBVIOUS
    <2> HIDE DEF P, L, R
    <2>2. QED BY ONLY <1>2, <2>1, x \in D, c \in D, TurnPlaces
<1>8. TrSwapped(t, u, D, S, S2, x, c)
    <2>1. DOMAIN S = D \cup {0}
        BY <1>2 DEF TrLinks
    <2>2. S2[c] = S[x] /\ S2[x] = ({x} \cup S[R[c]]) \cup S[R[x]]
        BY <1>4, <1>7, <2>1 DEF TrMoved
    <2>3. QED BY <1>3, <1>6, <1>7, <2>2 DEF TrSwapped
<1>9. c < x /\ HeapBelow(D, P, c) => HeapBelow(D, u.parent, c)
    <2>1. c = L[x]
        OBVIOUS
    <2> HIDE DEF P, L, R
    <2>2. QED BY ONLY <1>1, <1>2, <1>3, <2>1, x \in D, c \in D, TurnLifts
<1>10. (R[x] = 0 \/ c < R[x]) /\ HeapBut(D, P, x) => HeapBut(D, u.parent, x)
    <2>1. c = L[x]
        OBVIOUS
    <2> HIDE DEF P, L, R
    <2>2. QED BY ONLY <1>1, <1>2, <1>3, <2>1, x \in D, c \in D, TurnLowers
<1>11. QED BY <1>8, <1>9, <1>10

\* The nodes of a tree, by their places.
TrPlaces(D, t, S) ==
    /\ D \subseteq Nat /\ 0 \notin D /\ t \in TrRecords(D) /\ InTreap(t) = D /\ S \in [D \cup {0} -> SUBSET D]
    /\ t.root \in D \cup {0} /\ S[0] = {} /\ S[t.root] = D
    /\ \A y \in D : t.parent[y] = 0 <=> t.root = y
    /\ \A y \in D : /\ t.parent[y] \in D \cup {0} /\ t.left[y] \in D \cup {0} /\ t.right[y] \in D \cup {0}
                    /\ y \in S[y] /\ S[y] = ({y} \cup S[t.left[y]]) \cup S[t.right[y]]
                    /\ y \notin S[t.left[y]] /\ y \notin S[t.right[y]]
                    /\ \A z \in S[t.left[y]] : z \notin S[t.right[y]]
    /\ \A y \in D, z \in D : t.parent[z] = y <=> (t.left[y] = z \/ t.right[y] = z)
    /\ \A y \in D : t.left[y] # 0 => t.left[y] # t.right[y]
    /\ \A y \in D : t.parent[y] # y

LEMMA GoodPlaces == ASSUME NEW D, NEW t, NEW S, TrGood(t, D, S) PROVE TrPlaces(D, t, S)
<1>1. t \in TrRecords(D) /\ D \subseteq Nat /\ TrTree(D, t.root, t.parent, t.left, t.right, TrOrder(t), S)
    BY DEF TrGood
<1>2. TrLinks(D, t.root, t.parent, t.left, t.right, S) /\ TrParts(D, t.left, t.right, S)
    BY <1>1 DEF TrTree
<1>3. InTreap(t) = D
    BY <1>1 DEF InTreap, TrRecords
<1>4. /\ 0 \notin D /\ S \in [D \cup {0} -> SUBSET D] /\ S[0] = {} /\ S[t.root] = D /\ t.root \in D \cup {0}
      /\ \A y \in D : t.parent[y] = 0 <=> t.root = y
      /\ \A y \in D : t.parent[y] \in D \cup {0} /\ t.left[y] \in D \cup {0} /\ t.right[y] \in D \cup {0}
      /\ \A y \in D, z \in D : t.parent[z] = y <=> (t.left[y] = z \/ t.right[y] = z)
    BY <1>2 DEF TrLinks
<1>5. \A y \in D : /\ S[y] = ({y} \cup S[t.left[y]]) \cup S[t.right[y]]
                   /\ y \notin S[t.left[y]] /\ y \notin S[t.right[y]]
                   /\ \A z \in S[t.left[y]] : z \notin S[t.right[y]]
    BY <1>2 DEF TrParts
<1>6. \A y \in D : y \in S[y]
    BY <1>5
<1>7. ASSUME NEW y \in D, t.left[y] # 0 PROVE t.left[y] # t.right[y]
    <2>1. t.left[y] \in D /\ t.left[y] \in S[t.left[y]]
        BY <1>4, <1>6, <1>7
    <2>2. QED BY <1>5, <2>1
<1>8. ASSUME NEW y \in D PROVE t.parent[y] # y
    <2>1. t.left[y] # y /\ t.right[y] # y
        BY <1>5, <1>6
    <2>2. QED BY <1>4, <2>1
<1>9. QED BY <1>1, <1>3, <1>4, <1>5, <1>6, <1>7, <1>8 DEF TrPlaces

\* One step up: x is in its place, or has more nodes beneath it afterwards.
TrRisen(t, u, D, S, S2, x) ==
    /\ TrGood(u, D, S2) /\ u.key = t.key /\ HeapBelow(D, u.parent, x)
    /\ \/ u = t /\ t.parent[x] < x
       \/ S[x] \subseteq S2[x] /\ S[x] # S2[x]

LEMMA LiftedGood ==
    ASSUME NEW D, NEW t, NEW S, TrGood(t, D, S), NEW x \in D, HeapBelow(D, t.parent, x), NEW u, u = Lifted(t, x)
    PROVE  \E S2 : TrRisen(t, u, D, S, S2, x)
<1>1. /\ D \subseteq Nat /\ 0 \notin D
      /\ \A y \in D : t.parent[y] \in D \cup {0}
      /\ \A y \in D, z \in D : t.parent[z] = y <=> (t.left[y] = z \/ t.right[y] = z)
      /\ \A y \in D : t.parent[y] # y
    <2>1. TrPlaces(D, t, S)
        BY GoodPlaces
    <2>2. QED BY ONLY <2>1 DEF TrPlaces
<1>2. PICK p \in D \cup {0} : p = t.parent[x]
    BY <1>1
<1>3. p \in Nat /\ x \in Nat /\ p # x /\ x # 0
    BY <1>1, <1>2
<1>4. CASE p = 0 \/ p <= x
    <2>1. u = t /\ p < x
        BY <1>2, <1>3, <1>4 DEF Lifted
    <2>2. QED BY <1>2, <2>1 DEF TrRisen
<1>5. CASE p \in D /\ x < p /\ t.left[p] = x
    <2>1. u = RotateRight(t, p)
        <3>1. ~ (p <= x) /\ p # 0
            BY <1>1, <1>3, <1>5
        <3>2. QED BY <1>2, <1>5, <3>1 DEF Lifted
    <2>2. /\ \E S2 : TrSwapped(t, u, D, S, S2, p, x)
          /\ x < p /\ HeapBelow(D, t.parent, x) => HeapBelow(D, u.parent, x)
        BY <1>5, <2>1, RightTurns
    <2>3. PICK S2 : TrSwapped(t, u, D, S, S2, p, x)
        BY <2>2
    <2>4. TrRisen(t, u, D, S, S2, x)
        BY <1>5, <2>2, <2>3 DEF TrRisen, TrSwapped
    <2>5. QED BY <2>4
<1>6. CASE p \in D /\ x < p /\ t.left[p] # x
    <2>1. u = RotateLeft(t, p)
        <3>1. ~ (p <= x) /\ p # 0
            BY <1>1, <1>3, <1>6
        <3>2. QED BY <1>2, <1>6, <3>1 DEF Lifted
    <2>2. t.right[p] = x
        BY <1>1, <1>2, <1>6
    <2>3. /\ \E S2 : TrSwapped(t, u, D, S, S2, p, x)
          /\ x < p /\ HeapBelow(D, t.parent, x) => HeapBelow(D, u.parent, x)
        BY <1>6, <2>1, <2>2, LeftTurns
    <2>4. PICK S2 : TrSwapped(t, u, D, S, S2, p, x)
        BY <2>3
    <2>5. TrRisen(t, u, D, S, S2, x)
        BY <1>6, <2>3, <2>4 DEF TrRisen, TrSwapped
    <2>6. QED BY <2>5
<1>7. QED BY <1>1, <1>2, <1>3, <1>4, <1>5, <1>6

\* One step down: x is a leaf, or has fewer nodes beneath it afterwards.
TrSunk(t, u, D, S, S2, x) ==
    /\ TrGood(u, D, S2) /\ u.key = t.key /\ HeapBut(D, u.parent, x)
    /\ \/ u = t /\ t.left[x] = 0 /\ t.right[x] = 0
       \/ S2[x] \subseteq S[x] /\ S[x] # S2[x]

LEMMA LoweredGood ==
    ASSUME NEW D, NEW t, NEW S, TrGood(t, D, S), NEW x \in D, HeapBut(D, t.parent, x), NEW u, u = Lowered(t, x)
    PROVE  \E S2 : TrSunk(t, u, D, S, S2, x)
<1>1. /\ D \subseteq Nat /\ 0 \notin D
      /\ \A y \in D : t.left[y] \in D \cup {0} /\ t.right[y] \in D \cup {0}
      /\ \A y \in D : t.left[y] # 0 => t.left[y] # t.right[y]
    <2>1. TrPlaces(D, t, S)
        BY GoodPlaces
    <2>2. QED BY ONLY <2>1 DEF TrPlaces
<1>2. PICK l \in D \cup {0} : l = t.left[x]
    BY <1>1
<1>3. PICK r \in D \cup {0} : r = t.right[x]
    BY <1>1
<1>4. l \in Nat /\ r \in Nat /\ (l # 0 => l # r)
    BY <1>1, <1>2, <1>3
<1>5. CASE l = 0 /\ r = 0
    <2>1. u = t
        BY <1>2, <1>3, <1>5 DEF Lowered
    <2>2. QED BY <1>2, <1>3, <1>5, <2>1 DEF TrSunk
<1>6. CASE ~ (l = 0 /\ r = 0) /\ (r = 0 \/ (l # 0 /\ l < r))
    <2>1. u = RotateRight(t, x) /\ l \in D
        BY <1>1, <1>2, <1>3, <1>6 DEF Lowered
    <2>2. t.right[x] = 0 \/ l < t.right[x]
        BY <1>3, <1>6
    <2>3. /\ \E S2 : TrSwapped(t, u, D, S, S2, x, l)
          /\ (t.right[x] = 0 \/ l < t.right[x]) /\ HeapBut(D, t.parent, x) => HeapBut(D, u.parent, x)
        BY <1>2, <2>1, RightTurns
    <2>4. PICK S2 : TrSwapped(t, u, D, S, S2, x, l)
        BY <2>3
    <2>5. TrSunk(t, u, D, S, S2, x)
        BY <2>2, <2>3, <2>4 DEF TrSunk, TrSwapped
    <2>6. QED BY <2>5
<1>7. CASE ~ (l = 0 /\ r = 0) /\ ~ (r = 0 \/ (l # 0 /\ l < r))
    <2>1. u = RotateLeft(t, x) /\ r \in D
        BY <1>1, <1>2, <1>3, <1>7 DEF Lowered
    <2>2. t.left[x] = 0 \/ r < t.left[x]
        BY <1>2, <1>4, <1>7
    <2>3. /\ \E S2 : TrSwapped(t, u, D, S, S2, x, r)
          /\ (t.left[x] = 0 \/ r < t.left[x]) /\ HeapBut(D, t.parent, x) => HeapBut(D, u.parent, x)
        BY <1>3, <2>1, LeftTurns
    <2>4. PICK S2 : TrSwapped(t, u, D, S, S2, x, r)
        BY <2>3
    <2>5. TrSunk(t, u, D, S, S2, x)
        BY <2>2, <2>3, <2>4 DEF TrSunk, TrSwapped
    <2>6. QED BY <2>5
<1>8. QED BY <1>5, <1>6, <1>7

\* Counting a set that grows or shrinks.
LEMMA MoreOf ==
    ASSUME NEW D, IsFiniteSet(D), NEW A, NEW B, A \subseteq B, A # B, B \subseteq D
    PROVE  Cardinality(A) \in Nat /\ Cardinality(B) \in Nat /\ Cardinality(A) < Cardinality(B) /\ Cardinality(B) <= Cardinality(D)
<1>1. IsFiniteSet(B) /\ Cardinality(B) <= Cardinality(D)
    BY FS_Subset
<1>2. IsFiniteSet(A) /\ Cardinality(A) <= Cardinality(B) /\ Cardinality(A) # Cardinality(B)
    BY <1>1, FS_Subset
<1>3. Cardinality(A) \in Nat /\ Cardinality(B) \in Nat
    BY <1>1, <1>2, FS_CardinalityType
<1>4. QED BY <1>1, <1>2, <1>3

LEMMA BeneathIt == ASSUME NEW D, NEW t, NEW S, TrGood(t, D, S), NEW x \in D PROVE S[x] \in SUBSET D /\ x \in S[x]
<1>1. TrPlaces(D, t, S)
    BY GoodPlaces
<1>2. QED BY ONLY <1>1, x \in D DEF TrPlaces
LiftedBy(f, t, x, k) == [i \in 0 .. k |-> IF i = 0 THEN t ELSE Lifted(f[i - 1], x)]

TrRotatedUp(t, u, D, S, x) ==
    TrGood(u, D, S) /\ u.key = t.key /\ HeapBelow(D, u.parent, x) /\ u.parent[x] < x

\* Going up ends: each step puts more nodes beneath x, and there are no more than all.
LEMMA RotatedUpGood ==
    ASSUME NEW D, IsFiniteSet(D), NEW t, NEW S, TrGood(t, D, S), NEW x \in D, HeapBelow(D, t.parent, x), NEW u, u = RotatedUp(t, x)
    PROVE  \E S2 : TrRotatedUp(t, u, D, S2, x)
<1> DEFINE f == CHOOSE f : f = [i \in 0 .. Cardinality(InTreap(t)) |-> IF i = 0 THEN t ELSE Lifted(f[i - 1], x)]
<1>1. PICK k \in Nat : k = Cardinality(D)
    BY FS_CardinalityType
<1>2. InTreap(t) = D
    BY GoodPlaces DEF TrPlaces
<1>3. PICK V : V = {v \in TrRecords(D) : v.key = t.key /\ HeapBelow(D, v.parent, x) /\ \E S2 : TrGood(v, D, S2)}
    OBVIOUS
<1>4. t \in V
    BY <1>3 DEF TrGood
<1>5. ASSUME NEW v \in V PROVE Lifted(v, x) \in V
    <2>1. PICK S1 : TrGood(v, D, S1)
        BY <1>3
    <2>2. v.key = t.key /\ HeapBelow(D, v.parent, x)
        BY <1>3
    <2>3. PICK w : w = Lifted(v, x)
        OBVIOUS
    <2>4. PICK S2 : TrRisen(v, w, D, S1, S2, x)
        BY <2>1, <2>2, <2>3, LiftedGood
    <2>5. w \in TrRecords(D) /\ w.key = t.key /\ HeapBelow(D, w.parent, x) /\ TrGood(w, D, S2)
        BY <2>2, <2>4 DEF TrRisen, TrGood
    <2>6. QED BY <1>3, <2>3, <2>5
<1>6. \E g : g = LiftedBy(g, t, x, k)
    <2>1. PICK next : next = [q \in V \X (1 .. k) |-> Lifted(q[1], x)]
        OBVIOUS
    <2>2. next \in [V \X (1 .. k) -> V]
        BY <1>5, <2>1
    <2>3. PICK g : Iterates(g, k, V, t, next)
        BY ONLY <1>1, <1>4, <2>2, IterationExists
    <2>4. g \in [0 .. k -> V] /\ g[0] = t /\ \A i \in 1 .. k : g[i] = next[<<g[i - 1], i>>]
        BY <2>3 DEF Iterates
    <2>5. ASSUME NEW i \in 0 .. k PROVE g[i] = IF i = 0 THEN t ELSE Lifted(g[i - 1], x)
        <3>1. CASE i = 0
            BY <2>4, <3>1
        <3>2. CASE i # 0
            <4>1. i \in 1 .. k /\ i - 1 \in 0 .. k
                BY <3>2
            <4>2. <<g[i - 1], i>> \in V \X (1 .. k)
                BY <2>4, <4>1
            <4>3. QED BY <2>1, <2>4, <3>2, <4>1, <4>2
        <3>3. QED BY <3>1, <3>2
    <2>6. g = LiftedBy(g, t, x, k)
        BY <2>4, <2>5 DEF LiftedBy
    <2>7. QED BY <2>6
<1>7. f = LiftedBy(f, t, x, k)
    BY <1>1, <1>2, <1>6 DEF LiftedBy
<1>8. u = f[k]
    BY <1>1, <1>2 DEF RotatedUp
<1> HIDE DEF f
<1>9. f[0] = t /\ \A i \in 1 .. k : f[i] = Lifted(f[i - 1], x)
    <2>1. f[0] = LiftedBy(f, t, x, k)[0] /\ 0 \in 0 .. k
        BY <1>7
    <2>2. ASSUME NEW i \in 1 .. k PROVE f[i] = Lifted(f[i - 1], x)
        <3>1. f[i] = LiftedBy(f, t, x, k)[i] /\ i \in 0 .. k /\ i # 0
            BY <1>7
        <3>2. QED BY <3>1 DEF LiftedBy
    <2>3. QED BY <2>1, <2>2 DEF LiftedBy
<1> DEFINE Step(n, v, S2) == /\ TrGood(v, D, S2) /\ v.key = t.key /\ HeapBelow(D, v.parent, x)
                             /\ (v.parent[x] < x) \/ n < Cardinality(S2[x])
           N == {n \in Nat : n <= k => \E S2 : Step(n, f[n], S2)}
<1>10. 0 \in N
    <2>1. S[x] \in SUBSET D /\ x \in S[x]
        BY BeneathIt
    <2>2. IsFiniteSet(S[x]) /\ Cardinality(S[x]) \in Nat /\ Cardinality(S[x]) <= k /\ Cardinality(S[x]) # 0
        <3>1. IsFiniteSet(S[x]) /\ Cardinality(S[x]) <= k
            BY <1>1, <2>1, FS_Subset
        <3>2. QED BY <2>1, <3>1, FS_CardinalityType, FS_EmptySet
    <2>3. Step(0, t, S)
        BY <1>1, <2>2
    <2>4. QED BY <1>9, <2>3
<1>11. ASSUME NEW n \in Nat, n < k, n \in N PROVE n + 1 \in N
    <2>1. PICK S1 : Step(n, f[n], S1)
        BY <1>1, <1>11
    <2>2. PICK v : v = f[n]
        OBVIOUS
    <2>3. PICK w : w = f[n + 1]
        OBVIOUS
    <2>4. w = Lifted(v, x)
        <3>1. n + 1 \in 1 .. k /\ (n + 1) - 1 = n
            BY <1>1, <1>11
        <3>2. QED BY <1>9, <2>2, <2>3, <3>1
    <2>5. TrGood(v, D, S1) /\ v.key = t.key /\ HeapBelow(D, v.parent, x)
        BY <2>1, <2>2
    <2>6. PICK S2 : TrRisen(v, w, D, S1, S2, x)
        BY <2>4, <2>5, LiftedGood
    <2>7. TrGood(w, D, S2) /\ w.key = t.key /\ HeapBelow(D, w.parent, x)
        BY <2>5, <2>6 DEF TrRisen
    <2>8. CASE w = v /\ v.parent[x] < x
        <3>1. Step(n + 1, w, S2)
            BY <2>7, <2>8
        <3>2. QED BY <2>3, <3>1
    <2>9. CASE S1[x] \subseteq S2[x] /\ S1[x] # S2[x]
        <3>1. S1[x] \subseteq D /\ S2[x] \subseteq D
            BY <2>5, <2>7, BeneathIt
        <3>2. Cardinality(S1[x]) \in Nat /\ Cardinality(S2[x]) \in Nat /\ Cardinality(S1[x]) < Cardinality(S2[x])
            BY <1>1, <2>9, <3>1, MoreOf
        <3>3. (v.parent[x] < x) \/ n < Cardinality(S1[x])
            BY <2>1, <2>2
        <3>4. CASE v.parent[x] < x
            <4>1. w = v
                <5>1. v.parent[x] \in D \cup {0} /\ D \subseteq Nat /\ 0 \in Nat
                    BY <2>5, GoodPlaces DEF TrPlaces
                <5>2. v.parent[x] <= x
                    <6>1. v.parent[x] \in Nat /\ x \in Nat
                        BY ONLY <5>1, x \in D
                    <6>2. QED BY ONLY <3>4, <6>1
                <5>3. QED BY <2>4, <5>2 DEF Lifted
            <4>2. Step(n + 1, w, S2)
                BY <2>7, <3>4, <4>1
            <4>3. QED BY <2>3, <4>2
        <3>5. CASE n < Cardinality(S1[x])
            <4>1. n + 1 < Cardinality(S2[x])
                BY <1>1, <3>2, <3>5
            <4>2. Step(n + 1, w, S2)
                BY <2>7, <4>1
            <4>3. QED BY <2>3, <4>2
        <3>6. QED BY <3>3, <3>4, <3>5
    <2>10. QED BY <2>6, <2>8, <2>9 DEF TrRisen
<1>12. 0 .. k \subseteq N
    <2> HIDE DEF N
    <2>1. QED BY <1>1, <1>10, <1>11, OneMore
<1>13. PICK S2 : Step(k, f[k], S2)
    <2>1. k \in N
        <3> HIDE DEF N
        <3>1. k \in 0 .. k
            BY <1>1
        <3>2. QED BY <1>12, <3>1
    <2>2. QED BY <1>1, <2>1
<1>14. Step(k, u, S2)
    BY <1>8, <1>13
<1>15. ~ (k < Cardinality(S2[x]))
    <2>1. S2[x] \in SUBSET D /\ x \in S2[x]
        BY <1>14, BeneathIt
    <2>2. IsFiniteSet(S2[x]) /\ Cardinality(S2[x]) \in Nat /\ Cardinality(S2[x]) <= k /\ Cardinality(S2[x]) # 0
        <3>1. IsFiniteSet(S2[x]) /\ Cardinality(S2[x]) <= k
            BY <1>1, <2>1, FS_Subset
        <3>2. QED BY <2>1, <3>1, FS_CardinalityType, FS_EmptySet
    <2>3. QED BY <1>1, <2>2
<1>16. QED BY <1>14, <1>15 DEF TrRotatedUp

LoweredBy(f, t, x, k) == [i \in 0 .. k |-> IF i = 0 THEN t ELSE Lowered(f[i - 1], x)]

TrRotatedDown(t, u, D, S, x) ==
    TrGood(u, D, S) /\ u.key = t.key /\ HeapBut(D, u.parent, x) /\ u.left[x] = 0 /\ u.right[x] = 0

\* So does going down: each step leaves fewer nodes beneath x.
LEMMA RotatedDownGood ==
    ASSUME NEW D, IsFiniteSet(D), NEW t, NEW S, TrGood(t, D, S), NEW x \in D, HeapBut(D, t.parent, x), NEW u, u = RotatedDown(t, x)
    PROVE  \E S2 : TrRotatedDown(t, u, D, S2, x)
<1> DEFINE f == CHOOSE f : f = [i \in 0 .. Cardinality(InTreap(t)) |-> IF i = 0 THEN t ELSE Lowered(f[i - 1], x)]
<1>1. PICK k \in Nat : k = Cardinality(D)
    BY FS_CardinalityType
<1>2. InTreap(t) = D
    BY GoodPlaces DEF TrPlaces
<1>3. PICK V : V = {v \in TrRecords(D) : v.key = t.key /\ HeapBut(D, v.parent, x) /\ \E S2 : TrGood(v, D, S2)}
    OBVIOUS
<1>4. t \in V
    BY <1>3 DEF TrGood
<1>5. ASSUME NEW v \in V PROVE Lowered(v, x) \in V
    <2>1. PICK S1 : TrGood(v, D, S1)
        BY <1>3
    <2>2. v.key = t.key /\ HeapBut(D, v.parent, x)
        BY <1>3
    <2>3. PICK w : w = Lowered(v, x)
        OBVIOUS
    <2>4. PICK S2 : TrSunk(v, w, D, S1, S2, x)
        BY <2>1, <2>2, <2>3, LoweredGood
    <2>5. w \in TrRecords(D) /\ w.key = t.key /\ HeapBut(D, w.parent, x) /\ TrGood(w, D, S2)
        BY <2>2, <2>4 DEF TrSunk, TrGood
    <2>6. QED BY <1>3, <2>3, <2>5
<1>6. \E g : g = LoweredBy(g, t, x, k)
    <2>1. PICK next : next = [q \in V \X (1 .. k) |-> Lowered(q[1], x)]
        OBVIOUS
    <2>2. next \in [V \X (1 .. k) -> V]
        BY <1>5, <2>1
    <2>3. PICK g : Iterates(g, k, V, t, next)
        BY ONLY <1>1, <1>4, <2>2, IterationExists
    <2>4. g \in [0 .. k -> V] /\ g[0] = t /\ \A i \in 1 .. k : g[i] = next[<<g[i - 1], i>>]
        BY <2>3 DEF Iterates
    <2>5. ASSUME NEW i \in 0 .. k PROVE g[i] = IF i = 0 THEN t ELSE Lowered(g[i - 1], x)
        <3>1. CASE i = 0
            BY <2>4, <3>1
        <3>2. CASE i # 0
            <4>1. i \in 1 .. k /\ i - 1 \in 0 .. k
                BY <3>2
            <4>2. <<g[i - 1], i>> \in V \X (1 .. k)
                BY <2>4, <4>1
            <4>3. QED BY <2>1, <2>4, <3>2, <4>1, <4>2
        <3>3. QED BY <3>1, <3>2
    <2>6. g = LoweredBy(g, t, x, k)
        BY <2>4, <2>5 DEF LoweredBy
    <2>7. QED BY <2>6
<1>7. f = LoweredBy(f, t, x, k)
    BY <1>1, <1>2, <1>6 DEF LoweredBy
<1>8. u = f[k]
    BY <1>1, <1>2 DEF RotatedDown
<1> HIDE DEF f
<1>9. f[0] = t /\ \A i \in 1 .. k : f[i] = Lowered(f[i - 1], x)
    <2>1. f[0] = LoweredBy(f, t, x, k)[0] /\ 0 \in 0 .. k
        BY <1>7
    <2>2. ASSUME NEW i \in 1 .. k PROVE f[i] = Lowered(f[i - 1], x)
        <3>1. f[i] = LoweredBy(f, t, x, k)[i] /\ i \in 0 .. k /\ i # 0
            BY <1>7
        <3>2. QED BY <3>1 DEF LoweredBy
    <2>3. QED BY <2>1, <2>2 DEF LoweredBy
<1> DEFINE Step(n, v, S2) == /\ TrGood(v, D, S2) /\ v.key = t.key /\ HeapBut(D, v.parent, x)
                             /\ (v.left[x] = 0 /\ v.right[x] = 0) \/ Cardinality(S2[x]) + n <= k
           N == {n \in Nat : n <= k => \E S2 : Step(n, f[n], S2)}
<1>10. 0 \in N
    <2>1. S[x] \in SUBSET D /\ x \in S[x]
        BY BeneathIt
    <2>2. IsFiniteSet(S[x]) /\ Cardinality(S[x]) \in Nat /\ Cardinality(S[x]) <= k /\ Cardinality(S[x]) # 0
        <3>1. IsFiniteSet(S[x]) /\ Cardinality(S[x]) <= k
            BY <1>1, <2>1, FS_Subset
        <3>2. QED BY <2>1, <3>1, FS_CardinalityType, FS_EmptySet
    <2>3. Step(0, t, S)
        BY <1>1, <2>2
    <2>4. QED BY <1>9, <2>3
<1>11. ASSUME NEW n \in Nat, n < k, n \in N PROVE n + 1 \in N
    <2>1. PICK S1 : Step(n, f[n], S1)
        BY <1>1, <1>11
    <2>2. PICK v : v = f[n]
        OBVIOUS
    <2>3. PICK w : w = f[n + 1]
        OBVIOUS
    <2>4. w = Lowered(v, x)
        <3>1. n + 1 \in 1 .. k /\ (n + 1) - 1 = n
            BY <1>1, <1>11
        <3>2. QED BY <1>9, <2>2, <2>3, <3>1
    <2>5. TrGood(v, D, S1) /\ v.key = t.key /\ HeapBut(D, v.parent, x)
        BY <2>1, <2>2
    <2>6. PICK S2 : TrSunk(v, w, D, S1, S2, x)
        BY <2>4, <2>5, LoweredGood
    <2>7. TrGood(w, D, S2) /\ w.key = t.key /\ HeapBut(D, w.parent, x)
        BY <2>5, <2>6 DEF TrSunk
    <2>8. CASE w = v /\ v.left[x] = 0 /\ v.right[x] = 0
        <3>1. Step(n + 1, w, S2)
            BY <2>7, <2>8
        <3>2. QED BY <2>3, <3>1
    <2>9. CASE S2[x] \subseteq S1[x] /\ S1[x] # S2[x]
        <3>1. S1[x] \subseteq D /\ S2[x] \subseteq D
            BY <2>5, <2>7, BeneathIt
        <3>2. Cardinality(S1[x]) \in Nat /\ Cardinality(S2[x]) \in Nat /\ Cardinality(S2[x]) < Cardinality(S1[x])
            BY <1>1, <2>9, <3>1, MoreOf
        <3>3. (v.left[x] = 0 /\ v.right[x] = 0) \/ Cardinality(S1[x]) + n <= k
            BY <2>1, <2>2
        <3>4. CASE v.left[x] = 0 /\ v.right[x] = 0
            <4>1. w = v
                BY <2>4, <3>4 DEF Lowered
            <4>2. Step(n + 1, w, S2)
                BY <2>7, <3>4, <4>1
            <4>3. QED BY <2>3, <4>2
        <3>5. CASE Cardinality(S1[x]) + n <= k
            <4>1. Cardinality(S2[x]) + (n + 1) <= k
                BY <1>1, <3>2, <3>5
            <4>2. Step(n + 1, w, S2)
                BY <2>7, <4>1
            <4>3. QED BY <2>3, <4>2
        <3>6. QED BY <3>3, <3>4, <3>5
    <2>10. QED BY <2>6, <2>8, <2>9 DEF TrSunk
<1>12. 0 .. k \subseteq N
    <2> HIDE DEF N
    <2>1. QED BY <1>1, <1>10, <1>11, OneMore
<1>13. PICK S2 : Step(k, f[k], S2)
    <2>1. k \in N
        <3> HIDE DEF N
        <3>1. k \in 0 .. k
            BY <1>1
        <3>2. QED BY <1>12, <3>1
    <2>2. QED BY <1>1, <2>1
<1>14. Step(k, u, S2)
    BY <1>8, <1>13
<1>15. ~ (Cardinality(S2[x]) + k <= k)
    <2>1. S2[x] \in SUBSET D /\ x \in S2[x]
        BY <1>14, BeneathIt
    <2>2. IsFiniteSet(S2[x]) /\ Cardinality(S2[x]) \in Nat /\ Cardinality(S2[x]) <= k /\ Cardinality(S2[x]) # 0
        <3>1. IsFiniteSet(S2[x]) /\ Cardinality(S2[x]) <= k
            BY <1>1, <2>1, FS_Subset
        <3>2. QED BY <2>1, <3>1, FS_CardinalityType, FS_EmptySet
    <2>3. QED BY <1>1, <2>2
<1>16. QED BY <1>14, <1>15 DEF TrRotatedDown

-----------------------------------------------------------------------------
(* Walks down *)

\* A walk through A that comes to a lower rank with each step: a function of where it starts
\* gives where it ends.
Walks(f, A, V, stop, first, after) ==
    f \in [A -> V] /\ \A a \in A : f[a] = IF a \in stop THEN first[a] ELSE f[after[a]]

LEMMA RankedWalkExists ==
    ASSUME NEW A, NEW V, NEW v0 \in V, NEW stop, NEW first \in [A -> V], NEW after, NEW rank \in [A -> Nat], NEW N \in Nat,
           \A a \in A : rank[a] < N, \A a \in A : a \notin stop => after[a] \in A /\ rank[after[a]] < rank[a]
    PROVE  \E f : Walks(f, A, V, stop, first, after)
<1>1. PICK F : F = [A -> V]
    OBVIOUS
<1>2. PICK next : next = [q \in F \X (1 .. N + 1) |-> [a \in A |-> IF a \in stop THEN first[a] ELSE q[1][after[a]]]]
    OBVIOUS
<1>3. PICK f0 \in F : f0 = [a \in A |-> v0]
    <2>1. [a \in A |-> v0] \in F
        BY <1>1
    <2>2. QED BY <2>1
<1>4. ASSUME NEW g \in F, NEW i \in 1 .. N + 1
      PROVE  next[<<g, i>>] \in F /\ \A a \in A : next[<<g, i>>][a] = IF a \in stop THEN first[a] ELSE g[after[a]]
    <2>1. <<g, i>> \in F \X (1 .. N + 1)
        OBVIOUS
    <2>2. next[<<g, i>>] = [a \in A |-> IF a \in stop THEN first[a] ELSE g[after[a]]]
        BY <1>2, <2>1
    <2>3. \A a \in A : a \notin stop => g[after[a]] \in V
        BY <1>1
    <2>4. QED BY <1>1, <2>2, <2>3
<1>5. next \in [F \X (1 .. N + 1) -> F]
    <2>1. \A q \in F \X (1 .. N + 1) : next[q] \in F
        <3> SUFFICES ASSUME NEW q \in F \X (1 .. N + 1) PROVE next[q] \in F
            OBVIOUS
        <3>1. PICK g \in F, i \in 1 .. N + 1 : q = <<g, i>>
            OBVIOUS
        <3>2. QED BY <1>4, <3>1
    <2>2. QED BY <1>2, <2>1
<1>6. N + 1 \in Nat
    OBVIOUS
<1>7. PICK g : Iterates(g, N + 1, F, f0, next)
    BY ONLY <1>3, <1>5, <1>6, IterationExists
<1>8. g \in [0 .. N + 1 -> F] /\ \A i \in 1 .. N + 1 : g[i] = next[<<g[i - 1], i>>]
    BY <1>7 DEF Iterates
<1>9. ASSUME NEW i \in 0 .. N, NEW a \in A PROVE g[i + 1][a] = IF a \in stop THEN first[a] ELSE g[i][after[a]]
    <2>1. i + 1 \in 1 .. N + 1 /\ (i + 1) - 1 = i /\ i \in 0 .. N + 1
        OBVIOUS
    <2>2. g[i] \in F /\ g[i + 1] = next[<<g[i], i + 1>>]
        BY <1>8, <2>1
    <2>3. QED BY <1>4, <2>1, <2>2
<1> DEFINE K == {i \in Nat : i <= N => \A a \in A : rank[a] < i => g[i + 1][a] = g[i][a]}
<1>10. 0 \in K
    OBVIOUS
<1>11. ASSUME NEW i \in Nat, i < N, i \in K PROVE i + 1 \in K
    <2>1. SUFFICES ASSUME NEW a \in A, rank[a] < i + 1 PROVE g[(i + 1) + 1][a] = g[i + 1][a]
        OBVIOUS
    <2>2. i \in 0 .. N /\ i + 1 \in 0 .. N
        BY <1>11
    <2>3. /\ g[i + 1][a] = IF a \in stop THEN first[a] ELSE g[i][after[a]]
          /\ g[(i + 1) + 1][a] = IF a \in stop THEN first[a] ELSE g[i + 1][after[a]]
        BY <1>9, <2>2
    <2>4. CASE a \notin stop
        <3>1. PICK b \in A : b = after[a] /\ rank[b] < rank[a]
            BY <2>4
        <3>2. rank[b] < i
            <4>1. rank[a] \in Nat /\ rank[b] \in Nat
                OBVIOUS
            <4>2. QED BY <2>1, <3>1, <4>1
        <3>3. g[i + 1][b] = g[i][b]
            BY <1>11, <3>2
        <3>4. QED BY <2>3, <2>4, <3>1, <3>3
    <2>5. QED BY <2>3, <2>4
<1>12. 0 .. N \subseteq K
    <2> HIDE DEF K
    <2>1. QED BY <1>10, <1>11, OneMore
<1>13. \A a \in A : g[N + 1][a] = g[N][a]
    <2>1. N \in K
        <3> HIDE DEF K
        <3>1. N \in 0 .. N
            OBVIOUS
        <3>2. QED BY <1>12, <3>1
    <2>2. QED BY <2>1
<1>14. PICK f : f = g[N]
    OBVIOUS
<1>15. ASSUME NEW a \in A PROVE f[a] = IF a \in stop THEN first[a] ELSE f[after[a]]
    <2>1. N \in 0 .. N
        OBVIOUS
    <2>2. g[N + 1][a] = IF a \in stop THEN first[a] ELSE g[N][after[a]]
        BY <1>9, <2>1
    <2>3. QED BY <1>13, <1>14, <2>2
<1>16. f \in [A -> V]
    BY <1>1, <1>8, <1>14
<1>17. Walks(f, A, V, stop, first, after)
    BY <1>15, <1>16 DEF Walks
<1>18. QED BY <1>17

\* A rank of the nodes that grows smaller from a node to its children.
TrRanks(c, D, t, S) ==
    /\ c \in [D \cup {0} -> Nat] /\ \A y \in D \cup {0} : c[y] < Cardinality(D) + 1
    /\ \A y \in D : c[t.left[y]] < c[y] /\ c[t.right[y]] < c[y]

LEMMA TreeRanks ==
    ASSUME NEW D, IsFiniteSet(D), NEW t, NEW S, TrGood(t, D, S)
    PROVE  Cardinality(D) \in Nat /\ \E c : TrRanks(c, D, t, S)
<1>1. TrPlaces(D, t, S)
    BY GoodPlaces
<1>2. S \in [D \cup {0} -> SUBSET D]
    BY <1>1 DEF TrPlaces
<1>3. PICK k \in Nat : k = Cardinality(D)
    BY FS_CardinalityType
<1>4. PICK c : c = [y \in D \cup {0} |-> Cardinality(S[y])]
    OBVIOUS
<1>5. ASSUME NEW y \in D \cup {0} PROVE c[y] \in Nat /\ c[y] <= k
    <2>1. S[y] \in SUBSET D
        BY <1>2
    <2>2. IsFiniteSet(S[y]) /\ Cardinality(S[y]) <= k
        BY <1>3, <2>1, FS_Subset
    <2>3. QED BY <1>4, <2>2, FS_CardinalityType
<1>6. ASSUME NEW y \in D PROVE c[t.left[y]] < c[y] /\ c[t.right[y]] < c[y]
    <2>1. /\ t.left[y] \in D \cup {0} /\ t.right[y] \in D \cup {0}
          /\ S[t.left[y]] \subseteq S[y] /\ S[t.left[y]] # S[y] /\ S[t.right[y]] \subseteq S[y] /\ S[t.right[y]] # S[y]
          /\ S[y] \subseteq D
        BY <1>1 DEF TrPlaces
    <2>2. PICK a : a = S[t.left[y]]
        OBVIOUS
    <2>3. PICK b : b = S[t.right[y]]
        OBVIOUS
    <2>4. PICK s : s = S[y]
        OBVIOUS
    <2>5. Cardinality(a) < Cardinality(s) /\ Cardinality(b) < Cardinality(s)
        BY <2>1, <2>2, <2>3, <2>4, MoreOf
    <2>6. QED BY <1>4, <2>1, <2>2, <2>3, <2>4, <2>5
<1>7. c \in [D \cup {0} -> Nat] /\ \A y \in D \cup {0} : c[y] < k + 1
    BY <1>3, <1>4, <1>5
<1>8. TrRanks(c, D, t, S)
    BY <1>3, <1>6, <1>7 DEF TrRanks
<1>9. QED BY <1>3, <1>8

LEMMA BeneathNests ==
    ASSUME NEW D, NEW t, NEW S, TrGood(t, D, S)
    PROVE  \A w \in D, z \in D : z \in S[w] => S[z] \subseteq S[w] /\ (z # w => t.parent[z] \in S[w])
<1>1. TrTree(D, t.root, t.parent, t.left, t.right, TrOrder(t), S)
    BY DEF TrGood
<1>2. TrNested(D, t.parent, S)
    BY <1>1 DEF TrTree
<1>3. QED BY <1>2 DEF TrNested

LEMMA BeneathSorted ==
    ASSUME NEW D, NEW t, NEW S, TrGood(t, D, S), NEW x \in D
    PROVE  /\ t.key \in [D -> Nat]
           /\ \A y \in S[t.left[x]] : y \in D /\ t.key[y] <= t.key[x]
           /\ \A y \in S[t.right[x]] : y \in D /\ t.key[x] <= t.key[y]
<1>1. TrTree(D, t.root, t.parent, t.left, t.right, TrOrder(t), S) /\ t \in TrRecords(D)
    BY DEF TrGood
<1>2. TrSorted(D, t.left, t.right, TrOrder(t), S)
    BY <1>1 DEF TrTree
<1>3. t.key \in [D -> Nat] /\ InTreap(t) = D
    BY <1>1 DEF TrRecords, InTreap
<1>4. (\A y \in S[t.left[x]] : <<y, x>> \in TrOrder(t)) /\ (\A y \in S[t.right[x]] : <<x, y>> \in TrOrder(t))
    BY <1>2 DEF TrSorted
<1>5. QED BY <1>3, <1>4 DEF TrOrder

\* p is where the key belongs: below it there is room, and above it every node leads there.
TrBelongs(t, S, p, key, A) ==
    /\ key < t.key[p] => t.left[p] = 0
    /\ ~ (key < t.key[p]) => t.right[p] = 0
    /\ \A y \in A : (p \in S[t.left[y]] => key < t.key[y]) /\ (p \in S[t.right[y]] => ~ (key < t.key[y]))

TrSide(t, x, key) == IF key < t.key[x] THEN t.left[x] ELSE t.right[x]

LeafWalk(leaf, t, key) == [x \in InTreap(t) |-> IF TrSide(t, x, key) = 0 THEN x ELSE leaf[TrSide(t, x, key)]]

LEMMA LeafForBelongs ==
    ASSUME NEW D, IsFiniteSet(D), NEW t, NEW S, TrGood(t, D, S), NEW key \in Nat, t.root # 0
    PROVE  LeafFor(t, key) \in D /\ TrBelongs(t, S, LeafFor(t, key), key, D)
<1> DEFINE leaf == CHOOSE leaf : leaf = [x \in InTreap(t) |->
                        LET next == IF key < t.key[x] THEN t.left[x] ELSE t.right[x]
                        IN  IF next = 0 THEN x ELSE leaf[next]]
<1>1. TrPlaces(D, t, S)
    BY GoodPlaces
<1>2. InTreap(t) = D /\ t.root \in D
    BY <1>1 DEF TrPlaces
<1>3. PICK k \in Nat : k = Cardinality(D) + 1
    BY TreeRanks
<1>4. PICK c : TrRanks(c, D, t, S)
    BY TreeRanks
<1>5. \A x \in D : TrSide(t, x, key) \in D \cup {0} /\ c[TrSide(t, x, key)] < c[x]
    <2>1. ASSUME NEW x \in D PROVE TrSide(t, x, key) \in D \cup {0} /\ c[TrSide(t, x, key)] < c[x]
        <3>1. t.left[x] \in D \cup {0} /\ t.right[x] \in D \cup {0}
            BY <1>1 DEF TrPlaces
        <3>2. c[t.left[x]] < c[x] /\ c[t.right[x]] < c[x]
            BY <1>4 DEF TrRanks
        <3>3. QED BY <3>1, <3>2 DEF TrSide
    <2>2. QED BY <2>1
<1>6. \E f : f = LeafWalk(f, t, key)
    <2>1. PICK stop : stop = {x \in D : TrSide(t, x, key) = 0}
        OBVIOUS
    <2>2. PICK first : first = [x \in D |-> x]
        OBVIOUS
    <2>3. PICK after : after = [x \in D |-> TrSide(t, x, key)]
        OBVIOUS
    <2>4. PICK rank : rank = [x \in D |-> c[x]]
        OBVIOUS
    <2>5. rank \in [D -> Nat] /\ \A a \in D : rank[a] < k
        BY <1>3, <1>4, <2>4 DEF TrRanks
    <2>6. \A a \in D : a \notin stop => after[a] \in D /\ rank[after[a]] < rank[a]
        BY <1>5, <2>1, <2>3, <2>4
    <2>7. first \in [D -> D]
        BY <2>2
    <2>8. PICK f : Walks(f, D, D, stop, first, after)
        BY ONLY <1>2, <1>3, <2>5, <2>6, <2>7, RankedWalkExists
    <2>9. f \in [D -> D] /\ \A x \in D : f[x] = IF TrSide(t, x, key) = 0 THEN x ELSE f[TrSide(t, x, key)]
        BY <2>1, <2>2, <2>3, <2>8 DEF Walks
    <2>10. f = LeafWalk(f, t, key)
        BY <1>2, <2>9 DEF LeafWalk
    <2>11. QED BY <2>10
<1>7. leaf = LeafWalk(leaf, t, key)
    BY <1>6 DEF LeafWalk, TrSide
<1>8. LeafFor(t, key) = leaf[t.root]
    BY DEF LeafFor
<1> HIDE DEF leaf
<1>9. \A x \in D : leaf[x] = IF TrSide(t, x, key) = 0 THEN x ELSE leaf[TrSide(t, x, key)]
    <2>1. ASSUME NEW x \in D PROVE leaf[x] = IF TrSide(t, x, key) = 0 THEN x ELSE leaf[TrSide(t, x, key)]
        <3>1. leaf[x] = LeafWalk(leaf, t, key)[x]
            BY <1>7
        <3>2. QED BY <1>2, <3>1 DEF LeafWalk
    <2>2. QED BY <2>1
<1> DEFINE Leads(x) == leaf[x] \in S[x] /\ TrBelongs(t, S, leaf[x], key, S[x])
           N == {n \in Nat : \A x \in D : c[x] = n => Leads(x)}
<1>10. ASSUME NEW n \in Nat, \A m \in Nat : m < n => m \in N PROVE n \in N
    <2>1. SUFFICES ASSUME NEW x \in D, c[x] = n PROVE Leads(x)
        OBVIOUS
    <2>2. /\ S[x] \subseteq D /\ x \in S[x] /\ x \notin S[t.left[x]] /\ x \notin S[t.right[x]]
          /\ S[x] = ({x} \cup S[t.left[x]]) \cup S[t.right[x]]
          /\ \A z \in S[t.left[x]] : z \notin S[t.right[x]]
          /\ 0 \notin D /\ S[0] = {} /\ t.left[x] \in D \cup {0} /\ t.right[x] \in D \cup {0}
        BY <1>1 DEF TrPlaces
    <2>3. ASSUME NEW y \in D PROVE S[t.left[y]] \subseteq S[y] /\ S[t.right[y]] \subseteq S[y]
        BY <1>1 DEF TrPlaces
    <2>4. \A w \in D, z \in D : z \in S[w] => S[z] \subseteq S[w]
        BY BeneathNests
    <2>5. PICK next \in D \cup {0} : next = TrSide(t, x, key)
        BY <1>5
    <2>6. CASE next = 0
        <3>1. leaf[x] = x
            BY <1>9, <2>5, <2>6
        <3>2. key < t.key[x] => t.left[x] = 0
            BY <2>5, <2>6 DEF TrSide
        <3>3. ~ (key < t.key[x]) => t.right[x] = 0
            BY <2>5, <2>6 DEF TrSide
        <3>4. ASSUME NEW y \in S[x] PROVE x \notin S[t.left[y]] /\ x \notin S[t.right[y]]
            <4>1. CASE y = x
                BY <2>2, <4>1
            <4>2. CASE y \in S[t.left[x]]
                <5>1. S[y] \subseteq S[t.left[x]]
                    BY <2>2, <2>4, <4>2
                <5>2. QED BY <2>2, <2>3, <5>1
            <4>3. CASE y \in S[t.right[x]]
                <5>1. S[y] \subseteq S[t.right[x]]
                    BY <2>2, <2>4, <4>3
                <5>2. QED BY <2>2, <2>3, <5>1
            <4>4. QED BY <2>2, <4>1, <4>2, <4>3
        <3>5. TrBelongs(t, S, x, key, S[x])
            BY <3>2, <3>3, <3>4 DEF TrBelongs
        <3>6. QED BY <2>2, <3>1, <3>5
    <2>7. CASE next \in D
        <3>1. leaf[x] = leaf[next]
            BY <1>9, <2>2, <2>5, <2>7
        <3>2. Leads(next)
            <4>1. c[next] \in Nat /\ c[next] < n
                BY <1>4, <1>5, <2>1, <2>5, <2>7 DEF TrRanks
            <4>2. c[next] \in N
                <5> HIDE DEF N
                <5>1. QED BY <1>10, <4>1
            <4>3. QED BY <2>7, <4>2
        <3>3. PICK p : p = leaf[x]
            OBVIOUS
        <3>4. p \in S[next] /\ TrBelongs(t, S, p, key, S[next])
            BY <3>1, <3>2, <3>3
        <3>5. ASSUME NEW y \in S[x] PROVE (p \in S[t.left[y]] => key < t.key[y]) /\ (p \in S[t.right[y]] => ~ (key < t.key[y]))
            <4>1. CASE y \in S[next]
                BY <3>4, <4>1 DEF TrBelongs
            <4>2. CASE y = x
                <5>1. CASE key < t.key[x]
                    <6>1. next = t.left[x]
                        BY <2>5, <5>1 DEF TrSide
                    <6>2. QED BY <2>2, <3>4, <4>2, <5>1, <6>1
                <5>2. CASE ~ (key < t.key[x])
                    <6>1. next = t.right[x]
                        BY <2>5, <5>2 DEF TrSide
                    <6>2. QED BY <2>2, <3>4, <4>2, <5>2, <6>1
                <5>3. QED BY <5>1, <5>2
            <4>3. CASE y # x /\ y \notin S[next]
                <5>1. PICK m \in D : y \in S[m] /\ m \in {t.left[x], t.right[x]} /\ \A z \in S[next] : z \notin S[m]
                    <6>1. next = t.left[x] \/ next = t.right[x]
                        BY <2>5 DEF TrSide
                    <6>2. CASE next = t.left[x]
                        <7>1. y \in S[t.right[x]] /\ t.right[x] \in D
                            BY <2>2, <4>3, <6>2
                        <7>2. QED BY <2>2, <6>2, <7>1
                    <6>3. CASE next = t.right[x]
                        <7>1. y \in S[t.left[x]] /\ t.left[x] \in D
                            BY <2>2, <4>3, <6>3
                        <7>2. QED BY <2>2, <6>3, <7>1
                    <6>4. QED BY <6>1, <6>2, <6>3
                <5>2. S[y] \subseteq S[m] /\ y \in D
                    BY <2>2, <2>4, <5>1
                <5>3. p \notin S[y]
                    BY <3>4, <5>1, <5>2
                <5>4. p \notin S[t.left[y]] /\ p \notin S[t.right[y]]
                    BY <2>3, <5>2, <5>3
                <5>5. QED BY <5>4
            <4>4. QED BY <4>1, <4>2, <4>3
        <3>6. S[next] \subseteq S[x]
            BY <2>2, <2>5 DEF TrSide
        <3>7. TrBelongs(t, S, p, key, S[x])
            BY <3>4, <3>5 DEF TrBelongs
        <3>8. QED BY <3>3, <3>4, <3>6, <3>7
    <2>8. QED BY <2>6, <2>7
<1>11. Nat \subseteq N
    <2> HIDE DEF N
    <2>1. Nat \subseteq Nat
        OBVIOUS
    <2>2. QED BY ONLY <1>10, <2>1, SmallerFirst
<1>12. Leads(t.root)
    <2>1. c[t.root] \in Nat
        BY <1>2, <1>4 DEF TrRanks
    <2>2. QED BY <1>2, <1>11, <2>1
<1>13. S[t.root] = D
    BY <1>1 DEF TrPlaces
<1>14. QED BY <1>8, <1>12, <1>13

-----------------------------------------------------------------------------
(* Lookup *)

TrBetter(t, x, best) == IF best = 0 \/ t.key[best] > t.key[x] THEN x ELSE best

LookupWalk(walk, t, key) ==
    [at \in (InTreap(t) \cup {0}) \X (InTreap(t) \cup {0}) |->
        IF at[1] = 0                    THEN at[2]
        ELSE IF key = t.key[at[1]]      THEN at[1]
        ELSE IF t.key[at[1]] < key      THEN walk[<<t.right[at[1]], at[2]>>]
        ELSE walk[<<t.left[at[1]], TrBetter(t, at[1], at[2])>>]]

\* found is a smallest of the nodes in A and best whose key is large enough, 0 if there is none.
TrFits(t, found, A, best, key) ==
    IF best = 0 /\ \A y \in A : t.key[y] < key THEN found = 0
    ELSE /\ found \in A \cup {best} /\ found # 0 /\ key <= t.key[found]
         /\ best # 0 => t.key[found] <= t.key[best]
         /\ \A y \in A : key <= t.key[y] => t.key[found] <= t.key[y]

\* The best so far is large enough, and no smaller than what is still to be seen.
TrSoFar(t, A, best, key) == best # 0 => best \in InTreap(t) /\ key <= t.key[best] /\ \A y \in A : t.key[y] <= t.key[best]

LEMMA FitsRight ==
    ASSUME NEW D, NEW t, NEW S, TrGood(t, D, S), NEW key \in Nat, NEW x \in D, NEW best \in D \cup {0},
           t.key[x] < key, NEW found, TrFits(t, found, S[t.right[x]], best, key)
    PROVE  TrFits(t, found, S[x], best, key)
<1>1. TrPlaces(D, t, S)
    BY GoodPlaces
<1>2. S[x] = ({x} \cup S[t.left[x]]) \cup S[t.right[x]]
    BY <1>1 DEF TrPlaces
<1>3. /\ t.key \in [D -> Nat] /\ \A y \in S[t.left[x]] : y \in D /\ t.key[y] <= t.key[x]
    BY BeneathSorted
<1>4. \A y \in S[t.left[x]] : t.key[y] < key /\ ~ (key <= t.key[y])
    BY <1>3
<1>5. t.key[x] < key /\ ~ (key <= t.key[x])
    BY <1>3
<1>6. (\A y \in S[x] : t.key[y] < key) <=> \A y \in S[t.right[x]] : t.key[y] < key
    BY <1>2, <1>4, <1>5
<1>7. QED BY <1>2, <1>4, <1>5, <1>6 DEF TrFits

LEMMA FitsLeft ==
    ASSUME NEW D, NEW t, NEW S, TrGood(t, D, S), NEW key \in Nat, NEW x \in D, NEW best \in D \cup {0},
           key < t.key[x], TrSoFar(t, S[x], best, key), NEW found, NEW b, b = TrBetter(t, x, best),
           TrFits(t, found, S[t.left[x]], b, key)
    PROVE  TrFits(t, found, S[x], best, key)
<1>1. TrPlaces(D, t, S)
    BY GoodPlaces
<1>2. S[x] = ({x} \cup S[t.left[x]]) \cup S[t.right[x]] /\ x # 0 /\ S[x] \subseteq D
    BY <1>1 DEF TrPlaces
<1>3. t.key \in [D -> Nat] /\ \A y \in S[t.right[x]] : y \in D /\ t.key[x] <= t.key[y]
    BY BeneathSorted
<1>4. b \in D /\ b # 0 /\ b \in {x, best} /\ t.key[b] <= t.key[x] /\ (best # 0 => t.key[b] <= t.key[best])
    <2>1. CASE best = 0
        BY <1>2, <1>3, <2>1 DEF TrBetter
    <2>2. CASE best # 0
        <3>1. best \in D /\ t.key[best] \in Nat /\ t.key[x] \in Nat
            BY <1>3, <2>2
        <3>2. QED BY <1>2, <2>2, <3>1 DEF TrBetter
    <2>3. QED BY <2>1, <2>2
<1>5. /\ found \in S[t.left[x]] \cup {b} /\ found # 0 /\ key <= t.key[found] /\ t.key[found] <= t.key[b]
      /\ \A y \in S[t.left[x]] : key <= t.key[y] => t.key[found] <= t.key[y]
    BY <1>4 DEF TrFits
<1>6. found \in S[x] \cup {best} /\ found \in D
    BY <1>2, <1>4, <1>5
<1>7. t.key[found] \in Nat /\ t.key[b] \in Nat /\ t.key[x] \in Nat /\ key \in Nat
    BY <1>3, <1>4, <1>6
<1>8. t.key[found] <= t.key[x]
    BY <1>4, <1>5, <1>7
<1>9. best # 0 => t.key[found] <= t.key[best]
    <2>1. best # 0 => t.key[best] \in Nat
        BY <1>3
    <2>2. QED BY ONLY <1>4, <1>5, <1>7, <2>1
<1>10. ASSUME NEW y \in S[x], key <= t.key[y] PROVE t.key[found] <= t.key[y]
    <2>1. CASE y \in S[t.right[x]]
        <3>1. t.key[y] \in Nat /\ t.key[x] <= t.key[y]
            BY <1>3, <2>1
        <3>2. QED BY ONLY <1>7, <1>8, <3>1
    <2>2. QED BY <1>2, <1>5, <1>8, <1>10, <2>1
<1>11. ~ (\A y \in S[x] : t.key[y] < key)
    <2>1. ~ (t.key[x] < key)
        BY <1>7
    <2>2. QED BY <1>2, <2>1
<1>12. QED BY <1>5, <1>6, <1>9, <1>10, <1>11 DEF TrFits

LEMMA LookupIsBest ==
    ASSUME NEW D, IsFiniteSet(D), NEW t, NEW S, TrGood(t, D, S), NEW key \in Nat
    PROVE  TrFits(t, LookupGeq(t, key), D, 0, key)
<1> DEFINE Node == InTreap(t) \cup {0}
           walk == CHOOSE walk : walk =
                [at \in Node \X Node |->
                    LET x == at[1]
                        best == at[2]
                    IN  IF x = 0                THEN best
                        ELSE IF key = t.key[x]  THEN x
                        ELSE IF t.key[x] < key  THEN walk[<<t.right[x], best>>]
                        ELSE walk[<<t.left[x], IF best = 0 \/ t.key[best] > t.key[x] THEN x ELSE best>>]]
<1>1. TrPlaces(D, t, S)
    BY GoodPlaces
<1>2. /\ InTreap(t) = D /\ t.root \in D \cup {0} /\ 0 \notin D /\ S[0] = {} /\ S[t.root] = D
      /\ \A x \in D : t.left[x] \in D \cup {0} /\ t.right[x] \in D \cup {0}
    BY <1>1 DEF TrPlaces
<1>2a. t.key \in [D -> Nat]
    BY DEF TrGood, TrRecords
<1>3. PICK k \in Nat : k = Cardinality(D) + 1
    BY TreeRanks
<1>4. PICK c : TrRanks(c, D, t, S)
    BY TreeRanks
<1>5. PICK E : E = D \cup {0}
    OBVIOUS
<1>6. \E f : f = LookupWalk(f, t, key)
    <2>1. PICK stop : stop = {q \in E \X E : q[1] = 0 \/ key = t.key[q[1]]}
        OBVIOUS
    <2>2. PICK first : first = [q \in E \X E |-> IF q[1] = 0 THEN q[2] ELSE q[1]]
        OBVIOUS
    <2>3. PICK after : after = [q \in E \X E |-> IF t.key[q[1]] < key THEN <<t.right[q[1]], q[2]>>
                                                 ELSE <<t.left[q[1]], TrBetter(t, q[1], q[2])>>]
        OBVIOUS
    <2>4. PICK rank : rank = [q \in E \X E |-> c[q[1]]]
        OBVIOUS
    <2>5. rank \in [E \X E -> Nat] /\ \A q \in E \X E : rank[q] < k
        BY <1>3, <1>4, <1>5, <2>4 DEF TrRanks
    <2>6. ASSUME NEW q \in E \X E, q \notin stop PROVE after[q] \in E \X E /\ rank[after[q]] < rank[q]
        <3>1. PICK x \in E, best \in E : q = <<x, best>>
            OBVIOUS
        <3>2. x \in D
            BY <1>5, <2>1, <2>6, <3>1
        <3>3. c[t.left[x]] < c[x] /\ c[t.right[x]] < c[x] /\ t.left[x] \in E /\ t.right[x] \in E
            BY <1>2, <1>4, <1>5, <3>2 DEF TrRanks
        <3>4. TrBetter(t, x, best) \in E
            BY DEF TrBetter
        <3>5. after[q] = IF t.key[x] < key THEN <<t.right[x], best>> ELSE <<t.left[x], TrBetter(t, x, best)>>
            BY <2>3, <3>1
        <3>6. rank[q] = c[x]
            BY <2>4, <3>1
        <3>7. CASE t.key[x] < key
            BY <2>4, <3>3, <3>5, <3>6, <3>7
        <3>8. CASE ~ (t.key[x] < key)
            BY <2>4, <3>3, <3>4, <3>5, <3>6, <3>8
        <3>9. QED BY <3>7, <3>8
    <2>7. first \in [E \X E -> E]
        BY <2>2
    <2>8. 0 \in E
        BY <1>5
    <2>9. PICK A : A = E \X E
        OBVIOUS
    <2>10. PICK f : Walks(f, A, E, stop, first, after)
        BY ONLY <1>3, <2>5, <2>6, <2>7, <2>8, <2>9, RankedWalkExists
    <2>11. f \in [E \X E -> E] /\ \A q \in E \X E : f[q] = IF q \in stop THEN first[q] ELSE f[after[q]]
        BY <2>9, <2>10 DEF Walks
    <2>12. ASSUME NEW x \in E, NEW best \in E
           PROVE  f[<<x, best>>] = IF x = 0                   THEN best
                               ELSE IF key = t.key[x]     THEN x
                               ELSE IF t.key[x] < key     THEN f[<<t.right[x], best>>]
                               ELSE f[<<t.left[x], TrBetter(t, x, best)>>]
        <3>1. PICK q \in E \X E : q = <<x, best>>
            OBVIOUS
        <3>2. f[q] = IF q \in stop THEN first[q] ELSE f[after[q]]
            BY <2>11
        <3>3. (q \in stop <=> (x = 0 \/ key = t.key[x])) /\ first[q] = IF x = 0 THEN best ELSE x
            BY <2>1, <2>2, <3>1
        <3>4. after[q] = IF t.key[x] < key THEN <<t.right[x], best>> ELSE <<t.left[x], TrBetter(t, x, best)>>
            BY <2>3, <3>1
        <3>5. QED BY <3>1, <3>2, <3>3, <3>4
    <2>13. f = LookupWalk(f, t, key)
        BY <1>2, <1>5, <2>11, <2>12 DEF LookupWalk
    <2>14. QED BY <2>13
<1>7. walk = LookupWalk(walk, t, key)
    BY <1>6 DEF LookupWalk, TrBetter
<1>8. LookupGeq(t, key) = walk[<<t.root, 0>>]
    BY DEF LookupGeq
<1> HIDE DEF walk
<1>9. ASSUME NEW x \in E, NEW best \in E
      PROVE  walk[<<x, best>>] = IF x = 0                   THEN best
                             ELSE IF key = t.key[x]     THEN x
                             ELSE IF t.key[x] < key     THEN walk[<<t.right[x], best>>]
                             ELSE walk[<<t.left[x], TrBetter(t, x, best)>>]
    <2>1. walk[<<x, best>>] = LookupWalk(walk, t, key)[<<x, best>>]
        BY <1>7
    <2>2. QED BY <1>2, <1>5, <2>1 DEF LookupWalk
<1> DEFINE Best(x, best) == TrSoFar(t, S[x], best, key) => TrFits(t, walk[<<x, best>>], S[x], best, key)
           N == {n \in Nat : \A x \in E, best \in E : c[x] = n => Best(x, best)}
<1>10. ASSUME NEW n \in Nat, \A m \in Nat : m < n => m \in N PROVE n \in N
    <2>1. SUFFICES ASSUME NEW x \in E, NEW best \in E, c[x] = n, TrSoFar(t, S[x], best, key)
                   PROVE  TrFits(t, walk[<<x, best>>], S[x], best, key)
        OBVIOUS
    <2>2. CASE x = 0
        <3>1. walk[<<x, best>>] = best /\ S[x] = {}
            BY <1>2, <1>9, <2>2
        <3>2. best # 0 => t.key[best] \in Nat /\ key <= t.key[best]
            BY <1>2, <1>2a, <2>1 DEF TrSoFar
        <3>3. best # 0 => t.key[best] <= t.key[best]
            BY <3>2
        <3>4. TrFits(t, best, {}, best, key)
            BY <3>2, <3>3 DEF TrFits
        <3>5. QED BY <3>1, <3>4
    <2>3. CASE x \in D /\ key = t.key[x]
        <3>1. walk[<<x, best>>] = x /\ x \in S[x] /\ x # 0
            BY <1>1, <1>2, <1>9, <2>3 DEF TrPlaces
        <3>2. TrFits(t, x, S[x], best, key)
            BY <2>1, <2>3, <3>1 DEF TrFits, TrSoFar
        <3>3. QED BY <3>1, <3>2
    <2>4. CASE x \in D /\ key # t.key[x] /\ t.key[x] < key
        <3>1. walk[<<x, best>>] = walk[<<t.right[x], best>>] /\ t.right[x] \in E
            BY <1>2, <1>5, <1>9, <2>4
        <3>2. S[t.right[x]] \subseteq S[x]
            BY <1>1, <2>4 DEF TrPlaces
        <3>3. TrSoFar(t, S[t.right[x]], best, key)
            BY <2>1, <3>2 DEF TrSoFar
        <3>4. c[t.right[x]] \in N
            <4>1. c[t.right[x]] \in Nat /\ c[t.right[x]] < n
                BY <1>4, <1>5, <2>1, <2>4, <3>1 DEF TrRanks
            <4> HIDE DEF N
            <4>2. QED BY <1>10, <4>1
        <3>5. TrFits(t, walk[<<x, best>>], S[t.right[x]], best, key)
            BY <3>1, <3>3, <3>4
        <3>6. QED BY ONLY <1>5, <2>4, <3>5, TrGood(t, D, S), key \in Nat, best \in E, FitsRight
    <2>5. CASE x \in D /\ key # t.key[x] /\ ~ (t.key[x] < key)
        <3>1. PICK b \in E : b = TrBetter(t, x, best)
            BY DEF TrBetter
        <3>2. walk[<<x, best>>] = walk[<<t.left[x], b>>] /\ t.left[x] \in E
            <4>1. t.left[x] \in E /\ x # 0
                BY <1>2, <1>5, <2>5
            <4>2. walk[<<x, best>>] = walk[<<t.left[x], TrBetter(t, x, best)>>]
                BY <1>9, <2>5, <4>1
            <4>3. QED BY <3>1, <4>1, <4>2
        <3>3. /\ S[t.left[x]] \subseteq S[x]
              /\ t.key[x] \in Nat /\ \A y \in S[t.left[x]] : y \in D /\ t.key[y] <= t.key[x]
            BY <1>1, <1>2a, <2>5, BeneathSorted DEF TrPlaces
        <3>4. key < t.key[x]
            BY <2>5, <3>3
        <3>5. TrSoFar(t, S[t.left[x]], b, key)
            <4>1. b = x \/ b = best
                BY <3>1 DEF TrBetter
            <4>2. CASE b = x
                BY <1>2, <2>5, <3>3, <3>4, <4>2 DEF TrSoFar
            <4>3. CASE b = best
                BY <2>1, <3>3, <4>3 DEF TrSoFar
            <4>4. QED BY <4>1, <4>2, <4>3
        <3>6. c[t.left[x]] \in N
            <4>1. c[t.left[x]] \in Nat /\ c[t.left[x]] < n
                BY <1>4, <1>5, <2>1, <2>5, <3>2 DEF TrRanks
            <4> HIDE DEF N
            <4>2. QED BY <1>10, <4>1
        <3>7. TrFits(t, walk[<<x, best>>], S[t.left[x]], b, key)
            BY <3>2, <3>5, <3>6
        <3>8. QED BY ONLY <1>5, <2>1, <2>5, <3>1, <3>4, <3>7, TrGood(t, D, S), key \in Nat, best \in E, FitsLeft
    <2>6. QED BY <1>5, <2>2, <2>3, <2>4, <2>5
<1>11. Nat \subseteq N
    <2> HIDE DEF N
    <2>1. Nat \subseteq Nat
        OBVIOUS
    <2>2. QED BY ONLY <1>10, <2>1, SmallerFirst
<1>12. Best(t.root, 0)
    <2>1. c[t.root] \in Nat /\ t.root \in E /\ 0 \in E
        BY <1>2, <1>4, <1>5 DEF TrRanks
    <2>2. QED BY <1>11, <2>1
<1>13. QED BY <1>2, <1>8, <1>12 DEF TrSoFar

-----------------------------------------------------------------------------
(* Insert *)

TrHeap(D, P) == \A y \in D : P[y] < y

\* A new leaf x with this key, below p: in an empty tree it is the root.
TrAdded(t, v, D, x, key, p) ==
    /\ v.root = IF p = 0 THEN x ELSE t.root
    /\ v.key = [a \in D \cup {x} |-> IF a = x THEN key ELSE t.key[a]]
    /\ v.parent = [a \in D \cup {x} |-> IF a = x THEN p ELSE t.parent[a]]
    /\ v.left = [a \in D \cup {x} |-> IF a = x THEN 0 ELSE IF a = p /\ key < t.key[p] THEN x ELSE t.left[a]]
    /\ v.right = [a \in D \cup {x} |-> IF a = x THEN 0 ELSE IF a = p /\ ~ (key < t.key[p]) THEN x ELSE t.right[a]]

TrGrown(S, D, x, p) ==
    [y \in (D \cup {x}) \cup {0} |-> IF y = x THEN {x} ELSE IF p \in S[y] THEN S[y] \cup {x} ELSE S[y]]

TrBelow(t, S, D, key, p) == IF p = 0 THEN D = {} ELSE p \in D /\ TrBelongs(t, S, p, key, D)

LEMMA AddedLeafGood ==
    ASSUME NEW D, NEW t, NEW S, TrGood(t, D, S), NEW x \in Nat, x # 0, x \notin D, NEW key \in Nat, NEW p,
           TrBelow(t, S, D, key, p), NEW v \in TrRecords(D \cup {x}), TrAdded(t, v, D, x, key, p),
           NEW S2, S2 = TrGrown(S, D, x, p)
    PROVE  TrGood(v, D \cup {x}, S2)
<1> DEFINE E == D \cup {x}
<1>1. PICK P, L, R : P = t.parent /\ L = t.left /\ R = t.right
    OBVIOUS
<1>2. PICK P2, L2, R2 : P2 = v.parent /\ L2 = v.left /\ R2 = v.right
    OBVIOUS
<1>3. PICK left : left = (key < t.key[p])
    OBVIOUS
<1>4. TrPlaces(D, t, S)
    BY GoodPlaces
<1>5. /\ D \subseteq Nat /\ 0 \notin D /\ S \in [D \cup {0} -> SUBSET D]
      /\ t.root \in D \cup {0} /\ S[0] = {} /\ S[t.root] = D
      /\ \A y \in D : P[y] = 0 <=> t.root = y
      /\ \A y \in D : /\ P[y] \in D \cup {0} /\ L[y] \in D \cup {0} /\ R[y] \in D \cup {0}
                      /\ y \in S[y] /\ S[y] = ({y} \cup S[L[y]]) \cup S[R[y]]
                      /\ y \notin S[L[y]] /\ y \notin S[R[y]]
                      /\ \A z \in S[L[y]] : z \notin S[R[y]]
      /\ \A y \in D, z \in D : P[z] = y <=> (L[y] = z \/ R[y] = z)
    BY <1>1, <1>4 DEF TrPlaces
<1>6. /\ \A a \in E : P2[a] = IF a = x THEN p ELSE P[a]
      /\ \A a \in E : L2[a] = IF a = x THEN 0 ELSE IF a = p /\ left THEN x ELSE L[a]
      /\ \A a \in E : R2[a] = IF a = x THEN 0 ELSE IF a = p /\ ~ left THEN x ELSE R[a]
      /\ v.root = IF p = 0 THEN x ELSE t.root
    BY <1>1, <1>2, <1>3 DEF TrAdded
<1>7. /\ P2 \in [E -> E \cup {0}] /\ L2 \in [E -> E \cup {0}] /\ R2 \in [E -> E \cup {0}] /\ v.root \in E \cup {0}
    BY <1>2 DEF TrRecords
<1>8. \A y \in E \cup {0} : S2[y] = IF y = x THEN {x} ELSE IF p \in S[y] THEN S[y] \cup {x} ELSE S[y]
    BY DEF TrGrown
<1>9. p \in D \cup {0} /\ (p = 0 => D = {}) /\ (p # 0 => p \in D)
    BY DEF TrBelow
<1>10. p \in D => /\ left => L[p] = 0
                  /\ ~ left => R[p] = 0
    BY <1>1, <1>3, <1>5 DEF TrBelow, TrBelongs
<1>11. \A y \in D : S[y] \subseteq D /\ x \notin S[y] /\ y # x
    BY <1>5
<1>12. S2 \in [E \cup {0} -> SUBSET E]
    <2>1. \A y \in E \cup {0} : S2[y] \in SUBSET E
        <3>1. \A y \in D \cup {0} : S[y] \in SUBSET D
            BY <1>5
        <3>2. QED BY <1>8, <3>1
    <2>2. S2 = [y \in E \cup {0} |-> S2[y]]
        BY DEF TrGrown
    <2>3. QED BY <2>1, <2>2
<1>13. TrLinks(E, v.root, P2, L2, R2, S2)
    <2>1. 0 \notin E
        BY <1>5
    <2>2. S2[0] = {} /\ S2[v.root] = E
        <3>1. S2[0] = {}
            BY <1>5, <1>8
        <3>2. CASE p = 0
            BY <1>6, <1>8, <1>9, <3>1, <3>2
        <3>3. CASE p \in D
            <4>1. v.root = t.root /\ t.root # 0 /\ t.root # x /\ t.root \in D
                BY <1>5, <1>6, <3>3
            <4>2. S2[t.root] = IF p \in S[t.root] THEN S[t.root] \cup {x} ELSE S[t.root]
                BY <1>8, <4>1
            <4>3. S[t.root] = D
                BY <1>5
            <4>4. QED BY <3>1, <3>3, <4>1, <4>2, <4>3
        <3>4. QED BY <1>9, <3>1, <3>2, <3>3
    <2>3. ASSUME NEW a \in E, NEW b \in E PROVE P2[a] = b <=> (L2[b] = a \/ R2[b] = a)
        <3>1. CASE a = x /\ b = x
            BY <1>6, <1>9, <3>1
        <3>2. CASE a = x /\ b \in D
            <4>1. L[b] # x /\ R[b] # x
                BY <1>5, <3>2
            <4>2. QED BY <1>6, <1>11, <3>2, <4>1
        <3>3. CASE a \in D /\ b = x
            BY <1>5, <1>6, <1>11, <3>3
        <3>4. CASE a \in D /\ b \in D
            <4>1. P2[a] = P[a] /\ (P[a] = b <=> (L[b] = a \/ R[b] = a)) /\ a # x /\ a # 0
                BY <1>5, <1>6, <1>11, <3>4
            <4>2. (L2[b] = IF b = p /\ left THEN x ELSE L[b]) /\ (R2[b] = IF b = p /\ ~ left THEN x ELSE R[b])
                BY <1>6, <1>11, <3>4
            <4>3. QED BY <1>10, <3>4, <4>1, <4>2
        <3>5. QED BY <3>1, <3>2, <3>3, <3>4
    <2>4. ASSUME NEW a \in E PROVE P2[a] = 0 <=> v.root = a
        BY <1>5, <1>6, <1>9, <1>11
    <2>5. QED BY <1>7, <1>12, <2>1, <2>2, <2>3, <2>4 DEF TrLinks
<1>14. TrParts(E, L2, R2, S2)
    <2> SUFFICES ASSUME NEW y \in E
                 PROVE  /\ S2[y] = ({y} \cup S2[L2[y]]) \cup S2[R2[y]]
                        /\ y \notin S2[L2[y]] /\ y \notin S2[R2[y]] /\ \A z \in S2[L2[y]] : z \notin S2[R2[y]]
        BY DEF TrParts
    <2>1. S2[0] = {} /\ S2[x] = {x}
        BY <1>5, <1>8
    <2>2. CASE y = x
        <3>1. L2[y] = 0 /\ R2[y] = 0
            BY <1>6, <2>2
        <3>2. QED BY <2>1, <2>2, <3>1
    <2>3. CASE y \in D
        <3>1. PICK l \in D \cup {0}, r \in D \cup {0} : l = L[y] /\ r = R[y]
            BY <1>5, <2>3
        <3>2. /\ y \in S[y] /\ S[y] = ({y} \cup S[l]) \cup S[r] /\ y \notin S[l] /\ y \notin S[r]
              /\ (\A z \in S[l] : z \notin S[r]) /\ S[l] \subseteq D /\ S[r] \subseteq D
            BY <1>5, <2>3, <3>1
        <3>3. /\ S2[l] = IF p \in S[l] THEN S[l] \cup {x} ELSE S[l]
              /\ S2[r] = IF p \in S[r] THEN S[r] \cup {x} ELSE S[r]
              /\ S2[y] = IF p \in S[y] THEN S[y] \cup {x} ELSE S[y]
            BY <1>8, <1>11, <2>3, <3>1
        <3>4. CASE y = p /\ left
            <4>1. L2[y] = x /\ R2[y] = r /\ l = 0
                BY <1>6, <1>10, <1>11, <2>3, <3>1, <3>4
            <4>2. QED BY <1>5, <1>11, <2>1, <2>3, <3>2, <3>3, <3>4, <4>1
        <3>5. CASE y = p /\ ~ left
            <4>1. L2[y] = l /\ R2[y] = x /\ r = 0
                BY <1>6, <1>10, <1>11, <2>3, <3>1, <3>5
            <4>2. QED BY <1>5, <1>11, <2>1, <2>3, <3>2, <3>3, <3>5, <4>1
        <3>6. CASE y # p
            <4>1. L2[y] = l /\ R2[y] = r
                BY <1>6, <1>11, <2>3, <3>1, <3>6
            <4>2. QED BY <1>11, <2>3, <3>2, <3>3, <3>6, <4>1
        <3>7. QED BY <3>4, <3>5, <3>6
    <2>4. QED BY <2>2, <2>3
<1>15. TrNested(E, P2, S2)
    <2> SUFFICES ASSUME NEW w \in E, NEW z \in E, z \in S2[w]
                 PROVE  S2[z] \subseteq S2[w] /\ (z # w => P2[z] \in S2[w])
        BY DEF TrNested
    <2>1. S2[x] = {x}
        BY <1>8
    <2>2. CASE w = x
        BY <2>1, <2>2
    <2>3. CASE w \in D /\ z = x
        <3>1. p \in S[w] /\ S2[w] = S[w] \cup {x}
            BY <1>8, <1>11, <2>3
        <3>2. QED BY <1>6, <2>1, <2>3, <3>1
    <2>4. CASE w \in D /\ z \in D
        <3>1. z \in S[w]
            BY <1>8, <1>11, <2>4
        <3>2. S[z] \subseteq S[w] /\ (z # w => P[z] \in S[w])
            BY <1>1, <2>4, <3>1, BeneathNests
        <3>3. P2[z] = P[z]
            BY <1>6, <1>11, <2>4
        <3>4. S[w] \subseteq S2[w] /\ S2[z] \subseteq S2[w]
            BY <1>8, <1>11, <2>4, <3>2
        <3>5. QED BY <3>2, <3>3, <3>4
    <2>5. QED BY <2>2, <2>3, <2>4
<1>16. TrSorted(E, L2, R2, TrOrder(v), S2)
    <2>1. v.key = [a \in E |-> IF a = x THEN key ELSE t.key[a]] /\ InTreap(v) = E /\ t.key \in [D -> Nat]
        BY DEF TrAdded, InTreap, TrGood, TrRecords
    <2>2. v.key[x] = key /\ \A a \in D : v.key[a] = t.key[a] /\ t.key[a] \in Nat
        BY <1>11, <2>1
    <2>3. \A a \in E, b \in E : v.key[a] <= v.key[b] => <<a, b>> \in TrOrder(v)
        BY <2>1 DEF TrOrder
    <2>4. S2[0] = {} /\ S2[x] = {x}
        BY <1>5, <1>8
    <2> SUFFICES ASSUME NEW y \in E
                 PROVE  (\A z \in S2[L2[y]] : <<z, y>> \in TrOrder(v)) /\ (\A z \in S2[R2[y]] : <<y, z>> \in TrOrder(v))
        BY DEF TrSorted
    <2>5. CASE y = x
        <3>1. L2[y] = 0 /\ R2[y] = 0
            BY <1>6, <2>5
        <3>2. QED BY <2>4, <3>1
    <2>6. CASE y \in D
        <3>1. PICK l \in D \cup {0}, r \in D \cup {0} : l = L[y] /\ r = R[y]
            BY <1>5, <2>6
        <3>2. /\ \A z \in S[l] : z \in D /\ t.key[z] <= t.key[y]
              /\ \A z \in S[r] : z \in D /\ t.key[y] <= t.key[z]
            BY <1>1, <2>6, <3>1, BeneathSorted
        <3>3. /\ \A z \in S[l] : <<z, y>> \in TrOrder(v)
              /\ \A z \in S[r] : <<y, z>> \in TrOrder(v)
            BY <2>2, <2>3, <2>6, <3>2
        <3>4. (p \in S[l] => key < t.key[y]) /\ (p \in S[r] => ~ (key < t.key[y]))
            <4>1. p = 0 => p \notin S[l] /\ p \notin S[r]
                BY <1>5
            <4>2. QED BY <1>1, <1>9, <2>6, <3>1, <4>1 DEF TrBelow, TrBelongs
        <3>5. (key < t.key[y] => <<x, y>> \in TrOrder(v)) /\ (~ (key < t.key[y]) => <<y, x>> \in TrOrder(v))
            <4>1. v.key[x] = key /\ v.key[y] = t.key[y] /\ t.key[y] \in Nat
                BY <2>2, <2>6
            <4>2. QED BY <2>3, <2>6, <4>1
        <3>6. /\ S2[l] = IF p \in S[l] THEN S[l] \cup {x} ELSE S[l]
              /\ S2[r] = IF p \in S[r] THEN S[r] \cup {x} ELSE S[r]
            BY <1>8, <1>11, <2>6, <3>1
        <3>7. (L2[y] = IF y = p /\ left THEN x ELSE l) /\ (R2[y] = IF y = p /\ ~ left THEN x ELSE r)
            BY <1>6, <1>11, <2>6, <3>1
        <3>8. y = p /\ left => <<x, y>> \in TrOrder(v)
            BY <1>3, <3>5
        <3>9. y = p /\ ~ left => <<y, x>> \in TrOrder(v)
            BY <1>3, <3>5
        <3>10. \A z \in S2[L2[y]] : <<z, y>> \in TrOrder(v)
            BY <2>4, <3>3, <3>4, <3>5, <3>6, <3>7, <3>8
        <3>11. \A z \in S2[R2[y]] : <<y, z>> \in TrOrder(v)
            BY <2>4, <3>3, <3>4, <3>5, <3>6, <3>7, <3>9
        <3>12. QED BY <3>10, <3>11
    <2>7. QED BY <2>5, <2>6
<1>17. E \subseteq Nat
    BY <1>5
<1>18. QED BY <1>2, <1>13, <1>14, <1>15, <1>16, <1>17 DEF TrGood, TrTree

TrWith(D, f, x, v) == [a \in D \cup {x} |-> IF a = x THEN v ELSE f[a]]

TrGrownBy(D, t, x, key, p) ==
    [root |-> t.root, key |-> TrWith(D, t.key, x, key), parent |-> TrWith(D, t.parent, x, p),
     left |-> TrWith(D, t.left, x, 0), right |-> TrWith(D, t.right, x, 0)]

TrLinked(g, t, x, key, p) ==
    IF p = 0                  THEN [g EXCEPT !.root = x]
    ELSE IF key < t.key[p]    THEN [g EXCEPT !.left[p] = x]
                              ELSE [g EXCEPT !.right[p] = x]

LEMMA LinkedIsAdded ==
    ASSUME NEW D, NEW t, t \in TrRecords(D), NEW x \in Nat, x # 0, x \notin D, 0 \notin D, NEW key \in Nat, NEW p \in D \cup {0},
           NEW g, g = TrGrownBy(D, t, x, key, p), NEW v, v = TrLinked(g, t, x, key, p)
    PROVE  v \in TrRecords(D \cup {x}) /\ TrAdded(t, v, D, x, key, p)
<1>1. PICK E : E = D \cup {x}
    OBVIOUS
<1>2. /\ t.root \in D \cup {0} /\ t.key \in [D -> Nat] /\ t.parent \in [D -> D \cup {0}] /\ t.left \in [D -> D \cup {0}]
      /\ t.right \in [D -> D \cup {0}]
    BY DEF TrRecords
<1>3. /\ TrWith(D, t.key, x, key) \in [E -> Nat] /\ TrWith(D, t.parent, x, p) \in [E -> E \cup {0}]
      /\ TrWith(D, t.left, x, 0) \in [E -> E \cup {0}] /\ TrWith(D, t.right, x, 0) \in [E -> E \cup {0}]
    BY <1>1, <1>2 DEF TrWith
<1>4. /\ g \in TrRecords(E) /\ g.root = t.root /\ g.key = TrWith(D, t.key, x, key) /\ g.parent = TrWith(D, t.parent, x, p)
      /\ g.left = TrWith(D, t.left, x, 0) /\ g.right = TrWith(D, t.right, x, 0)
    BY <1>1, <1>2, <1>3 DEF TrGrownBy, TrRecords
<1>5. PICK lefts : lefts = [a \in E |-> IF a = x THEN 0 ELSE IF a = p /\ key < t.key[p] THEN x ELSE t.left[a]]
    OBVIOUS
<1>6. PICK rights : rights = [a \in E |-> IF a = x THEN 0 ELSE IF a = p /\ ~ (key < t.key[p]) THEN x ELSE t.right[a]]
    OBVIOUS
<1>7. x \in E /\ x \in E \cup {0} /\ (p # 0 => p \in E)
    BY <1>1
<1>8. /\ v \in TrRecords(E) /\ v.root = (IF p = 0 THEN x ELSE t.root) /\ v.key = g.key /\ v.parent = g.parent
      /\ v.left = lefts /\ v.right = rights
    <2>1. CASE p = 0
        <3>1. v = [g EXCEPT !.root = x]
            BY <2>1 DEF TrLinked
        <3>2. lefts = g.left /\ rights = g.right
            BY <1>1, <1>4, <1>5, <1>6, <2>1 DEF TrWith
        <3>3. /\ v \in TrRecords(E) /\ v.root = x /\ v.key = g.key /\ v.left = g.left /\ v.parent = g.parent
              /\ v.right = g.right
            BY ONLY <1>4, <1>7, <3>1, SetRoot
        <3>4. QED BY <2>1, <3>2, <3>3
    <2>2. CASE p # 0 /\ key < t.key[p]
        <3>1. v = [g EXCEPT !.left[p] = x]
            BY <2>2 DEF TrLinked
        <3>2. lefts = [g.left EXCEPT ![p] = x] /\ rights = g.right
            <4>1. p # x /\ p \in E
                BY <1>7, <2>2
            <4>2. g.left = [a \in E |-> IF a = x THEN 0 ELSE t.left[a]] /\ g.right = [a \in E |-> IF a = x THEN 0 ELSE t.right[a]]
                BY <1>1, <1>4 DEF TrWith
            <4>3. QED BY ONLY <1>5, <1>6, <2>2, <4>1, <4>2
        <3>3. /\ v \in TrRecords(E) /\ v.root = g.root /\ v.key = g.key /\ v.left = [g.left EXCEPT ![p] = x]
              /\ v.parent = g.parent /\ v.right = g.right
            BY ONLY <1>4, <1>7, <2>2, <3>1, SetLeft
        <3>4. QED BY <1>4, <2>2, <3>2, <3>3
    <2>3. CASE p # 0 /\ ~ (key < t.key[p])
        <3>1. v = [g EXCEPT !.right[p] = x]
            BY <2>3 DEF TrLinked
        <3>2. rights = [g.right EXCEPT ![p] = x] /\ lefts = g.left
            <4>1. p # x /\ p \in E
                BY <1>7, <2>3
            <4>2. g.left = [a \in E |-> IF a = x THEN 0 ELSE t.left[a]] /\ g.right = [a \in E |-> IF a = x THEN 0 ELSE t.right[a]]
                BY <1>1, <1>4 DEF TrWith
            <4>3. QED BY ONLY <1>5, <1>6, <2>3, <4>1, <4>2
        <3>3. /\ v \in TrRecords(E) /\ v.root = g.root /\ v.key = g.key /\ v.right = [g.right EXCEPT ![p] = x]
              /\ v.parent = g.parent /\ v.left = g.left
            BY ONLY <1>4, <1>7, <2>3, <3>1, SetRight
        <3>4. QED BY <1>4, <2>3, <3>2, <3>3
    <2>4. QED BY <2>1, <2>2, <2>3
<1>9. QED BY <1>1, <1>4, <1>5, <1>6, <1>8 DEF TrAdded, TrWith

TrIsNew(D, x, key) == x \in Nat /\ x # 0 /\ x \notin D /\ key \in Nat

TrInserted(t, u, D, x, key) ==
    /\ u.key = TrWith(D, t.key, x, key) /\ TrHeap(D \cup {x}, u.parent)
    /\ \E S2 : TrGood(u, D \cup {x}, S2)

\* An insert yields a tree, in both orders, that holds one node more.
LEMMA TreapInsertGood ==
    ASSUME NEW D, IsFiniteSet(D), NEW t, NEW S, TrGood(t, D, S), TrHeap(D, t.parent), NEW x, NEW key, TrIsNew(D, x, key),
           NEW u, u = TreapInsert(t, x, key)
    PROVE  TrInserted(t, u, D, x, key)
<1>0. x \in Nat /\ x # 0 /\ x \notin D /\ key \in Nat
    BY DEF TrIsNew
<1>1. TrPlaces(D, t, S)
    BY GoodPlaces
<1>2. /\ D \subseteq Nat /\ 0 \notin D /\ t \in TrRecords(D) /\ InTreap(t) = D /\ t.root \in D \cup {0}
      /\ S[0] = {} /\ S[t.root] = D /\ \A y \in D : t.parent[y] \in D \cup {0}
    BY <1>1 DEF TrPlaces
<1>3. PICK p : p = IF t.root = 0 THEN 0 ELSE LeafFor(t, key)
    OBVIOUS
<1>4. TrBelow(t, S, D, key, p) /\ p \in D \cup {0}
    <2>1. CASE t.root = 0
        BY <1>2, <1>3, <2>1 DEF TrBelow
    <2>2. CASE t.root # 0
        <3>1. p \in D /\ TrBelongs(t, S, p, key, D)
            BY <1>0, <1>3, <2>2, LeafForBelongs
        <3>2. QED BY <1>2, <3>1 DEF TrBelow
    <2>3. QED BY <2>1, <2>2
<1>5. PICK E : E = D \cup {x}
    OBVIOUS
<1>6. PICK g : g = TrGrownBy(D, t, x, key, p)
    OBVIOUS
<1>7. PICK v : v = TrLinked(g, t, x, key, p)
    OBVIOUS
<1>8. u = RotatedUp(v, x)
    BY <1>2, <1>3, <1>6, <1>7 DEF TreapInsert, TrLinked, TrGrownBy, TrWith
<1>9. v \in TrRecords(E) /\ TrAdded(t, v, D, x, key, p)
    BY <1>0, <1>2, <1>4, <1>5, <1>6, <1>7, LinkedIsAdded
<1>10. PICK S1 : S1 = TrGrown(S, D, x, p)
    OBVIOUS
<1>11. TrGood(v, E, S1)
    BY <1>0, <1>4, <1>5, <1>9, <1>10, AddedLeafGood
<1>12. HeapBelow(E, v.parent, x)
    <2>1. \A y \in D : v.parent[y] = t.parent[y] /\ t.parent[y] < y /\ t.parent[y] # x
        BY <1>0, <1>2, <1>9 DEF TrAdded, TrHeap
    <2>2. v.parent[x] # x
        BY <1>0, <1>4, <1>9 DEF TrAdded
    <2>3. QED BY <1>5, <2>1, <2>2 DEF HeapBelow, HeapBut
<1>13. IsFiniteSet(E) /\ x \in E
    BY <1>5, FS_AddElement
<1>14. PICK S2 : TrRotatedUp(v, u, E, S2, x)
    BY <1>8, <1>11, <1>12, <1>13, RotatedUpGood
<1>15. TrGood(u, E, S2) /\ u.key = v.key /\ HeapBelow(E, u.parent, x) /\ u.parent[x] < x
    BY <1>14 DEF TrRotatedUp
<1>16. TrHeap(E, u.parent)
    BY <1>0, <1>15 DEF TrHeap, HeapBelow, HeapBut
<1>17. u.key = TrWith(D, t.key, x, key)
    BY <1>5, <1>9, <1>15 DEF TrAdded, TrWith
<1>18. QED BY <1>5, <1>15, <1>16, <1>17 DEF TrInserted

-----------------------------------------------------------------------------
(* Remove *)

TrOnly(E, f) == [a \in E |-> f[a]]

\* The leaf x is cut off the tree t.
LEMMA ClippedLeafGood ==
    ASSUME NEW D, NEW t, NEW S, TrGood(t, D, S), NEW x \in D, t.left[x] = 0, t.right[x] = 0, NEW E, E = D \ {x}, NEW c,
           c = Relinked(t, x, 0), NEW v,
           v = [root |-> c.root, key |-> TrOnly(E, c.key), parent |-> TrOnly(E, c.parent), left |-> TrOnly(E, c.left),
                right |-> TrOnly(E, c.right)],
           NEW S2, S2 = [y \in E \cup {0} |-> S[y] \ {x}]
    PROVE  TrGood(v, E, S2) /\ v.key = TrOnly(E, t.key) /\ v.parent = TrOnly(E, t.parent)
<1>1. PICK P, L, R : P = t.parent /\ L = t.left /\ R = t.right
    OBVIOUS
<1>2. PICK P2, L2, R2 : P2 = v.parent /\ L2 = v.left /\ R2 = v.right
    OBVIOUS
<1>3. TrPlaces(D, t, S)
    BY GoodPlaces
<1>4. /\ D \subseteq Nat /\ 0 \notin D /\ S \in [D \cup {0} -> SUBSET D]
      /\ t.root \in D \cup {0} /\ S[0] = {} /\ S[t.root] = D
      /\ \A y \in D : P[y] = 0 <=> t.root = y
      /\ \A y \in D : /\ P[y] \in D \cup {0} /\ L[y] \in D \cup {0} /\ R[y] \in D \cup {0}
                      /\ y \in S[y] /\ S[y] = ({y} \cup S[L[y]]) \cup S[R[y]]
                      /\ y \notin S[L[y]] /\ y \notin S[R[y]]
                      /\ \A z \in S[L[y]] : z \notin S[R[y]]
      /\ \A y \in D, z \in D : P[z] = y <=> (L[y] = z \/ R[y] = z)
    BY ONLY <1>1, <1>3 DEF TrPlaces
<1>4a. t \in TrRecords(D) /\ \A y \in D : L[y] # 0 => L[y] # R[y]
    BY <1>1, <1>3 DEF TrPlaces
<1>5. /\ c \in TrRecords(D) /\ c.key = t.key /\ c.parent = t.parent
      /\ c.root = IF P[x] = 0 THEN 0 ELSE t.root
      /\ c.left = Replaced(D, t.left, x, 0) /\ c.right = Replaced(D, t.right, x, 0)
    <2>1. \A a \in D : t.left[a] = x \/ t.right[a] = x <=> t.parent[x] = a
        BY <1>1, <1>4
    <2>2. \A a \in D : ~ (t.left[a] = x /\ t.right[a] = x)
        BY <1>1, <1>4, <1>4a
    <2>3. 0 \in D \cup {0}
        OBVIOUS
    <2>4. 0 \notin D /\ t \in TrRecords(D)
        BY <1>4, <1>4a
    <2>5. QED BY ONLY <1>1, <2>1, <2>2, <2>3, <2>4, x \in D, c = Relinked(t, x, 0), RelinkedFields
<1>6. /\ v.root = c.root /\ v.key = TrOnly(E, t.key) /\ v.parent = TrOnly(E, t.parent)
      /\ v.left = TrOnly(E, c.left) /\ v.right = TrOnly(E, c.right)
    BY <1>5
<1>7. /\ \A a \in E : P2[a] = P[a] /\ P[a] # x
      /\ \A a \in E : L2[a] = IF L[a] = x THEN 0 ELSE L[a]
      /\ \A a \in E : R2[a] = IF R[a] = x THEN 0 ELSE R[a]
      /\ v.root = IF P[x] = 0 THEN 0 ELSE t.root
    <2>1. \A a \in E : P[a] # x
        BY <1>1, <1>4
    <2>2. QED BY <1>1, <1>2, <1>5, <1>6, <2>1 DEF TrOnly, Replaced
<1>8. S[x] = {x}
    BY <1>1, <1>4
<1>9. P2 \in [E -> E \cup {0}] /\ L2 \in [E -> E \cup {0}] /\ R2 \in [E -> E \cup {0}] /\ v.root \in E \cup {0}
    <2>1. \A a \in E : P2[a] \in E \cup {0} /\ L2[a] \in E \cup {0} /\ R2[a] \in E \cup {0}
        BY <1>4, <1>7
    <2>2. P2 = [a \in E |-> P2[a]] /\ L2 = [a \in E |-> L2[a]] /\ R2 = [a \in E |-> R2[a]]
        BY <1>2, <1>6 DEF TrOnly
    <2>3. v.root \in E \cup {0}
        BY <1>4, <1>7
    <2>4. QED BY <2>1, <2>2, <2>3
<1>10. v \in TrRecords(E)
    <2>1. t.key \in [D -> Nat]
        BY <1>4a DEF TrRecords
    <2>2. TrOnly(E, t.key) \in [E -> Nat]
        BY <2>1 DEF TrOnly
    <2>3. QED BY <1>2, <1>5, <1>6, <1>9, <2>2 DEF TrRecords
<1>11. \A y \in E \cup {0} : S2[y] = S[y] \ {x}
    OBVIOUS
<1>12. TrLinks(E, v.root, P2, L2, R2, S2)
    <2>1. 0 \notin E
        BY <1>4
    <2>2. S2 \in [E \cup {0} -> SUBSET E]
        BY <1>4
    <2>3. S2[0] = {} /\ S2[v.root] = E
        <3>1. S2[0] = {}
            BY <1>4, <1>11
        <3>2. CASE P[x] = 0
            BY <1>4, <1>7, <1>8, <3>1, <3>2
        <3>3. CASE P[x] # 0
            <4>1. v.root = t.root /\ t.root # 0 /\ t.root # x /\ t.root \in E
                BY <1>4, <1>7, <3>3
            <4>2. QED BY <1>4, <1>11, <3>1, <4>1
        <3>4. QED BY <3>2, <3>3
    <2>4. ASSUME NEW a \in E, NEW b \in E PROVE P2[a] = b <=> (L2[b] = a \/ R2[b] = a)
        <3>1. P[a] = b <=> (L[b] = a \/ R[b] = a)
            BY <1>4
        <3>2. P2[a] = P[a] /\ L2[b] = (IF L[b] = x THEN 0 ELSE L[b]) /\ R2[b] = (IF R[b] = x THEN 0 ELSE R[b]) /\ a # 0 /\ a # x
            BY <1>4, <1>7
        <3>3. QED BY <3>1, <3>2
    <2>5. ASSUME NEW a \in E PROVE P2[a] = 0 <=> v.root = a
        <3>1. P2[a] = P[a] /\ (P[a] = 0 <=> t.root = a) /\ (P[x] = 0 <=> t.root = x) /\ a # 0 /\ a # x
            BY <1>4, <1>7
        <3>2. QED BY <1>7, <3>1
    <2>6. QED BY <1>9, <2>1, <2>2, <2>3, <2>4, <2>5 DEF TrLinks
<1>13. TrParts(E, L2, R2, S2)
    <2> SUFFICES ASSUME NEW y \in E
                 PROVE  /\ S2[y] = ({y} \cup S2[L2[y]]) \cup S2[R2[y]]
                        /\ y \notin S2[L2[y]] /\ y \notin S2[R2[y]] /\ \A z \in S2[L2[y]] : z \notin S2[R2[y]]
        BY DEF TrParts
    <2>1. S2[L2[y]] = S[L[y]] \ {x}
        BY <1>4, <1>7, <1>8, <1>9, <1>11
    <2>2. S2[R2[y]] = S[R[y]] \ {x}
        BY <1>4, <1>7, <1>8, <1>9, <1>11
    <2>3. /\ y \in S[y] /\ S[y] = ({y} \cup S[L[y]]) \cup S[R[y]] /\ y \notin S[L[y]] /\ y \notin S[R[y]] /\ y # x
          /\ \A z \in S[L[y]] : z \notin S[R[y]]
        BY <1>4
    <2>4. S2[y] = S[y] \ {x}
        BY <1>11
    <2>5. QED BY ONLY <2>1, <2>2, <2>3, <2>4
<1>14. TrNested(E, P2, S2)
    <2> SUFFICES ASSUME NEW w \in E, NEW z \in E, z \in S2[w]
                 PROVE  S2[z] \subseteq S2[w] /\ (z # w => P2[z] \in S2[w])
        BY DEF TrNested
    <2>1. S[z] \subseteq S[w] /\ (z # w => P[z] \in S[w])
        BY <1>1, <1>11, BeneathNests
    <2>2. QED BY <1>7, <1>11, <2>1
<1>15. TrSorted(E, L2, R2, TrOrder(v), S2)
    <2>1. InTreap(v) = E /\ \A a \in E : v.key[a] = t.key[a]
        BY <1>6, <1>10 DEF InTreap, TrRecords, TrOnly
    <2> SUFFICES ASSUME NEW y \in E
                 PROVE  (\A z \in S2[L2[y]] : <<z, y>> \in TrOrder(v)) /\ (\A z \in S2[R2[y]] : <<y, z>> \in TrOrder(v))
        BY DEF TrSorted
    <2>2. S2[L2[y]] = S[L[y]] \ {x}
        BY <1>4, <1>7, <1>8, <1>9, <1>11
    <2>3. S2[R2[y]] = S[R[y]] \ {x}
        BY <1>4, <1>7, <1>8, <1>9, <1>11
    <2>4. /\ \A z \in S[L[y]] : z \in D /\ t.key[z] <= t.key[y]
          /\ \A z \in S[R[y]] : z \in D /\ t.key[y] <= t.key[z]
        BY <1>1, BeneathSorted
    <2>5. QED BY <2>1, <2>2, <2>3, <2>4 DEF TrOrder
<1>16. QED BY <1>2, <1>4, <1>6, <1>10, <1>12, <1>13, <1>14, <1>15 DEF TrGood, TrTree

\* A removal yields a tree, in both orders, without the node.
LEMMA TreapRemoveGood ==
    ASSUME NEW D, IsFiniteSet(D), NEW t, NEW S, TrGood(t, D, S), TrHeap(D, t.parent), NEW x \in D,
           NEW u, u = TreapRemove(t, x)
    PROVE  /\ u.key = TrOnly(D \ {x}, t.key) /\ TrHeap(D \ {x}, u.parent)
           /\ \E S2 : TrGood(u, D \ {x}, S2)
<1>1. TrPlaces(D, t, S)
    BY GoodPlaces
<1>2. D \subseteq Nat /\ 0 \notin D /\ InTreap(t) = D /\ \A y \in D : t.parent[y] \in D \cup {0}
    BY <1>1 DEF TrPlaces
<1>3. HeapBut(D, t.parent, x)
    <2>1. ASSUME NEW y \in D, t.parent[y] = x PROVE t.parent[x] < y
        <3>1. t.parent[x] < x /\ x < y
            BY <2>1 DEF TrHeap
        <3>2. t.parent[x] \in Nat
            <4>1. t.parent[x] \in D \cup {0} /\ 0 \in Nat
                BY <1>2
            <4>2. QED BY ONLY <1>2, <4>1
        <3>3. x \in Nat /\ y \in Nat
            BY <1>2
        <3>4. QED BY ONLY <3>1, <3>2, <3>3
    <2>2. QED BY <2>1 DEF HeapBut, TrHeap
<1>4. PICK d : d = RotatedDown(t, x)
    OBVIOUS
<1>5. PICK S1 : TrRotatedDown(t, d, D, S1, x)
    BY <1>3, <1>4, RotatedDownGood
<1>6. TrGood(d, D, S1) /\ d.key = t.key /\ HeapBut(D, d.parent, x) /\ d.left[x] = 0 /\ d.right[x] = 0
    BY <1>5 DEF TrRotatedDown
<1>7. PICK E : E = D \ {x}
    OBVIOUS
<1>8. PICK c : c = Relinked(d, x, 0)
    OBVIOUS
<1>9. u = [root |-> c.root, key |-> TrOnly(E, c.key), parent |-> TrOnly(E, c.parent), left |-> TrOnly(E, c.left),
           right |-> TrOnly(E, c.right)]
    BY <1>2, <1>4, <1>7, <1>8 DEF TreapRemove, TrOnly
<1>10. PICK S2 : S2 = [y \in E \cup {0} |-> S1[y] \ {x}]
    OBVIOUS
<1>11. TrGood(u, E, S2) /\ u.key = TrOnly(E, d.key) /\ u.parent = TrOnly(E, d.parent)
    BY <1>6, <1>7, <1>8, <1>9, <1>10, ClippedLeafGood
<1>12. TrHeap(E, u.parent)
    <2>1. TrPlaces(D, d, S1)
        BY <1>6, GoodPlaces
    <2>2. \A y \in E : d.parent[y] # x
        BY <1>6, <1>7, <2>1 DEF TrPlaces
    <2>3. \A y \in E : d.parent[y] < y
        BY <1>6, <1>7, <2>2 DEF HeapBut
    <2>4. QED BY <1>11, <2>3 DEF TrHeap, TrOnly
<1>13. QED BY <1>6, <1>7, <1>11, <1>12

-----------------------------------------------------------------------------
(* The invariant *)

TrBeneathBy(below, t) ==
    [x \in InTreap(t) \cup {0} |-> IF x = 0 THEN {} ELSE ({x} \cup below[t.left[x]]) \cup below[t.right[x]]]

\* What is reached from a node are the nodes of its subtree.
LEMMA BeneathIs ==
    ASSUME NEW D, IsFiniteSet(D), NEW t, NEW S, TrGood(t, D, S)
    PROVE  \A x \in D \cup {0} : NodesBeneath(t)[x] = S[x]
<1> DEFINE below == CHOOSE below : below = [x \in InTreap(t) \cup {0} |->
                        IF x = 0 THEN {} ELSE {x} \cup below[t.left[x]] \cup below[t.right[x]]]
<1>1. TrPlaces(D, t, S)
    BY GoodPlaces
<1>2. /\ InTreap(t) = D /\ 0 \notin D /\ S[0] = {} /\ S \in [D \cup {0} -> SUBSET D]
      /\ \A x \in D : /\ t.left[x] \in D \cup {0} /\ t.right[x] \in D \cup {0}
                      /\ S[x] = ({x} \cup S[t.left[x]]) \cup S[t.right[x]]
    BY ONLY <1>1 DEF TrPlaces
<1>3. PICK c : TrRanks(c, D, t, S)
    BY TreeRanks
<1>4. \E f : f = TrBeneathBy(f, t)
    <2>1. \A x \in D \cup {0} : S[x] = IF x = 0 THEN {} ELSE ({x} \cup S[t.left[x]]) \cup S[t.right[x]]
        BY <1>2
    <2>2. S = TrBeneathBy(S, t)
        BY <1>2, <2>1 DEF TrBeneathBy
    <2>3. QED BY <2>2
<1>5. below = TrBeneathBy(below, t)
    BY <1>4 DEF TrBeneathBy
<1>6. NodesBeneath(t) = below
    BY DEF NodesBeneath
<1> HIDE DEF below
<1>7. \A x \in D \cup {0} : below[x] = IF x = 0 THEN {} ELSE ({x} \cup below[t.left[x]]) \cup below[t.right[x]]
    <2>1. ASSUME NEW x \in D \cup {0}
          PROVE  below[x] = IF x = 0 THEN {} ELSE ({x} \cup below[t.left[x]]) \cup below[t.right[x]]
        <3>1. below[x] = TrBeneathBy(below, t)[x]
            BY <1>5
        <3>2. QED BY <1>2, <3>1 DEF TrBeneathBy
    <2>2. QED BY <2>1
<1> DEFINE N == {n \in Nat : \A x \in D \cup {0} : c[x] = n => below[x] = S[x]}
<1>8. ASSUME NEW n \in Nat, \A m \in Nat : m < n => m \in N PROVE n \in N
    <2>1. SUFFICES ASSUME NEW x \in D \cup {0}, c[x] = n PROVE below[x] = S[x]
        OBVIOUS
    <2>2. CASE x = 0
        BY <1>2, <1>7, <2>2
    <2>3. CASE x \in D
        <3>1. c[t.left[x]] \in Nat /\ c[t.left[x]] < n /\ c[t.right[x]] \in Nat /\ c[t.right[x]] < n
            BY <1>2, <1>3, <2>1, <2>3 DEF TrRanks
        <3>2. c[t.left[x]] \in N /\ c[t.right[x]] \in N
            <4> HIDE DEF N
            <4>1. QED BY <1>8, <3>1
        <3>3. below[t.left[x]] = S[t.left[x]] /\ below[t.right[x]] = S[t.right[x]]
            BY <1>2, <2>3, <3>2
        <3>4. below[x] = ({x} \cup below[t.left[x]]) \cup below[t.right[x]]
            BY <1>2, <1>7, <2>3
        <3>5. QED BY <1>2, <2>3, <3>3, <3>4
    <2>4. QED BY <2>2, <2>3
<1>9. Nat \subseteq N
    <2> HIDE DEF N
    <2>1. Nat \subseteq Nat
        OBVIOUS
    <2>2. QED BY ONLY <1>8, <2>1, SmallerFirst
<1>10. ASSUME NEW x \in D \cup {0} PROVE below[x] = S[x]
    <2>1. c[x] \in Nat
        BY <1>3 DEF TrRanks
    <2>2. QED BY <1>9, <2>1
<1>11. QED BY <1>6, <1>10

TrTypes(size, live) ==
    /\ DOMAIN size \subseteq TrAddresses /\ \A x \in DOMAIN size : size[x] \in Nat
    /\ live \subseteq DOMAIN size

TrHolds(t, D, size) == /\ InTreap(t) = D /\ \A x \in D : t.key[x] = size[x]
                       /\ TrHeap(D, t.parent) /\ \E S : TrGood(t, D, S)

\* The tree is in both orders, and holds the freed objects with their sizes.
TrInv == TrTypes(trSize, trLive) /\ TrHolds(treap, DOMAIN trSize \ trLive, trSize)

LEMMA FreedAreFinite ==
    ASSUME NEW size, NEW live, TrTypes(size, live)
    PROVE  IsFiniteSet(DOMAIN size \ live) /\ DOMAIN size \subseteq Nat \ {0}
<1>1. TrAddresses \subseteq Nat \ {0} /\ IsFiniteSet(TrAddresses)
    BY TrAssumption
<1>2. DOMAIN size \ live \subseteq TrAddresses
    BY DEF TrTypes
<1>3. IsFiniteSet(DOMAIN size \ live)
    BY <1>1, <1>2, FS_Subset
<1>4. QED BY <1>1, <1>3 DEF TrTypes

LEMMA InvFindsBestFit == TrInv => TreapFindsBestFit
<1> SUFFICES ASSUME TrInv PROVE TreapFindsBestFit
    OBVIOUS
<1>1. PICK D : D = DOMAIN trSize \ trLive
    OBVIOUS
<1>2. PICK t : t = treap
    OBVIOUS
<1>3. InTreap(t) = D /\ (\A x \in D : t.key[x] = trSize[x]) /\ TrHeap(D, t.parent) /\ \E S : TrGood(t, D, S)
    BY <1>1, <1>2 DEF TrInv, TrHolds
<1>4. PICK S : TrGood(t, D, S)
    BY <1>3
<1>5. TrPlaces(D, t, S)
    BY <1>4, GoodPlaces
<1>6. /\ D \subseteq Nat /\ 0 \notin D /\ S[t.root] = D /\ t.root \in D \cup {0}
      /\ \A x \in D : t.left[x] \in D \cup {0} /\ t.right[x] \in D \cup {0}
      /\ \A x \in D : t.parent[x] = 0 <=> t.root = x
      /\ \A y \in D, z \in D : t.parent[z] = y <=> (t.left[y] = z \/ t.right[y] = z)
    BY ONLY <1>5 DEF TrPlaces
<1>7. IsFiniteSet(D)
    BY <1>1, FreedAreFinite DEF TrInv
<1>8. \A x \in D \cup {0} : NodesBeneath(t)[x] = S[x]
    BY <1>4, <1>7, BeneathIs
<1>9. NodesBeneath(t)[t.root] = D
    BY <1>6, <1>8
<1>10. \A x \in D, y \in D \cup {0} : t.parent[x] = y <=> IF y = 0 THEN t.root = x ELSE x \in {t.left[y], t.right[y]}
    <2> SUFFICES ASSUME NEW x \in D, NEW y \in D \cup {0}
                 PROVE  t.parent[x] = y <=> IF y = 0 THEN t.root = x ELSE x \in {t.left[y], t.right[y]}
        OBVIOUS
    <2>1. CASE y = 0
        BY <1>6, <2>1
    <2>2. CASE y # 0
        BY <1>6, <2>2
    <2>3. QED BY <2>1, <2>2
<1>11. BstProperty(t)
    <2>1. ASSUME NEW x \in D
          PROVE  /\ \A y \in NodesBeneath(t)[t.left[x]] : t.key[y] <= t.key[x]
                 /\ \A y \in NodesBeneath(t)[t.right[x]] : t.key[x] <= t.key[y]
        <3>1. NodesBeneath(t)[t.left[x]] = S[t.left[x]] /\ NodesBeneath(t)[t.right[x]] = S[t.right[x]]
            BY <1>6, <1>8
        <3>2. QED BY <1>4, <3>1, BeneathSorted
    <2>2. QED BY <1>3, <2>1 DEF BstProperty
<1>12. HeapProperty(t)
    <2>1. ASSUME NEW x \in D, NEW y \in {t.left[x], t.right[x]} \ {0} PROVE x <= y
        <3>1. y \in D /\ t.parent[y] = x
            <4>1. y \in D /\ (t.left[x] = y \/ t.right[x] = y)
                BY <1>6
            <4>2. QED BY <1>6, <4>1
        <3>2. x < y /\ x \in Nat /\ y \in Nat
            BY <1>3, <1>6, <3>1 DEF TrHeap
        <3>3. QED BY <3>2
    <2>2. QED BY <1>3, <2>1 DEF HeapProperty
<1>13. ASSUME NEW n \in TrSizes, NEW fit, fit = {x \in D : trSize[x] >= n}, NEW found, found = LookupGeq(t, n)
       PROVE  IF fit = {} THEN found = 0 ELSE found \in fit /\ \A x \in fit : trSize[found] <= trSize[x]
    <2>1. n \in Nat
        BY TrAssumption
    <2>2. TrFits(t, found, D, 0, n)
        BY <1>4, <1>7, <1>13, <2>1, LookupIsBest
    <2>3. \A x \in D : trSize[x] \in Nat /\ t.key[x] = trSize[x]
        BY <1>1, <1>3 DEF TrInv, TrTypes
    <2>4. \A x \in D : (t.key[x] < n <=> x \notin fit) /\ (n <= t.key[x] <=> x \in fit)
        BY <1>13, <2>1, <2>3
    <2>5. fit \subseteq D
        BY <1>13
    <2>6. CASE fit = {}
        BY <2>2, <2>4, <2>6 DEF TrFits
    <2>7. CASE fit # {}
        <3>1. ~ (\A y \in D : t.key[y] < n)
            BY <2>4, <2>5, <2>7
        <3>2. found \in D /\ n <= t.key[found] /\ \A y \in D : n <= t.key[y] => t.key[found] <= t.key[y]
            BY <2>2, <3>1 DEF TrFits
        <3>3. QED BY <2>3, <2>4, <2>5, <2>7, <3>2
    <2>8. QED BY <2>6, <2>7
<1>14. \A n \in TrSizes :
            LET fit == {x \in InTreap(t) : trSize[x] >= n}
                found == LookupGeq(t, n)
            IN  IF fit = {} THEN found = 0 ELSE found \in fit /\ \A x \in fit : trSize[found] <= trSize[x]
    BY <1>3, <1>13
<1>15. QED BY <1>1, <1>2, <1>3, <1>9, <1>10, <1>11, <1>12, <1>14 DEF TreapFindsBestFit

-----------------------------------------------------------------------------
(* Steps *)

LEMMA TrInitInv == TrInit => TrInv
<1> SUFFICES ASSUME TrInit PROVE TrInv
    OBVIOUS
<1>1. PICK t : t = treap
    OBVIOUS
<1>2. t = [root |-> 0, key |-> <<>>, parent |-> <<>>, left |-> <<>>, right |-> <<>>] /\ trSize = <<>> /\ trLive = {}
    BY <1>1 DEF TrInit
<1>3. DOMAIN trSize = {} /\ DOMAIN t.key = {}
    BY <1>2
<1>4. TrTypes(trSize, trLive)
    BY <1>2, <1>3 DEF TrTypes
<1>5. PICK S : S = [x \in {0} |-> {}]
    OBVIOUS
<1>6. t.root = 0 /\ \A V : <<>> \in [{} -> V]
    BY <1>2
<1>7. /\ t.key \in [{} -> Nat] /\ t.parent \in [{} -> {} \cup {0}] /\ t.left \in [{} -> {} \cup {0}]
      /\ t.right \in [{} -> {} \cup {0}]
    BY <1>2, <1>6
<1>8. t \in TrRecords({})
    BY <1>2, <1>7 DEF TrRecords
<1>9. TrLinks({}, t.root, t.parent, t.left, t.right, S)
    BY <1>5, <1>6, <1>7 DEF TrLinks
<1>10. TrTree({}, t.root, t.parent, t.left, t.right, TrOrder(t), S)
    BY <1>9 DEF TrTree, TrParts, TrNested, TrSorted
<1>11. TrGood(t, {}, S)
    BY <1>8, <1>10 DEF TrGood
<1>12. InTreap(t) = {}
    BY <1>3 DEF InTreap
<1>13. TrHolds(t, {}, trSize)
    BY <1>11, <1>12 DEF TrHolds, TrHeap
<1>14. DOMAIN trSize \ trLive = {}
    BY <1>3
<1>15. QED BY <1>1, <1>4, <1>13, <1>14 DEF TrInv

\* A freed object is taken out of the tree.
LEMMA TakenOut ==
    ASSUME TrInv, NEW x \in DOMAIN trSize \ trLive, treap' = TreapRemove(treap, x), trLive' = trLive \cup {x},
           trSize' = trSize
    PROVE  TrInv'
<1>1. PICK D : D = DOMAIN trSize \ trLive
    OBVIOUS
<1>2. PICK t : t = treap
    OBVIOUS
<1>3. PICK u : u = TreapRemove(t, x)
    OBVIOUS
<1>4. InTreap(t) = D /\ (\A y \in D : t.key[y] = trSize[y]) /\ TrHeap(D, t.parent) /\ \E S : TrGood(t, D, S)
    BY <1>1, <1>2 DEF TrInv, TrHolds
<1>5. PICK S : TrGood(t, D, S)
    BY <1>4
<1>6. IsFiniteSet(D) /\ x \in D
    BY <1>1, FreedAreFinite DEF TrInv
<1>7. u.key = TrOnly(D \ {x}, t.key) /\ TrHeap(D \ {x}, u.parent) /\ \E S2 : TrGood(u, D \ {x}, S2)
    BY ONLY <1>3, <1>4, <1>5, <1>6, TreapRemoveGood
<1>8. InTreap(u) = D \ {x} /\ \A y \in D \ {x} : u.key[y] = trSize[y]
    BY <1>4, <1>7 DEF InTreap, TrOnly
<1>9. TrHolds(u, D \ {x}, trSize)
    BY <1>7, <1>8 DEF TrHolds
<1>10. DOMAIN trSize \ (trLive \cup {x}) = D \ {x}
    BY <1>1
<1>11. TrTypes(trSize, trLive \cup {x})
    BY DEF TrInv, TrTypes
<1>12. treap' = u
    BY <1>2, <1>3
<1>13. QED BY <1>9, <1>10, <1>11, <1>12 DEF TrInv

\* An object of the program is put into it.
LEMMA PutIn ==
    ASSUME TrInv, NEW x \in TrAddresses, TrFree(x)
    PROVE  TrInv'
<1>0. x \in trLive /\ treap' = TreapInsert(treap, x, trSize[x]) /\ trLive' = trLive \ {x} /\ trSize' = trSize
    BY DEF TrFree
<1>1. PICK D : D = DOMAIN trSize \ trLive
    OBVIOUS
<1>2. PICK t : t = treap
    OBVIOUS
<1>3. PICK key : key = trSize[x]
    OBVIOUS
<1>4. InTreap(t) = D /\ (\A y \in D : t.key[y] = trSize[y]) /\ TrHeap(D, t.parent) /\ \E S : TrGood(t, D, S)
    BY <1>1, <1>2 DEF TrInv, TrHolds
<1>5. PICK S : TrGood(t, D, S)
    BY <1>4
<1>6. IsFiniteSet(D) /\ x \notin D
    BY <1>0, <1>1, FreedAreFinite DEF TrInv
<1>7. x \in DOMAIN trSize /\ key \in Nat /\ x \in Nat /\ x # 0
    BY <1>0, <1>3, TrAssumption DEF TrInv, TrTypes
<1>8. PICK u : u = TreapInsert(t, x, key)
    OBVIOUS
<1>9. u.key = TrWith(D, t.key, x, key) /\ TrHeap(D \cup {x}, u.parent) /\ \E S2 : TrGood(u, D \cup {x}, S2)
    <2>1. TrIsNew(D, x, key)
        BY <1>6, <1>7 DEF TrIsNew
    <2>2. TrInserted(t, u, D, x, key)
        BY ONLY <1>4, <1>5, <1>6, <1>8, <2>1, TreapInsertGood
    <2>3. QED BY <2>2 DEF TrInserted
<1>10. InTreap(u) = D \cup {x} /\ \A y \in D \cup {x} : u.key[y] = trSize[y]
    BY <1>3, <1>4, <1>9 DEF InTreap, TrWith
<1>11. TrHolds(u, D \cup {x}, trSize)
    BY <1>9, <1>10 DEF TrHolds
<1>12. DOMAIN trSize \ (trLive \ {x}) = D \cup {x}
    BY <1>1, <1>7
<1>13. TrTypes(trSize, trLive \ {x})
    BY DEF TrInv, TrTypes
<1>14. treap' = u
    BY <1>0, <1>2, <1>3, <1>8
<1>15. QED BY <1>0, <1>11, <1>12, <1>13, <1>14 DEF TrInv

\* The super heap adds an object.
LEMMA Fetched ==
    ASSUME TrInv, NEW a \in TrAddresses \ DOMAIN trSize, NEW sz \in Nat, trLive' = trLive \cup {a}, treap' = treap,
           trSize' = [b \in DOMAIN trSize \cup {a} |-> IF b = a THEN sz ELSE trSize[b]]
    PROVE  TrInv'
<1>1. PICK D : D = DOMAIN trSize \ trLive
    OBVIOUS
<1>2. PICK size : size = [b \in DOMAIN trSize \cup {a} |-> IF b = a THEN sz ELSE trSize[b]]
    OBVIOUS
<1>3. DOMAIN size = DOMAIN trSize \cup {a} /\ size[a] = sz /\ \A b \in DOMAIN trSize : size[b] = trSize[b]
    BY <1>2
<1>4. TrTypes(size, trLive \cup {a})
    BY <1>3 DEF TrInv, TrTypes
<1>5. DOMAIN size \ (trLive \cup {a}) = D
    BY <1>1, <1>3 DEF TrInv, TrTypes
<1>6. TrHolds(treap, D, size)
    BY <1>1, <1>3 DEF TrInv, TrHolds
<1>7. QED BY <1>2, <1>4, <1>5, <1>6 DEF TrInv

LEMMA TrNextInv == TrInv /\ [TrNext]_trVars => TrInv'
<1> SUFFICES ASSUME TrInv, [TrNext]_trVars PROVE TrInv'
    OBVIOUS
<1>1. PICK D : D = DOMAIN trSize \ trLive
    OBVIOUS
<1>2. InTreap(treap) = D
    BY <1>1 DEF TrInv, TrHolds
<1>3. ASSUME NEW request \in TrSizes, TrMalloc(request) PROVE TrInv'
    <2>1. PICK sz \in Nat : sz = IF request < TreapNodeSize THEN TreapNodeSize ELSE request
        BY TrAssumption DEF TreapNodeSize
    <2>2. PICK x : x = LookupGeq(treap, sz)
        OBVIOUS
    <2>3. CASE x # 0
        <3>1. treap' = TreapRemove(treap, x) /\ trLive' = trLive \cup {x} /\ trSize' = trSize
            BY <1>3, <2>1, <2>2, <2>3 DEF TrMalloc
        <3>2. PICK S : TrGood(treap, D, S)
            BY <1>1 DEF TrInv, TrHolds
        <3>3. IsFiniteSet(D)
            BY <1>1, FreedAreFinite DEF TrInv
        <3>4. TrFits(treap, x, D, 0, sz)
            BY <2>2, <3>2, <3>3, LookupIsBest
        <3>5. x \in D
            BY <2>3, <3>4 DEF TrFits
        <3>6. QED BY <1>1, <3>1, <3>5, TakenOut
    <2>4. CASE x = 0
        <3>1. PICK a \in TrAddresses \ DOMAIN trSize :
                 /\ trSize' = [b \in DOMAIN trSize \cup {a} |-> IF b = a THEN sz ELSE trSize[b]]
                 /\ trLive' = trLive \cup {a} /\ treap' = treap
            BY <1>3, <2>1, <2>2, <2>4 DEF TrMalloc
        <3>2. QED BY <3>1, Fetched
    <2>5. QED BY <2>3, <2>4
<1>4. ASSUME NEW x \in TrAddresses, TrFree(x) PROVE TrInv'
    BY <1>4, PutIn
<1>5. ASSUME NEW x \in TrAddresses, TrRemove(x) PROVE TrInv'
    <2>1. x \in D /\ treap' = TreapRemove(treap, x) /\ trLive' = trLive \cup {x} /\ trSize' = trSize
        BY <1>2, <1>5 DEF TrRemove
    <2>2. QED BY <1>1, <2>1, TakenOut
<1>6. CASE UNCHANGED trVars
    BY <1>6 DEF TrInv, trVars
<1>7. QED BY <1>3, <1>4, <1>5, <1>6 DEF TrNext

\* However objects are freed, reused and removed in turn, the treap holds every freed
\* object once, in both of its orders, and finds the best fit (TreapHeap).
THEOREM TreapFindsTheBestFit == TrSpec => []TreapFindsBestFit
<1>1. TrSpec => []TrInv
    BY TrInitInv, TrNextInv, PTL DEF TrSpec
<1>2. QED BY <1>1, InvFindsBestFit, PTL
=============================================================================
