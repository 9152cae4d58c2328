---------------------------- MODULE ObstackReap ----------------------------
(***************************************************************************)
(* ObstackReap: an obstack made of reaps (heaps that can be deleted as a   *)
(* whole). The reaps but the current one are on a DynStack, which is kept  *)
(* in a DynamicArray that doubles and halves.                              *)
(*                                                                         *)
(* An object is named by a number that says how old it is. A reap is the   *)
(* set of its objects.                                                     *)
(***************************************************************************)
EXTENDS Integers, SequencesExt

CONSTANTS
    OrReaps,        \* the names of reaps
    OrNone,         \* what a new array is filled with; no reap
    OrSizes,        \* what malloc and grow are called with
    OrMaxObjects,   \* bound: the objects ever made
    OrMaxSize       \* bound: the size of the current object

ASSUME OrAssumption == /\ OrNone \notin OrReaps /\ OrReaps # {}
                       /\ OrSizes \subseteq Nat /\ OrMaxObjects \in Nat /\ OrMaxSize \in Nat

VARIABLES
    reaps,              \* the reaps there are: their objects
    currentReap,
    numItems,           \* reapStack: how many reaps are on it
    items,              \* reapStack: its array, a function on 0 .. its length - 1
    currentObject,
    currentObjectSize,
    isCurrentObjectExposed,
    orMade,             \* how many objects have been made
    orPushed            \* history: the reaps put aside and not come back to, in order

orStack == <<numItems, items, orPushed>>
orObject == <<currentObject, currentObjectSize, isCurrentObjectExposed, orMade>>
orVars == <<reaps, currentReap, orStack, orObject>>

INITIAL_OBJECT_SIZE == 64

ArrayLength(a) == Cardinality(DOMAIN a)
ArrayResized(a, kept, length) == [i \in 0 .. length - 1 |-> IF i < kept THEN a[i] ELSE OrNone]

\* operator[] as it is assigned through: the array grows to hold the index.
Grown(a, index) ==
    IF index >= ArrayLength(a) THEN ArrayResized(a, ArrayLength(a), index * 2 + 1) ELSE a

\* trim: the array is halved if fewer than a quarter of its elements are used.
Trimmed(a, nelts) ==
    IF DOMAIN a # {} /\ nelts * 4 < ArrayLength(a) THEN ArrayResized(a, nelts, nelts * 2) ELSE a

Push(r) ==
    /\ numItems' = numItems + 1
    /\ items' = [Grown(items, numItems + 1) EXCEPT ![numItems + 1] = r]
    /\ orPushed' = Append(orPushed, r)

\* Seeded fault: entry zero is forgotten.
PoppedTooFar(a, n, k) ==
    LET after[j \in 0 .. k] == IF j = 0 THEN a ELSE Trimmed(after[j - 1], n - j)
    IN  after[k]

\* The stack after so many calls of pop, which trims the array each time; the
\* array's entry zero is not used.
Popped(a, n, k) ==
    LET after[j \in 0 .. k] == IF j = 0 THEN a ELSE Trimmed(after[j - 1], n - j + 1)
    IN  after[k]

OrInit ==
    /\ currentReap = CHOOSE r \in OrReaps : TRUE
    /\ reaps = [r \in {currentReap} |-> {1}]
    /\ numItems = 0
    /\ items = [i \in {0} |-> OrNone]
    /\ currentObject = 1 /\ currentObjectSize = 0 /\ isCurrentObjectExposed = FALSE
    /\ orMade = 1
    /\ orPushed = <<>>

\* The next reap that new makes; its name does not matter.
NewReap == CHOOSE r \in OrReaps \ DOMAIN reaps : TRUE
ReapLeft == OrReaps # DOMAIN reaps

\* initCurrentObject, in a reap that holds these objects already.
InitCurrentObject(old, r, objects) ==
    /\ orMade < OrMaxObjects
    /\ reaps' = [x \in DOMAIN old \cup {r} |->
                   IF x = r THEN objects \cup {orMade + 1} ELSE old[x]]
    /\ currentReap' = r
    /\ currentObject' = orMade + 1 /\ currentObjectSize' = 0 /\ isCurrentObjectExposed' = FALSE

\* The current reap is put aside, and there is a new one with a new object.
StartReap(old) ==
    /\ Push(currentReap)
    /\ ReapLeft
    /\ InitCurrentObject(old, NewReap, {})

ObjectAlive == \E r \in DOMAIN reaps : currentObject \in reaps[r]

\* A reap's realloc: the object goes and a new one comes.
ReapRealloc(old, new) ==
    [r \in DOMAIN reaps |-> (reaps[r] \ {old}) \cup (IF r = currentReap THEN {new} ELSE {})]

\* malloc: an object whose address the program knows stays where it is, and the
\* next ones are made in another reap.
OrMalloc ==
    IF ~isCurrentObjectExposed
    THEN /\ orMade < OrMaxObjects
         /\ reaps' = [reaps EXCEPT ![currentReap] = @ \cup {orMade + 1}]
         /\ orMade' = orMade + 1
         /\ UNCHANGED <<currentReap, orStack, currentObject, currentObjectSize, isCurrentObjectExposed>>
    ELSE /\ ObjectAlive
         /\ StartReap(reaps)
         /\ orMade' = orMade + 1

GetObjectBase ==
    /\ ObjectAlive
    /\ isCurrentObjectExposed' = TRUE
    /\ UNCHANGED <<reaps, currentReap, orStack, currentObject, currentObjectSize, orMade>>

Finalize ==
    /\ IF isCurrentObjectExposed THEN StartReap(reaps)
       ELSE InitCurrentObject(reaps, currentReap, reaps[currentReap]) /\ UNCHANGED orStack
    /\ orMade' = orMade + 1

\* grow: the object is reallocated (with sz bytes; its new size is not recorded),
\* and if it was exposed a new reap is begun, in which it is not.
Grow(sz) ==
    LET resize == currentObjectSize + sz > INITIAL_OBJECT_SIZE
    IN  /\ ObjectAlive
        /\ currentObjectSize + sz <= OrMaxSize
        /\ currentObjectSize' = currentObjectSize + sz
        /\ isCurrentObjectExposed' = FALSE
        /\ IF resize
           THEN LET moved == ReapRealloc(currentObject, orMade + 1)
                IN  /\ orMade < OrMaxObjects
                    /\ orMade' = orMade + 1
                    /\ currentObject' = orMade + 1
                    /\ IF isCurrentObjectExposed
                       THEN /\ ReapLeft
                            /\ Push(currentReap)
                            /\ reaps' = [x \in DOMAIN reaps \cup {NewReap} |->
                                           IF x = NewReap THEN {} ELSE moved[x]]
                            /\ currentReap' = NewReap
                       ELSE reaps' = moved /\ UNCHANGED <<currentReap, orStack>>
           ELSE UNCHANGED <<reaps, currentReap, orStack, currentObject, orMade>>

\* The reap so far below the current one.
ReapAt(k) == IF k = 0 THEN currentReap ELSE items[numItems - k + 1]

\* freeAfter, of an object there is: reaps are deleted until it is in the current one.
FreeAfter(o) ==
    /\ \E r \in DOMAIN reaps : o \in reaps[r]
    /\ LET k == Min({d \in 0 .. numItems : o \in reaps[ReapAt(d)]})
       IN  /\ reaps' = [r \in DOMAIN reaps \ {ReapAt(d) : d \in 0 .. k - 1} |-> reaps[r]]
           /\ currentReap' = ReapAt(k)
           /\ numItems' = numItems - k
           /\ items' = Popped(items, numItems, k)
           /\ orPushed' = SubSeq(orPushed, 1, numItems - k)
    /\ UNCHANGED orObject

OrNext ==
    \/ OrMalloc \/ GetObjectBase \/ Finalize
    \/ \E sz \in OrSizes : Grow(sz)
    \/ \E o \in 1 .. OrMaxObjects : FreeAfter(o)

OrSpec == OrInit /\ [][OrNext]_orVars
-----------------------------------------------------------------------------
\* However often its array has doubled and halved, the stack holds the reaps put
\* aside, oldest first; and an object of a reap that lies deeper is older than any
\* of a reap above it, so freeAfter never frees what is older than its argument.
ReapsStackUp ==
    /\ numItems = Len(orPushed)
    /\ \A i \in 1 .. numItems : items[i] = orPushed[i]
    /\ ToSet(orPushed) \cup {currentReap} = DOMAIN reaps
    /\ LET all == Append(orPushed, currentReap)
       IN  \A i, j \in 1 .. Len(all) : i < j =>
              \A o \in reaps[all[i]], p \in reaps[all[j]] : o < p
=============================================================================
