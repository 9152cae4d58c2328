------------------------------ MODULE MmapHeap ------------------------------
(***************************************************************************)
(* MmapHeap: regions from mmap, and a hash map under a lock that records   *)
(* their sizes, which munmap needs.  It is shared by threads; mmap itself  *)
(* is called outside the lock.  (MyHashMap is the map's implementation:    *)
(* bins with lists of nodes.)                                              *)
(*                                                                         *)
(* Addresses and sizes count pages; page p is in bin p mod MhBins.         *)
(***************************************************************************)
EXTENDS Naturals, Sequences, FiniteSets, SequencesExt

CONSTANTS
    MhThreads,      \* the threads
    MhPages,        \* the pages that there are: 1 .. MhPages
    MhSizes,        \* the sizes that are asked for
    MhBins,         \* num_bins
    MhNone          \* nobody

ASSUME MhAssumption ==
    /\ MhPages \in Nat /\ MhSizes \subseteq Nat \ {0} /\ MhBins \in Nat \ {0}
    /\ MhNone \notin MhThreads

VARIABLES
    mhTable,        \* bins: sequences of nodes, records of key and value
    mhLock,         \* MyMapLock: who holds it, or MhNone
    mhPc,           \* where each thread is in malloc or free, and with which region
    mhMapped,       \* the pages that are mapped
    mhLive          \* history: the regions the program holds: address -> size

mhVars == <<mhTable, mhLock, mhPc, mhMapped, mhLive>>

MhIdle == [at |-> "idle", ptr |-> 0, size |-> 0]
Region(ptr, size) == ptr .. ptr + size - 1

MhInit ==
    /\ mhTable = [b \in 0 .. MhBins - 1 |-> <<>>]
    /\ mhLock = MhNone
    /\ mhPc = [t \in MhThreads |-> MhIdle]
    /\ mhMapped = {}
    /\ mhLive = <<>>
-----------------------------------------------------------------------------
(* MyHashMap *)

BinIn(key) == key % MhBins

\* The place of the first node with this key in its bin, 0 without one.
NodeAt(table, key) == SelectInSeq(table[BinIn(key)], LAMBDA n : n.key = key)

\* find_bool
FindBool(table, key) == NodeAt(table, key) # 0

\* insert, in front.
MapInsert(table, key, value) ==
    [table EXCEPT ![BinIn(key)] = <<[key |-> key, value |-> value]>> \o @]

\* set: the node's value is replaced; if there is none, one is inserted.
MapSet(table, key, value) ==
    IF FindBool(table, key) THEN [table EXCEPT ![BinIn(key)][NodeAt(table, key)].value = value]
                            ELSE MapInsert(table, key, value)

\* get, with what MmapHeap takes for a missing key.
MapGet(table, key) ==
    LET i == NodeAt(table, key) IN IF i = 0 THEN 0 ELSE table[BinIn(key)][i].value

MapErase(table, key) ==
    LET i == NodeAt(table, key)
    IN  IF i = 0 THEN table ELSE [table EXCEPT ![BinIn(key)] = RemoveAt(@, i)]
-----------------------------------------------------------------------------
(* MmapHeap *)

\* malloc: the kernel maps any pages that are free ...
MhMap(t, ptr, size) ==
    /\ mhPc[t].at = "idle" /\ size \in MhSizes
    /\ Region(ptr, size) \subseteq (1 .. MhPages) \ mhMapped
    /\ mhMapped' = mhMapped \cup Region(ptr, size)
    /\ mhPc' = [mhPc EXCEPT ![t] = [at |-> "record", ptr |-> ptr, size |-> size]]
    /\ UNCHANGED <<mhTable, mhLock, mhLive>>

\* ... and their size is recorded under the lock.
MhRecord(t) ==
    LET r == mhPc[t]
    IN  /\ r.at = "record" /\ mhLock = MhNone
        /\ mhTable' = MapSet(mhTable, r.ptr, r.size)
        /\ mhLive' = [p \in DOMAIN mhLive \cup {r.ptr} |-> IF p = r.ptr THEN r.size ELSE mhLive[p]]
        /\ mhPc' = [mhPc EXCEPT ![t] = MhIdle]
        /\ UNCHANGED <<mhLock, mhMapped>>

Released(ptr) == [p \in DOMAIN mhLive \ {ptr} |-> mhLive[p]]

\* Seeded fault: the lock is not held from the munmap to the erase.
MhUnmapUnlocked(t, ptr) ==
    /\ mhPc[t].at = "idle" /\ ptr \in DOMAIN mhLive /\ mhLock = MhNone
    /\ mhMapped' = mhMapped \ Region(ptr, MapGet(mhTable, ptr))
    /\ mhLive' = Released(ptr)
    /\ mhPc' = [mhPc EXCEPT ![t] = [at |-> "erase", ptr |-> ptr, size |-> 0]]
    /\ UNCHANGED <<mhTable, mhLock>>

\* free: the lock is taken and as many pages are unmapped as the map says ...
MhUnmap(t, ptr) ==
    /\ mhPc[t].at = "idle" /\ ptr \in DOMAIN mhLive /\ mhLock = MhNone
    /\ mhLock' = t
    /\ mhMapped' = mhMapped \ Region(ptr, MapGet(mhTable, ptr))
    /\ mhLive' = Released(ptr)
    /\ mhPc' = [mhPc EXCEPT ![t] = [at |-> "erase", ptr |-> ptr, size |-> 0]]
    /\ UNCHANGED mhTable

\* ... then the record is erased and the lock released.
MhErase(t) ==
    /\ mhPc[t].at = "erase"
    /\ mhTable' = MapErase(mhTable, mhPc[t].ptr)
    /\ mhLock' = MhNone
    /\ mhPc' = [mhPc EXCEPT ![t] = MhIdle]
    /\ UNCHANGED <<mhMapped, mhLive>>

\* free with a size: the record stays.
MhFreeSized(t, ptr) ==
    /\ mhPc[t].at = "idle" /\ ptr \in DOMAIN mhLive
    /\ mhMapped' = mhMapped \ Region(ptr, mhLive[ptr])
    /\ mhLive' = Released(ptr)
    /\ UNCHANGED <<mhTable, mhLock, mhPc>>

MhNext ==
    \E t \in MhThreads :
        \/ \E p \in 1 .. MhPages : \/ \E n \in MhSizes : MhMap(t, p, n)
                                   \/ MhUnmap(t, p) \/ MhFreeSized(t, p)
        \/ MhRecord(t) \/ MhErase(t)

MhSpec == MhInit /\ [][MhNext]_mhVars
-----------------------------------------------------------------------------
\* A region the program holds is recorded with its size, whichever thread has just
\* unmapped a region at the same address or left a stale record of one, so that
\* free gives back all of it; and nothing stays mapped that nobody holds.
HeldRegionsRecorded ==
    /\ \A p \in DOMAIN mhLive : MapGet(mhTable, p) = mhLive[p]
    /\ mhMapped = (UNION {Region(p, mhLive[p]) : p \in DOMAIN mhLive})
                  \cup (UNION {Region(mhPc[t].ptr, mhPc[t].size) :
                               t \in {s \in MhThreads : mhPc[s].at = "record"}})
=============================================================================
