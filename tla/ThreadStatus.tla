---------------------------- MODULE ThreadStatus ----------------------------
(***************************************************************************)
(* The blocks that carry a thread's result from spawn to sync              *)
(* (xthread::ThreadStatus).  A forked thread's block is a page shared by   *)
(* all processes, an inline thread's is taken from _tstatHeap, which every *)
(* process has its own copy of; sync gives the first back to _tstatHeap    *)
(* and unmaps the second.                                                  *)
(*                                                                         *)
(* A thread returns its own name.  Waits for predecessors are XThread's.   *)
(***************************************************************************)
EXTENDS Naturals

CONSTANTS
    TsThreads,          \* the forked threads, and
    TsMain,             \* the one of main()
    TsInlines,          \* the inline threads
    TsPages,            \* the pages that mmap hands out
    TsNone,             \* NULL
    TsLogCPUs,          \* the level from which spawns are inline
    TsForkAfterJoin     \* whether a process that has joined a forked thread
                        \* still forks

ASSUME TsMainAssumption == TsMain \in TsThreads
ASSUME TsKindsAssumption ==
    /\ TsThreads \cap TsInlines = {} /\ TsPages \cap (TsThreads \cup TsInlines) = {}
    /\ TsNone \notin TsThreads \cup TsInlines \cup TsPages
ASSUME TsLevelAssumption == TsLogCPUs \in Nat /\ TsForkAfterJoin \in BOOLEAN

VARIABLES
    tsPc,           \* where each forked thread is
    tsLevel,        \* _nestingLevel
    tsBlock,        \* the block it was given
    tsStatus,       \* what is in the blocks.  "first" is the first word: tid, or
                    \* the link of a block on a free list
    tsHandles,      \* the joinable threads a process knows, and their blocks
    tsSaved,        \* the same at its last atomicBegin
    tsHead,         \* head of the free list of _tstatHeap, one per process
    tsUnmapped,     \* the pages a process has unmapped
    tsGot           \* history: which result was given out for which thread

tsVars == <<tsPc, tsLevel, tsBlock, tsStatus, tsHandles, tsSaved, tsHead, tsUnmapped, tsGot>>

\* The block of an inline thread if it comes fresh from the zone is its own.
TsBlocks == TsPages \cup TsInlines

TsHandleSet == [of : TsThreads \cup TsInlines, block : TsBlocks]

TsInit ==
    /\ tsPc = [t \in TsThreads |-> IF t = TsMain THEN "run" ELSE "unborn"]
    /\ tsLevel = [t \in TsThreads |-> 0]
    /\ tsBlock = [t \in TsThreads |-> TsNone]
    /\ tsStatus = [b \in TsBlocks |-> [first |-> TsNone, retval |-> TsNone, forked |-> FALSE]]
    /\ tsHandles = [t \in TsThreads |-> {}]
    /\ tsSaved = [t \in TsThreads |-> {}]
    /\ tsHead = [t \in TsThreads |-> TsNone]
    /\ tsUnmapped = [t \in TsThreads |-> {}]
    /\ tsGot = {}

\* Every page is handed out once, every inline thread runs once (a bound).
TsFreshPages == TsPages \ {tsBlock[t] : t \in TsThreads}
TsSpawned(i) == \/ \E t \in TsThreads : \E h \in tsHandles[t] \cup tsSaved[t] : h.of = i
                \/ \E g \in tsGot : g.of = i
-----------------------------------------------------------------------------
\* spawn by fork: the page is mapped first, and everything the parent's
\* library and program know is inherited, the free list included.
TsFork(t, c, b) ==
    /\ tsPc[t] = "run" /\ tsPc[c] = "unborn" /\ b \in TsFreshPages
    /\ tsLevel[t] < TsLogCPUs
    /\ TsForkAfterJoin \/ tsHead[t] = TsNone
    /\ tsPc' = [tsPc EXCEPT ![c] = "run"]
    /\ tsLevel' = [tsLevel EXCEPT ![c] = tsLevel[t] + 1]
    /\ tsBlock' = [tsBlock EXCEPT ![c] = b]
    /\ tsStatus' = [tsStatus EXCEPT ![b].first = c, ![b].forked = TRUE]
    /\ LET more == tsHandles[t] \cup {[of |-> c, block |-> b]}
       IN  /\ tsHandles' = [tsHandles EXCEPT ![t] = more, ![c] = tsHandles[t]]
           /\ tsSaved' = [tsSaved EXCEPT ![t] = more, ![c] = tsHandles[t]]
    /\ tsHead' = [tsHead EXCEPT ![c] = tsHead[t]]
    /\ tsUnmapped' = [tsUnmapped EXCEPT ![c] = tsUnmapped[t]]
    /\ UNCHANGED tsGot

\* spawn inline: the thread has run when _tstatHeap is asked for a block, which
\* is the first of the free list or a new one.
TsSpawnInline(t, i) ==
    /\ tsPc[t] = "run" /\ ~TsSpawned(i)
    /\ tsLevel[t] >= TsLogCPUs
    /\ LET b == IF tsHead[t] # TsNone THEN tsHead[t] ELSE i
       IN  /\ tsHead' = [tsHead EXCEPT ![t] = IF @ # TsNone THEN tsStatus[b].first ELSE @]
           /\ tsStatus' = [tsStatus EXCEPT ![b].retval = i, ![b].forked = FALSE]
           /\ tsHandles' = [tsHandles EXCEPT ![t] = @ \cup {[of |-> i, block |-> b]}]
    /\ UNCHANGED <<tsPc, tsLevel, tsBlock, tsSaved, tsUnmapped, tsGot>>

\* run_thread: fn and its atomicEnd are over ...
TsReturn(c) ==
    /\ c # TsMain /\ tsPc[c] = "run"
    /\ tsPc' = [tsPc EXCEPT ![c] = "returned"]
    /\ UNCHANGED <<tsLevel, tsBlock, tsStatus, tsHandles, tsSaved, tsHead, tsUnmapped, tsGot>>

\* ... then the result is stored, by a process without a transaction ...
TsStore(c) ==
    /\ tsPc[c] = "returned"
    /\ tsPc' = [tsPc EXCEPT ![c] = "stored"]
    /\ tsStatus' = [tsStatus EXCEPT ![tsBlock[c]].retval = c]
    /\ UNCHANGED <<tsLevel, tsBlock, tsHandles, tsSaved, tsHead, tsUnmapped, tsGot>>

\* Seeded fault: the latch is released when the thread has returned.
TsExitEarly(c) ==
    /\ tsPc[c] \in {"returned", "stored"}
    /\ tsPc' = [tsPc EXCEPT ![c] = "exited"]
    /\ UNCHANGED <<tsLevel, tsBlock, tsStatus, tsHandles, tsSaved, tsHead, tsUnmapped, tsGot>>

\* ... then the latch is released.
TsExit(c) ==
    /\ tsPc[c] = "stored"
    /\ tsPc' = [tsPc EXCEPT ![c] = "exited"]
    /\ UNCHANGED <<tsLevel, tsBlock, tsStatus, tsHandles, tsSaved, tsHead, tsUnmapped, tsGot>>

\* A program joins a thread once: the others forget the handle.
TsForget(f, t, h) == [s \in TsThreads |-> IF s = t THEN f[s] ELSE f[s] \ {h}]

\* sync of what the block says was forked: wait for the latch, take the result,
\* free, begin.
TsSyncForked(t, h) ==
    LET st == tsStatus[h.block]
    IN  /\ tsPc[t] = "run" /\ h \in tsHandles[t] /\ h.block \notin tsUnmapped[t]
        /\ st.forked
        /\ st.first \in TsThreads => tsPc[st.first] = "exited"
        /\ tsGot' = tsGot \cup {[of |-> h.of, got |-> st.retval]}
        /\ tsHead' = [tsHead EXCEPT ![t] = h.block]
        /\ tsStatus' = [tsStatus EXCEPT ![h.block].first = tsHead[t]]
        /\ tsHandles' = [s \in TsThreads |-> tsHandles[s] \ {h}]
        /\ tsSaved' = [TsForget(tsSaved, t, h) EXCEPT ![t] = tsHandles[t] \ {h}]
        /\ UNCHANGED <<tsPc, tsLevel, tsBlock, tsUnmapped>>

\* sync of the others, inside the transaction: the block is unmapped.  munmap
\* refuses one from the zone, which starts in the middle of a page.
TsSyncInline(t, h) ==
    /\ tsPc[t] = "run" /\ h \in tsHandles[t] /\ h.block \notin tsUnmapped[t]
    /\ ~tsStatus[h.block].forked
    /\ tsGot' = tsGot \cup {[of |-> h.of, got |-> tsStatus[h.block].retval]}
    /\ tsUnmapped' = [tsUnmapped EXCEPT ![t] = @ \cup ({h.block} \cap TsPages)]
    /\ tsHandles' = [s \in TsThreads |-> tsHandles[s] \ {h}]
    /\ tsSaved' = TsForget(tsSaved, t, h)
    /\ UNCHANGED <<tsPc, tsLevel, tsBlock, tsStatus, tsHead>>

\* sync of a block the process has unmapped before: the access is a fault that
\* the handler does not survive (SEGV_MAPERR).
TsSyncUnmapped(t, h) ==
    /\ tsPc[t] = "run" /\ h \in tsHandles[t] /\ h.block \in tsUnmapped[t]
    /\ tsPc' = [tsPc EXCEPT ![t] = "crashed"]
    /\ UNCHANGED <<tsLevel, tsBlock, tsStatus, tsHandles, tsSaved, tsHead, tsUnmapped, tsGot>>

\* atomicEnd and atomicBegin.
TsPunctuate(t) ==
    /\ tsPc[t] = "run"
    /\ tsSaved' = [tsSaved EXCEPT ![t] = tsHandles[t]]
    /\ UNCHANGED <<tsPc, tsLevel, tsBlock, tsStatus, tsHandles, tsHead, tsUnmapped, tsGot>>

\* A rollback restores what the program knows, not what the library does.
TsRollback(t) ==
    /\ tsPc[t] = "run"
    /\ tsHandles' = [tsHandles EXCEPT ![t] = tsSaved[t]]
    /\ UNCHANGED <<tsPc, tsLevel, tsBlock, tsStatus, tsSaved, tsHead, tsUnmapped, tsGot>>

TsNext ==
    \E t \in TsThreads :
        \/ \E c \in TsThreads, b \in TsPages : TsFork(t, c, b)
        \/ \E i \in TsInlines : TsSpawnInline(t, i)
        \/ TsReturn(t) \/ TsStore(t) \/ TsExit(t)
        \/ \E h \in TsHandleSet : TsSyncForked(t, h) \/ TsSyncInline(t, h) \/ TsSyncUnmapped(t, h)
        \/ TsPunctuate(t) \/ TsRollback(t)

TsSpec == TsInit /\ [][TsNext]_tsVars
-----------------------------------------------------------------------------
\* A join returns what the joined thread returned: xthread::sync reads the
\* block after the thread has stored its result there, and nobody else has been
\* given the block in between.
JoinGetsResult == \A g \in tsGot : g.got = g.of
=============================================================================
