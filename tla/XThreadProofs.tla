--------------------------- MODULE XThreadProofs ---------------------------
(***************************************************************************)
(* Theorems about threads, which are processes.  What every one has a copy *)
(* of, after fork, and no rollback restores (ThreadStatus, BumpHeap), and  *)
(* what a rollback restores (XContext).  Then XThread, for any number of   *)
(* threads, any LogCPUs, with or without pthread_exit and irrevocable      *)
(* operations; what is said of the order assumes that no process id is     *)
(* used twice.                                                             *)
(***************************************************************************)
EXTENDS XThread, ThreadStatus, BumpHeap, XContext, Integers, FiniteSetTheorems, SequenceTheorems,
        WellFoundedInduction, TLAPS

-----------------------------------------------------------------------------
(* ThreadStatus *)

TsJoined(i) == \E g \in tsGot : g.of = i

TsTypes ==
    /\ tsPc \in [TsThreads -> {"unborn", "run", "returned", "stored", "exited", "crashed"}]
    /\ tsBlock \in [TsThreads -> TsPages \cup {TsNone}]
    /\ tsStatus \in [TsBlocks -> [first : TsBlocks \cup TsThreads \cup {TsNone},
                                  retval : TsThreads \cup TsInlines \cup {TsNone}, forked : BOOLEAN]]
    /\ tsHandles \in [TsThreads -> SUBSET TsHandleSet]
    /\ tsSaved \in [TsThreads -> SUBSET TsHandleSet]
    /\ tsHead \in [TsThreads -> TsBlocks \cup {TsNone}]
    /\ tsUnmapped \in [TsThreads -> SUBSET TsPages]
    /\ tsGot \subseteq [of : TsThreads \cup TsInlines, got : TsThreads \cup TsInlines \cup {TsNone}]

\* Every forked thread has a page of its own from its birth on; main has none,
\* and never returns.
TsBlocksDiffer ==
    /\ \A c \in TsThreads : tsBlock[c] = TsNone <=> c = TsMain \/ tsPc[c] = "unborn"
    /\ \A c, d \in TsThreads : tsBlock[c] = tsBlock[d] => c = d \/ tsBlock[c] = TsNone
    /\ tsPc[TsMain] \in {"run", "crashed"}

\* Until a thread has been joined its block is as spawn and the thread have
\* filled it in.
TsBlocksKept ==
    \A c \in TsThreads :
        IF TsJoined(c) THEN tsPc[c] = "exited"
        ELSE tsBlock[c] # TsNone =>
                /\ tsStatus[tsBlock[c]].forked /\ tsStatus[tsBlock[c]].first = c
                /\ tsPc[c] \in {"stored", "exited"} => tsStatus[tsBlock[c]].retval = c

\* A handle of a forked thread names the thread's block until somebody joins
\* it, one of an inline thread a block that has its result.
ThreadHandle(h) ==
    /\ h.block = tsBlock[h.of] /\ h.block # TsNone /\ ~TsJoined(h.of)
InlineHandle(h) ==
    /\ h.block = h.of \/ \E c \in TsThreads : h.block = tsBlock[c] /\ TsJoined(c)
    /\ tsStatus[h.block].retval = h.of /\ ~tsStatus[h.block].forked

TsHandlesGood ==
    \A t \in TsThreads : \A h \in tsHandles[t] \cup tsSaved[t] :
        IF h.of \in TsThreads THEN ThreadHandle(h) ELSE InlineHandle(h)

\* What comes from the zone is never taken for the block of a forked thread.
TsZoneBlocks == \A i \in TsInlines : ~tsStatus[i].forked

\* The blocks on free lists: those of joined threads that no inline thread has
\* been given since.
TsFree == {b \in TsBlocks : tsStatus[b].forked /\ \E c \in TsThreads : tsBlock[c] = b /\ TsJoined(c)}

\* A free list has only such blocks, and no block follows two others, or one
\* that has been taken off.
TsListsGood ==
    /\ \A t \in TsThreads : tsHead[t] # TsNone => tsHead[t] \in TsFree
    /\ \A t, s \in TsThreads : tsHead[t] = tsHead[s] => t = s \/ tsHead[t] = TsNone
    /\ \A b \in TsFree : tsStatus[b].first # TsNone =>
          /\ tsStatus[b].first \in TsFree
          /\ \A t \in TsThreads : tsHead[t] # tsStatus[b].first
          /\ \A a \in TsFree : tsStatus[a].first = tsStatus[b].first => a = b

TsInv ==
    /\ TsTypes /\ TsBlocksDiffer /\ TsBlocksKept /\ TsHandlesGood /\ TsZoneBlocks /\ TsListsGood
    /\ JoinGetsResult

-----------------------------------------------------------------------------
USE TsMainAssumption, TsKindsAssumption

LEMMA TsInitInv == TsInit => TsInv
<1> SUFFICES ASSUME TsInit PROVE TsInv
    OBVIOUS
<1> USE DEF TsInit
<1>1. TsTypes
    BY DEF TsTypes, TsBlocks
<1>2. TsBlocksDiffer /\ TsBlocksKept
    BY DEF TsBlocksDiffer, TsBlocksKept, TsJoined
<1>3. TsHandlesGood /\ TsZoneBlocks
    BY DEF TsHandlesGood, TsZoneBlocks, TsBlocks
<1>4. TsListsGood
    BY DEF TsListsGood, TsFree, TsJoined
<1>5. JoinGetsResult
    BY DEF JoinGetsResult
<1>6. QED BY <1>1, <1>2, <1>3, <1>4, <1>5 DEF TsInv

\* Steps that change neither a block nor a handle nor a free list.
LEMMA TsQuietStep ==
    ASSUME TsInv, NEW t \in TsThreads,
           TsReturn(t) \/ TsExit(t) \/ TsPunctuate(t) \/ TsRollback(t)
           \/ \E h \in TsHandleSet : TsSyncUnmapped(t, h)
    PROVE  TsInv'
<1> USE DEF TsInv
<1>1. UNCHANGED <<tsBlock, tsStatus, tsHead, tsUnmapped, tsGot>>
    BY DEF TsReturn, TsExit, TsPunctuate, TsRollback, TsSyncUnmapped
<1>2. /\ \A s \in TsThreads : tsHandles'[s] \cup tsSaved'[s] \subseteq tsHandles[s] \cup tsSaved[s]
      /\ tsHandles' \in [TsThreads -> SUBSET TsHandleSet]
      /\ tsSaved' \in [TsThreads -> SUBSET TsHandleSet]
    BY DEF TsTypes, TsReturn, TsExit, TsPunctuate, TsRollback, TsSyncUnmapped
<1>3. /\ tsPc' \in [TsThreads -> {"unborn", "run", "returned", "stored", "exited", "crashed"}]
      /\ \A c \in TsThreads : /\ tsPc'[c] = "unborn" <=> tsPc[c] = "unborn"
                              /\ tsPc[c] = "exited" => tsPc'[c] = "exited"
                              /\ tsPc'[c] \in {"stored", "exited"} => tsPc[c] \in {"stored", "exited"}
      /\ tsPc'[TsMain] \in {"run", "crashed"}
    BY DEF TsTypes, TsBlocksDiffer, TsReturn, TsExit, TsPunctuate, TsRollback, TsSyncUnmapped
<1>4. TsTypes'
    BY <1>1, <1>2, <1>3 DEF TsTypes
<1>5. TsBlocksDiffer' /\ TsBlocksKept'
    BY <1>1, <1>3 DEF TsBlocksDiffer, TsBlocksKept, TsJoined
<1>6. TsHandlesGood'
    BY <1>1, <1>2 DEF TsHandlesGood, ThreadHandle, InlineHandle, TsJoined
<1>7. TsZoneBlocks' /\ TsListsGood' /\ JoinGetsResult'
    BY <1>1 DEF TsZoneBlocks, TsListsGood, TsFree, TsJoined, JoinGetsResult
<1>8. QED BY <1>4, <1>5, <1>6, <1>7

\* A thread stores its result in its block, which nobody has joined yet.
LEMMA TsStoreStep ==
    ASSUME TsInv, NEW t \in TsThreads, TsStore(t)
    PROVE  TsInv'
<1> USE DEF TsInv
<1> DEFINE b == tsBlock[t]
<1>1. /\ UNCHANGED <<tsBlock, tsHandles, tsSaved, tsHead, tsUnmapped, tsGot>>
      /\ tsPc[t] = "returned" /\ tsPc' = [tsPc EXCEPT ![t] = "stored"]
      /\ tsStatus' = [tsStatus EXCEPT ![b].retval = t]
    BY DEF TsStore
<1>2. b \in TsPages /\ b \in TsBlocks /\ ~TsJoined(t) /\ t # TsMain
    BY <1>1 DEF TsTypes, TsBlocksDiffer, TsBlocksKept, TsBlocks
<1>3. /\ \A c \in TsBlocks : /\ tsStatus'[c].first = tsStatus[c].first
                             /\ tsStatus'[c].forked = tsStatus[c].forked
                             /\ c # b => tsStatus'[c].retval = tsStatus[c].retval
      /\ tsStatus'[b].retval = t
    BY <1>1, <1>2 DEF TsTypes
<1>4. TsTypes'
    BY <1>1, <1>2 DEF TsTypes
<1>5. TsBlocksDiffer' /\ TsBlocksKept'
    <2>1. TsBlocksDiffer'
        BY <1>1, <1>2 DEF TsBlocksDiffer, TsTypes
    <2>2. \A c \in TsThreads : tsBlock[c] # TsNone => tsBlock[c] \in TsBlocks
        BY DEF TsTypes, TsBlocks
    <2>3. TsBlocksKept'
        BY <1>1, <1>2, <1>3, <2>2 DEF TsBlocksDiffer, TsBlocksKept, TsTypes, TsJoined
    <2>4. QED BY <2>1, <2>3
<1>6. TsHandlesGood'
    <2> SUFFICES ASSUME NEW s \in TsThreads, NEW h \in tsHandles[s] \cup tsSaved[s]
                 PROVE  IF h.of \in TsThreads THEN ThreadHandle(h)' ELSE InlineHandle(h)'
        BY <1>1 DEF TsHandlesGood
    <2>1. h \in TsHandleSet /\ h.block \in TsBlocks /\ h.of \in TsThreads \cup TsInlines
        BY DEF TsTypes, TsHandleSet
    <2>2. CASE h.of \in TsThreads
        BY <1>1, <2>1, <2>2 DEF TsHandlesGood, ThreadHandle, TsJoined
    <2>3. CASE h.of \notin TsThreads
        <3>1. InlineHandle(h)
            BY <2>3 DEF TsHandlesGood
        <3>2. h.block # b
            BY <1>2, <2>1, <2>3, <3>1 DEF InlineHandle, TsBlocksDiffer
        <3>3. QED BY <1>1, <1>3, <2>1, <2>3, <3>1, <3>2 DEF InlineHandle, TsJoined
    <2>4. QED BY <2>2, <2>3
<1>7. TsFree' = TsFree /\ TsFree \subseteq TsBlocks
    BY <1>1, <1>3 DEF TsFree, TsJoined
<1>8. TsZoneBlocks' /\ TsListsGood' /\ JoinGetsResult'
    <2>1. TsZoneBlocks' /\ JoinGetsResult'
        BY <1>1, <1>3 DEF TsZoneBlocks, JoinGetsResult, TsBlocks
    <2>2. TsListsGood'
        BY <1>1, <1>3, <1>7 DEF TsListsGood, TsTypes
    <2>3. QED BY <2>1, <2>2
<1>9. QED BY <1>4, <1>5, <1>6, <1>8

\* A forked thread gets a page that no thread has had.
LEMMA TsForkStep ==
    ASSUME TsInv, ~TsForkAfterJoin, NEW t \in TsThreads, NEW c \in TsThreads, NEW b \in TsPages,
           TsFork(t, c, b)
    PROVE  TsInv'
<1> USE DEF TsInv
<1>1. /\ tsPc[t] = "run" /\ tsPc[c] = "unborn" /\ tsHead[t] = TsNone
      /\ \A d \in TsThreads : tsBlock[d] # b
      /\ tsPc' = [tsPc EXCEPT ![c] = "run"]
      /\ tsBlock' = [tsBlock EXCEPT ![c] = b]
      /\ tsStatus' = [tsStatus EXCEPT ![b].first = c, ![b].forked = TRUE]
      /\ tsHead' = [tsHead EXCEPT ![c] = TsNone]
      /\ tsUnmapped' = [tsUnmapped EXCEPT ![c] = tsUnmapped[t]]
      /\ tsGot' = tsGot
    BY DEF TsFork, TsFreshPages
<1>2. c # TsMain /\ c # t /\ b \in TsBlocks /\ b # TsNone /\ tsBlock[c] = TsNone /\ ~TsJoined(c)
    <2>1. c # TsMain /\ c # t /\ b \in TsBlocks /\ b # TsNone /\ tsBlock[c] = TsNone
        BY <1>1 DEF TsBlocksDiffer, TsBlocks
    <2>2. QED BY <1>1, <2>1 DEF TsBlocksKept
<1>3. \A d \in TsBlocks \ {b} : tsStatus'[d] = tsStatus[d]
    BY <1>1 DEF TsTypes
<1>4. tsStatus'[b].first = c /\ tsStatus'[b].forked
    BY <1>1, <1>2 DEF TsTypes
<1>5. TsTypes'
    <2>1. tsHandles' \in [TsThreads -> SUBSET TsHandleSet] /\ tsSaved' \in [TsThreads -> SUBSET TsHandleSet]
        <3>1. [of |-> c, block |-> b] \in TsHandleSet
            BY <1>2 DEF TsHandleSet
        <3>2. QED BY <3>1 DEF TsFork, TsTypes
    <2>2. tsStatus' \in [TsBlocks -> [first : TsBlocks \cup TsThreads \cup {TsNone},
                                      retval : TsThreads \cup TsInlines \cup {TsNone}, forked : BOOLEAN]]
        <3> DEFINE st == [tsStatus[b] EXCEPT !.first = c]
        <3>1. tsStatus' = [tsStatus EXCEPT ![b] = [st EXCEPT !.forked = TRUE]]
            BY <1>1, <1>2 DEF TsTypes
        <3>2. st \in [first : TsBlocks \cup TsThreads \cup {TsNone},
                      retval : TsThreads \cup TsInlines \cup {TsNone}, forked : BOOLEAN]
            BY <1>2 DEF TsTypes
        <3>3. QED BY <3>1, <3>2, <1>2 DEF TsTypes
    <2>3. QED BY <1>1, <2>1, <2>2 DEF TsTypes
<1>6. TsBlocksDiffer' /\ TsBlocksKept'
    <2>1. TsBlocksDiffer'
        BY <1>1, <1>2 DEF TsBlocksDiffer, TsTypes
    <2>2. \A d \in TsThreads : tsBlock[d] # TsNone => tsBlock[d] \in TsBlocks \ {b}
        BY <1>1 DEF TsTypes, TsBlocks
    <2>3. TsBlocksKept'
        BY <1>1, <1>2, <1>3, <1>4, <2>2 DEF TsBlocksKept, TsTypes, TsJoined
    <2>4. QED BY <2>1, <2>3
<1>7. TsHandlesGood'
    <2> DEFINE new == [of |-> c, block |-> b]
    <2> SUFFICES ASSUME NEW s \in TsThreads, NEW h \in tsHandles'[s] \cup tsSaved'[s]
                 PROVE  IF h.of \in TsThreads THEN ThreadHandle(h)' ELSE InlineHandle(h)'
        BY DEF TsHandlesGood
    <2>1. h = new \/ \E r \in TsThreads : h \in tsHandles[r] \cup tsSaved[r]
        BY DEF TsFork, TsTypes
    <2>2. CASE h = new
        BY <1>1, <1>2, <2>2 DEF ThreadHandle, TsJoined, TsTypes
    <2>3. CASE \E r \in TsThreads : h \in tsHandles[r] \cup tsSaved[r]
        <3>1. h \in TsHandleSet /\ h.block \in TsBlocks /\ h.of \in TsThreads \cup TsInlines
              /\ IF h.of \in TsThreads THEN ThreadHandle(h) ELSE InlineHandle(h)
            BY <2>3 DEF TsTypes, TsHandleSet, TsHandlesGood
        <3>2. CASE h.of \in TsThreads
            BY <1>1, <1>2, <3>1, <3>2 DEF ThreadHandle, TsJoined, TsTypes
        <3>3. CASE h.of \notin TsThreads
            <4>1. h.block # b
                BY <1>1, <3>1, <3>3 DEF InlineHandle
            <4>2. h.block = h.of \/ \E d \in TsThreads : h.block = tsBlock'[d] /\ TsJoined(d)'
                BY <1>1, <1>2, <3>1, <3>3 DEF InlineHandle, TsJoined, TsTypes
            <4>3. QED BY <1>3, <3>1, <3>3, <4>1, <4>2 DEF InlineHandle
        <3>4. QED BY <3>2, <3>3
    <2>4. QED BY <2>1, <2>2, <2>3
<1>8. TsFree' = TsFree /\ TsFree \subseteq TsBlocks
    <2>1. ASSUME NEW d \in TsBlocks, d \in TsFree PROVE d \in TsFree'
        BY <1>1, <1>2, <1>3, <2>1 DEF TsFree, TsJoined, TsTypes
    <2>2. ASSUME NEW d \in TsBlocks, d \in TsFree' PROVE d \in TsFree
        <3>1. PICK e \in TsThreads : tsBlock'[e] = d /\ TsJoined(e)
            BY <1>1, <2>2 DEF TsFree, TsJoined
        <3>2. e # c /\ tsBlock[e] = d /\ d # b
            BY <1>1, <1>2, <3>1 DEF TsTypes
        <3>3. QED BY <1>3, <2>2, <3>1, <3>2 DEF TsFree
    <2>3. QED BY <2>1, <2>2 DEF TsFree
<1>9. b \notin TsFree
    BY <1>1 DEF TsFree
<1>10. TsZoneBlocks' /\ JoinGetsResult'
    BY <1>1, <1>3 DEF TsZoneBlocks, JoinGetsResult, TsBlocks
<1>11. TsListsGood'
    BY <1>1, <1>3, <1>8, <1>9 DEF TsListsGood, TsTypes
<1>12. QED BY <1>5, <1>6, <1>7, <1>10, <1>11

\* What TsBlocks has for the block of an inline handle, if it is a page, is the
\* block of a joined thread.
LEMMA TsHandleTypes ==
    ASSUME TsTypes, TsHandlesGood, NEW s \in TsThreads, NEW h \in tsHandles[s] \cup tsSaved[s]
    PROVE  /\ h \in TsHandleSet /\ h.of \in TsThreads \cup TsInlines /\ h.block \in TsBlocks
           /\ h = [of |-> h.of, block |-> h.block]
           /\ IF h.of \in TsThreads THEN ThreadHandle(h) ELSE InlineHandle(h)
BY DEF TsTypes, TsHandlesGood, TsHandleSet

\* An inline thread gets the first block of the free list, or a new one.
LEMMA TsSpawnInlineStep ==
    ASSUME TsInv, NEW t \in TsThreads, NEW i \in TsInlines, TsSpawnInline(t, i)
    PROVE  TsInv'
<1> USE DEF TsInv
<1> DEFINE b == IF tsHead[t] # TsNone THEN tsHead[t] ELSE i
           new == [of |-> i, block |-> b]
<1>1. /\ ~TsSpawned(i)
      /\ tsHead' = [tsHead EXCEPT ![t] = IF @ # TsNone THEN tsStatus[b].first ELSE @]
      /\ tsStatus' = [tsStatus EXCEPT ![b].retval = i, ![b].forked = FALSE]
      /\ tsHandles' = [tsHandles EXCEPT ![t] = @ \cup {new}]
      /\ UNCHANGED <<tsPc, tsLevel, tsBlock, tsSaved, tsUnmapped, tsGot>>
    BY DEF TsSpawnInline
<1>2. b \in TsBlocks /\ i \in TsBlocks /\ i \notin TsThreads /\ i # TsNone
    BY DEF TsTypes, TsBlocks
<1>3. /\ \A d \in TsBlocks : tsStatus'[d].first = tsStatus[d].first
      /\ \A d \in TsBlocks \ {b} : tsStatus'[d] = tsStatus[d]
      /\ tsStatus'[b].retval = i /\ ~tsStatus'[b].forked
    BY <1>1, <1>2 DEF TsTypes
<1>4. b = i \/ (b = tsHead[t] /\ b \in TsFree)
    BY DEF TsListsGood
<1>5. \A c \in TsThreads : tsBlock[c] = b => TsJoined(c)
    <2>1. ASSUME NEW c \in TsThreads, tsBlock[c] = b PROVE TsJoined(c)
        <3>1. b # i
            BY <2>1, <1>2 DEF TsTypes
        <3>2. PICK d \in TsThreads : tsBlock[d] = b /\ TsJoined(d)
            BY <1>4, <3>1 DEF TsFree
        <3>3. c = d
            BY <1>2, <2>1, <3>2 DEF TsBlocksDiffer, TsTypes, TsBlocks
        <3>4. QED BY <3>2, <3>3
    <2>2. QED BY <2>1
<1>6. \A s \in TsThreads : \A h \in tsHandles[s] \cup tsSaved[s] : h.block # b
    <2> SUFFICES ASSUME NEW s \in TsThreads, NEW h \in tsHandles[s] \cup tsSaved[s], h.block = b
                 PROVE  FALSE
        OBVIOUS
    <2>1. IF h.of \in TsThreads THEN ThreadHandle(h) ELSE InlineHandle(h)
        BY TsHandleTypes
    <2>2. CASE h.of \in TsThreads
        BY <1>5, <2>1, <2>2 DEF ThreadHandle
    <2>3. CASE h.of \notin TsThreads
        <3>1. ~tsStatus[b].forked /\ b = i
            BY <1>4, <2>1, <2>3 DEF InlineHandle, TsFree
        <3>2. h.of = i
            BY <2>1, <2>3, <3>1, <1>2 DEF InlineHandle, TsTypes
        <3>3. QED BY <1>1, <3>2 DEF TsSpawned
    <2>4. QED BY <2>2, <2>3
<1>7. TsTypes'
    <2>1. new \in TsHandleSet
        BY <1>2 DEF TsHandleSet
    <2>2. tsHandles' \in [TsThreads -> SUBSET TsHandleSet]
        BY <1>1, <2>1 DEF TsTypes
    <2>3. tsStatus' \in [TsBlocks -> [first : TsBlocks \cup TsThreads \cup {TsNone},
                                      retval : TsThreads \cup TsInlines \cup {TsNone}, forked : BOOLEAN]]
        <3> DEFINE st == [tsStatus[b] EXCEPT !.retval = i]
        <3>1. tsStatus' = [tsStatus EXCEPT ![b] = [st EXCEPT !.forked = FALSE]]
            BY <1>1, <1>2 DEF TsTypes
        <3>2. st \in [first : TsBlocks \cup TsThreads \cup {TsNone},
                      retval : TsThreads \cup TsInlines \cup {TsNone}, forked : BOOLEAN]
            BY <1>2 DEF TsTypes
        <3>3. QED BY <3>1, <3>2, <1>2 DEF TsTypes
    <2>4. tsHead' \in [TsThreads -> TsBlocks \cup {TsNone}]
        <3>1. tsHead[t] # TsNone => tsStatus[b].first \in TsBlocks \cup {TsNone}
            BY <1>2 DEF TsTypes, TsListsGood, TsFree
        <3>2. QED BY <1>1, <3>1 DEF TsTypes
    <2>5. QED BY <1>1, <2>2, <2>3, <2>4 DEF TsTypes
<1>8. TsBlocksDiffer' /\ TsBlocksKept'
    <2>1. TsBlocksDiffer'
        BY <1>1 DEF TsBlocksDiffer
    <2>2. \A c \in TsThreads : tsBlock[c] # TsNone => tsBlock[c] \in TsBlocks
        BY DEF TsTypes, TsBlocks
    <2>3. TsBlocksKept'
        <3>1. \A c \in TsThreads : TsJoined(c)' <=> TsJoined(c)
            BY <1>1 DEF TsJoined
        <3>2. \A c \in TsThreads : tsBlock[c] # TsNone /\ ~TsJoined(c) => tsStatus'[tsBlock[c]] = tsStatus[tsBlock[c]]
            BY <1>3, <1>5, <2>2
        <3>3. tsPc' = tsPc /\ tsBlock' = tsBlock
            BY <1>1
        <3>4. QED BY <3>1, <3>2, <3>3 DEF TsBlocksKept
    <2>4. QED BY <2>1, <2>3
<1>9. TsHandlesGood'
    <2> SUFFICES ASSUME NEW s \in TsThreads, NEW h \in tsHandles'[s] \cup tsSaved'[s]
                 PROVE  IF h.of \in TsThreads THEN ThreadHandle(h)' ELSE InlineHandle(h)'
        BY DEF TsHandlesGood
    <2>1. h = new \/ h \in tsHandles[s] \cup tsSaved[s]
        BY <1>1 DEF TsTypes
    <2>2. CASE h = new
        <3>1. h.block = h.of \/ \E c \in TsThreads : h.block = tsBlock[c] /\ TsJoined(c)
            BY <1>4, <2>2 DEF TsFree
        <3>2. QED BY <1>1, <1>2, <1>3, <2>2, <3>1 DEF InlineHandle, TsJoined
    <2>3. CASE h \in tsHandles[s] \cup tsSaved[s]
        <3>1. h.block \in TsBlocks \ {b} /\ IF h.of \in TsThreads THEN ThreadHandle(h) ELSE InlineHandle(h)
            BY <1>6, <2>3, TsHandleTypes
        <3>2. QED BY <1>1, <1>3, <3>1 DEF ThreadHandle, InlineHandle, TsJoined
    <2>4. QED BY <2>1, <2>2, <2>3
<1>10. TsFree' = TsFree \ {b} /\ TsFree \subseteq TsBlocks
    BY <1>1, <1>2, <1>3 DEF TsFree, TsJoined
<1>11. TsZoneBlocks' /\ JoinGetsResult'
    BY <1>1, <1>2, <1>3 DEF TsZoneBlocks, JoinGetsResult, TsBlocks
<1>12. TsListsGood'
    <2>1. CASE tsHead[t] = TsNone
        <3>1. b = i /\ b \notin TsFree /\ tsHead' = tsHead
            BY <1>1, <2>1 DEF TsZoneBlocks, TsFree, TsTypes
        <3>2. TsFree' = TsFree
            BY <1>10, <3>1
        <3>3. \A s \in TsThreads : tsHead[s] # TsNone => tsHead[s] \in TsBlocks
            BY DEF TsTypes
        <3>4. QED BY <1>3, <1>10, <3>1, <3>2, <3>3 DEF TsListsGood
    <2>2. CASE tsHead[t] # TsNone
        <3>1. /\ b \in TsFree /\ tsHead[t] = b
              /\ tsHead'[t] = tsStatus[b].first /\ \A s \in TsThreads \ {t} : tsHead'[s] = tsHead[s]
            BY <1>1, <2>2 DEF TsListsGood, TsTypes
        <3>2. \A s \in TsThreads : tsHead'[s] # TsNone => tsHead'[s] \in TsFree /\ tsHead'[s] # b
            BY <1>2, <2>2, <3>1 DEF TsListsGood, TsTypes
        <3>3. \A s, r \in TsThreads : tsHead'[s] = tsHead'[r] => s = r \/ tsHead'[s] = TsNone
            BY <1>2, <3>1 DEF TsListsGood
        <3>4. \A d \in TsFree \ {b} : tsStatus[d].first # TsNone =>
                  /\ tsStatus[d].first \in TsFree /\ tsStatus[d].first # b
                  /\ \A s \in TsThreads : tsHead'[s] # tsStatus[d].first
            BY <1>2, <3>1 DEF TsListsGood
        <3>5. QED BY <1>3, <1>10, <3>2, <3>3, <3>4 DEF TsListsGood
    <2>3. QED BY <2>1, <2>2
<1>13. QED BY <1>7, <1>8, <1>9, <1>11, <1>12

\* sync of a forked thread: the thread has exited, and its block goes to the free
\* list of the process that joins it.
LEMMA TsSyncForkedStep ==
    ASSUME TsInv, NEW t \in TsThreads, NEW h \in TsHandleSet, TsSyncForked(t, h)
    PROVE  TsInv'
<1> USE DEF TsInv
<1> DEFINE b == h.block
           c == h.of
           got == [of |-> c, got |-> tsStatus[b].retval]
<1>1. /\ h \in tsHandles[t] /\ tsStatus[b].forked
      /\ tsStatus[b].first \in TsThreads => tsPc[tsStatus[b].first] = "exited"
      /\ tsGot' = tsGot \cup {got}
      /\ tsHead' = [tsHead EXCEPT ![t] = b]
      /\ tsStatus' = [tsStatus EXCEPT ![b].first = tsHead[t]]
      /\ tsHandles' = [s \in TsThreads |-> tsHandles[s] \ {h}]
      /\ tsSaved' = [TsForget(tsSaved, t, h) EXCEPT ![t] = tsHandles[t] \ {h}]
      /\ UNCHANGED <<tsPc, tsLevel, tsBlock, tsUnmapped>>
    BY DEF TsSyncForked
<1>2. /\ c \in TsThreads /\ b \in TsBlocks /\ b = tsBlock[c] /\ b # TsNone /\ ~TsJoined(c)
    <2>1. /\ c \in TsThreads \cup TsInlines /\ b \in TsBlocks
          /\ IF c \in TsThreads THEN ThreadHandle(h) ELSE InlineHandle(h)
        BY <1>1, TsHandleTypes
    <2>2. QED BY <1>1, <2>1 DEF ThreadHandle, InlineHandle
<1>3. tsPc[c] = "exited" /\ tsStatus[b].retval = c
    BY <1>1, <1>2 DEF TsBlocksKept
<1>4. got = [of |-> c, got |-> c]
    BY <1>3
<1>5. \A i : TsJoined(i)' <=> TsJoined(i) \/ i = c
    <2>1. got.of = c
        OBVIOUS
    <2>2. QED BY <1>1, <2>1 DEF TsJoined
<1>6. /\ \A d \in TsBlocks : /\ tsStatus'[d].forked = tsStatus[d].forked
                             /\ tsStatus'[d].retval = tsStatus[d].retval
                             /\ d # b => tsStatus'[d].first = tsStatus[d].first
      /\ tsStatus'[b].first = tsHead[t]
    BY <1>1, <1>2 DEF TsTypes
<1>7. b \notin TsFree
    BY <1>2 DEF TsFree, TsBlocksDiffer
<1>8. TsFree' = TsFree \cup {b} /\ TsFree \subseteq TsBlocks
    <2>1. b \in TsFree'
        BY <1>1, <1>2, <1>5, <1>6 DEF TsFree
    <2>2. ASSUME NEW d \in TsBlocks, d # b PROVE d \in TsFree' <=> d \in TsFree
        BY <1>1, <1>2, <1>5, <1>6, <2>2 DEF TsFree
    <2>3. QED BY <1>2, <2>1, <2>2 DEF TsFree
<1>9. TsTypes'
    <2>1. tsSaved' \in [TsThreads -> SUBSET TsHandleSet]
        BY <1>1 DEF TsTypes, TsForget
    <2>2. tsStatus' \in [TsBlocks -> [first : TsBlocks \cup TsThreads \cup {TsNone},
                                      retval : TsThreads \cup TsInlines \cup {TsNone}, forked : BOOLEAN]]
        BY <1>1, <1>2 DEF TsTypes
    <2>3. QED BY <1>1, <1>2, <1>4, <2>1, <2>2 DEF TsTypes
<1>10. TsBlocksDiffer' /\ TsBlocksKept'
    <2>1. TsBlocksDiffer'
        BY <1>1 DEF TsBlocksDiffer
    <2>2. \A d \in TsThreads : tsBlock[d] # TsNone => tsBlock[d] \in TsBlocks /\ (tsBlock[d] = b => d = c)
        BY <1>2 DEF TsTypes, TsBlocks, TsBlocksDiffer
    <2>3. tsPc' = tsPc /\ tsBlock' = tsBlock
        BY <1>1
    <2>4. TsBlocksKept'
        BY <1>3, <1>5, <1>6, <2>2, <2>3 DEF TsBlocksKept
    <2>5. QED BY <2>1, <2>4
<1>11. TsHandlesGood'
    <2> SUFFICES ASSUME NEW s \in TsThreads, NEW g \in tsHandles'[s] \cup tsSaved'[s]
                 PROVE  IF g.of \in TsThreads THEN ThreadHandle(g)' ELSE InlineHandle(g)'
        BY DEF TsHandlesGood
    <2>1. g # h /\ \E r \in TsThreads : g \in tsHandles[r] \cup tsSaved[r]
        BY <1>1 DEF TsForget, TsTypes
    <2>2. /\ g.block \in TsBlocks /\ g = [of |-> g.of, block |-> g.block]
          /\ IF g.of \in TsThreads THEN ThreadHandle(g) ELSE InlineHandle(g)
        BY <2>1, TsHandleTypes
    <2>3. h = [of |-> c, block |-> b]
        BY DEF TsHandleSet
    <2>4. CASE g.of \in TsThreads
        <3>1. g.of # c
            BY <1>2, <2>1, <2>2, <2>3, <2>4 DEF ThreadHandle
        <3>2. QED BY <1>1, <1>5, <2>2, <2>4, <3>1 DEF ThreadHandle
    <2>5. CASE g.of \notin TsThreads
        BY <1>1, <1>5, <1>6, <2>2, <2>5 DEF InlineHandle
    <2>6. QED BY <2>4, <2>5
<1>12. TsZoneBlocks' /\ JoinGetsResult'
    BY <1>1, <1>4, <1>6 DEF TsZoneBlocks, JoinGetsResult, TsBlocks
<1>13. TsListsGood'
    <2>1. tsHead'[t] = b /\ \A s \in TsThreads \ {t} : tsHead'[s] = tsHead[s] /\ tsHead[s] # b
        BY <1>1, <1>2, <1>7 DEF TsTypes, TsListsGood
    <2>2. tsHead[t] # TsNone => tsHead[t] \in TsFree /\ tsHead[t] # b
        BY <1>7 DEF TsTypes, TsListsGood
    <2>3. \A s \in TsThreads : tsHead'[s] # TsNone => tsHead'[s] \in TsFree'
        BY <1>2, <1>8, <2>1 DEF TsListsGood, TsTypes
    <2>4. \A s, r \in TsThreads : tsHead'[s] = tsHead'[r] => s = r \/ tsHead'[s] = TsNone
        BY <2>1 DEF TsListsGood
    <2>5. ASSUME NEW d \in TsFree', tsStatus'[d].first # TsNone
          PROVE  /\ tsStatus'[d].first \in TsFree'
                 /\ \A s \in TsThreads : tsHead'[s] # tsStatus'[d].first
                 /\ \A a \in TsFree' : tsStatus'[a].first = tsStatus'[d].first => a = d
        <3>1. CASE d = b
            <4>1. tsStatus'[d].first = tsHead[t]
                BY <1>6, <3>1
            <4>2. \A a \in TsFree' : tsStatus'[a].first = tsHead[t] => a = b
                BY <1>6, <1>8, <2>5, <4>1 DEF TsListsGood
            <4>3. QED BY <1>8, <2>1, <2>2, <2>5, <3>1, <4>1, <4>2 DEF TsListsGood
        <3>2. CASE d # b
            <4>1. /\ d \in TsFree /\ tsStatus'[d].first = tsStatus[d].first
                  /\ tsStatus[d].first \in TsFree /\ tsStatus[d].first # b
                  /\ \A s \in TsThreads : tsHead[s] # tsStatus[d].first
                BY <1>6, <1>7, <1>8, <2>5, <3>2 DEF TsListsGood
            <4>2. \A a \in TsFree' : tsStatus'[a].first = tsStatus[d].first => a = d
                BY <1>6, <1>8, <2>5, <4>1 DEF TsListsGood
            <4>3. QED BY <1>8, <2>1, <4>1, <4>2
        <3>3. QED BY <3>1, <3>2
    <2>6. QED BY <2>3, <2>4, <2>5 DEF TsListsGood
<1>14. QED BY <1>9, <1>10, <1>11, <1>12, <1>13

\* sync of an inline thread: its block has its result.
LEMMA TsSyncInlineStep ==
    ASSUME TsInv, NEW t \in TsThreads, NEW h \in TsHandleSet, TsSyncInline(t, h)
    PROVE  TsInv'
<1> USE DEF TsInv
<1> DEFINE got == [of |-> h.of, got |-> tsStatus[h.block].retval]
<1>1. /\ h \in tsHandles[t] /\ ~tsStatus[h.block].forked
      /\ tsGot' = tsGot \cup {got}
      /\ tsUnmapped' = [tsUnmapped EXCEPT ![t] = @ \cup ({h.block} \cap TsPages)]
      /\ tsHandles' = [s \in TsThreads |-> tsHandles[s] \ {h}]
      /\ tsSaved' = TsForget(tsSaved, t, h)
      /\ UNCHANGED <<tsPc, tsLevel, tsBlock, tsStatus, tsHead>>
    BY DEF TsSyncInline
<1>2. h.of \in TsInlines /\ h.of \notin TsThreads /\ tsStatus[h.block].retval = h.of
    <2>1. /\ h.of \in TsThreads \cup TsInlines /\ h.block \in TsBlocks
          /\ IF h.of \in TsThreads THEN ThreadHandle(h) ELSE InlineHandle(h)
        BY <1>1, TsHandleTypes
    <2>2. h.of \notin TsThreads
        BY <1>1, <2>1 DEF ThreadHandle, TsBlocksKept
    <2>3. QED BY <2>1, <2>2 DEF InlineHandle
<1>3. \A c \in TsThreads : TsJoined(c)' <=> TsJoined(c)
    BY <1>1, <1>2 DEF TsJoined
<1>4. got = [of |-> h.of, got |-> h.of]
    BY <1>2
<1>5. TsTypes'
    <2>1. tsSaved' \in [TsThreads -> SUBSET TsHandleSet]
        BY <1>1 DEF TsTypes, TsForget
    <2>2. tsUnmapped' \in [TsThreads -> SUBSET TsPages]
        BY <1>1 DEF TsTypes
    <2>3. QED BY <1>1, <1>2, <1>4, <2>1, <2>2 DEF TsTypes
<1>6. TsBlocksDiffer' /\ TsBlocksKept' /\ TsZoneBlocks' /\ JoinGetsResult'
    BY <1>1, <1>3, <1>4 DEF TsBlocksDiffer, TsBlocksKept, TsZoneBlocks, JoinGetsResult
<1>7. TsHandlesGood'
    <2> SUFFICES ASSUME NEW s \in TsThreads, NEW g \in tsHandles'[s] \cup tsSaved'[s]
                 PROVE  IF g.of \in TsThreads THEN ThreadHandle(g)' ELSE InlineHandle(g)'
        BY DEF TsHandlesGood
    <2>1. \E r \in TsThreads : g \in tsHandles[r] \cup tsSaved[r]
        BY <1>1 DEF TsForget, TsTypes
    <2>2. IF g.of \in TsThreads THEN ThreadHandle(g) ELSE InlineHandle(g)
        BY <2>1, TsHandleTypes
    <2>3. QED BY <1>1, <1>3, <2>2 DEF ThreadHandle, InlineHandle
<1>8. TsListsGood'
    BY <1>1, <1>3 DEF TsListsGood, TsFree
<1>9. QED BY <1>5, <1>6, <1>7, <1>8

\* A join returns what the joined thread returned, for any number of threads,
\* inline threads and levels: if processes that have joined a forked thread no
\* longer fork. (xthread::sync gives the block to _tstatHeap, whose free list fork
\* copies: two processes may then take the same block from it.)
THEOREM JoinsGetResults ==
    ASSUME ~TsForkAfterJoin
    PROVE  TsSpec => []JoinGetsResult
<1>1. TsInit => TsInv
    BY TsInitInv
<1>2. TsInv /\ [TsNext]_tsVars => TsInv'
    <2>1. TsInv /\ UNCHANGED tsVars => TsInv'
        BY DEF tsVars, TsInv, TsTypes, TsBlocksDiffer, TsBlocksKept, TsHandlesGood, ThreadHandle, InlineHandle,
               TsZoneBlocks, TsListsGood, TsFree, TsJoined, JoinGetsResult
    <2>2. TsInv /\ TsNext => TsInv'
        BY TsQuietStep, TsStoreStep, TsForkStep, TsSpawnInlineStep, TsSyncForkedStep, TsSyncInlineStep
           DEF TsNext
    <2>3. QED BY <2>1, <2>2
<1>3. TsInv => JoinGetsResult
    BY DEF TsInv
<1>4. QED BY <1>1, <1>2, <1>3, PTL DEF TsSpec

-----------------------------------------------------------------------------
BhPages == {Meta(h) : h \in BhHeaps} \cup {Page(a) : a \in Arenas}

BhTypes ==
    /\ bhBorn \subseteq BhProcs /\ BhMain \in bhBorn
    /\ heapOf \in [BhProcs -> BhHeaps]
    /\ position \in [BhProcs -> Nat]
    /\ currentArena \in [BhHeaps -> Arenas]
    /\ remaining \in [Arenas -> 0 .. BhSlots]
    /\ view \in [BhProcs -> [arena : [BhHeaps -> Arenas], left : [Arenas -> 0 .. BhSlots]]]
    /\ bhTouched \in [BhProcs -> SUBSET BhPages]
    /\ bhStale \in [BhProcs -> BOOLEAN]
    /\ fresh \in [BhProcs -> SUBSET Objects]
    /\ given \in [Objects -> Nat]

\* Main's bump pointer is behind every arena that a heap has, or that any
\* transaction has looked at; the arenas from there on are new.
ArenasBehind ==
    /\ \A h \in BhHeaps : h < position[BhMain] /\ currentArena[h] < position[BhMain]
    /\ \A p \in BhProcs : /\ \A h \in BhHeaps : view[p].arena[h] < position[BhMain]
                          /\ \A a \in Arenas : Page(a) \in bhTouched[p] => a < position[BhMain]
    /\ \A a \in Arenas : a >= position[BhMain] => remaining[a] = BhSlots

\* What an arena still has has not been given to a transaction that committed.
GivenAreUsed ==
    \A a \in Arenas, l \in 1 .. BhSlots : given[<<a, l>>] <= IF l > remaining[a] THEN 1 ELSE 0

\* A transaction nobody has interfered with has allocated only objects that the
\* arenas still have, and that its own view no longer has.
FreshAreFree ==
    \A p \in BhProcs : ~bhStale[p] =>
        /\ \A a \in Arenas : Page(a) \in bhTouched[p] => view[p].left[a] <= remaining[a]
        /\ \A a \in Arenas, l \in 1 .. BhSlots : <<a, l>> \in fresh[p] =>
              Page(a) \in bhTouched[p] /\ view[p].left[a] < l /\ l <= remaining[a]

BhInv == BhTypes /\ ArenasBehind /\ GivenAreUsed /\ FreshAreFree

LEMMA BhBasics ==
    /\ BhMain \in BhProcs
    /\ BhSlots \in Nat /\ BhSlots > 0
    /\ Arenas \subseteq Nat
    /\ BhHeaps \subseteq Arenas
BY BhAssumption DEF Arenas

LEMMA PagesDiffer ==
    /\ \A a, b \in Arenas : Page(a) = Page(b) => a = b
    /\ \A a \in Arenas, h \in BhHeaps : Page(a) # Meta(h)
BY DEF Page, Meta

LEMMA BhCardinality == Cardinality(BhHeaps) \in Nat /\ \A h \in BhHeaps : h \in Nat /\ h <= Cardinality(BhHeaps)
<1>1. IsFiniteSet(BhHeaps)
    <2>1. BhHeaps \subseteq 1 .. BhChunks
        BY BhAssumption
    <2>2. IsFiniteSet(1 .. BhChunks)
        BY BhAssumption, FS_Interval
    <2>3. QED BY <2>1, <2>2, FS_Subset
<1>2. Cardinality(BhHeaps) \in Nat
    BY <1>1, FS_CardinalityType
<1>3. BhHeaps = 1 .. Cardinality(BhHeaps)
    BY BhAssumption
<1>4. QED BY <1>2, <1>3

\* Of every variable, the types of its parts.
LEMMA BhParts ==
    ASSUME BhTypes
    PROVE  /\ position[BhMain] \in Nat
           /\ \A h \in BhHeaps : currentArena[h] \in Arenas
           /\ \A a \in Arenas : remaining[a] \in 0 .. BhSlots
           /\ \A p \in BhProcs :
                /\ heapOf[p] \in BhHeaps /\ position[p] \in Nat /\ bhStale[p] \in BOOLEAN
                /\ bhTouched[p] \subseteq BhPages /\ fresh[p] \subseteq Objects
                /\ view[p].arena \in [BhHeaps -> Arenas]
                /\ view[p].left \in [Arenas -> 0 .. BhSlots]
                /\ \A h \in BhHeaps : view[p].arena[h] \in Arenas
                /\ \A a \in Arenas : view[p].left[a] \in 0 .. BhSlots
BY BhBasics DEF BhTypes

LEMMA NoViewTypes == NoView \in [arena : [BhHeaps -> Arenas], left : [Arenas -> 0 .. BhSlots]]
BY BhBasics DEF NoView

LEMMA BhInitInv == BhInit => BhInv
<1> SUFFICES ASSUME BhInit PROVE BhInv
    OBVIOUS
<1> USE BhCardinality, BhBasics DEF BhInit
<1>1. \A h \in BhHeaps : h \in Arenas /\ h < Cardinality(BhHeaps) + 1
    OBVIOUS
<1>3. BhTypes
    <2>1. bhBorn \subseteq BhProcs /\ BhMain \in bhBorn
        BY DEF BhOrder!Init
    <2>2. 1 \in BhHeaps
        BY BhAssumption
    <2>3. heapOf \in [BhProcs -> BhHeaps] /\ position \in [BhProcs -> Nat]
        BY <2>2
    <2>4. currentArena \in [BhHeaps -> Arenas] /\ remaining \in [Arenas -> 0 .. BhSlots]
        BY <1>1
    <2>5. view \in [BhProcs -> [arena : [BhHeaps -> Arenas], left : [Arenas -> 0 .. BhSlots]]]
        BY NoViewTypes
    <2>6. QED BY <2>1, <2>3, <2>4, <2>5 DEF BhTypes
<1>4. ArenasBehind
    BY <1>1 DEF ArenasBehind, NoView
<1>5. GivenAreUsed /\ FreshAreFree
    BY DEF GivenAreUsed, FreshAreFree, Objects
<1>6. QED BY <1>3, <1>4, <1>5 DEF BhInv

\* What a process sees.
LEMMA SeenTypes ==
    ASSUME BhInv, NEW p \in BhProcs
    PROVE  /\ ArenaSeen(p, heapOf[p]) \in Arenas /\ ArenaSeen(p, heapOf[p]) < position[BhMain]
           /\ \A a \in Arenas : /\ LeftSeen(p, a) \in 0 .. BhSlots
                                /\ ~bhStale[p] => LeftSeen(p, a) <= remaining[a]
<1> DEFINE h == heapOf[p]
<1> USE BhParts DEF BhInv
<1>1. /\ h \in BhHeaps /\ view[p].arena[h] \in Arenas /\ currentArena[h] \in Arenas
    OBVIOUS
<1>2. view[p].arena[h] < position[BhMain] /\ currentArena[h] < position[BhMain]
    BY <1>1 DEF ArenasBehind
<1>3. ArenaSeen(p, h) \in Arenas /\ ArenaSeen(p, h) < position[BhMain]
    BY <1>1, <1>2 DEF ArenaSeen
<1>4. ASSUME NEW a \in Arenas
      PROVE  /\ LeftSeen(p, a) \in 0 .. BhSlots
             /\ ~bhStale[p] => LeftSeen(p, a) <= remaining[a]
    <2>1. view[p].left[a] \in 0 .. BhSlots /\ remaining[a] \in 0 .. BhSlots
        OBVIOUS
    <2>2. ~bhStale[p] /\ Page(a) \in bhTouched[p] => view[p].left[a] <= remaining[a]
        BY DEF FreshAreFree
    <2>3. QED BY <2>1, <2>2, BhBasics DEF LeftSeen
<1>5. QED BY <1>3, <1>4

\* An object is taken from arena a, which has l left: in p's view only.
LEMMA TouchesStep ==
    ASSUME BhInv, NEW p \in BhProcs, NEW a \in Arenas, NEW l \in 1 .. BhSlots, NEW pages \in SUBSET BhPages,
           Touches(p, a, l - 1, pages), Page(a) \in pages,
           fresh' = [fresh EXCEPT ![p] = @ \cup {<<a, l>>}],
           UNCHANGED <<bhOrder, heapOf, bhShared, bhStale>>,
           position' \in [BhProcs -> Nat], position[BhMain] <= position'[BhMain],
           \A b \in Arenas : Page(b) \in pages => b < position'[BhMain],
           ~bhStale[p] => l <= remaining[a] /\ (Page(a) \in bhTouched[p] => l <= view[p].left[a])
    PROVE  BhInv'
<1> DEFINE left == [b \in Arenas |-> IF b = a THEN l - 1 ELSE IF Page(b) \in pages THEN LeftSeen(p, b)
                                     ELSE view[p].left[b]]
           arena == [view[p].arena EXCEPT ![heapOf[p]] = a]
<1>a. BhTypes /\ ArenasBehind /\ GivenAreUsed /\ FreshAreFree
    BY DEF BhInv
<1>b. l \in Nat /\ l - 1 \in Nat /\ l - 1 < l /\ l - 1 \in 0 .. BhSlots /\ l <= BhSlots
    BY BhBasics
<1>0. left \in [Arenas -> 0 .. BhSlots] /\ arena \in [BhHeaps -> Arenas]
    BY <1>a, <1>b, SeenTypes, BhParts
<1>1. /\ bhTouched' = [bhTouched EXCEPT ![p] = @ \cup pages]
      /\ view' = [view EXCEPT ![p] = [arena |-> arena, left |-> left]]
    BY DEF Touches
<1> HIDE DEF left, arena
<1>2. /\ view'[p].left = left /\ view'[p].arena = arena
      /\ \A q \in BhProcs \ {p} : view'[q] = view[q] /\ bhTouched'[q] = bhTouched[q] /\ fresh'[q] = fresh[q]
      /\ bhTouched'[p] = bhTouched[p] \cup pages
      /\ fresh'[p] = fresh[p] \cup {<<a, l>>}
    BY <1>a, <1>1 DEF BhTypes
<1>3. BhTypes'
    <2>1. view' \in [BhProcs -> [arena : [BhHeaps -> Arenas], left : [Arenas -> 0 .. BhSlots]]]
        BY <1>a, <1>0, <1>1 DEF BhTypes
    <2>2. <<a, l>> \in Objects
        BY DEF Objects
    <2>3. bhTouched' \in [BhProcs -> SUBSET BhPages] /\ fresh' \in [BhProcs -> SUBSET Objects]
        BY <1>a, <1>1, <2>2 DEF BhTypes
    <2>4. QED BY <1>a, <2>1, <2>3 DEF BhTypes, bhOrder, bhShared
<1>c. /\ Arenas \subseteq Nat /\ position[BhMain] \in Nat /\ position'[BhMain] \in Nat
      /\ position[BhMain] <= position'[BhMain]
    BY <1>a, BhParts, BhBasics
<1>d. remaining' = remaining /\ bhStale' = bhStale /\ currentArena' = currentArena /\ given' = given
    BY DEF bhShared
<1>4. ArenasBehind'
    <2>2. ASSUME NEW q \in BhProcs, NEW h \in BhHeaps PROVE view'[q].arena[h] < position'[BhMain]
        <3>1. view'[q].arena[h] = view[q].arena[h] \/ view'[q].arena[h] = a
            <4>1. view[p].arena \in [BhHeaps -> Arenas]
                BY <1>a, BhParts
            <4>2. arena[h] = view[p].arena[h] \/ arena[h] = a
                BY <4>1 DEF arena
            <4>3. QED BY <1>2, <4>2
        <3>2. view[q].arena[h] \in Nat /\ view[q].arena[h] < position[BhMain]
            BY <1>a, <1>c, BhParts DEF ArenasBehind
        <3>3. a \in Nat /\ a < position'[BhMain]
            BY <1>c
        <3>4. QED BY <1>c, <3>1, <3>2, <3>3
    <2>3. ASSUME NEW q \in BhProcs, NEW b \in Arenas, Page(b) \in bhTouched'[q] PROVE b < position'[BhMain]
        <3>1. Page(b) \in bhTouched[q] \/ Page(b) \in pages
            BY <1>2, <2>3
        <3>2. QED BY <1>a, <1>c, <3>1 DEF ArenasBehind
    <2>4. \A h \in BhHeaps : h < position'[BhMain] /\ currentArena'[h] < position'[BhMain]
        <3>1. \A h \in BhHeaps : /\ currentArena[h] \in Nat /\ currentArena[h] < position[BhMain]
                                 /\ h \in Nat /\ h < position[BhMain]
            BY <1>a, <1>c, BhParts, BhBasics DEF ArenasBehind
        <3>2. QED BY <1>c, <1>d, <3>1
    <2>5. \A b \in Arenas : b >= position'[BhMain] => remaining'[b] = BhSlots
        BY <1>a, <1>c, <1>d DEF ArenasBehind
    <2>6. QED BY <2>2, <2>3, <2>4, <2>5 DEF ArenasBehind
<1>5. GivenAreUsed'
    BY <1>a, <1>d DEF GivenAreUsed
<1>6. FreshAreFree'
    <2> SUFFICES ASSUME NEW q \in BhProcs, ~bhStale[q]
                 PROVE  /\ \A b \in Arenas : Page(b) \in bhTouched'[q] => view'[q].left[b] <= remaining[b]
                        /\ \A b \in Arenas, k \in 1 .. BhSlots : <<b, k>> \in fresh'[q] =>
                              Page(b) \in bhTouched'[q] /\ view'[q].left[b] < k /\ k <= remaining[b]
        BY <1>d DEF FreshAreFree
    <2>2. CASE q # p
        BY <1>a, <1>2, <2>2 DEF FreshAreFree
    <2>3. CASE q = p
        <3>1. ASSUME NEW b \in Arenas, Page(b) \in bhTouched'[p] PROVE left[b] <= remaining[b]
            <4>1. LeftSeen(p, b) \in Nat /\ LeftSeen(p, b) <= remaining[b] /\ remaining[b] \in Nat
                BY <1>a, <2>3, SeenTypes, BhParts, BhBasics
            <4>2. CASE b = a
                <5>1. left[b] = l - 1 /\ l <= remaining[b]
                    BY <4>2, <2>3 DEF left
                <5>2. QED BY <5>1, <4>1, <1>b
            <4>3. CASE b # a /\ Page(b) \in pages
                BY <4>3, <4>1 DEF left
            <4>4. CASE b # a /\ Page(b) \notin pages
                <5>1. Page(b) \in bhTouched[p]
                    BY <1>2, <3>1, <4>4
                <5>2. QED BY <1>a, <2>3, <4>4, <5>1 DEF FreshAreFree, left
            <4>5. QED BY <4>2, <4>3, <4>4
        <3>2. ASSUME NEW b \in Arenas, NEW k \in 1 .. BhSlots, <<b, k>> \in fresh'[p]
              PROVE  Page(b) \in bhTouched'[p] /\ left[b] < k /\ k <= remaining[b]
            <4>1. CASE <<b, k>> = <<a, l>>
                <5>1. b = a /\ k = l /\ left[b] = l - 1
                    BY <4>1 DEF left
                <5>2. QED BY <5>1, <1>2, <2>3, <1>b
            <4>2. CASE <<b, k>> # <<a, l>>
                <5>1. Page(b) \in bhTouched[p] /\ view[p].left[b] < k /\ k <= remaining[b]
                    BY <1>a, <1>2, <2>3, <3>2, <4>2 DEF FreshAreFree
                <5>2. view[p].left[b] \in Nat /\ left[b] \in Nat /\ k \in Nat
                    BY <1>0, <1>a, BhParts, BhBasics
                <5>3. b = a => left[b] = l - 1 /\ l <= view[p].left[b]
                    BY <2>3, <5>1 DEF left
                <5>4. b # a => left[b] = view[p].left[b]
                    BY <5>1 DEF LeftSeen, left
                <5>5. left[b] <= view[p].left[b]
                    BY <5>2, <5>3, <5>4, <1>b
                <5>6. left[b] < k
                    BY <5>1, <5>2, <5>5
                <5>7. QED BY <1>2, <5>1, <5>6
            <4>3. QED BY <4>1, <4>2
        <3>3. QED BY <1>2, <2>3, <3>1, <3>2
    <2>4. QED BY <2>2, <2>3
<1>7. QED BY <1>3, <1>4, <1>5, <1>6 DEF BhInv

LEMMA MallocFromArenaStep ==
    ASSUME BhInv, NEW p \in BhProcs, MallocFromArena(p)
    PROVE  BhInv'
<1> DEFINE a == ArenaSeen(p, heapOf[p])
           l == LeftSeen(p, a)
           pages == {Meta(heapOf[p]), Page(a)}
<1>1. a \in Arenas /\ a < position[BhMain] /\ l \in 0 .. BhSlots /\ (~bhStale[p] => l <= remaining[a])
    BY SeenTypes
<1>2. l \in 1 .. BhSlots
    BY <1>1, BhBasics DEF MallocFromArena
<1>3. Page(a) \in bhTouched[p] => l = view[p].left[a]
    BY DEF LeftSeen
<1>4. l <= l
    BY <1>2
<1>5. pages \subseteq BhPages /\ Page(a) \in pages /\ \A b \in Arenas : Page(b) \in pages => b = a
    BY <1>1, PagesDiffer, BhParts DEF BhInv, BhPages
<1>6. /\ Touches(p, a, l - 1, pages)
      /\ fresh' = [fresh EXCEPT ![p] = @ \cup {<<a, l>>}]
      /\ UNCHANGED <<bhOrder, heapOf, position, bhShared, bhStale>>
    BY DEF MallocFromArena
<1>7. position' = position /\ position[BhMain] <= position'[BhMain] /\ position' \in [BhProcs -> Nat]
    BY <1>6, BhParts DEF BhInv, BhTypes
<1> HIDE DEF a, l, pages
<1>8. \A b \in Arenas : Page(b) \in pages => b < position'[BhMain]
    BY <1>1, <1>5, <1>7
<1>9. ~bhStale[p] => l <= remaining[a] /\ (Page(a) \in bhTouched[p] => l <= view[p].left[a])
    BY <1>1, <1>3, <1>4
<1>10. QED
    BY <1>1, <1>2, <1>5, <1>6, <1>7, <1>8, <1>9, TouchesStep

\* Main's new arena is one that nobody has looked at.
LEMMA MallocRefillsStep ==
    ASSUME BhInv, ~BhAllRefill, NEW p \in BhProcs, MallocRefills(p)
    PROVE  BhInv'
<1> DEFINE a == position[p]
           old == ArenaSeen(p, heapOf[p])
           pages == {Meta(heapOf[p]), Page(old), Page(a)}
<1>1. p = BhMain /\ a \in Arenas /\ a \in Nat
    BY BhBasics DEF MallocRefills
<1>2. old \in Arenas /\ old < a
    BY <1>1, SeenTypes
<1>3. Page(a) \notin bhTouched[p] /\ remaining[a] = BhSlots
    BY <1>1 DEF BhInv, ArenasBehind
<1>4. BhSlots \in 1 .. BhSlots
    BY BhBasics
<1>5. pages \subseteq BhPages /\ Page(a) \in pages /\ \A b \in Arenas : Page(b) \in pages => b = a \/ b = old
    BY <1>1, <1>2, PagesDiffer, BhParts DEF BhInv, BhPages
<1>6. /\ Touches(p, a, BhSlots - 1, pages)
      /\ fresh' = [fresh EXCEPT ![p] = @ \cup {<<a, BhSlots>>}]
      /\ position' = [position EXCEPT ![p] = @ + 1]
      /\ UNCHANGED <<bhOrder, heapOf, bhShared, bhStale>>
    BY DEF MallocRefills
<1>7. position' \in [BhProcs -> Nat] /\ position'[BhMain] = a + 1
    BY <1>1, <1>6 DEF BhInv, BhTypes
<1>8. position[BhMain] <= position'[BhMain]
    BY <1>1, <1>7
<1>9. \A b \in Arenas : Page(b) \in pages => b < position'[BhMain]
    BY <1>1, <1>2, <1>5, <1>7, BhBasics
<1>10. ~bhStale[p] => BhSlots <= remaining[a] /\ (Page(a) \in bhTouched[p] => BhSlots <= view[p].left[a])
    BY <1>3, BhBasics
<1> HIDE DEF a, old, pages
<1>11. QED
    BY <1>1, <1>4, <1>5, <1>6, <1>7, <1>8, <1>9, <1>10, TouchesStep

\* The commit of a transaction that nobody has interfered with: what it takes
\* from the arenas is what it has allocated, and whoever has looked at one of
\* these is stale.
LEMMA BhCommitStep ==
    ASSUME BhInv, NEW p \in BhProcs, BhCommit(p)
    PROVE  BhInv'
<1>a. BhTypes /\ ArenasBehind /\ GivenAreUsed /\ FreshAreFree
    BY DEF BhInv
<1>b. ~bhStale[p]
    BY DEF BhCommit, UnchangedSince
<1>c. Arenas \subseteq Nat /\ position[BhMain] \in Nat /\ BhSlots \in Nat /\ BhHeaps \subseteq Nat
    BY <1>a, BhParts, BhBasics
<1>d. UNCHANGED <<bhOrder, heapOf, position>>
    BY DEF BhCommit
<1>1. /\ currentArena' = [currentArena EXCEPT ![heapOf[p]] = view[p].arena[heapOf[p]]]
      /\ remaining' = [a \in Arenas |-> LeftSeen(p, a)]
      /\ \A a \in Arenas : remaining'[a] = LeftSeen(p, a)
      /\ given' = [o \in Objects |-> IF o \in fresh[p] THEN given[o] + 1 ELSE given[o]]
      /\ bhTouched' = [bhTouched EXCEPT ![p] = {}] /\ fresh' = [fresh EXCEPT ![p] = {}]
      /\ view' = [view EXCEPT ![p] = NoView]
    BY DEF BhCommit
<1>2. /\ bhStale' \in [BhProcs -> BOOLEAN]
      /\ \A q \in BhProcs \ {p} : ~bhStale'[q] =>
            ~bhStale[q] /\ \A a \in Arenas : Page(a) \in bhTouched[q] => Page(a) \notin bhTouched[p]
    <2> DEFINE metas == IF currentArena[heapOf[p]] = view[p].arena[heapOf[p]] THEN {Meta(heapOf[p])} ELSE {}
    <2>1. bhStale' = [q \in BhProcs |-> q # p /\ (bhStale[q] \/ bhTouched[q] \cap (bhTouched[p] \ metas) # {})]
        BY DEF BhCommit
    <2>2. \A a \in Arenas : Page(a) \notin metas
        BY <1>a, PagesDiffer, BhParts
    <2> HIDE DEF metas
    <2>3. bhStale' \in [BhProcs -> BOOLEAN]
        BY <2>1
    <2>4. QED BY <2>1, <2>2, <2>3
<1>3. /\ bhTouched'[p] = {} /\ fresh'[p] = {} /\ view'[p] = NoView
      /\ \A q \in BhProcs \ {p} : view'[q] = view[q] /\ bhTouched'[q] = bhTouched[q] /\ fresh'[q] = fresh[q]
    BY <1>a, <1>1 DEF BhTypes
<1>4. BhTypes'
    <2>1. view' \in [BhProcs -> [arena : [BhHeaps -> Arenas], left : [Arenas -> 0 .. BhSlots]]]
        BY <1>a, <1>1, NoViewTypes DEF BhTypes
    <2>2. bhTouched' \in [BhProcs -> SUBSET BhPages] /\ fresh' \in [BhProcs -> SUBSET Objects]
        BY <1>a, <1>1 DEF BhTypes
    <2>3. currentArena' \in [BhHeaps -> Arenas]
        BY <1>a, <1>1, BhParts DEF BhTypes
    <2>4. remaining' \in [Arenas -> 0 .. BhSlots]
        BY <1>1, SeenTypes
    <2>5. given' \in [Objects -> Nat]
        BY <1>a, <1>1 DEF BhTypes
    <2>6. QED BY <1>a, <1>d, <1>2, <2>1, <2>2, <2>3, <2>4, <2>5 DEF BhTypes, bhOrder
<1>5. ArenasBehind'
    <2>1. position' = position
        BY <1>d
    <2>2. ASSUME NEW h \in BhHeaps PROVE h < position[BhMain] /\ currentArena'[h] < position[BhMain]
        <3>1. currentArena'[h] = currentArena[h] \/ currentArena'[h] = view[p].arena[heapOf[p]]
            BY <1>a, <1>1 DEF BhTypes
        <3>2. QED BY <1>a, <3>1, BhParts DEF ArenasBehind
    <2>3. ASSUME NEW q \in BhProcs, NEW h \in BhHeaps PROVE view'[q].arena[h] < position[BhMain]
        <3>1. CASE q = p
            BY <1>a, <1>3, <3>1 DEF ArenasBehind, NoView
        <3>2. CASE q # p
            BY <1>a, <1>3, <3>2 DEF ArenasBehind
        <3>3. QED BY <3>1, <3>2
    <2>4. ASSUME NEW q \in BhProcs, NEW a \in Arenas, Page(a) \in bhTouched'[q] PROVE a < position[BhMain]
        BY <1>a, <1>3, <2>4 DEF ArenasBehind
    <2>5. ASSUME NEW a \in Arenas, a >= position[BhMain] PROVE remaining'[a] = BhSlots
        <3>1. Page(a) \notin bhTouched[p] /\ remaining[a] = BhSlots
            BY <1>a, <1>c, <2>5 DEF ArenasBehind
        <3>2. QED BY <1>1, <3>1 DEF LeftSeen
    <2>6. QED BY <2>1, <2>2, <2>3, <2>4, <2>5 DEF ArenasBehind
<1>6. GivenAreUsed'
    <2> SUFFICES ASSUME NEW a \in Arenas, NEW l \in 1 .. BhSlots
                 PROVE  given'[<<a, l>>] <= IF l > remaining'[a] THEN 1 ELSE 0
        BY DEF GivenAreUsed
    <2>1. <<a, l>> \in Objects /\ l \in Nat
        BY DEF Objects
    <2>2. given[<<a, l>>] \in Nat /\ remaining[a] \in Nat /\ remaining'[a] \in Nat
        BY <1>a, <1>4, <2>1, BhParts, <1>c DEF BhTypes
    <2>3. given[<<a, l>>] <= IF l > remaining[a] THEN 1 ELSE 0
        BY <1>a DEF GivenAreUsed
    <2>4. remaining'[a] <= remaining[a]
        BY <1>b, <1>1, SeenTypes
    <2>5. CASE <<a, l>> \in fresh[p]
        <3>1. Page(a) \in bhTouched[p] /\ view[p].left[a] < l /\ l <= remaining[a]
            BY <1>a, <1>b, <2>5 DEF FreshAreFree
        <3>2. remaining'[a] < l
            BY <1>1, <3>1 DEF LeftSeen
        <3>3. given'[<<a, l>>] = given[<<a, l>>] + 1
            BY <1>1, <2>1, <2>5
        <3>4. QED BY <2>1, <2>2, <2>3, <3>1, <3>2, <3>3
    <2>6. CASE <<a, l>> \notin fresh[p]
        <3>1. given'[<<a, l>>] = given[<<a, l>>]
            BY <1>1, <2>1, <2>6
        <3>2. QED BY <2>1, <2>2, <2>3, <2>4, <3>1
    <2>7. QED BY <2>5, <2>6
<1>7. FreshAreFree'
    <2> SUFFICES ASSUME NEW q \in BhProcs, ~bhStale'[q]
                 PROVE  /\ \A b \in Arenas : Page(b) \in bhTouched'[q] => view'[q].left[b] <= remaining'[b]
                        /\ \A b \in Arenas, k \in 1 .. BhSlots : <<b, k>> \in fresh'[q] =>
                              Page(b) \in bhTouched'[q] /\ view'[q].left[b] < k /\ k <= remaining'[b]
        BY DEF FreshAreFree
    <2>1. CASE q = p
        BY <1>3, <2>1
    <2>2. CASE q # p
        <3>1. ~bhStale[q] /\ \A a \in Arenas : Page(a) \in bhTouched[q] => Page(a) \notin bhTouched[p]
            BY <1>2, <2>2
        <3>2. \A a \in Arenas : Page(a) \in bhTouched[q] => remaining'[a] = remaining[a]
            BY <1>1, <3>1 DEF LeftSeen
        <3>3. QED BY <1>a, <1>3, <2>2, <3>1, <3>2 DEF FreshAreFree
    <2>3. QED BY <2>1, <2>2
<1>8. QED BY <1>4, <1>5, <1>6, <1>7 DEF BhInv

LEMMA BhRollbackStep ==
    ASSUME BhInv, NEW p \in BhProcs, BhRollback(p)
    PROVE  BhInv'
<1>a. BhTypes /\ ArenasBehind /\ GivenAreUsed /\ FreshAreFree
    BY DEF BhInv
<1>1. /\ bhStale' = [bhStale EXCEPT ![p] = FALSE] /\ fresh' = [fresh EXCEPT ![p] = {}]
      /\ bhTouched' = [bhTouched EXCEPT ![p] = {}] /\ view' = [view EXCEPT ![p] = NoView]
      /\ UNCHANGED <<bhBorn, heapOf, position, currentArena, remaining, given>>
    BY DEF BhRollback, bhOrder, bhShared
<1>2. /\ bhTouched'[p] = {} /\ fresh'[p] = {} /\ view'[p] = NoView
      /\ \A q \in BhProcs \ {p} : /\ view'[q] = view[q] /\ bhTouched'[q] = bhTouched[q]
                                  /\ fresh'[q] = fresh[q] /\ bhStale'[q] = bhStale[q]
    BY <1>a, <1>1 DEF BhTypes
<1>3. BhTypes'
    <2>1. view' \in [BhProcs -> [arena : [BhHeaps -> Arenas], left : [Arenas -> 0 .. BhSlots]]]
        BY <1>a, <1>1, NoViewTypes DEF BhTypes
    <2>2. /\ bhTouched' \in [BhProcs -> SUBSET BhPages] /\ fresh' \in [BhProcs -> SUBSET Objects]
          /\ bhStale' \in [BhProcs -> BOOLEAN]
        BY <1>a, <1>1 DEF BhTypes
    <2>3. QED BY <1>a, <1>1, <2>1, <2>2 DEF BhTypes
<1>4. ArenasBehind'
    <2>1. ASSUME NEW q \in BhProcs, NEW h \in BhHeaps PROVE view'[q].arena[h] < position[BhMain]
        <3>1. CASE q = p
            BY <1>a, <1>2, <3>1 DEF ArenasBehind, NoView
        <3>2. CASE q # p
            BY <1>a, <1>2, <3>2 DEF ArenasBehind
        <3>3. QED BY <3>1, <3>2
    <2>2. ASSUME NEW q \in BhProcs, NEW a \in Arenas, Page(a) \in bhTouched'[q] PROVE a < position[BhMain]
        BY <1>a, <1>2, <2>2 DEF ArenasBehind
    <2>3. QED BY <1>a, <1>1, <2>1, <2>2 DEF ArenasBehind
<1>5. GivenAreUsed'
    BY <1>a, <1>1 DEF GivenAreUsed
<1>6. FreshAreFree'
    <2> SUFFICES ASSUME NEW q \in BhProcs, ~bhStale'[q]
                 PROVE  /\ \A b \in Arenas : Page(b) \in bhTouched'[q] => view'[q].left[b] <= remaining[b]
                        /\ \A b \in Arenas, k \in 1 .. BhSlots : <<b, k>> \in fresh'[q] =>
                              Page(b) \in bhTouched'[q] /\ view'[q].left[b] < k /\ k <= remaining[b]
        BY <1>1 DEF FreshAreFree
    <2>1. CASE q = p
        BY <1>2, <2>1
    <2>2. CASE q # p
        BY <1>a, <1>2, <2>2 DEF FreshAreFree
    <2>3. QED BY <2>1, <2>2
<1>7. QED BY <1>3, <1>4, <1>5, <1>6 DEF BhInv

LEMMA BhOrderSteps ==
    ASSUME BhInv, NEW p \in BhProcs, BhExit(p) \/ \E c \in BhProcs : BhFork(p, c)
    PROVE  BhInv'
<1>a. BhTypes /\ ArenasBehind /\ GivenAreUsed /\ FreshAreFree
    BY DEF BhInv
<1>1. UNCHANGED <<currentArena, remaining, given, view, bhTouched, bhStale, fresh>>
    BY DEF BhExit, BhFork, bhShared, bhTx
<1>2. /\ bhBorn' \subseteq BhProcs /\ BhMain \in bhBorn'
      /\ heapOf' \in [BhProcs -> BhHeaps] /\ position' \in [BhProcs -> Nat]
      /\ position'[BhMain] = position[BhMain]
    <2>1. CASE BhExit(p)
        BY <1>a, <2>1 DEF BhExit, BhOrder!Finish, BhTypes
    <2>2. ASSUME NEW c \in BhProcs, BhFork(p, c)
          PROVE  /\ bhBorn' \subseteq BhProcs /\ BhMain \in bhBorn'
                 /\ heapOf' \in [BhProcs -> BhHeaps] /\ position' \in [BhProcs -> Nat]
                 /\ position'[BhMain] = position[BhMain]
        <3>1. c \notin bhBorn /\ bhBorn' = bhBorn \cup {c}
            BY <2>2 DEF BhFork, BhOrder!Spawn
        <3>2. PICK h \in BhHeaps : heapOf' = [heapOf EXCEPT ![c] = h]
            BY <2>2 DEF BhFork
        <3>3. position' = [position EXCEPT ![c] = position[p]] /\ c # BhMain
            BY <1>a, <2>2, <3>1 DEF BhFork, BhTypes
        <3>4. QED BY <1>a, <3>1, <3>2, <3>3, BhBasics DEF BhTypes
    <2>3. QED BY <2>1, <2>2
<1>3. BhTypes'
    BY <1>a, <1>1, <1>2 DEF BhTypes
<1>4. ArenasBehind' /\ GivenAreUsed' /\ FreshAreFree'
    BY <1>a, <1>1, <1>2 DEF ArenasBehind, GivenAreUsed, FreshAreFree
<1>5. QED BY <1>3, <1>4 DEF BhInv

LEMMA BhInvInductive == ASSUME BhInv, ~BhAllRefill, [BhNext]_bhVars PROVE BhInv'
<1>1. ASSUME BhNext PROVE BhInv'
    <2>1. PICK p \in BhProcs :
              \/ MallocFromArena(p) \/ MallocRefills(p) \/ BhCommit(p) \/ BhRollback(p)
              \/ BhExit(p) \/ \E c \in BhProcs : BhFork(p, c)
        BY <1>1 DEF BhNext
    <2>2. CASE MallocFromArena(p)
        BY <2>2, MallocFromArenaStep
    <2>3. CASE MallocRefills(p)
        BY <2>3, MallocRefillsStep
    <2>4. CASE BhCommit(p)
        BY <2>4, BhCommitStep
    <2>5. CASE BhRollback(p)
        BY <2>5, BhRollbackStep
    <2>6. CASE BhExit(p) \/ \E c \in BhProcs : BhFork(p, c)
        BY <2>6, BhOrderSteps
    <2>7. QED BY <2>1, <2>2, <2>3, <2>4, <2>5, <2>6
<1>2. ASSUME UNCHANGED bhVars PROVE BhInv'
    <2>1. UNCHANGED <<bhBorn, heapOf, position, currentArena, remaining, given, view, bhTouched, bhStale, fresh>>
        BY <1>2 DEF bhVars, bhOrder, bhShared, bhTx
    <2>2. BhTypes' /\ ArenasBehind'
        BY <2>1 DEF BhInv, BhTypes, ArenasBehind
    <2>3. GivenAreUsed' /\ FreshAreFree'
        BY <2>1 DEF BhInv, GivenAreUsed, FreshAreFree
    <2>4. QED BY <2>2, <2>3 DEF BhInv
<1>3. QED BY <1>1, <1>2

\* Where only main exhausts an arena, no two transactions that commit are given
\* the same object, whichever heaps the processes use and however often they
\* run again (PPHeap::malloc, ZoneHeap::zoneMalloc, bumpheap::malloc).
THEOREM ObjectsAreGivenOnce ==
    ASSUME ~BhAllRefill
    PROVE  BhSpec => []ObjectsGivenOnce
<1>1. BhInv => ObjectsGivenOnce
    <2> SUFFICES ASSUME BhInv, NEW o \in Objects PROVE given[o] <= 1
        BY DEF ObjectsGivenOnce
    <2>1. PICK a \in Arenas, l \in 1 .. BhSlots : o = <<a, l>>
        BY DEF Objects
    <2>2. given[o] <= IF l > remaining[a] THEN 1 ELSE 0
        BY <2>1 DEF BhInv, GivenAreUsed
    <2>3. given[o] \in Nat
        BY DEF BhInv, BhTypes
    <2>4. QED BY <2>2, <2>3
<1>2. BhInv /\ [BhNext]_bhVars => BhInv'
    BY BhInvInductive
<1>3. QED BY <1>1, <1>2, BhInitInv, PTL DEF BhSpec

-----------------------------------------------------------------------------
\* XContext.

\* A set of natural numbers has a least one.
LEMMA LessIsWellFounded == IsWellFoundedOn({ss \in Nat \X Nat : ss[1] < ss[2]}, Nat)
BY NatLessThanWellFounded DEF OpToRel

LEMMA LeastNatural ==
    ASSUME NEW T, T \subseteq Nat, T # {}
    PROVE  \E n \in T : \A m \in T : n <= m
<1> DEFINE Less == {ss \in Nat \X Nat : ss[1] < ss[2]}
<1>1. PICK x \in T : \A y \in T : ~ (<<y, x>> \in Less)
    <2> HIDE DEF Less
    <2>1. IsWellFoundedOn(Less, Nat)
        BY LessIsWellFounded DEF Less
    <2>2. QED BY <2>1, WFMin
<1>2. ASSUME NEW y \in T PROVE x <= y
    <2>1. x \in Nat /\ y \in Nat /\ ~ (<<y, x>> \in Less)
        BY <1>1
    <2>2. <<y, x>> \in Nat \X Nat
        BY <2>1
    <2>3. ~ (y < x)
        BY <2>1, <2>2
    <2>4. QED BY <2>1, <2>3
<1>3. QED BY <1>2

\* restoreStack's recursion: how far it goes, in frames.
XcFar(d) == {n \in Nat : ~ (d + n * XcFrame + tos < RestoredEnd)}

XcTypes ==
    /\ stack \in Seq(XcWords) /\ Len(stack) > XcAbovePbos
    /\ committed \in Seq(XcWords) /\ Len(committed) > XcAbovePbos
    /\ tos \in 1 .. XcFrame

\* What has been saved is the stack at the last commit, below _pbos.
XcInv ==
    /\ XcTypes
    /\ saved = SubSeq(committed, XcAbovePbos + 1, Len(committed))
    /\ ~trampled

LEMMA XcNumbers ==
    /\ XcAbovePbos \in Nat /\ XcFrame \in Nat /\ XcFrame > 0
BY XcAssumption

LEMMA XcSavedLength ==
    ASSUME XcInv
    PROVE  /\ saved \in Seq(XcWords) /\ Len(saved) = Len(committed) - XcAbovePbos
           /\ \A i \in 1 .. Len(saved) : saved[i] = committed[XcAbovePbos + i]
           /\ RestoredEnd = Len(committed) /\ RestoredEnd \in Nat
BY XcNumbers DEF XcInv, XcTypes, RestoredEnd

LEMMA FramesAdd ==
    ASSUME NEW n \in Nat
    PROVE  n * XcFrame \in Nat /\ (n + 1) * XcFrame = n * XcFrame + XcFrame /\ n <= n * XcFrame
BY XcNumbers

\* The recursion is defined: it ends.
LEMMA DeeperExists ==
    ASSUME XcInv
    PROVE  \E g : g = [d \in Nat |-> IF d + tos < RestoredEnd THEN g[d + XcFrame] ELSE d + XcFrame]
<1> USE XcNumbers
<1>0. tos \in Nat /\ tos > 0 /\ tos <= XcFrame /\ RestoredEnd \in Nat
    BY XcSavedLength DEF XcInv, XcTypes
<1> DEFINE Least(d) == CHOOSE n \in XcFar(d) : \A m \in XcFar(d) : n <= m
           G == [d \in Nat |-> d + Least(d) * XcFrame + XcFrame]
<1>1. ASSUME NEW d \in Nat
      PROVE  Least(d) \in XcFar(d) /\ Least(d) \in Nat /\ \A m \in XcFar(d) : Least(d) <= m
    <2>1. RestoredEnd \in XcFar(d)
        BY <1>0, FramesAdd DEF XcFar
    <2>2. XcFar(d) \subseteq Nat
        BY DEF XcFar
    <2>3. \E n \in XcFar(d) : \A m \in XcFar(d) : n <= m
        BY <2>1, <2>2, LeastNatural
    <2>4. QED BY <2>2, <2>3
<1> HIDE DEF Least
<1>2. ASSUME NEW d \in Nat, ~ (d + tos < RestoredEnd) PROVE G[d] = d + XcFrame
    <2>1. 0 \in XcFar(d)
        BY <1>2, <1>0 DEF XcFar
    <2>2. Least(d) = 0
        BY <1>1, <2>1
    <2>3. QED BY <2>2
<1>3. ASSUME NEW d \in Nat, d + tos < RestoredEnd PROVE G[d] = G[d + XcFrame]
    <2> DEFINE e == d + XcFrame
               m == Least(e)
               n == Least(d)
    <2>1. e \in Nat /\ m \in Nat /\ n \in Nat /\ m \in XcFar(e) /\ n \in XcFar(d)
        BY <1>1
    <2>2. m + 1 \in XcFar(d)
        BY <2>1, <1>0, FramesAdd DEF XcFar
    <2>3. n # 0
        BY <1>0, <1>3, <2>1 DEF XcFar
    <2>4. n - 1 \in XcFar(e)
        <3>1. n - 1 \in Nat /\ n * XcFrame = (n - 1) * XcFrame + XcFrame
            BY <2>1, <2>3, FramesAdd
        <3>2. (n - 1) * XcFrame \in Nat
            BY <3>1, FramesAdd
        <3>3. QED BY <2>1, <3>1, <3>2, <1>0 DEF XcFar
    <2>5. n <= m + 1 /\ m <= n - 1
        BY <1>1, <2>1, <2>2, <2>4
    <2>6. n = m + 1
        BY <2>1, <2>5
    <2>7. n * XcFrame = m * XcFrame + XcFrame /\ m * XcFrame \in Nat
        BY <2>1, <2>6, FramesAdd
    <2>8. G[d] = d + n * XcFrame + XcFrame /\ G[e] = e + m * XcFrame + XcFrame
        BY <2>1
    <2>9. QED BY <2>7, <2>8
<1> HIDE DEF G
<1>4. G = [d \in Nat |-> IF d + tos < RestoredEnd THEN G[d + XcFrame] ELSE d + XcFrame]
    BY <1>2, <1>3 DEF G
<1>5. QED BY <1>4

\* The frame that copies is deeper than what is restored.
LEMMA CopyFrameIsDeep ==
    ASSUME XcInv, NEW dp \in Nat
    PROVE  ~ (CopyFrame(dp) < RestoredEnd)
<1> USE XcNumbers
<1>0. tos \in Nat /\ tos > 0 /\ tos <= XcFrame /\ RestoredEnd \in Nat
    BY XcSavedLength DEF XcInv, XcTypes
<1> DEFINE g == CHOOSE g : g = [d \in Nat |-> IF d + tos < RestoredEnd THEN g[d + XcFrame] ELSE d + XcFrame]
<1>1. g = [d \in Nat |-> IF d + tos < RestoredEnd THEN g[d + XcFrame] ELSE d + XcFrame]
    BY DeeperExists
<1>2. CopyFrame(dp) = g[dp]
    BY DEF CopyFrame
<1> HIDE DEF g
<1> DEFINE Bad == {n \in Nat : \E d \in Nat : RestoredEnd <= d + tos + n /\ ~ (g[d] \in Nat /\ RestoredEnd <= g[d])}
<1>3. ASSUME NEW n \in Bad PROVE \E m \in Bad : m < n
    <2>1. n \in Nat
        OBVIOUS
    <2>2. PICK d \in Nat : RestoredEnd <= d + tos + n /\ ~ (g[d] \in Nat /\ RestoredEnd <= g[d])
        OBVIOUS
    <2>3. d + tos < RestoredEnd
        BY <1>0, <1>1, <2>1, <2>2
    <2>4. g[d] = g[d + XcFrame] /\ d + XcFrame \in Nat /\ n - 1 \in Nat
        BY <1>0, <1>1, <2>1, <2>2, <2>3
    <2>5. RestoredEnd <= (d + XcFrame) + tos + (n - 1)
        BY <1>0, <2>1, <2>2
    <2>6. n - 1 \in Bad
        BY <2>2, <2>4, <2>5
    <2>7. QED BY <2>1, <2>4, <2>6
<1>4. Bad \subseteq Nat
    OBVIOUS
<1>5. RestoredEnd <= dp + tos + RestoredEnd
    BY <1>0
<1>6. g[dp] \in Nat /\ RestoredEnd <= g[dp]
    <2> SUFFICES ASSUME ~ (g[dp] \in Nat /\ RestoredEnd <= g[dp]) PROVE FALSE
        OBVIOUS
    <2>1. RestoredEnd \in Bad
        BY <1>0, <1>5
    <2> HIDE DEF Bad
    <2>2. PICK n \in Bad : \A m \in Bad : n <= m
        BY <1>4, <2>1, LeastNatural
    <2>3. PICK m \in Bad : m < n
        BY <1>3
    <2>4. QED BY <1>4, <2>2, <2>3
<1>7. QED BY <1>0, <1>2, <1>6

LEMMA XcInitInv == XcInit => XcInv
<1> SUFFICES ASSUME XcInit PROVE XcInv
    OBVIOUS
<1>1. stack \in Seq(XcWords) /\ Len(stack) = XcAbovePbos + 1
    BY XcNumbers DEF XcInit
<1>2. QED BY <1>1, XcNumbers DEF XcInit, XcInv, XcTypes

LEMMA XcInvInductive ==
    ASSUME XcInv, [XcNext]_xcVars
    PROVE  XcInv'
<1> USE XcNumbers
<1>1. ASSUME NEW w \in XcWords, XcPush(w) PROVE XcInv'
    BY <1>1 DEF XcPush, XcInv, XcTypes
<1>2. ASSUME NEW w \in XcWords, NEW i \in 1 .. XcMaxDepth, XcAssign(i, w) PROVE XcInv'
    <2>1. stack' = [stack EXCEPT ![i] = w] /\ stack \in Seq(XcWords) /\ i \in 1 .. Len(stack)
        BY <1>2 DEF XcAssign, XcInv, XcTypes
    <2>2. stack' \in Seq(XcWords) /\ Len(stack') = Len(stack)
        BY <2>1
    <2>3. QED BY <1>2, <2>2 DEF XcAssign, XcInv, XcTypes
<1>3. CASE XcPop
    BY <1>3 DEF XcPop, XcInv, XcTypes
<1>4. CASE XcCommit
    BY <1>4 DEF XcCommit, XcInv, XcTypes
<1>5. CASE XcAbort
    <2>1. ~ (CopyFrame(Len(stack)) < RestoredEnd)
        BY CopyFrameIsDeep DEF XcInv, XcTypes
    <2> DEFINE above == SubSeq(stack, 1, XcAbovePbos)
    <2>2. above \in Seq(XcWords) /\ Len(above) = XcAbovePbos
        BY DEF XcInv, XcTypes
    <2>3. saved \in Seq(XcWords) /\ Len(saved) \in Nat /\ Len(saved) > 0
        BY XcSavedLength DEF XcInv, XcTypes
    <2>4. stack' = above \o saved
        BY <1>5 DEF XcAbort
    <2> HIDE DEF above
    <2>5. stack' \in Seq(XcWords) /\ Len(stack') > XcAbovePbos
        BY <2>2, <2>3, <2>4, ConcatProperties
    <2>6. QED BY <1>5, <2>1, <2>5 DEF XcAbort, XcInv, XcTypes
<1>6. CASE UNCHANGED xcVars
    BY <1>6 DEF xcVars, XcInv, XcTypes
<1>7. QED BY <1>1, <1>2, <1>3, <1>4, <1>5, <1>6 DEF XcNext

\* A rollback gives the program the stack of its last commit below _pbos, and
\* restoreStack never writes over the frame it runs in, wherever tos is in it
\* and however large the stacks are (xcontext::commit, abort, restoreStack).
THEOREM RollbacksRestore == XcSpec => RollbackRestores
<1>1. ASSUME XcInv, XcAbort
      PROVE  /\ Len(stack') = Len(committed)
             /\ \A i \in XcAbovePbos + 1 .. Len(committed) : stack'[i] = committed[i]
             /\ ~trampled'
    <2> USE XcNumbers
    <2>1. ~ (CopyFrame(Len(stack)) < RestoredEnd)
        BY <1>1, CopyFrameIsDeep DEF XcInv, XcTypes
    <2>2. Len(SubSeq(stack, 1, XcAbovePbos)) = XcAbovePbos /\ SubSeq(stack, 1, XcAbovePbos) \in Seq(XcWords)
        BY <1>1 DEF XcInv, XcTypes
    <2>3. /\ Len(committed) \in Nat /\ Len(committed) > XcAbovePbos /\ saved \in Seq(XcWords)
          /\ Len(saved) = Len(committed) - XcAbovePbos
          /\ \A i \in 1 .. Len(saved) : saved[i] = committed[XcAbovePbos + i]
        BY <1>1, XcSavedLength DEF XcInv, XcTypes
    <2>4. stack' = SubSeq(stack, 1, XcAbovePbos) \o saved
        BY <1>1 DEF XcAbort
    <2>5. Len(stack') = Len(committed)
        BY <2>2, <2>3, <2>4
    <2>6. ASSUME NEW i \in XcAbovePbos + 1 .. Len(committed) PROVE stack'[i] = committed[i]
        <3>1. i - XcAbovePbos \in 1 .. Len(saved) /\ XcAbovePbos + (i - XcAbovePbos) = i
            BY <2>3
        <3>2. stack'[i] = saved[i - XcAbovePbos]
            BY <2>2, <2>3, <2>4
        <3>3. QED BY <2>3, <3>1, <3>2
    <2>7. ~trampled'
        BY <1>1, <2>1 DEF XcAbort, XcInv
    <2>8. QED BY <2>5, <2>6, <2>7
<1>2. XcInv => [XcAbort => /\ Len(stack') = Len(committed)
                           /\ \A i \in XcAbovePbos + 1 .. Len(committed) : stack'[i] = committed[i]
                           /\ ~trampled']_xcVars
    BY <1>1
<1>3. XcInv /\ [XcNext]_xcVars => XcInv'
    BY XcInvInductive
<1>4. QED BY <1>2, <1>3, XcInitInv, PTL DEF XcSpec, RollbackRestores

-----------------------------------------------------------------------------
(* XThread *)

\* Two things are at most two.
LEMMA PairIsSmall ==
    ASSUME NEW a, NEW b
    PROVE  IsFiniteSet({a, b}) /\ Cardinality({a, b}) <= 2
<1>1. IsFiniteSet({a}) /\ Cardinality({a}) = 1
    BY FS_Singleton
<1>2. /\ IsFiniteSet({a} \cup {b})
      /\ Cardinality({a} \cup {b}) = IF b \in {a} THEN Cardinality({a}) ELSE Cardinality({a}) + 1
    BY <1>1, FS_AddElement
<1>3. {a} \cup {b} = {a, b}
    OBVIOUS
<1>4. Cardinality({a, b}) = 1 \/ Cardinality({a, b}) = 1 + 1
    BY <1>1, <1>2, <1>3
<1>5. QED BY <1>2, <1>3, <1>4

USE MainAssumption, PidAssumption, NoThreadAssumption, NestingAssumption, UsesAssumption

-----------------------------------------------------------------------------
(* Typing *)

\* What is to follow an atomicEnd is known as long as it is not over.
Typed == TypeOK /\ ThenFollows

LEMMA InitTyped == Init => Typed
BY DEF Init, Typed, TypeOK, ThenFollows, Pids, NoPid

\* Waiting changes a latch, and who sleeps, within their types.
LEMMA WaitTyped ==
    ASSUME TypeOK, NEW t \in Threads, NEW i, Waited(t, i)
    PROVE  asleep' \in [Threads -> BOOLEAN] /\ semaphore' \in [Pids -> Nat]
<1>1. CASE PassesLatch(t, i)
    BY <1>1 DEF PassesLatch, TypeOK
<1>2. CASE WakesUp(t, i)
    <2>1. CASE i \in Pids
        <3>1. semaphore[i] - 1 \in Nat
            BY <1>2, <2>1 DEF WakesUp, TypeOK
        <3>2. QED BY <1>2, <2>1, <3>1 DEF WakesUp, TypeOK
    <2>2. CASE i \notin Pids
        BY <1>2, <2>2 DEF WakesUp, TypeOK
    <2>3. QED BY <2>1, <2>2
<1>3. QED BY <1>1, <1>2 DEF Waited

LEMMA WaitPredTyped ==
    ASSUME TypeOK, NEW t \in Threads, WaitedPred(t)
    PROVE  asleep' \in [Threads -> BOOLEAN] /\ semaphore' \in [Pids -> Nat]
BY WaitTyped DEF WaitedPred, TypeOK

\* A post counts up.
LEMMA PostTyped ==
    ASSUME TypeOK, NEW t \in Threads, Post(t)
    PROVE  semaphore' \in [Pids -> Nat]
<1>1. CASE tid[t] \in Pids
    <2>1. semaphore[tid[t]] + 1 \in Nat
        BY <1>1 DEF TypeOK
    <2>2. QED BY <1>1, <2>1 DEF Post, TypeOK
<1>2. CASE tid[t] \notin Pids
    BY <1>2 DEF Post, TypeOK
<1>3. QED BY <1>1, <1>2

\* So does a fork: a new thread is one deeper than its parent.
LEMMA ForkTyped ==
    ASSUME Typed, NEW t \in Threads, NEW c \in Threads, NEW i \in Pids, Fork(t, c, i)
    PROVE  Typed'
<1> USE DEF Typed, TypeOK
<1>1. nesting[t] + 1 \in Int /\ depth[t] + 1 \in Nat /\ depth[t] \in Nat
    OBVIOUS
<1>2. nesting' \in [Threads -> Int] /\ depth' \in [Threads -> Nat] /\ entry' \in [Threads -> Nat]
    BY <1>1 DEF Fork
<1>3. savedDepth' \in [Threads -> Nat]
    BY <1>1 DEF Fork
<1>4. pc' \in [Threads -> {"unborn", "run", "ensure", "check", "end", "commit", "fork", "join",
                           "exit", "final", "post1", "post2", "exited", "done", "killed"}]
    BY DEF Fork
<1>5. tid' \in [Threads -> Pids \cup {NoPid}] /\ pred' \in [Threads -> Pids \cup {NoPid}]
    BY DEF Fork
<1>6. parent' \in [Threads -> Threads \cup {NoThread}] /\ handles' \in [Threads -> SUBSET Threads]
    <2>1. handles[t] \cup {c} \in SUBSET Threads /\ handles[t] \in SUBSET Threads
        OBVIOUS
    <2>2. QED BY <2>1 DEF Fork
<1>7. earlier' \in [Threads -> SUBSET Threads]
    BY DEF Fork
<1>8. UNCHANGED <<lognCPUs, then, target, asleep, unlatched, semaphore, touched, stale, retried,
                 irrevocable>>
    BY DEF Fork, latchVars, txVars
<1>9. ThenFollows'
    BY <1>8 DEF Fork, ThenFollows
<1>10. TypeOK'
    BY <1>2, <1>3, <1>4, <1>5, <1>6, <1>7, <1>8
<1>11. QED BY <1>9, <1>10

\* The steps of the runtime keep the types.
LEMMA RuntimeTyped ==
    ASSUME Typed, NEW t \in Threads, Runtime(t)
    PROVE  Typed'
<1> USE DEF Typed, TypeOK, ThenFollows, runVars, latchVars, txVars, nestVars, ghosts
<1>1. CASE FallsAsleep(t)
    BY <1>1 DEF FallsAsleep
<1>2. CASE EndOptimized(t)
    BY <1>2 DEF EndOptimized, Continues
<1>3. CASE EndWaited(t)
    BY <1>3, WaitPredTyped DEF EndWaited
<1>4. CASE CommitSucceeds(t)
    BY <1>4 DEF CommitSucceeds, Continues, InTx, NoPid
<1>5. CASE CommitFails(t)
    BY <1>5 DEF CommitFails, GoesBack
<1>6. CASE EnsureWaited(t)
    BY <1>6, WaitPredTyped DEF EnsureWaited
<1>7. CASE CheckPasses(t)
    BY <1>7 DEF CheckPasses
<1>8. CASE CheckFails(t)
    BY <1>8 DEF CheckFails, GoesBack
<1>9. ASSUME NEW c \in Threads, NEW i \in Pids, Fork(t, c, i)
      PROVE  Typed'
    BY <1>9, ForkTyped
<1>10. CASE Joined(t)
    BY <1>10, WaitTyped DEF Joined
<1>11. CASE ExitWaited(t)
    BY <1>11, WaitPredTyped DEF ExitWaited
<1>12. CASE FinalWaited(t)
    BY <1>12, WaitPredTyped DEF FinalWaited
<1>13. CASE Post(t)
    BY <1>13, PostTyped DEF Post
<1>14. QED
    BY <1>1, <1>2, <1>3, <1>4, <1>5, <1>6, <1>7, <1>8, <1>9, <1>10, <1>11, <1>12, <1>13 DEF Runtime

\* So do the program's.
LEMMA ProgramTyped ==
    ASSUME Typed, NEW t \in Threads, Program(t)
    PROVE  Typed'
<1> USE DEF Typed, TypeOK, ThenFollows, runVars, latchVars, txVars, nestVars, ghosts, Ends
<1>1. CASE Punctuate(t)
    BY <1>1 DEF Punctuate
<1>2. CASE EnsureIrrevocable(t)
    BY <1>2 DEF EnsureIrrevocable
<1>3. CASE Spawn(t)
    BY <1>3 DEF Spawn
<1>4. CASE EnterInline(t)
    BY <1>4 DEF EnterInline
<1>5. CASE LeaveInline(t)
    <2>1. depth[t] - 1 \in Nat
        BY <1>5 DEF LeaveInline
    <2>2. QED BY <1>5, <2>1 DEF LeaveInline
<1>6. ASSUME NEW c \in Threads, Join(t, c)
      PROVE  Typed'
    BY <1>6 DEF Join
<1>7. CASE Return(t)
    BY <1>7 DEF Return
<1>8. CASE PthreadExit(t)
    BY <1>8 DEF PthreadExit
<1>9. QED
    BY <1>1, <1>2, <1>3, <1>4, <1>5, <1>6, <1>7, <1>8 DEF Program

LEMMA NextTyped == Typed /\ [Next]_vars => Typed'
<1> SUFFICES ASSUME Typed, [Next]_vars
             PROVE  Typed'
    OBVIOUS
<1>1. CASE UNCHANGED vars
    BY <1>1 DEF vars, runVars, latchVars, txVars, nestVars, ghosts, Typed, TypeOK, ThenFollows
<1>2. ASSUME NEW t \in Threads, Program(t) \/ Runtime(t)
      PROVE  Typed'
    BY <1>2, RuntimeTyped, ProgramTyped
<1>3. QED BY <1>1, <1>2 DEF Next

\* The variables of the protocol have the types of the code's: in particular no
\* semaphore and no depth is ever negative.
THEOREM Typing == Spec => []TypeOK
<1>1. Init => Typed
    BY InitTyped
<1>2. Typed /\ [Next]_vars => Typed'
    BY NextTyped
<1>3. Typed => TypeOK
    BY DEF Typed
<1>4. QED BY <1>1, <1>2, <1>3, PTL DEF Spec

-----------------------------------------------------------------------------
(* The order *)

\* There are enough process ids: none is used twice.
EnoughIds == IsFiniteSet(Threads) /\ Cardinality(Threads) <= MaxPid

\* While a thread is not born, its number of ids is left.
LEMMA AnIdIsLeft ==
    ASSUME EnoughIds, TypeOK, NEW c \in Threads \ Born
    PROVE  Unused # {}
<1>1. SUFFICES ASSUME Unused = {}
               PROVE  FALSE
    OBVIOUS
<1> DEFINE owner == [i \in Pids |-> CHOOSE t \in Born : tid[t] = i]
<1>2. \A i \in Pids : \E t \in Born : tid[t] = i
    BY <1>1 DEF Unused
<1>3. \A i \in Pids : owner[i] \in Born /\ tid[owner[i]] = i
    BY <1>2
<1>4. owner \in [Pids -> Born]
    BY <1>3
<1>5. owner \in Injection(Pids, Born)
    BY <1>3, <1>4, Zenon DEF Injection, IsInjective
<1>6. IsFiniteSet(Threads \ {c}) /\ Cardinality(Threads \ {c}) = Cardinality(Threads) - 1
    BY FS_RemoveElement DEF EnoughIds
<1>7. IsFiniteSet(Born) /\ Cardinality(Born) <= Cardinality(Threads \ {c})
    <2>1. Born \in SUBSET (Threads \ {c})
        BY DEF Born
    <2>2. QED BY <1>6, <2>1, FS_Subset
<1>8. Cardinality(Pids) <= Cardinality(Born)
    BY <1>5, <1>7, FS_Injection
<1>9. Cardinality(Pids) = MaxPid
    <2>1. Cardinality(1 .. MaxPid) = IF 1 > MaxPid THEN 0 ELSE MaxPid - 1 + 1
        BY FS_Interval
    <2>2. QED BY <2>1 DEF Pids
<1>10. Cardinality(Threads) \in Nat /\ Cardinality(Born) \in Nat
    BY <1>7, FS_CardinalityType DEF EnoughIds
<1>11. QED BY <1>6, <1>7, <1>8, <1>9, <1>10 DEF EnoughIds

\* The id of a new process is nobody's.
LEMMA ForkIsFresh ==
    ASSUME EnoughIds, TypeOK, NEW t \in Threads, NEW c \in Threads, NEW i \in Pids, Fork(t, c, i)
    PROVE  \A s \in Born : tid[s] # i
<1>1. c \in Threads \ Born
    BY DEF Fork
<1>2. i \in Unused
    BY <1>1, AnIdIsLeft DEF Fork, NextPid
<1>3. QED BY <1>2 DEF Unused

\* A wait is over when the thread of the latch has exited.
LEMMA WaitMeansExited ==
    ASSUME OrderInv, NEW t \in Threads, NEW i \in Pids, Waited(t, i)
    PROVE  \E s \in Exited : tid[s] = i
BY DEF OrderInv, LatchesAreExits, Waited, PassesLatch, WakesUp

\* A thread that has waited for its predecessor is the first in order.
LEMMA WaitedPredIsFirst ==
    ASSUME TypeOK, OrderInv, NEW t \in Born, WaitedPred(t)
    PROVE  earlier[t] \subseteq Exited
<1>1. CASE pred[t] = NoPid
    BY <1>1 DEF OrderInv, PredecessorsCover
<1>2. CASE pred[t] # NoPid
    <2>1. t \in Threads /\ pred[t] \in Pids
        BY <1>2 DEF TypeOK, Born
    <2>2. PICK c \in Born : tid[c] = pred[t] /\ earlier[t] \subseteq Exited \cup {c} \cup earlier[c]
        BY <1>2 DEF OrderInv, PredecessorsCover
    <2>3. Waited(t, pred[t])
        BY <1>2 DEF WaitedPred
    <2>4. PICK s \in Exited : tid[s] = pred[t]
        BY <2>1, <2>3, WaitMeansExited
    <2>5. s \in Born
        BY DEF Exited, Born
    <2>6. s = c
        BY <2>2, <2>4, <2>5 DEF OrderInv, IdsAreDistinct
    <2>7. c \in Exited /\ earlier[c] \subseteq Exited
        BY <2>4, <2>5, <2>6 DEF OrderInv, WaitedIsFirst
    <2>8. QED BY <2>2, <2>7
<1>3. QED BY <1>1, <1>2

\* Two threads cannot both be first.
LEMMA FirstIsUnique ==
    ASSUME TotalOrder, NEW s \in Born \ Exited, NEW t \in Born \ Exited,
           earlier[s] \subseteq Exited, earlier[t] \subseteq Exited
    PROVE  s = t
BY DEF TotalOrder

\* The part of the invariant about the order itself is left alone by a step that
\* neither forks nor exits nor clears a predecessor nor posts.
LEMMA QuietStep ==
    ASSUME OrderInv, Born' = Born, Exited' = Exited, UNCHANGED <<tid, pred, unlatched, earlier>>,
           \A i \in Pids : semaphore'[i] > 0 => semaphore[i] > 0
    PROVE  IdsAreDistinct' /\ LatchesAreExits' /\ TotalOrder' /\ PredecessorsCover'
BY DEF OrderInv, IdsAreDistinct, LatchesAreExits, TotalOrder, PredecessorsCover

\* A wait takes from a semaphore.
LEMMA WaitTakes ==
    ASSUME TypeOK, NEW t \in Threads, NEW j, Waited(t, j)
    PROVE  \A i \in Pids : semaphore'[i] > 0 => semaphore[i] > 0
BY DEF TypeOK, Waited, PassesLatch, WakesUp

LEMMA WaitPredTakes ==
    ASSUME TypeOK, NEW t \in Threads, WaitedPred(t)
    PROVE  \A i \in Pids : semaphore'[i] > 0 => semaphore[i] > 0
BY WaitTakes DEF WaitedPred

\* A step of t within its transaction, or from it to its end.
LEMMA StepsInPlace ==
    ASSUME TypeOK, NEW t \in Born \ Exited, NEW to, pc' = [pc EXCEPT ![t] = to],
           to \notin {"unborn", "post1", "post2", "exited", "done"}
    PROVE  Born' = Born /\ Exited' = Exited
BY DEF TypeOK, Born, Exited

LEMMA EndsInTypes ==
    ASSUME Typed, NEW t \in Threads, pc[t] \in {"end", "commit"}
    PROVE  then[t] \notin {"none", "unborn", "post1", "post2", "exited", "done", "commit", "check"}
BY DEF Typed, TypeOK, ThenFollows


\* The program's steps keep the order.
LEMMA ProgramOrdered ==
    ASSUME Typed, OrderInv, NEW t \in Threads, Program(t)
    PROVE  OrderInv'
<1> USE DEF Typed, runVars, latchVars, txVars, nestVars, ghosts
<1>1. ASSUME NEW next, Ends(t, next)
      PROVE  OrderInv'
    <2>1. t \in Born \ Exited /\ pc' = [pc EXCEPT ![t] = "end"]
        BY <1>1 DEF Ends, Born, Exited
    <2>2. Born' = Born /\ Exited' = Exited
        BY <2>1, StepsInPlace
    <2>3. IdsAreDistinct' /\ LatchesAreExits' /\ TotalOrder' /\ PredecessorsCover'
        BY <1>1, <2>2, QuietStep DEF Ends
    <2>4. WaitedIsFirst'
        BY <1>1, <2>1, <2>2 DEF Ends, OrderInv, WaitedIsFirst, TypeOK
    <2>5. WaitedIsFresh'
        BY <1>1, <2>1 DEF Ends, OrderInv, WaitedIsFresh, TypeOK, TxPc
    <2>6. QED BY <2>3, <2>4, <2>5 DEF OrderInv
<1>2. ASSUME NEW to \in {"run", "ensure", "killed"}, pc[t] = "run", pc' = [pc EXCEPT ![t] = to],
             UNCHANGED <<tid, pred, latchVars, txVars, earlier>>
      PROVE  OrderInv'
    <2>1. t \in Born \ Exited
        BY <1>2 DEF Born, Exited
    <2>2. Born' = Born /\ Exited' = Exited
        BY <1>2, <2>1, StepsInPlace
    <2>3. IdsAreDistinct' /\ LatchesAreExits' /\ TotalOrder' /\ PredecessorsCover'
        BY <1>2, <2>2, QuietStep
    <2>4. WaitedIsFirst'
        BY <1>2, <2>1, <2>2 DEF OrderInv, WaitedIsFirst, TypeOK
    <2>5. WaitedIsFresh'
        BY <1>2 DEF OrderInv, WaitedIsFresh, TypeOK, TxPc
    <2>6. QED BY <2>3, <2>4, <2>5 DEF OrderInv
<1>3. ASSUME UNCHANGED pc, pc[t] = "run", UNCHANGED <<tid, pred, latchVars, txVars, earlier>>
      PROVE  OrderInv'
    <2>1. pc' = [pc EXCEPT ![t] = "run"]
        BY <1>3 DEF TypeOK
    <2>2. QED BY <1>2, <1>3, <2>1
<1>4. CASE Punctuate(t)
    BY <1>1, <1>4 DEF Punctuate
<1>5. CASE EnsureIrrevocable(t)
    BY <1>2, <1>5 DEF EnsureIrrevocable
<1>6. CASE Spawn(t)
    BY <1>1, <1>6 DEF Spawn
<1>7. CASE EnterInline(t)
    BY <1>3, <1>7 DEF EnterInline
<1>8. CASE LeaveInline(t)
    BY <1>3, <1>8 DEF LeaveInline
<1>9. ASSUME NEW c \in Threads, Join(t, c)
      PROVE  OrderInv'
    BY <1>1, <1>9 DEF Join
<1>10. CASE Return(t)
    BY <1>1, <1>10 DEF Return
<1>11. CASE PthreadExit(t)
    BY <1>2, <1>11 DEF PthreadExit
<1>12. QED
    BY <1>4, <1>5, <1>6, <1>7, <1>8, <1>9, <1>10, <1>11 DEF Program

\* atomicEnd returns, with or without a wait.
LEMMA ContinuesOrdered ==
    ASSUME Typed, OrderInv, NEW t \in Threads, EndOptimized(t) \/ CommitSucceeds(t)
    PROVE  OrderInv'
<1> USE DEF Typed, latchVars, ghosts
<1>1. /\ pc[t] \in {"end", "commit"} /\ t \in Born \ Exited
      /\ pc' = [pc EXCEPT ![t] = then[t]]
      /\ retried' = [retried EXCEPT ![t] = FALSE]
      /\ irrevocable' = [irrevocable EXCEPT ![t] = FALSE]
      /\ UNCHANGED <<tid, unlatched, semaphore, earlier>>
    BY DEF EndOptimized, CommitSucceeds, Continues, Born, Exited
<1>2. then[t] \notin {"none", "unborn", "post1", "post2", "exited", "done", "commit", "check"}
    BY <1>1, EndsInTypes
<1>3. Born' = Born /\ Exited' = Exited
    BY <1>1, <1>2, StepsInPlace
<1>4. CASE EndOptimized(t)
    <2>1. IdsAreDistinct' /\ LatchesAreExits' /\ TotalOrder' /\ PredecessorsCover'
        BY <1>1, <1>3, <1>4, QuietStep DEF EndOptimized
    <2>2. WaitedIsFirst'
        BY <1>1, <1>2, <1>3 DEF OrderInv, WaitedIsFirst, TypeOK
    <2>3. WaitedIsFresh'
        BY <1>1, <1>4 DEF EndOptimized, OrderInv, WaitedIsFresh, TypeOK
    <2>4. QED BY <2>1, <2>2, <2>3 DEF OrderInv
<1>5. CASE CommitSucceeds(t)
    <2>1. earlier[t] \subseteq Exited
        BY <1>1, <1>5 DEF CommitSucceeds, OrderInv, WaitedIsFirst
    <2>2. IdsAreDistinct' /\ LatchesAreExits' /\ TotalOrder'
        BY <1>1, <1>3 DEF OrderInv, IdsAreDistinct, LatchesAreExits, TotalOrder
    <2>3. pred' = [pred EXCEPT ![t] = NoPid] /\ stale' = [s \in Threads |-> s # t /\ s \in InTx]
        BY <1>5 DEF CommitSucceeds
    <2>4. PredecessorsCover'
        BY <1>1, <1>3, <2>1, <2>3 DEF OrderInv, PredecessorsCover, TypeOK, Born
    <2>5. WaitedIsFirst'
        BY <1>1, <1>2, <1>3 DEF OrderInv, WaitedIsFirst, TypeOK
    <2>6. WaitedIsFresh'
        <3>1. SUFFICES ASSUME NEW s \in Threads, retried'[s] \/ irrevocable'[s]
                       PROVE  pc'[s] \in TxPc \cup {"killed"} /\ ~stale'[s]
            BY DEF WaitedIsFresh
        <3>2. s # t /\ (retried[s] \/ irrevocable[s])
            BY <1>1, <3>1 DEF TypeOK
        <3>3. pc[s] \in TxPc \cup {"killed"} /\ pc'[s] = pc[s]
            BY <1>1, <3>2 DEF OrderInv, WaitedIsFresh, TypeOK
        <3>4. ASSUME s \in InTx
              PROVE  FALSE
            <4>1. s \in Born \ Exited
                BY <3>3 DEF Born, Exited, TxPc
            <4>2. earlier[s] \subseteq Exited
                BY <3>2, <4>1 DEF OrderInv, WaitedIsFirst
            <4>3. QED BY <1>1, <2>1, <3>2, <4>1, <4>2, FirstIsUnique DEF OrderInv
        <3>5. QED BY <2>3, <3>3, <3>4
    <2>7. QED BY <2>2, <2>4, <2>5, <2>6 DEF OrderInv
<1>6. QED BY <1>4, <1>5

\* A transaction is rolled back when it has waited: it may run again, and nobody
\* has committed since it looked.
LEMMA GoesBackOrdered ==
    ASSUME Typed, OrderInv, NEW t \in Threads, CommitFails(t) \/ CheckFails(t)
    PROVE  OrderInv'
<1> USE DEF Typed, latchVars, ghosts
<1>1. /\ pc[t] \in {"commit", "check"} /\ t \in Born \ Exited
      /\ pc' = [pc EXCEPT ![t] = "run"]
      /\ retried' = [retried EXCEPT ![t] = TRUE]
      /\ irrevocable' = [irrevocable EXCEPT ![t] = FALSE]
      /\ stale' = [stale EXCEPT ![t] = FALSE]
      /\ UNCHANGED <<tid, pred, unlatched, semaphore, earlier>>
    BY DEF CommitFails, CheckFails, GoesBack, Born, Exited
<1>2. Born' = Born /\ Exited' = Exited
    BY <1>1, StepsInPlace
<1>3. IdsAreDistinct' /\ LatchesAreExits' /\ TotalOrder' /\ PredecessorsCover'
    BY <1>1, <1>2, QuietStep
<1>4. WaitedIsFirst'
    BY <1>1, <1>2 DEF OrderInv, WaitedIsFirst, TypeOK
<1>5. WaitedIsFresh'
    BY <1>1 DEF OrderInv, WaitedIsFresh, TypeOK, TxPc
<1>6. QED BY <1>3, <1>4, <1>5 DEF OrderInv

\* A wait for the predecessor is over, within the transaction.
LEMMA WaitedOrdered ==
    ASSUME Typed, OrderInv, NEW t \in Threads, EndWaited(t) \/ EnsureWaited(t)
    PROVE  OrderInv'
<1> USE DEF Typed, txVars, ghosts
<1>1. PICK to \in {"commit", "check"} :
        /\ pc[t] \in {"end", "ensure"} /\ t \in Born \ Exited
        /\ pc' = [pc EXCEPT ![t] = to]
        /\ WaitedPred(t)
        /\ UNCHANGED <<tid, pred, unlatched, earlier, retried, irrevocable, stale>>
    BY DEF EndWaited, EnsureWaited, Born, Exited
<1>2. Born' = Born /\ Exited' = Exited
    BY <1>1, StepsInPlace
<1>3. IdsAreDistinct' /\ LatchesAreExits' /\ TotalOrder' /\ PredecessorsCover'
    BY <1>1, <1>2, QuietStep, WaitPredTakes
<1>4. earlier[t] \subseteq Exited
    BY <1>1, WaitedPredIsFirst
<1>5. WaitedIsFirst'
    BY <1>1, <1>2, <1>4 DEF OrderInv, WaitedIsFirst, TypeOK
<1>6. WaitedIsFresh'
    BY <1>1 DEF OrderInv, WaitedIsFresh, TypeOK, TxPc
<1>7. QED BY <1>3, <1>5, <1>6 DEF OrderInv

\* ensureIrrevocable has found memory consistent.
LEMMA CheckPassesOrdered ==
    ASSUME Typed, OrderInv, NEW t \in Threads, CheckPasses(t)
    PROVE  OrderInv'
<1> USE DEF Typed, latchVars, ghosts
<1>1. /\ pc[t] = "check" /\ t \in Born \ Exited
      /\ pc' = [pc EXCEPT ![t] = "run"]
      /\ irrevocable' = [irrevocable EXCEPT ![t] = TRUE]
      /\ stale' = [stale EXCEPT ![t] = FALSE]
      /\ UNCHANGED <<tid, pred, unlatched, semaphore, earlier, retried>>
    BY DEF CheckPasses, Born, Exited
<1>2. Born' = Born /\ Exited' = Exited
    BY <1>1, StepsInPlace
<1>3. IdsAreDistinct' /\ LatchesAreExits' /\ TotalOrder' /\ PredecessorsCover'
    BY <1>1, <1>2, QuietStep
<1>4. WaitedIsFirst'
    BY <1>1, <1>2 DEF OrderInv, WaitedIsFirst, TypeOK
<1>5. WaitedIsFresh'
    BY <1>1 DEF OrderInv, WaitedIsFresh, TypeOK, TxPc
<1>6. QED BY <1>3, <1>4, <1>5 DEF OrderInv

\* A thread falls asleep, or comes back from a join.
LEMMA LatchOrdered ==
    ASSUME Typed, OrderInv, NEW t \in Threads, FallsAsleep(t) \/ Joined(t)
    PROVE  OrderInv'
<1> USE DEF Typed, txVars, runVars, ghosts
<1>1. CASE FallsAsleep(t)
    <2>1. UNCHANGED <<pc, tid, pred, unlatched, semaphore, earlier, retried, irrevocable, stale>>
        BY <1>1 DEF FallsAsleep
    <2>2. Born' = Born /\ Exited' = Exited
        BY <2>1 DEF Born, Exited
    <2>3. IdsAreDistinct' /\ LatchesAreExits' /\ TotalOrder' /\ PredecessorsCover'
        BY <2>1, <2>2, QuietStep
    <2>4. WaitedIsFirst' /\ WaitedIsFresh'
        BY <2>1, <2>2 DEF OrderInv, WaitedIsFirst, WaitedIsFresh
    <2>5. QED BY <2>3, <2>4 DEF OrderInv
<1>2. CASE Joined(t)
    <2>1. /\ pc[t] = "join" /\ t \in Born \ Exited
          /\ pc' = [pc EXCEPT ![t] = "run"]
          /\ Waited(t, tid[target[t]])
          /\ UNCHANGED <<tid, pred, unlatched, earlier, retried, irrevocable, stale>>
        BY <1>2 DEF Joined, Born, Exited
    <2>2. Born' = Born /\ Exited' = Exited
        BY <2>1, StepsInPlace
    <2>3. IdsAreDistinct' /\ LatchesAreExits' /\ TotalOrder' /\ PredecessorsCover'
        BY <2>1, <2>2, QuietStep, WaitTakes
    <2>4. WaitedIsFirst'
        BY <2>1, <2>2 DEF OrderInv, WaitedIsFirst, TypeOK
    <2>5. WaitedIsFresh'
        BY <2>1 DEF OrderInv, WaitedIsFresh, TypeOK, TxPc
    <2>6. QED BY <2>3, <2>4, <2>5 DEF OrderInv
<1>3. QED BY <1>1, <1>2

\* A thread exits when it is first.
LEMMA ExitOrdered ==
    ASSUME Typed, OrderInv, NEW t \in Threads, ExitWaited(t) \/ FinalWaited(t)
    PROVE  OrderInv'
<1> USE DEF Typed, txVars, ghosts
<1>1. PICK to \in {"post1", "done"} :
        /\ pc[t] \in {"exit", "final"}
        /\ pc' = [pc EXCEPT ![t] = to]
        /\ WaitedPred(t)
        /\ unlatched' \in {unlatched, [unlatched EXCEPT ![tid[t]] = TRUE]}
        /\ UNCHANGED <<tid, pred, earlier, retried, irrevocable, stale>>
    BY DEF ExitWaited, FinalWaited
<1>2. t \in Born \ Exited
    BY <1>1 DEF Born, Exited
<1>3. Born' = Born /\ Exited' = Exited \cup {t}
    BY <1>1 DEF Born, Exited, TypeOK
<1>4. earlier[t] \subseteq Exited
    BY <1>1, <1>2, WaitedPredIsFirst
<1>5. IdsAreDistinct' /\ TotalOrder' /\ PredecessorsCover'
    BY <1>1, <1>3 DEF OrderInv, IdsAreDistinct, TotalOrder, PredecessorsCover
<1>6. LatchesAreExits'
    <2>1. SUFFICES ASSUME NEW i \in Pids, unlatched'[i] \/ semaphore'[i] > 0
                   PROVE  \E s \in Exited' : tid'[s] = i
        BY DEF LatchesAreExits
    <2>2. CASE unlatched[i] \/ semaphore[i] > 0
        BY <1>1, <1>3, <2>2 DEF OrderInv, LatchesAreExits
    <2>3. CASE ~(unlatched[i] \/ semaphore[i] > 0)
        <3>1. unlatched'[i]
            BY <1>1, <2>1, <2>3, WaitPredTakes
        <3>2. tid[t] = i
            BY <1>1, <2>3, <3>1 DEF TypeOK
        <3>3. QED BY <1>1, <1>3, <3>2
    <2>4. QED BY <2>2, <2>3
<1>7. WaitedIsFirst'
    BY <1>1, <1>3, <1>4 DEF OrderInv, WaitedIsFirst, TypeOK
<1>8. WaitedIsFresh'
    BY <1>1 DEF OrderInv, WaitedIsFresh, TypeOK, TxPc
<1>9. QED BY <1>5, <1>6, <1>7, <1>8 DEF OrderInv

\* The posts are for the latch of a thread that has exited.
LEMMA PostOrdered ==
    ASSUME Typed, OrderInv, NEW t \in Threads, Post(t)
    PROVE  OrderInv'
<1> USE DEF Typed, txVars, ghosts
<1>1. PICK to \in {"post2", "exited"} :
        /\ pc[t] \in {"post1", "post2"}
        /\ pc' = [pc EXCEPT ![t] = to]
        /\ semaphore' = [semaphore EXCEPT ![tid[t]] = @ + 1]
        /\ UNCHANGED <<tid, pred, unlatched, earlier, retried, irrevocable, stale>>
    BY DEF Post
<1>2. t \in Exited
    BY <1>1 DEF Exited
<1>3. Born' = Born /\ Exited' = Exited
    BY <1>1 DEF Born, Exited, TypeOK
<1>4. IdsAreDistinct' /\ TotalOrder' /\ PredecessorsCover'
    BY <1>1, <1>3 DEF OrderInv, IdsAreDistinct, TotalOrder, PredecessorsCover
<1>5. LatchesAreExits'
    <2>1. SUFFICES ASSUME NEW i \in Pids, unlatched'[i] \/ semaphore'[i] > 0
                   PROVE  \E s \in Exited' : tid'[s] = i
        BY DEF LatchesAreExits
    <2>2. CASE i = tid[t]
        BY <1>1, <1>2, <1>3, <2>2
    <2>3. CASE i # tid[t]
        <3>1. semaphore'[i] = semaphore[i]
            BY <1>1, <2>3 DEF TypeOK
        <3>2. QED BY <1>1, <1>3, <2>1, <3>1 DEF OrderInv, LatchesAreExits
    <2>4. QED BY <2>2, <2>3
<1>6. WaitedIsFirst'
    BY <1>1, <1>3 DEF OrderInv, WaitedIsFirst, TypeOK
<1>7. WaitedIsFresh'
    BY <1>1 DEF OrderInv, WaitedIsFresh, TypeOK, TxPc
<1>8. QED BY <1>4, <1>5, <1>6, <1>7 DEF OrderInv

\* A new thread comes right before its parent in the order, and is the parent's
\* predecessor; what precedes the two is covered by the old predecessor.
LEMMA ForkOrdered ==
    ASSUME EnoughIds, Typed, OrderInv, NEW t \in Threads, NEW c \in Threads, NEW i \in Pids,
           Fork(t, c, i)
    PROVE  OrderInv'
<1> USE DEF Typed, latchVars, txVars
<1>1. /\ pc[t] = "fork" /\ c \in Threads \ Born
      /\ pc' = [pc EXCEPT ![t] = "run", ![c] = "run"]
      /\ tid' = [tid EXCEPT ![c] = i]
      /\ pred' = [pred EXCEPT ![t] = i, ![c] = pred[t]]
      /\ earlier' = [s \in Threads |->
                      IF s = c THEN earlier[t]
                      ELSE IF s = t \/ t \in earlier[s] THEN earlier[s] \cup {c}
                      ELSE earlier[s]]
      /\ UNCHANGED <<unlatched, semaphore, retried, irrevocable, stale>>
    BY DEF Fork
<1>2. t \in Born \ Exited /\ c # t /\ c \notin Exited
    BY <1>1 DEF Born, Exited
<1>3. Born' = Born \cup {c} /\ Exited' = Exited
    BY <1>1 DEF Born, Exited, TypeOK
<1>4. \A s \in Born : s \in Threads /\ s # c
    BY <1>1 DEF Born
<1>5. IdsAreDistinct'
    BY <1>1, <1>3, <1>4, ForkIsFresh DEF OrderInv, IdsAreDistinct, TypeOK
<1>6. LatchesAreExits'
    <2>1. \A s \in Exited : tid'[s] = tid[s]
        BY <1>1, <1>2 DEF Exited, TypeOK
    <2>2. QED BY <1>1, <1>3, <2>1 DEF OrderInv, LatchesAreExits
<1>7. TotalOrder'
    BY <1>1, <1>2, <1>3, <1>4 DEF OrderInv, TotalOrder
<1>8. PredecessorsCover'
    <2>1. \A s \in Born : earlier[s] \subseteq earlier'[s] /\ tid'[s] = tid[s]
        BY <1>1, <1>4 DEF TypeOK
    <2>2. tid'[c] = i /\ earlier'[c] = earlier[t] /\ earlier'[t] = earlier[t] \cup {c}
        BY <1>1, <1>2 DEF TypeOK
    <2>3. pred'[t] = i /\ i # NoPid /\ pred'[c] = pred[t]
        BY <1>1, <1>2 DEF TypeOK, Pids, NoPid
    <2> DEFINE Covered(s) ==
                   IF pred[s] = NoPid THEN earlier[s] \subseteq Exited
                   ELSE \E d \in Born : tid[d] = pred[s]
                                        /\ earlier[s] \subseteq Exited \cup {d} \cup earlier[d]
    <2>4. \A s \in Born : Covered(s)
        BY DEF OrderInv, PredecessorsCover
    <2>5. SUFFICES ASSUME NEW s \in Born'
                   PROVE  Covered(s)'
        BY DEF PredecessorsCover
    <2>6. CASE s = t
        BY <1>3, <2>2, <2>3, <2>6
    <2>7. CASE s = c
        BY <1>2, <1>3, <2>1, <2>2, <2>3, <2>4, <2>7
    <2>8. CASE s \in Born \ {t}
        <3>1. pred'[s] = pred[s]
            BY <1>1, <1>4, <2>8 DEF TypeOK
        <3>2. CASE t \in earlier[s]
            <4>1. PICK d \in Born : pred[s] # NoPid /\ tid[d] = pred[s]
                                    /\ earlier[s] \subseteq Exited \cup {d} \cup earlier[d]
                BY <1>2, <2>4, <2>8, <3>2
            <4>2. earlier'[s] = earlier[s] \cup {c}
                BY <1>1, <1>4, <2>8, <3>2
            <4>3. c \in earlier'[d]
                BY <1>1, <1>2, <1>4, <3>2, <4>1
            <4>4. QED BY <1>3, <2>1, <3>1, <4>1, <4>2, <4>3
        <3>3. CASE t \notin earlier[s]
            <4>1. earlier'[s] = earlier[s]
                BY <1>1, <1>4, <2>8, <3>3
            <4>2. QED BY <1>3, <2>1, <2>4, <2>8, <3>1, <4>1
        <3>4. QED BY <3>2, <3>3
    <2>9. QED BY <1>3, <2>6, <2>7, <2>8
<1>9. WaitedIsFirst'
    <2>1. SUFFICES ASSUME NEW s \in Born',
                          \/ s \in Exited' \/ pc'[s] \in {"commit", "check"}
                          \/ retried'[s] \/ irrevocable'[s]
                   PROVE  earlier'[s] \subseteq Exited
        BY <1>3 DEF WaitedIsFirst
    <2>2. s # c
        BY <1>1, <1>2, <1>3, <2>1 DEF OrderInv, WaitedIsFresh, TxPc, Born, TypeOK
    <2>3. s # t
        BY <1>1, <1>2, <1>3, <2>1 DEF OrderInv, WaitedIsFresh, TxPc, TypeOK
    <2>4. s \in Born /\ earlier[s] \subseteq Exited
        BY <1>1, <1>3, <1>4, <2>1, <2>2, <2>3 DEF OrderInv, WaitedIsFirst, TypeOK
    <2>5. QED BY <1>1, <1>2, <1>4, <2>2, <2>3, <2>4
<1>10. WaitedIsFresh'
    BY <1>1 DEF OrderInv, WaitedIsFresh, TypeOK, TxPc, Born
<1>11. QED BY <1>5, <1>6, <1>7, <1>8, <1>9, <1>10 DEF OrderInv

LEMMA InitOrdered == Init => OrderInv
<1> SUFFICES ASSUME Init
             PROVE  OrderInv
    OBVIOUS
<1>1. Born = {Main} /\ Exited = {}
    BY DEF Init, Born, Exited
<1>2. IdsAreDistinct /\ LatchesAreExits /\ TotalOrder
    BY <1>1 DEF Init, IdsAreDistinct, LatchesAreExits, TotalOrder, Pids
<1>3. PredecessorsCover /\ WaitedIsFirst /\ WaitedIsFresh
    BY <1>1 DEF Init, PredecessorsCover, WaitedIsFirst, WaitedIsFresh
<1>4. QED BY <1>2, <1>3 DEF OrderInv

LEMMA NextOrdered ==
    ASSUME EnoughIds, Typed, OrderInv, [Next]_vars
    PROVE  OrderInv'
<1>1. CASE UNCHANGED vars
    BY <1>1 DEF vars, runVars, latchVars, txVars, nestVars, ghosts, OrderInv, IdsAreDistinct,
                LatchesAreExits, TotalOrder, PredecessorsCover, WaitedIsFirst, WaitedIsFresh,
                Born, Exited
<1>2. ASSUME NEW t \in Threads, Program(t)
      PROVE  OrderInv'
    BY <1>2, ProgramOrdered
<1>3. ASSUME NEW t \in Threads, Runtime(t)
      PROVE  OrderInv'
    BY <1>3, ContinuesOrdered, GoesBackOrdered, WaitedOrdered, CheckPassesOrdered, LatchOrdered,
       ExitOrdered, PostOrdered, ForkOrdered DEF Runtime
<1>4. QED BY <1>1, <1>2, <1>3 DEF Next

\* The inductive invariant of the order, which the run thread_order checks too.
THEOREM Invariance == ASSUME EnoughIds PROVE Spec => []IInv
<1>1. Init => IInv
    BY InitTyped, InitOrdered DEF IInv, Typed
<1>2. IInv /\ [Next]_vars => IInv'
    BY NextTyped, NextOrdered DEF IInv, Typed
<1>3. QED BY <1>1, <1>2, PTL DEF Spec

\* A transaction that runs again after a failed commit or a failed check of
\* ensureIrrevocable commits, whatever the other threads do (xrun::atomicEnd and
\* abort).
THEOREM RetriesSucceed == ASSUME EnoughIds PROVE Spec => []RetrySucceeds
<1>1. IInv => RetrySucceeds
    BY DEF IInv, OrderInv, WaitedIsFresh, RetrySucceeds
<1>2. QED BY <1>1, Invariance, PTL

\* What is done after ensureIrrevocable never needs to be undone.
THEOREM IrrevocableStays == ASSUME EnoughIds PROVE Spec => []IrrevocableIsFinal
<1>1. IInv => IrrevocableIsFinal
    BY DEF IInv, OrderInv, WaitedIsFresh, IrrevocableIsFinal
<1>2. QED BY <1>1, Invariance, PTL
-----------------------------------------------------------------------------
(* XThread implements ForkJoin *)

Publishing == {t \in Threads : pc[t] = "commit"}

\* Most steps do not show.
LEMMA Hidden ==
    ASSUME Typed, NEW t \in Threads, NEW to, pc' = [pc EXCEPT ![t] = to], UNCHANGED earlier,
           pc[t] \notin {"unborn", "commit", "post1", "post2", "exited", "done"},
           to \notin {"unborn", "commit", "post1", "post2", "exited", "done"}
    PROVE  UNCHANGED FJ!vars
<1>1. Born' = Born /\ Exited' = Exited /\ Publishing' = Publishing
    BY DEF Typed, TypeOK, Born, Exited, Publishing
<1>2. QED BY <1>1 DEF FJ!vars, Publishing

LEMMA ProgramHidden ==
    ASSUME Typed, NEW t \in Threads, Program(t)
    PROVE  UNCHANGED FJ!vars
<1> USE DEF nestVars, ghosts, runVars
<1>1. ASSUME NEW next, Ends(t, next)
      PROVE  UNCHANGED FJ!vars
    BY <1>1, Hidden DEF Ends
<1>2. ASSUME pc[t] = "run", UNCHANGED <<pc, earlier>>
      PROVE  UNCHANGED FJ!vars
    BY <1>2 DEF FJ!vars, Born, Exited
<1>3. QED
    BY <1>1, <1>2, Hidden DEF Program, Punctuate, EnsureIrrevocable, Spawn, EnterInline, LeaveInline,
                              Join, Return, PthreadExit

\* The others are steps of ForkJoin.
LEMMA RuntimeImplements ==
    ASSUME Typed, OrderInv, NEW t \in Threads, Runtime(t)
    PROVE  FJ!Next \/ UNCHANGED FJ!vars
<1> USE DEF nestVars, ghosts, runVars, txVars, latchVars
<1>1. CASE FallsAsleep(t) \/ Post(t)
    <2>1. Born' = Born /\ Exited' = Exited /\ Publishing' = Publishing /\ earlier' = earlier
        BY <1>1 DEF FallsAsleep, Post, Born, Exited, Publishing, Typed, TypeOK
    <2>2. QED BY <2>1 DEF FJ!vars, Publishing
<1>2. CASE EndOptimized(t)
    BY <1>2, Hidden, EndsInTypes DEF EndOptimized, Continues
<1>3. CASE EnsureWaited(t) \/ CheckPasses(t) \/ CheckFails(t) \/ Joined(t)
    BY <1>3, Hidden DEF EnsureWaited, CheckPasses, CheckFails, GoesBack, Joined
<1>4. CASE EndWaited(t)
    <2>1. pc[t] = "end" /\ pc' = [pc EXCEPT ![t] = "commit"] /\ earlier' = earlier
        BY <1>4 DEF EndWaited
    <2>2. t \in Born \ Exited
        BY <2>1 DEF Born, Exited
    <2>3. Born' = Born /\ Exited' = Exited
        BY <2>1, <2>2, StepsInPlace DEF Typed
    <2>4. Publishing' = Publishing \cup {t}
        BY <2>1 DEF Publishing, Typed, TypeOK
    <2>5. earlier[t] \subseteq Exited
        BY <1>4, <2>2, WaitedPredIsFirst DEF EndWaited, Typed
    <2>6. FJ!StartPublishing(t)
        BY <2>1, <2>2, <2>3, <2>4, <2>5 DEF FJ!StartPublishing, FJ!First, Publishing
    <2>7. QED BY <2>6 DEF FJ!Next
<1>5. CASE CommitSucceeds(t) \/ CommitFails(t)
    <2>1. PICK to \in {"run", "fork", "join", "exit", "final"} :
              pc[t] = "commit" /\ pc' = [pc EXCEPT ![t] = to] /\ earlier' = earlier
        BY <1>5 DEF CommitSucceeds, Continues, CommitFails, GoesBack, Typed, TypeOK, ThenFollows
    <2>2. t \in Born \ Exited
        BY <2>1 DEF Born, Exited
    <2>3. Born' = Born /\ Exited' = Exited
        BY <2>1, <2>2, StepsInPlace DEF Typed
    <2>4. Publishing' = Publishing \ {t}
        BY <2>1 DEF Publishing, Typed, TypeOK
    <2>5. FJ!StopPublishing(t)
        BY <2>1, <2>3, <2>4 DEF FJ!StopPublishing, Publishing
    <2>6. QED BY <2>5 DEF FJ!Next
<1>6. ASSUME NEW c \in Threads, NEW i \in Pids, Fork(t, c, i)
      PROVE  FJ!Next
    <2>1. /\ pc[t] = "fork" /\ c \in Threads \ Born
          /\ pc' = [pc EXCEPT ![t] = "run", ![c] = "run"]
          /\ earlier' = [s \in Threads |->
                          IF s = c THEN earlier[t]
                          ELSE IF s = t \/ t \in earlier[s] THEN earlier[s] \cup {c}
                          ELSE earlier[s]]
        BY <1>6 DEF Fork
    <2>2. Born' = Born \cup {c} /\ Exited' = Exited /\ Publishing' = Publishing
        BY <2>1 DEF Born, Exited, Publishing, Typed, TypeOK
    <2>3. t \in Born \ Exited
        BY <2>1 DEF Born, Exited
    <2>4. FJ!Spawn(t, c)
        BY <2>1, <2>2, <2>3 DEF FJ!Spawn, Publishing
    <2>5. QED BY <2>4 DEF FJ!Next
<1>7. CASE ExitWaited(t) \/ FinalWaited(t)
    <2>1. PICK to \in {"post1", "done"} :
              /\ pc[t] \in {"exit", "final"} /\ pc' = [pc EXCEPT ![t] = to]
              /\ WaitedPred(t) /\ earlier' = earlier
        BY <1>7 DEF ExitWaited, FinalWaited
    <2>2. t \in Born \ Exited
        BY <2>1 DEF Born, Exited
    <2>3. Born' = Born /\ Exited' = Exited \cup {t} /\ Publishing' = Publishing
        BY <2>1 DEF Born, Exited, Publishing, Typed, TypeOK
    <2>4. earlier[t] \subseteq Exited
        BY <2>1, <2>2, WaitedPredIsFirst DEF Typed
    <2>5. FJ!Finish(t)
        BY <2>1, <2>2, <2>3, <2>4 DEF FJ!Finish, FJ!First, Publishing
    <2>6. QED BY <2>5 DEF FJ!Next
<1>8. QED
    BY <1>1, <1>2, <1>3, <1>4, <1>5, <1>6, <1>7 DEF Runtime

\* Commits and exits come in the order of a sequential run: the protocol of
\* predecessors and latches implements ForkJoin, with any number of threads, if
\* there is a process id for each.
THEOREM Refinement == ASSUME EnoughIds PROVE Spec => CommitsInSequentialOrder
<1>1. Init => FJ!Init
    BY DEF Init, FJ!Init, Born, Exited
<1>2. IInv /\ [Next]_vars => [FJ!Next]_FJ!vars
    <2> SUFFICES ASSUME IInv, [Next]_vars
                 PROVE  FJ!Next \/ UNCHANGED FJ!vars
        OBVIOUS
    <2>1. CASE UNCHANGED vars
        BY <2>1 DEF vars, runVars, ghosts, FJ!vars, Born, Exited
    <2>2. CASE Next
        BY <2>1, <2>2, ProgramHidden, RuntimeImplements DEF Next, IInv, Typed
    <2>3. QED BY <2>1, <2>2
<1>3. QED BY <1>1, <1>2, Invariance, PTL DEF Spec, CommitsInSequentialOrder, FJ!Spec
-----------------------------------------------------------------------------
(* The nesting level *)

LEMMA DriftStep ==
    ASSUME Typed, Next
    PROVE  /\ \A t \in Born : Drift(t)' # Drift(t) => stale[t] /\ pc[t] \in {"commit", "check"}
           /\ \A t \in Born' \ Born : Drift(t)' = Drift(parent'[t])
<1> USE DEF Typed, nestVars, ghosts, Drift
<1> DEFINE Goal == /\ \A s \in Born : Drift(s)' # Drift(s) => stale[s] /\ pc[s] \in {"commit", "check"}
                   /\ \A s \in Born' \ Born : Drift(s)' = Drift(parent'[s])
<1>1. ASSUME NEW t \in Threads, NEW to, t \in Born, pc' = [pc EXCEPT ![t] = to]
      PROVE  Born' \subseteq Born
    BY <1>1 DEF Born, TypeOK
<1>2. ASSUME Born' \subseteq Born, UNCHANGED <<nesting, depth>>
      PROVE  Goal
    BY <1>2
<1>3. CASE UNCHANGED vars
    BY <1>2, <1>3 DEF vars, runVars, Born
<1>4. ASSUME NEW t \in Threads, Program(t)
      PROVE  Goal
    <2>1. t \in Born /\ pc[t] = "run"
        BY <1>4 DEF Program, Punctuate, EnsureIrrevocable, Spawn, EnterInline, LeaveInline, Join,
                    Return, PthreadExit, Ends, Born
    <2>2. CASE EnterInline(t)
        <3>1. Born' = Born /\ \A s \in Threads : nesting'[s] - depth'[s] = nesting[s] - depth[s]
            BY <2>2 DEF EnterInline, runVars, Born, TypeOK
        <3>2. QED BY <3>1 DEF Born
    <2>3. CASE LeaveInline(t)
        <3>1. Born' = Born /\ \A s \in Threads : nesting'[s] - depth'[s] = nesting[s] - depth[s]
            BY <2>3 DEF LeaveInline, runVars, Born, TypeOK
        <3>2. QED BY <3>1 DEF Born
    <2>4. QED
        BY <1>1, <1>2, <1>4, <2>1, <2>2, <2>3
           DEF Program, Punctuate, EnsureIrrevocable, Spawn, Join, Return, PthreadExit, Ends
<1>5. ASSUME NEW t \in Threads, CommitFails(t) \/ CheckFails(t)
      PROVE  Goal
    <2>1. /\ t \in Born /\ pc' = [pc EXCEPT ![t] = "run"]
          /\ stale[t] /\ pc[t] \in {"commit", "check"}
          /\ nesting' = nesting /\ \A s \in Threads : s # t => depth'[s] = depth[s]
        BY <1>5 DEF CommitFails, CheckFails, GoesBack, Born, TypeOK
    <2>2. QED BY <1>1, <2>1 DEF Born
<1>6. ASSUME NEW t \in Threads, NEW c \in Threads, NEW i \in Pids, Fork(t, c, i)
      PROVE  Goal
    <2>1. c \notin Born /\ Born' = Born \cup {c} /\ parent'[c] = t
        BY <1>6 DEF Fork, Born, TypeOK
    <2>2. \A s \in Born : nesting'[s] = nesting[s] /\ depth'[s] = depth[s]
        BY <1>6, <2>1 DEF Fork, TypeOK, Born
    <2>3. nesting'[c] = nesting[t] + 1 /\ depth'[c] = depth[t] + 1
        BY <1>6 DEF Fork, TypeOK
    <2>4. nesting'[c] - depth'[c] = nesting[t] - depth[t]
        BY <2>3 DEF TypeOK
    <2>5. QED BY <2>1, <2>2, <2>4
<1>7. ASSUME NEW t \in Threads, Runtime(t)
      PROVE  Goal
    <2>1. pc[t] # "unborn" => t \in Born
        BY DEF Born
    <2>2. CASE FallsAsleep(t)
        BY <1>2, <2>2 DEF FallsAsleep, runVars, Born
    <2>3. QED
        BY <1>1, <1>2, <1>5, <1>6, <1>7, <2>1, <2>2
           DEF Runtime, EndOptimized, EndWaited, CommitSucceeds, Continues, EnsureWaited, CheckPasses,
               Joined, ExitWaited, FinalWaited, Post
<1>8. QED BY <1>3, <1>4, <1>7 DEF Next

\* Whatever mix of forks, inline calls and rollbacks there is, _nestingLevel and
\* the number of threads on the stack part only where a transaction is rolled
\* back.
THEOREM LevelCounts == Spec => LevelDriftsOnlyByRollback
<1> DEFINE Steps == /\ \A t \in Born : Drift(t)' # Drift(t) => stale[t] /\ pc[t] \in {"commit", "check"}
                    /\ \A t \in Born' \ Born : Drift(t)' = Drift(parent'[t])
<1>1. Init => Typed
    BY InitTyped
<1>2. Typed /\ [Next]_vars => Typed'
    BY NextTyped
<1>3. Typed /\ [Next]_vars => [Steps]_vars
    BY DriftStep
<1>4. QED BY <1>1, <1>2, <1>3, PTL DEF Spec, LevelDriftsOnlyByRollback
-----------------------------------------------------------------------------
(* Why a latch that posts twice leaves nobody asleep, if there are process ids
   for all threads *)

Posting == {"post1", "post2"}

-----------------------------------------------------------------------------
(* At most two threads sleep on a latch *)

LEMMA AtMostTwo ==
    ASSUME EnoughIds, Typed, IdsAreDistinct, WaitsAreKnown, OneFollower, OneJoiner,
           NEW i \in Pids
    PROVE  Cardinality(Sleepers(i)) <= 2
<1> DEFINE a == CHOOSE s \in Threads : pred[s] = i
           b == CHOOSE s \in Threads : pc[s] = "join" /\ tid[target[s]] = i
<1>1. \A s \in Threads : pred[s] = i => s = a
    BY DEF OneFollower, Pids, NoPid
<1>2. \A s \in Threads : pc[s] = "join" /\ tid[target[s]] = i => s = b
    <2>1. SUFFICES ASSUME NEW s \in Threads, NEW r \in Threads,
                          pc[s] = "join", tid[target[s]] = i, pc[r] = "join", tid[target[r]] = i
                   PROVE  s = r
        OBVIOUS
    <2>2. /\ target[s] # NoThread /\ target[s] \in Born
          /\ target[r] # NoThread /\ target[r] \in Born
        BY <2>1 DEF WaitsAreKnown
    <2>3. target[s] = target[r]
        BY <2>1, <2>2 DEF IdsAreDistinct
    <2>4. QED BY <2>2, <2>3 DEF OneJoiner
<1>3. Sleepers(i) \subseteq {a, b}
    BY <1>1, <1>2 DEF Sleepers, WaitsFor, Pids, NoPid
<1> HIDE DEF a, b
<1>4. IsFiniteSet({a, b}) /\ Cardinality({a, b}) <= 2
    BY PairIsSmall
<1>5. IsFiniteSet(Sleepers(i)) /\ Cardinality(Sleepers(i)) <= Cardinality({a, b})
    BY <1>3, <1>4, FS_Subset
<1>6. Cardinality(Sleepers(i)) \in Nat /\ Cardinality({a, b}) \in Nat
    BY <1>4, <1>5, FS_CardinalityType
<1>7. QED BY <1>4, <1>5, <1>6

LEMMA SleepersAreFinite ==
    ASSUME EnoughIds, NEW i
    PROVE  IsFiniteSet(Sleepers(i)) /\ Cardinality(Sleepers(i)) \in Nat
<1>1. Sleepers(i) \in SUBSET Threads
    BY DEF Sleepers
<1>2. QED BY <1>1, FS_Subset, FS_CardinalityType DEF EnoughIds

-----------------------------------------------------------------------------
(* Who waits for whom *)

\* All steps but a fork: t is born and changes nothing of the others; it loses
\* its predecessor or not, gives up its target or takes one nobody has.
Tame(t) ==
    /\ \A s \in Threads \ {t} :
          /\ pc'[s] = pc[s] /\ then'[s] = then[s] /\ touched'[s] = touched[s]
          /\ pred'[s] = pred[s] /\ target'[s] = target[s] /\ asleep'[s] = asleep[s]
    /\ tid' = tid
    /\ pc[t] # "unborn" /\ pc'[t] # "unborn"
    /\ pred'[t] \in {pred[t], NoPid}
    /\ \A s \in Threads : handles'[s] \subseteq handles[s]
    /\ \/ target'[t] \in {target[t], NoThread}
       \/ target'[t] \in handles[t] /\ \A s \in Threads : target[s] # target'[t]
    /\ pc'[t] = "join" \/ (pc'[t] \in {"end", "commit"} /\ then'[t] = "join") => target'[t] # NoThread

LEMMA ProgramIsTame ==
    ASSUME Typed, WaitsAreKnown, NEW t \in Threads, Program(t)
    PROVE  Tame(t) /\ asleep' = asleep /\ pc[t] = "run"
<1> USE DEF Typed, TypeOK, WaitsAreKnown, Tame, latchVars, txVars, nestVars, ghosts, runVars, Born
<1>1. CASE Punctuate(t)
    BY <1>1 DEF Punctuate, Ends
<1>2. CASE EnsureIrrevocable(t)
    BY <1>2 DEF EnsureIrrevocable
<1>3. CASE Spawn(t)
    BY <1>3 DEF Spawn, Ends
<1>4. CASE EnterInline(t)
    BY <1>4 DEF EnterInline
<1>5. CASE LeaveInline(t)
    BY <1>5 DEF LeaveInline
<1>6. ASSUME NEW c \in Threads, Join(t, c)
      PROVE  Tame(t) /\ asleep' = asleep /\ pc[t] = "run"
    BY <1>6 DEF Join, Ends
<1>7. CASE Return(t)
    BY <1>7 DEF Return, Ends
<1>8. CASE PthreadExit(t)
    BY <1>8 DEF PthreadExit
<1>9. QED BY <1>1, <1>2, <1>3, <1>4, <1>5, <1>6, <1>7, <1>8 DEF Program

\* The steps of the runtime in which nobody waits and nobody posts.
Inner(t) == EndOptimized(t) \/ CommitSucceeds(t) \/ CommitFails(t) \/ CheckPasses(t) \/ CheckFails(t)

LEMMA InnerIsTame ==
    ASSUME Typed, WaitsAreKnown, NEW t \in Threads, Inner(t)
    PROVE  Tame(t) /\ UNCHANGED latchVars /\ WaitsFor(t) = NoPid
<1> USE DEF Typed, TypeOK, WaitsAreKnown, Tame, latchVars, ghosts, Born
<1>1. CASE EndOptimized(t)
    BY <1>1, EndsInTypes DEF EndOptimized, Continues, WaitsFor
<1>2. CASE CommitSucceeds(t)
    BY <1>2, EndsInTypes DEF CommitSucceeds, Continues, WaitsFor
<1>3. CASE CommitFails(t)
    BY <1>3 DEF CommitFails, GoesBack, WaitsFor
<1>4. CASE CheckPasses(t)
    BY <1>4 DEF CheckPasses, txVars, nestVars, WaitsFor
<1>5. CASE CheckFails(t)
    BY <1>5 DEF CheckFails, GoesBack, WaitsFor
<1>6. QED BY <1>1, <1>2, <1>3, <1>4, <1>5 DEF Inner

\* The steps in which a wait is over.
Waking(t) == EndWaited(t) \/ EnsureWaited(t) \/ Joined(t) \/ ExitWaited(t) \/ FinalWaited(t)

LEMMA WakingIsTame ==
    ASSUME Typed, IdsAreDistinct, WaitsAreKnown, NEW t \in Threads, Waking(t)
    PROVE  /\ Tame(t)
           /\ IF WaitsFor(t) = NoPid THEN UNCHANGED <<asleep, semaphore>> ELSE Waited(t, WaitsFor(t))
           /\ asleep'[t] = FALSE
<1> USE DEF Typed, TypeOK, WaitsAreKnown, Tame, latchVars, txVars, nestVars, ghosts, Born
<1>1. WaitsFor(t) = NoPid => ~asleep[t]
    BY DEF Pids, NoPid
<1>2. \A i : Waited(t, i) => \A s \in Threads \ {t} : asleep'[s] = asleep[s]
    BY DEF Waited, PassesLatch, WakesUp
<1>3. \A i : Waited(t, i) => asleep'[t] = FALSE
    BY DEF Waited, PassesLatch, WakesUp
<1>4. CASE EndWaited(t)
    BY <1>1, <1>2, <1>3, <1>4 DEF EndWaited, WaitedPred, WaitsFor
<1>5. CASE EnsureWaited(t)
    BY <1>1, <1>2, <1>3, <1>5 DEF EnsureWaited, WaitedPred, WaitsFor
<1>6. CASE Joined(t)
    <2>1. tid[target[t]] \in Pids
        BY <1>6 DEF Joined, IdsAreDistinct
    <2>2. WaitsFor(t) = tid[target[t]] /\ WaitsFor(t) # NoPid
        BY <1>6, <2>1 DEF Joined, WaitsFor, Pids, NoPid
    <2>3. QED BY <1>2, <1>3, <1>6, <2>2 DEF Joined
<1>7. CASE ExitWaited(t)
    BY <1>1, <1>2, <1>3, <1>7 DEF ExitWaited, WaitedPred, WaitsFor
<1>8. CASE FinalWaited(t)
    BY <1>1, <1>2, <1>3, <1>8 DEF FinalWaited, WaitedPred, WaitsFor
<1>9. QED BY <1>4, <1>5, <1>6, <1>7, <1>8 DEF Waking

\* A tame step leaves the others waiting for what they waited for.
LEMMA OthersWait ==
    ASSUME WaitsAreKnown, NEW t \in Threads, Tame(t)
    PROVE  \A s \in Threads \ {t} : WaitsFor(s)' = WaitsFor(s)
BY DEF Tame, WaitsFor

LEMMA TameKeeps ==
    ASSUME Typed, WaitsAreKnown, OneFollower, OneJoiner, NEW t \in Threads, Tame(t),
           asleep'[t] => WaitsFor(t)' \in Pids
    PROVE  WaitsAreKnown' /\ OneFollower' /\ OneJoiner'
<1>1. Born' = Born
    BY DEF Tame, Born
<1>2. WaitsAreKnown'
    <2>1. \A s \in Threads : asleep'[s] => WaitsFor(s)' \in Pids
        BY OthersWait DEF Tame, WaitsAreKnown
    <2>2. \A s \in Threads : handles'[s] \subseteq Born' /\ target'[s] \in Born' \cup {NoThread}
        BY <1>1 DEF Tame, WaitsAreKnown
    <2>3. \A s \in Threads \ Born' : pred'[s] = NoPid
        BY <1>1 DEF Tame, WaitsAreKnown
    <2>4. \A s \in Threads :
              pc'[s] = "join" \/ (pc'[s] \in {"end", "commit"} /\ then'[s] = "join")
                  => target'[s] # NoThread
        BY DEF Tame, WaitsAreKnown
    <2>5. QED BY <2>1, <2>2, <2>3, <2>4 DEF WaitsAreKnown
<1>3. OneFollower'
    BY DEF Tame, OneFollower
<1>4. OneJoiner'
    BY DEF Tame, OneJoiner
<1>5. QED BY <1>2, <1>3, <1>4

\* A fork gives the child the parent's predecessor, and the parent a new one.
LEMMA ForkKeeps ==
    ASSUME EnoughIds, Typed, OrderInv, WaitsAreKnown, OneFollower, OneJoiner,
           NEW t \in Threads, NEW c \in Threads, NEW i \in Pids, Fork(t, c, i)
    PROVE  /\ WaitsAreKnown' /\ OneFollower' /\ OneJoiner'
           /\ \A s \in Threads : asleep[s] => WaitsFor(s)' = WaitsFor(s)
<1> USE DEF Typed, latchVars, txVars
<1>1. /\ pc[t] = "fork" /\ c \in Threads \ Born /\ c # t
      /\ pc' = [pc EXCEPT ![t] = "run", ![c] = "run"]
      /\ tid' = [tid EXCEPT ![c] = i]
      /\ pred' = [pred EXCEPT ![t] = i, ![c] = pred[t]]
      /\ handles' = [handles EXCEPT ![t] = handles[t] \cup {c}, ![c] = handles[t]]
      /\ UNCHANGED <<then, target, asleep, touched>>
    BY DEF Fork, Born
<1>2. Born' = Born \cup {c} /\ t \in Born
    BY <1>1 DEF Born, TypeOK
<1>3. ~asleep[t] /\ ~asleep[c]
    BY <1>1 DEF WaitsAreKnown, WaitsFor, Pids, NoPid, Born
<1>4. \A s \in Threads : asleep[s] => WaitsFor(s)' = WaitsFor(s)
    <2>1. SUFFICES ASSUME NEW s \in Threads, asleep[s]
                   PROVE  WaitsFor(s)' = WaitsFor(s)
        OBVIOUS
    <2>2. s # t /\ s # c
        BY <1>3, <2>1
    <2>3. pc'[s] = pc[s] /\ pred'[s] = pred[s] /\ touched'[s] = touched[s] /\ target'[s] = target[s]
        BY <1>1, <2>2 DEF TypeOK
    <2>4. pc[s] = "join" => tid'[target[s]] = tid[target[s]]
        BY <1>1 DEF WaitsAreKnown, Born, TypeOK
    <2>5. QED BY <1>1, <2>3, <2>4 DEF WaitsFor
<1>5. WaitsAreKnown'
    <2>1. \A s \in Threads : asleep'[s] => WaitsFor(s)' \in Pids
        BY <1>1, <1>4 DEF WaitsAreKnown
    <2>2. \A s \in Threads : handles'[s] \subseteq Born' /\ target'[s] \in Born' \cup {NoThread}
        BY <1>1, <1>2 DEF WaitsAreKnown, TypeOK
    <2>3. \A s \in Threads \ Born' : pred'[s] = NoPid
        BY <1>1, <1>2 DEF WaitsAreKnown, TypeOK
    <2>4. \A s \in Threads :
              pc'[s] = "join" \/ (pc'[s] \in {"end", "commit"} /\ then'[s] = "join")
                  => target'[s] # NoThread
        BY <1>1 DEF WaitsAreKnown, TypeOK
    <2>5. QED BY <2>1, <2>2, <2>3, <2>4 DEF WaitsAreKnown
<1>6. OneFollower'
    <2>1. \A s \in Threads : pred[s] # i
        <3>1. SUFFICES ASSUME NEW s \in Threads, pred[s] = i
                       PROVE  FALSE
            OBVIOUS
        <3>2. pred[s] # NoPid /\ s \in Born
            BY <3>1 DEF WaitsAreKnown, Pids, NoPid
        <3>3. PICK d \in Born : tid[d] = pred[s]
            BY <3>2 DEF OrderInv, PredecessorsCover
        <3>4. QED BY <3>1, <3>3, ForkIsFresh
    <2>2. pred[c] = NoPid
        BY <1>1 DEF WaitsAreKnown
    <2>3. pred'[t] = i /\ pred'[c] = pred[t] /\ \A s \in Threads \ {t, c} : pred'[s] = pred[s]
        BY <1>1 DEF TypeOK
    <2>4. QED BY <2>1, <2>2, <2>3 DEF OneFollower
<1>7. OneJoiner'
    BY <1>1 DEF OneJoiner
<1>8. QED BY <1>4, <1>5, <1>6, <1>7

-----------------------------------------------------------------------------
(* Posts and sleepers *)

LEMMA PostsSame ==
    ASSUME \A s \in Threads : pc[s] \in Posting \/ pc'[s] \in Posting =>
              pc'[s] = pc[s] /\ tid'[s] = tid[s]
    PROVE  \A i : PostsToCome(i)' = PostsToCome(i)
BY DEF PostsToCome, Posting

LEMMA AwakeKeeps ==
    ASSUME NobodyLeftAsleep, UNCHANGED latchVars,
           \A s \in Threads : asleep[s] => WaitsFor(s)' = WaitsFor(s),
           \A i : PostsToCome(i)' = PostsToCome(i)
    PROVE  NobodyLeftAsleep'
<1> USE DEF latchVars
<1>1. \A i : Sleepers(i)' = Sleepers(i)
    BY DEF Sleepers
<1>2. QED BY <1>1 DEF NobodyLeftAsleep

\* Whoever wakes up takes one post, and is one sleeper less.
LEMMA WakingCovers ==
    ASSUME EnoughIds, Typed, IdsAreDistinct, WaitsAreKnown, NEW t \in Threads, Waking(t),
           NEW i \in Pids, NEW n \in Nat,
           Cardinality(Sleepers(i)) <= semaphore[i] + n
    PROVE  Cardinality(Sleepers(i))' <= semaphore'[i] + n
<1> USE DEF Typed, TypeOK
<1>1. /\ Tame(t)
      /\ IF WaitsFor(t) = NoPid THEN UNCHANGED <<asleep, semaphore>> ELSE Waited(t, WaitsFor(t))
      /\ asleep'[t] = FALSE
    BY WakingIsTame
<1>2. \A s \in Threads \ {t} : WaitsFor(s)' = WaitsFor(s) /\ asleep'[s] = asleep[s]
    BY <1>1, OthersWait DEF Tame
<1>3. Sleepers(i)' = Sleepers(i) \ {t}
    BY <1>1, <1>2 DEF Sleepers
<1>4. CASE asleep[t] /\ WaitsFor(t) = i
    <2>1. t \in Sleepers(i)
        BY <1>4 DEF Sleepers
    <2>2. semaphore'[i] = semaphore[i] - 1
        BY <1>1, <1>4 DEF Waited, PassesLatch, WakesUp, Pids, NoPid
    <2>3. Cardinality(Sleepers(i) \ {t}) = Cardinality(Sleepers(i)) - 1
        BY <2>1, SleepersAreFinite, FS_RemoveElement
    <2>4. Cardinality(Sleepers(i)) \in Nat
        BY SleepersAreFinite
    <2>5. QED BY <1>3, <2>2, <2>3, <2>4
<1>5. CASE ~(asleep[t] /\ WaitsFor(t) = i)
    <2>1. Sleepers(i)' = Sleepers(i)
        BY <1>3, <1>5 DEF Sleepers
    <2>2. semaphore'[i] = semaphore[i]
        BY <1>1, <1>5 DEF Waited, PassesLatch, WakesUp
    <2>3. QED BY <2>1, <2>2
<1>6. QED BY <1>4, <1>5

LEMMA PostsAreFew == \A i : PostsToCome(i) \in Nat
BY DEF PostsToCome

\* A wait is over, and the latch of t itself may have been released.
LEMMA WakingKeeps ==
    ASSUME EnoughIds, Typed, IdsAreDistinct, LatchInv, NEW t \in Threads, Waking(t)
    PROVE  NobodyLeftAsleep'
<1> USE DEF Typed, TypeOK, LatchInv
<1>1. CASE ~ExitWaited(t)
    <2>1. unlatched' = unlatched /\ tid' = tid
        BY <1>1 DEF Waking, EndWaited, EnsureWaited, Joined, FinalWaited
    <2>2. \A s \in Threads : pc[s] \in Posting \/ pc'[s] \in Posting => pc'[s] = pc[s]
        BY <1>1 DEF Waking, EndWaited, EnsureWaited, Joined, FinalWaited, Posting
    <2>3. \A i : PostsToCome(i)' = PostsToCome(i)
        BY <2>1, <2>2, PostsSame
    <2>4. QED BY <2>1, <2>3, WakingCovers, PostsAreFew DEF NobodyLeftAsleep
<1>2. CASE ExitWaited(t)
    <2>1. /\ pc[t] = "exit" /\ pc' = [pc EXCEPT ![t] = "post1"]
          /\ unlatched' = [unlatched EXCEPT ![tid[t]] = TRUE] /\ tid' = tid
        BY <1>2 DEF ExitWaited
    <2>2. t \in Born
        BY <2>1 DEF Born
    <2>3. SUFFICES ASSUME NEW i \in Pids, unlatched'[i]
                   PROVE  Cardinality(Sleepers(i))' <= semaphore'[i] + PostsToCome(i)'
        BY DEF NobodyLeftAsleep
    <2>4. CASE i = tid[t]
        <3>1. PostsToCome(i)' = 2
            BY <2>1, <2>4 DEF PostsToCome
        <3>2. Cardinality(Sleepers(i)) <= semaphore[i] + 2
            <4>1. Cardinality(Sleepers(i)) <= 2 /\ Cardinality(Sleepers(i)) \in Nat
                BY AtMostTwo, SleepersAreFinite
            <4>2. QED BY <4>1
        <3>3. QED BY <3>1, <3>2, WakingCovers
    <2>5. CASE i # tid[t]
        <3>1. unlatched[i]
            BY <2>1, <2>3, <2>5
        <3>2. PostsToCome(i)' = PostsToCome(i)
            BY <2>1, <2>5 DEF PostsToCome
        <3>3. QED BY <3>1, <3>2, WakingCovers, PostsAreFew DEF NobodyLeftAsleep
    <2>6. QED BY <2>4, <2>5
<1>3. QED BY <1>1, <1>2

\* A post that was to come has come.
LEMMA PostKeeps ==
    ASSUME EnoughIds, Typed, IdsAreDistinct, LatchInv, NEW t \in Threads, Post(t)
    PROVE  LatchInv'
<1> USE DEF Typed, TypeOK, LatchInv, ghosts, txVars, nestVars
<1>1. /\ pc[t] \in Posting
      /\ pc' = [pc EXCEPT ![t] = IF pc[t] = "post1" THEN "post2" ELSE "exited"]
      /\ semaphore' = [semaphore EXCEPT ![tid[t]] = @ + 1]
      /\ UNCHANGED <<then, target, tid, pred, asleep, unlatched, touched, handles>>
    BY DEF Post, Posting
<1>2. t \in Born /\ tid[t] \in Pids
    BY <1>1 DEF Born, Posting, IdsAreDistinct
<1>3. WaitsFor(t) = NoPid /\ ~asleep[t]
    <2>1. WaitsFor(t) = NoPid
        BY <1>1 DEF WaitsFor, Posting
    <2>2. NoPid \notin Pids
        BY DEF Pids, NoPid
    <2>3. QED BY <2>1, <2>2 DEF WaitsAreKnown
<1>4. Tame(t)
    BY <1>1, <1>2 DEF Tame, Posting, Born
<1>5. WaitsAreKnown' /\ OneFollower' /\ OneJoiner'
    BY <1>1, <1>3, <1>4, TameKeeps
<1>6. \A i : Sleepers(i)' = Sleepers(i)
    BY <1>1, <1>3, <1>4, OthersWait DEF Sleepers
<1>7. \A i \in Pids : semaphore'[i] + PostsToCome(i)' = semaphore[i] + PostsToCome(i)
    <2>1. \A i \in Pids : i # tid[t] => PostsToCome(i)' = PostsToCome(i) /\ semaphore'[i] = semaphore[i]
        BY <1>1 DEF PostsToCome
    <2>2. \A s \in Threads \ {t} : tid[s] = tid[t] => pc[s] \notin Posting
        BY <1>2 DEF IdsAreDistinct, Posting, Born
    <2>3. semaphore'[tid[t]] = semaphore[tid[t]] + 1
        BY <1>1, <1>2
    <2>4. CASE pc[t] = "post1"
        <3>1. PostsToCome(tid[t]) = 2
            BY <2>4 DEF PostsToCome
        <3>2. PostsToCome(tid[t])' = 1
            BY <1>1, <2>2, <2>4 DEF PostsToCome, Posting
        <3>3. QED BY <1>1, <1>2, <2>1, <2>3, <3>1, <3>2
    <2>5. CASE pc[t] = "post2"
        <3>1. PostsToCome(tid[t]) = 1
            BY <2>2, <2>5 DEF PostsToCome, Posting
        <3>2. PostsToCome(tid[t])' = 0
            BY <1>1, <2>2, <2>5 DEF PostsToCome, Posting
        <3>3. QED BY <1>1, <1>2, <2>1, <2>3, <3>1, <3>2
    <2>6. QED BY <1>1, <2>4, <2>5 DEF Posting
<1>8. NobodyLeftAsleep'
    BY <1>1, <1>6, <1>7 DEF NobodyLeftAsleep
<1>9. QED BY <1>5, <1>8

-----------------------------------------------------------------------------
(* Every step *)

LEMMA InitLatch == Init => LatchInv
<1> SUFFICES ASSUME Init PROVE LatchInv
    OBVIOUS
<1> USE DEF Init
<1>1. WaitsAreKnown
    BY DEF WaitsAreKnown, Born
<1>2. OneFollower /\ OneJoiner
    BY DEF OneFollower, OneJoiner
<1>3. NobodyLeftAsleep
    BY DEF NobodyLeftAsleep
<1>4. QED BY <1>1, <1>2, <1>3 DEF LatchInv

\* Nobody goes to sleep on a latch that is released at that moment.
LEMMA SleepKeeps ==
    ASSUME Typed, IdsAreDistinct, LatchInv, NEW t \in Threads, FallsAsleep(t)
    PROVE  LatchInv'
<1> USE DEF Typed, TypeOK, LatchInv, runVars, txVars, nestVars, ghosts
<1>1. /\ WaitsFor(t) # NoPid /\ ~unlatched[WaitsFor(t)]
      /\ asleep' = [asleep EXCEPT ![t] = TRUE]
      /\ UNCHANGED <<runVars, pred, unlatched, semaphore, touched, handles>>
    BY DEF FallsAsleep
<1>2. \A s \in Threads : WaitsFor(s)' = WaitsFor(s)
    BY <1>1 DEF WaitsFor
<1>3. WaitsFor(t) \in Pids
    <2>1. CASE pc[t] = "join"
        <3>1. target[t] \in Born
            BY <2>1 DEF WaitsAreKnown
        <3>2. WaitsFor(t) = tid[target[t]]
            BY <2>1 DEF WaitsFor
        <3>3. QED BY <3>1, <3>2 DEF IdsAreDistinct
    <2>2. CASE pc[t] # "join"
        BY <1>1, <2>2 DEF WaitsFor
    <2>3. QED BY <2>1, <2>2
<1>4. WaitsAreKnown' /\ OneFollower' /\ OneJoiner'
    <2>1. \A s \in Threads : asleep'[s] => WaitsFor(s)' \in Pids
        BY <1>1, <1>2, <1>3 DEF WaitsAreKnown
    <2>2. QED BY <1>1, <2>1 DEF WaitsAreKnown, OneFollower, OneJoiner, Born
<1>5. NobodyLeftAsleep'
    <2>1. \A i \in Pids : unlatched[i] => Sleepers(i)' = Sleepers(i)
        BY <1>1, <1>2 DEF Sleepers
    <2>2. \A i : PostsToCome(i)' = PostsToCome(i)
        BY <1>1 DEF PostsToCome
    <2>3. QED BY <1>1, <2>1, <2>2 DEF NobodyLeftAsleep
<1>6. QED BY <1>4, <1>5

\* A step in which nobody waits, and no latch changes.
LEMMA QuietKeeps ==
    ASSUME EnoughIds, Typed, LatchInv, NEW t \in Threads, Tame(t), WaitsFor(t) = NoPid,
           UNCHANGED latchVars, {pc[t], pc'[t]} \cap Posting = {}
    PROVE  LatchInv'
<1> USE DEF Typed, TypeOK, LatchInv, latchVars
<1>1. ~asleep[t]
    BY DEF WaitsAreKnown, Pids, NoPid
<1>2. WaitsAreKnown' /\ OneFollower' /\ OneJoiner'
    BY <1>1, TameKeeps
<1>3. \A s \in Threads : asleep[s] => WaitsFor(s)' = WaitsFor(s)
    BY <1>1, OthersWait
<1>4. \A i : PostsToCome(i)' = PostsToCome(i)
    BY PostsSame DEF Tame
<1>5. NobodyLeftAsleep'
    BY <1>3, <1>4, AwakeKeeps
<1>6. QED BY <1>2, <1>5

LEMMA LatchStep ==
    ASSUME EnoughIds, Typed, OrderInv, LatchInv, NEW t \in Threads, Program(t) \/ Runtime(t)
    PROVE  LatchInv'
<1> USE DEF Typed, TypeOK
<1>1. CASE Program(t)
    <2>1. Tame(t) /\ pc[t] = "run"
        BY <1>1, ProgramIsTame DEF LatchInv
    <2>2. WaitsFor(t) = NoPid
        BY <2>1 DEF WaitsFor
    <2>3. UNCHANGED latchVars /\ pc'[t] \notin Posting
        BY <1>1 DEF Program, Punctuate, EnsureIrrevocable, Spawn, EnterInline, LeaveInline, Join, Return,
                    PthreadExit, Ends, runVars, Posting
    <2>4. QED BY <2>1, <2>2, <2>3, QuietKeeps DEF Posting
<1>2. CASE Inner(t)
    <2>1. Tame(t) /\ UNCHANGED latchVars /\ WaitsFor(t) = NoPid
        BY <1>2, InnerIsTame DEF LatchInv
    <2>2. pc[t] \notin Posting /\ pc'[t] \notin Posting
        BY <1>2, SMTT(30) DEF Inner, EndOptimized, CommitSucceeds, CommitFails, CheckPasses, CheckFails, Continues,
                    GoesBack, Posting
    <2>3. QED BY <2>1, <2>2, QuietKeeps
<1>3. CASE Waking(t)
    <2>1. Tame(t) /\ asleep'[t] = FALSE
        BY <1>3, WakingIsTame DEF LatchInv, OrderInv
    <2>2. WaitsAreKnown' /\ OneFollower' /\ OneJoiner'
        BY <2>1, TameKeeps DEF LatchInv
    <2>3. NobodyLeftAsleep'
        BY <1>3, WakingKeeps DEF OrderInv
    <2>4. QED BY <2>2, <2>3 DEF LatchInv
<1>4. CASE Post(t)
    BY <1>4, PostKeeps DEF OrderInv
<1>5. ASSUME NEW c \in Threads, NEW i \in Pids, Fork(t, c, i)
      PROVE  LatchInv'
    <2>1. /\ WaitsAreKnown' /\ OneFollower' /\ OneJoiner'
          /\ \A s \in Threads : asleep[s] => WaitsFor(s)' = WaitsFor(s)
        BY <1>5, ForkKeeps DEF LatchInv
    <2>2. /\ pc[t] = "fork" /\ pc[c] = "unborn"
          /\ pc' = [pc EXCEPT ![t] = "run", ![c] = "run"] /\ tid' = [tid EXCEPT ![c] = i]
          /\ UNCHANGED latchVars
        BY <1>5 DEF Fork, Born
    <2>3. \A s \in Threads : pc[s] \in Posting \/ pc'[s] \in Posting => pc'[s] = pc[s] /\ tid'[s] = tid[s]
        BY <2>2 DEF Posting
    <2>4. \A j : PostsToCome(j)' = PostsToCome(j)
        BY <2>3, PostsSame
    <2>5. NobodyLeftAsleep'
        BY <2>1, <2>2, <2>4, AwakeKeeps DEF LatchInv
    <2>6. QED BY <2>1, <2>5 DEF LatchInv
<1>6. CASE FallsAsleep(t)
    BY <1>6, SleepKeeps DEF OrderInv
<1>7. QED BY <1>1, <1>2, <1>3, <1>4, <1>5, <1>6 DEF Runtime, Inner, Waking

LEMMA NextLatch ==
    ASSUME EnoughIds, Typed, OrderInv, LatchInv, [Next]_vars
    PROVE  LatchInv'
<1>1. CASE UNCHANGED vars
    <2> USE <1>1 DEF vars, runVars, latchVars, txVars, nestVars, ghosts, LatchInv
    <2>1. \A s : WaitsFor(s)' = WaitsFor(s)
        BY DEF WaitsFor
    <2>2. WaitsAreKnown' /\ OneFollower' /\ OneJoiner'
        BY <2>1 DEF WaitsAreKnown, OneFollower, OneJoiner, Born
    <2>3. \A i : PostsToCome(i)' = PostsToCome(i)
        BY DEF PostsToCome
    <2>4. QED BY <2>1, <2>2, <2>3, AwakeKeeps
<1>2. QED BY <1>1, LatchStep DEF Next

\* No latch that has been released leaves a thread asleep for ever: the posts
\* that have come and will come are enough for all who sleep on it.
THEOREM NobodySleepsOn == ASSUME EnoughIds PROVE Spec => []NobodyLeftAsleep
<1>1. Init => LatchInv
    BY InitLatch
<1>2. IInv /\ LatchInv /\ [Next]_vars => LatchInv'
    BY NextLatch DEF IInv, Typed
<1>3. Spec => []IInv
    BY Invariance
<1>4. LatchInv => NobodyLeftAsleep
    BY DEF LatchInv
<1>5. QED BY <1>1, <1>2, <1>3, <1>4, PTL DEF Spec
=============================================================================
