----------------------------- MODULE MCLibrary -----------------------------
(***************************************************************************)
(* The components that TLC checks one at a time, in one run: a behaviour   *)
(* is a behaviour of one of them, while the others stay as they are.       *)
(***************************************************************************)
EXTENDS ThreadStatus, Output, Conditions, BumpHeap, GraceHeap,
        XContext, XIO, DLMalloc, WinSbrk, TreapHeap, AOFFHeap, MmapHeap, LeaHeap,
        ObstackHeap, AlignedSlotHeap, LooseSlotHeap, HeapLocks,
        BitString, ObstackReap, NestedHeap, FreeLists, BumpLayers

VARIABLE component

\* What mallopt is called with, and the sizes that are asked for at once.
TunedOptions == {<<"M_MXFAST", 24>>, <<"M_MMAP_MAX", 0>>}
TunedGroups == {<<2080, 2060, 20>>}

\* What sbrk is called with on Windows.
WinSizes == {1, 5, -1, -6}

Init ==
    /\ component \in {"status", "output", "conditions", "arenas", "heap", "context", "io", "allocator",
                      "treap", "firstfit", "mmap", "lea", "obstack", "slots", "loose", "locks", "winsbrk",
                      "reserve", "bitstring", "reaps", "nested", "freelists", "bumplayers", "lazy", "batches"}
    /\ TsInit
    /\ OutInit /\ (component # "output" => outCapacity = 0 /\ ~mayOptimize)
    /\ CvInit /\ (component # "conditions" => ~cvMayOptimize)
    /\ BhInit /\ HpInit
    /\ XcInit /\ (component # "context" => stack = [i \in 1 .. XcAbovePbos + 1 |-> 0] /\ tos = 1)
    /\ IoInit /\ (component # "io" => ~ioMayOptimize)
    /\ DlInit /\ TrInit /\ AofInit /\ MhInit
    /\ LhInit /\ (component # "lea" => lhFirst = 0)
    /\ ObInit /\ AsInit /\ LsInit /\ LzInit /\ HlInit
    /\ WsInit /\ RsInit /\ BsInit /\ OrInit /\ NhInit
    /\ FlInit /\ (component # "freelists" => flKind = "FIFO") /\ BtInit
    /\ BlInit /\ (component # "bumplayers" => blKind = "chunk")

Next ==
    /\ UNCHANGED component
    /\ IF component = "status"     THEN TsNext  ELSE UNCHANGED tsVars
    /\ IF component = "output"     THEN OutNext ELSE UNCHANGED outVars
    /\ IF component = "conditions" THEN CvNext  ELSE UNCHANGED cvVars
    /\ IF component = "arenas"     THEN BhNext  ELSE UNCHANGED bhVars
    /\ IF component = "heap"       THEN HpNext  ELSE UNCHANGED hpVars
    /\ IF component = "context"    THEN XcNext  ELSE UNCHANGED xcVars
    /\ IF component = "io"         THEN IoNext  ELSE UNCHANGED ioVars
    /\ IF component = "allocator"  THEN DlNext  ELSE UNCHANGED dlVars
    /\ IF component = "treap"      THEN TrNext  ELSE UNCHANGED trVars
    /\ IF component = "firstfit"   THEN AofNext ELSE UNCHANGED aofVars
    /\ IF component = "mmap"       THEN MhNext  ELSE UNCHANGED mhVars
    /\ IF component = "lea"        THEN LhStep  ELSE UNCHANGED lhVars
    /\ IF component = "obstack"    THEN ObNextStep ELSE UNCHANGED obVars
    /\ IF component = "slots"      THEN AsNext  ELSE UNCHANGED asVars
    /\ IF component = "loose"      THEN LsNext  ELSE UNCHANGED lsVars
    /\ IF component = "locks"      THEN HlNext  ELSE UNCHANGED hlVars
    /\ IF component = "winsbrk"    THEN WsNext  ELSE UNCHANGED wsVars
    /\ IF component = "reserve"    THEN RsNext  ELSE UNCHANGED rsVars
    /\ IF component = "bitstring"  THEN BsNext  ELSE UNCHANGED bsVars
    /\ IF component = "reaps"      THEN OrNext  ELSE UNCHANGED orVars
    /\ IF component = "nested"     THEN NhNext  ELSE UNCHANGED nhVars
    /\ IF component = "freelists"  THEN FlStep  ELSE UNCHANGED flVars
    /\ IF component = "bumplayers" THEN BlNext  ELSE UNCHANGED blVars
    /\ IF component = "lazy"       THEN LzNext  ELSE UNCHANGED lzVars
    /\ IF component = "batches"    THEN BtNext  ELSE UNCHANGED btVars

Spec == Init /\ [][Next]_<<component, tsVars, outVars, cvVars, bhVars, hpVars,
                         xcVars, ioVars, dlVars, trVars, aofVars, mhVars, lhVars,
                         obVars, asVars, lsVars, hlVars, wsVars, rsVars, bsVars, orVars, nhVars, flVars,
                         blVars, lzVars, btVars>>
=============================================================================
