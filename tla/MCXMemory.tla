----------------------------- MODULE MCXMemory -----------------------------
(***************************************************************************)
(* Instances of XMemory for TLC: a heap page and a page of globals.        *)
(***************************************************************************)
EXTENDS XMemory, TLC

CONSTANTS p1, p2, h, g

MCProcs == {p1, p2}
MCPages == {h, g}
MCHeap  == {h}
MCGlobals == {g}
MCNone  == {}

ProcSymmetry == Permutations(MCProcs)
=============================================================================
