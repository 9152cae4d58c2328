----------------------------- MODULE MCXThread -----------------------------
(***************************************************************************)
(* Instances of XThread for TLC.                                           *)
(***************************************************************************)
EXTENDS XThread

CONSTANTS m, a, b, c

Three == {m, a, b}
Four  == {m, a, b, c}
=============================================================================
