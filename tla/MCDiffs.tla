------------------------------ MODULE MCDiffs ------------------------------
(***************************************************************************)
(* Diffs for TLC; the instances differ only in their constants.            *)
(***************************************************************************)
EXTENDS Diffs
=============================================================================
