------------------------------ MODULE MCOutbox ------------------------------
(***************************************************************************)
(* Outbox for TLC; the instances differ only in their constants.           *)
(***************************************************************************)
EXTENDS Outbox
=============================================================================
