----------------------------- MODULE MCDispatch -----------------------------
(***************************************************************************)
(* Instances of Dispatch for TLC.                                          *)
(***************************************************************************)
EXTENDS Dispatch, TLC

\* Two diffs whose hashes begin with the same eight digits, and two that do
\* not.
OneName == [d \in Diffs |-> CHOOSE x \in Names : TRUE]

WorkerSymmetry == Permutations(Workers)
=============================================================================
