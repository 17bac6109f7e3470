-------------------------- MODULE ChangeLifecycle --------------------------
(***************************************************************************)
(* What dispatch promises of the changes of one entry and one repository:  *)
(* only what was approved is published, only what is published is tracked, *)
(* and the migration is verified only after a tracked change was merged.   *)
(* No branches, no failures, no order of events.                           *)
(***************************************************************************)
CONSTANTS Changes,      \* a remediation with one of its diffs
          Numbers       \* of pull requests

VARIABLES
  approved,   \* changes somebody has approved
  published,  \* the change a pull request carries, as a set of at most one
  merged,     \* pull requests that GitHub has merged
  tracked,    \* pull requests the program knows of
  asked       \* a verification was asked for

vars == <<approved, published, merged, tracked, asked>>

Init ==
  /\ approved = {} /\ merged = {} /\ tracked = {} /\ asked = FALSE
  /\ published = [n \in Numbers |-> {}]

Approve(c) ==
  /\ approved' = approved \cup {c}
  /\ UNCHANGED <<published, merged, tracked, asked>>

Publish(n) ==
  /\ published[n] = {}
  /\ \E c \in approved : published' = [published EXCEPT ![n] = {c}]
  /\ UNCHANGED <<approved, merged, tracked, asked>>

Merge(n) ==
  /\ published[n] # {}
  /\ merged' = merged \cup {n}
  /\ UNCHANGED <<approved, published, tracked, asked>>

Track(n) ==
  /\ published[n] # {}
  /\ tracked' = tracked \cup {n}
  /\ UNCHANGED <<approved, published, merged, asked>>

\* It stays asked: later verifications are of the same merge or another.
Ask ==
  /\ merged \cap tracked # {}
  /\ asked' = TRUE
  /\ UNCHANGED <<approved, published, merged, tracked>>

Next ==
  \/ \E c \in Changes : Approve(c)
  \/ \E n \in Numbers : Publish(n) \/ Merge(n) \/ Track(n)
  \/ Ask

Spec == Init /\ [][Next]_vars
=============================================================================
