------------------------------ MODULE Coverage ------------------------------
(***************************************************************************)
(* The coverage board: one row per (entry, repository), moved along the    *)
(* transition table of core/coverage.py by apply_transition.  The module   *)
(* has no state of its own; the components that write the board use these  *)
(* operators on the variable that holds it.                                *)
(***************************************************************************)

Statuses ==
  {"not_scanned", "scanning", "no_hits", "pattern_detected",
   "remediation_pending", "pr_open", "pr_rejected", "migrated",
   "migration_incomplete", "scan_failed", "dispatch_failed",
   "skipped_language"}

\* The table as a relation: a set of <<from, to>> pairs.
Transitions ==
  UNION {{"not_scanned"} \X {"scanning", "skipped_language"},
         {"scanning"} \X {"no_hits", "pattern_detected", "scan_failed",
                          "skipped_language"},
         {"no_hits"} \X {"scanning", "pattern_detected"},
         {"pattern_detected"} \X {"remediation_pending", "scanning"},
         {"remediation_pending"} \X {"pr_open", "dispatch_failed", "scanning"},
         {"pr_open"} \X {"migrated", "migration_incomplete", "pr_rejected"},
         {"pr_rejected"} \X {"scanning", "remediation_pending"},
         {"migrated"} \X {"pattern_detected", "scanning"},
         {"migration_incomplete"} \X {"remediation_pending", "scanning",
                                      "migrated"},
         {"scan_failed"} \X {"scanning"},
         {"dispatch_failed"} \X {"pr_open", "remediation_pending", "scanning",
                                 "migrated"},
         {"skipped_language"} \X {"scanning"}}

CanTransition(from, to) == <<from, to>> \in Transitions

\* A board row.  stamped: verification_timestamp is set.
BoardRow == [status : Statuses, manual : BOOLEAN, stamped : BOOLEAN]

\* The row apply_transition creates on first use.
FreshRow == [status |-> "not_scanned", manual |-> FALSE, stamped |-> FALSE]

\* apply_transition raises InvalidTransition, and so aborts its caller's
\* transaction, exactly when this is false.
Accepts(row, to) == row.status = to \/ CanTransition(row.status, to)

\* The row after an accepted apply_transition.  A transition to the current
\* status returns before anything is written, the flag and the timestamp
\* included.  manual is "unset" when the caller does not pass the argument.
Transitioned(row, to, stamp, manual) ==
  IF row.status = to THEN row ELSE
  [status  |-> to,
   stamped |-> row.stamped \/ stamp,
   manual  |-> \/ manual = "set"
               \/ manual = "unset" /\ row.manual /\ to # "migrated"]

\* A transition that passes neither a timestamp nor the manual flag.
Moved(row, to) == Transitioned(row, to, FALSE, "unset")
=============================================================================
