------------------------------ MODULE JobLease ------------------------------
(***************************************************************************)
(* What the scan-job queue promises, without its rows, its board and its   *)
(* order: a job that waits is taken by one worker, the worker that took it *)
(* is the only one to settle it, a job whose worker let go of it without   *)
(* settling it can only be put back to wait, and a job that is done stays  *)
(* done.  Source: the docstring of core/jobs.py and the calls that change  *)
(* the status of a scan_job row.                                           *)
(***************************************************************************)
CONSTANTS Jobs, Workers

VARIABLES
  state,    \* [Jobs -> where the job is in its life]
  holders   \* [Jobs -> the workers that execute the job]

vars == <<state, holders>>

Init ==
  /\ state = [j \in Jobs |-> "unused"]
  /\ holders = [j \in Jobs |-> {}]

\* The jobs S enter: those in closed already failed, the others waiting.
Submit(S, closed) ==
  /\ \A j \in S : state[j] = "unused"
  /\ state' = [j \in Jobs |-> IF j \notin S THEN state[j]
                             ELSE IF j \in closed THEN "failed" ELSE "waiting"]
  /\ UNCHANGED holders

Free(w) == \A j \in Jobs : w \notin holders[j]

Take(w, j) ==
  /\ state[j] = "waiting"
  /\ Free(w)
  /\ state' = [state EXCEPT ![j] = "taken"]
  /\ holders' = [holders EXCEPT ![j] = {w}]

\* The only holder of a job ends its lease with one of the outcomes.
Settle(w, j, outcome) ==
  /\ holders[j] = {w}
  /\ state[j] = "taken"
  /\ state' = [state EXCEPT ![j] = outcome]
  /\ holders' = [holders EXCEPT ![j] = {}]

\* The holder lets go of the job and leaves it as it is.
Abandon(w, j) ==
  /\ holders[j] = {w}
  /\ holders' = [holders EXCEPT ![j] = {}]
  /\ UNCHANGED state

\* Abandoned jobs wait again.
Reclaim(S) ==
  /\ \A j \in S : state[j] = "taken" /\ holders[j] = {}
  /\ state' = [j \in Jobs |-> IF j \in S THEN "waiting" ELSE state[j]]
  /\ UNCHANGED holders

Retry(j) ==
  /\ state[j] = "failed"
  /\ state' = [state EXCEPT ![j] = "waiting"]
  /\ UNCHANGED holders

Next ==
  \/ \E S, closed \in SUBSET Jobs : Submit(S, closed)
  \/ \E w \in Workers, j \in Jobs : Take(w, j) \/ Abandon(w, j)
  \/ \E w \in Workers, j \in Jobs, outcome \in {"waiting", "failed", "done"} :
       Settle(w, j, outcome)
  \/ \E S \in SUBSET Jobs : Reclaim(S)
  \/ \E j \in Jobs : Retry(j)

Spec == Init /\ [][Next]_vars
=============================================================================
