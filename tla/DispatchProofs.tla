--------------------------- MODULE DispatchProofs ---------------------------
(***************************************************************************)
(* Proofs about Dispatch, for any number of remediations, pull requests,   *)
(* events, diffs and workers, and for every kind of interference.          *)
(*                                                                         *)
(* The invariant ties what the handler under way has read to the tables    *)
(* (Handling), the rows to GitHub, and GitHub to the confirmations.  What  *)
(* keeps it is that nothing in those is ever taken back (Steady), and that *)
(* each of them is written by a few actions only (the lemmas of writers).  *)
(***************************************************************************)
EXTENDS Dispatch, TLAPS

\* A merge is the last event of a pull request.
MergesAreFinal ==
  \A n \in Pulls : \A i \in 1..Len(prs[n].log) :
    prs[n].log[i] = "merged" => i = Len(prs[n].log)

\* A remediation that is or was ready has a diff; one without a row has none.
ReadyHasDiff ==
  \A r \in Rems :
    /\ rems[r].status \in {"ready", "dispatch_failed", "dispatched"} => rems[r].diff \in Diffs
    /\ rems[r].status = "none" => rems[r].diff = NoDiff

HeadsExist ==
  \A n \in Pulls : Exists(n) =>
    prs[n].head \in Branches /\ refs[prs[n].head] # "absent"

WasClosed(n) == \E i \in 1..Len(prs[n].log) : prs[n].log[i] = "closed"

\* What the handler under way may rely on, by the place it has come to.
Handling ==
  /\ web.at \in {"confirm", "gate", "branch", "commit", "propose", "record", "fail"} =>
       web.rem \in Rems /\ rems[web.rem].diff \in Diffs
  /\ web.at \in {"branch", "commit", "propose", "record"} =>
       web.diff \in Diffs /\ <<web.rem, web.diff>> \in confirmed
  /\ web.at = "branch" => web.live = LiveBranches
  /\ web.at \in {"commit", "propose", "record"} =>
       web.branch \in Branches /\ web.branch \notin LiveBranches
  /\ web.at = "propose" => refs[web.branch] = web.diff
  /\ web.at = "record" =>
       /\ web.pull \in Pulls /\ Exists(web.pull)
       /\ prs[web.pull].rem = web.rem /\ prs[web.pull].head = web.branch
  /\ \A n \in web.todo : rows[n].state # "none"
  /\ web.at = "polled" =>
       /\ web.pull \in Pulls /\ rows[web.pull].state # "none"
       /\ web.seen = "merged" => Last(prs[web.pull].log) = "merged"
       /\ web.seen = "closed" => WasClosed(web.pull)

Inv ==
  /\ TypeOK /\ ReadyHasDiff /\ Handling
  /\ OnlyConfirmedDiffs /\ MergesAreFinal /\ HeadsExist
  /\ RowsMatchGitHub /\ VerifiesOnlyMerges /\ LiveBranchNotReused

-----------------------------------------------------------------------------
(* Who writes what                                                         *)

HandlerStep ==
  \/ \E r \in Rems : ReadForApproval(r)
  \/ RecordConfirmation \/ PassGate \/ StopAtGate
  \/ \E k \in Suffixes : CreateBranch(k) \/ ReuseBranch(k)
  \/ Commit \/ GitHubFails
  \/ \E n \in Pulls : OpenPull(n) \/ Poll(n)
  \/ RecordPull \/ MarkDispatchFailed \/ RecordRefused
  \/ StartSync \/ SyncRow \/ SyncRefused \/ SyncStarved \/ SyncEnds \/ WebCrash

\* The other steps, by what they write.
WorkerStep ==
  \/ \E r \in Rems : RequestRemediation(r)
  \/ \E w \in Workers : StartGeneration(w) \/ DropGeneration(w)
  \/ \E w \in Workers, r \in Rems :
       FailGeneration(w, r) \/ \E d \in Diffs : FinishGeneration(w, r, d)

EventStep ==
  \E n \in Pulls : MergePull(n) \/ ClosePull(n) \/ PushToPull(n) \/ ReopenPull(n)

DeliveryStep == \E n \in Pulls, i \in 1..MaxEvents : Deliver(n, i)

BoardStep ==
  \/ \E to \in Statuses : FinishVerification(to) \/ MoveBoard(to)
  \/ FailVerification \/ RetryVerification \/ MarkMigrated \/ Reconnect

LEMMA StepKinds ==
  ASSUME Next
  PROVE  HandlerStep \/ WorkerStep \/ EventStep \/ DeliveryStep \/ BoardStep
  BY DEF Next, Generation, Approval, Dispatching, Tracking, Verification,
         Environment, HandlerStep, WorkerStep, EventStep, DeliveryStep, BoardStep

LEMMA WorkerLeaves ==
  ASSUME WorkerStep
  PROVE  UNCHANGED <<connected, confirmed, failedRows, done, rows, verify, web, refs, prs>>
  BY DEF WorkerStep, RequestRemediation, StartGeneration, FinishGeneration,
         FailGeneration, DropGeneration, tables, github

LEMMA BoardLeaves ==
  ASSUME BoardStep
  PROVE  /\ UNCHANGED <<rems, confirmed, failedRows, done, rows, web, worker, refs, prs>>
         /\ verify' = "none" => verify = "none"
         /\ verify' # "none" => verify # "none"
  BY DEF BoardStep, FinishVerification, MoveBoard, FailVerification,
         RetryVerification, MarkMigrated, Reconnect, tables, github

LEMMA EventLeaves ==
  ASSUME EventStep
  PROVE  UNCHANGED <<cov, connected, confirmed, failedRows, done, rems, rows,
                     verify, web, worker, refs>>
  BY DEF EventStep, MergePull, ClosePull, PushToPull, ReopenPull, Happens, tables

LEMMA ConfirmationWriter ==
  ASSUME Next
  PROVE  confirmed' = confirmed \/ RecordConfirmation
  BY StepKinds, WorkerLeaves, BoardLeaves, EventLeaves
     DEF HandlerStep, DeliveryStep, Deliver, ReadForApproval, PassGate, StopAtGate,
         CreateBranch, ReuseBranch, Commit, GitHubFails, OpenPull, Poll,
         RecordPull, MarkDispatchFailed, RecordRefused, StartSync, SyncRow,
         SyncRefused, SyncStarved, SyncEnds, WebCrash, tables, github

LEMMA RefWriters ==
  ASSUME Next
  PROVE  refs' = refs \/ Commit \/ \E k \in Suffixes : CreateBranch(k)
  BY StepKinds, WorkerLeaves, BoardLeaves, EventLeaves
     DEF HandlerStep, DeliveryStep, Deliver, ReadForApproval, RecordConfirmation,
         PassGate, StopAtGate, ReuseBranch, GitHubFails, OpenPull, Poll,
         RecordPull, MarkDispatchFailed, RecordRefused, StartSync, SyncRow,
         SyncRefused, SyncStarved, SyncEnds, WebCrash, tables, github

LEMMA PullWriters ==
  ASSUME Next
  PROVE  prs' = prs \/ EventStep \/ \E n \in Pulls : OpenPull(n)
  BY StepKinds, WorkerLeaves, BoardLeaves, EventLeaves
     DEF HandlerStep, DeliveryStep, Deliver, ReadForApproval, RecordConfirmation,
         PassGate, StopAtGate, CreateBranch, ReuseBranch, Commit, GitHubFails, Poll,
         RecordPull, MarkDispatchFailed, RecordRefused, StartSync, SyncRow,
         SyncRefused, SyncStarved, SyncEnds, WebCrash, tables, github

\* Rows and verifications: the record of a dispatch, a delivery, the sync.
LEMMA RowWriters ==
  ASSUME Next
  PROVE  \/ rows' = rows /\ (verify' = "none" <=> verify = "none")
         \/ RecordPull \/ DeliveryStep \/ SyncRow
  BY StepKinds, WorkerLeaves, BoardLeaves, EventLeaves
     DEF HandlerStep, ReadForApproval, RecordConfirmation,
         PassGate, StopAtGate, CreateBranch, ReuseBranch, Commit, GitHubFails,
         OpenPull, Poll, MarkDispatchFailed, RecordRefused, StartSync,
         SyncRefused, SyncStarved, SyncEnds, WebCrash, tables, github

LEMMA RemWriters ==
  ASSUME Next
  PROVE  rems' = rems \/ WorkerStep \/ RecordPull \/ MarkDispatchFailed
  BY StepKinds, BoardLeaves, EventLeaves
     DEF HandlerStep, DeliveryStep, Deliver, ReadForApproval, RecordConfirmation,
         PassGate, StopAtGate, CreateBranch, ReuseBranch, Commit, GitHubFails,
         OpenPull, Poll, RecordRefused, StartSync, SyncRow, SyncRefused, SyncStarved, SyncEnds,
         WebCrash, tables, github

-----------------------------------------------------------------------------
(* What is never taken back                                                *)

\* An event is added to an open pull request, or to a closed one.
LEMMA EventIsAdded ==
  ASSUME TypeOK, EventStep
  PROVE  \E n \in Pulls, event \in Events :
           /\ Exists(n) /\ Last(prs[n].log) # "merged"
           /\ prs' = [prs EXCEPT ![n].log = Append(@, event)]
  BY DEF EventStep, MergePull, ClosePull, PushToPull, ReopenPull, Happens,
         IsOpen, Exists, Events

PullsLast ==
  \A n \in Pulls : Exists(n) =>
    /\ Exists(n)'
    /\ prs'[n].rem = prs[n].rem /\ prs'[n].diff = prs[n].diff
    /\ prs'[n].head = prs[n].head
    /\ Last(prs[n].log) = "merged" => Last(prs[n].log)' = "merged"
    /\ WasClosed(n) => WasClosed(n)'

LEMMA PullsStay ==
  ASSUME TypeOK, Next
  PROVE  PullsLast
<1> USE DEF PullsLast
<1>1. CASE prs' = prs
  BY <1>1 DEF Exists, Last, WasClosed
<1>2. CASE EventStep
  <2>1. PICK n \in Pulls, event \in Events :
          /\ Exists(n) /\ Last(prs[n].log) # "merged"
          /\ prs' = [prs EXCEPT ![n].log = Append(@, event)]
    BY <1>2, EventIsAdded
  <2>2. /\ prs[n] \in Pull /\ prs'[n] = [prs[n] EXCEPT !.log = Append(prs[n].log, event)]
        /\ \A m \in Pulls \ {n} : prs'[m] = prs[m]
    BY <2>1 DEF TypeOK
  <2>3. /\ prs'[n].log = Append(prs[n].log, event) /\ prs[n].log \in Seq(Events)
        /\ prs'[n].rem = prs[n].rem /\ prs'[n].diff = prs[n].diff
        /\ prs'[n].head = prs[n].head
    BY <2>2 DEF Pull
  <2>4. /\ Len(prs'[n].log) = Len(prs[n].log) + 1
        /\ \A i \in 1..Len(prs[n].log) : prs'[n].log[i] = prs[n].log[i]
    BY <2>3
  <2>5. Exists(n)'
    BY <2>3 DEF Exists
  <2>6. WasClosed(n) => WasClosed(n)'
    <3>1. Len(prs[n].log) \in Nat
      BY <2>3
    <3>2. 1..Len(prs[n].log) \subseteq 1..Len(prs'[n].log)
      BY <3>1, <2>4
    <3> QED BY <3>2, <2>4 DEF WasClosed
  <2> QED
    BY <2>1, <2>2, <2>3, <2>5, <2>6 DEF Exists, WasClosed, Last
<1>3. ASSUME NEW n \in Pulls, OpenPull(n)
      PROVE  PullsLast
  BY <1>3 DEF OpenPull, TypeOK, Exists, Last, WasClosed
<1> QED BY <1>1, <1>2, <1>3, PullWriters

RowsLast ==
  \A n \in Pulls : rows[n].state # "none" =>
    /\ rows'[n].state # "none"
    /\ rows'[n].rem = rows[n].rem /\ rows'[n].branch = rows[n].branch

\* A row is written for the first time, or its state only.
LEMMA RowsStay ==
  ASSUME Inv, Next
  PROVE  RowsLast
<1> USE DEF RowsLast
<1>1. CASE rows' = rows
  BY <1>1
<1>2. CASE RecordPull
  <2>1. /\ web.pull \in Pulls /\ web.branch \notin LiveBranches
        /\ rows' = [rows EXCEPT ![web.pull] =
                      [state |-> "open", rem |-> web.rem, branch |-> web.branch]]
    BY <1>2 DEF RecordPull, Inv, Handling
  <2>2. /\ Exists(web.pull) /\ prs[web.pull].rem = web.rem
        /\ prs[web.pull].head = web.branch
    BY <1>2 DEF RecordPull, Inv, Handling
  <2>3. rows[web.pull].state # "none" =>
          rows[web.pull].rem = web.rem /\ rows[web.pull].branch = web.branch
    BY <2>1, <2>2 DEF Inv, RowsMatchGitHub
  <2> QED BY <2>1, <2>3 DEF Inv, TypeOK
<1>3. ASSUME NEW n \in Pulls, Merged(n) \/ Rejected(n) \/ Reopened(n)
      PROVE  RowsLast
  <2>1. PICK state \in {"open", "merged", "rejected"} :
          rows' = [rows EXCEPT ![n].state = state]
    BY <1>3 DEF Merged, Rejected, Reopened
  <2>2. rows[n] \in Row
    BY DEF Inv, TypeOK
  <2> QED BY <2>1, <2>2 DEF Inv, TypeOK, Row
<1>4. DeliveryStep => RowsLast
  BY <1>1, <1>3 DEF DeliveryStep, Deliver, Apply
<1>5. SyncRow => RowsLast
  <2>1. web.at = "polled" => web.pull \in Pulls
    BY DEF Inv, Handling
  <2> QED BY <1>1, <1>3, <2>1 DEF SyncRow
<1> QED BY <1>1, <1>2, <1>4, <1>5, RowWriters

RefsLast == \A b \in Branches : refs[b] # "absent" => refs'[b] # "absent"

LEMMA RefsStay ==
  ASSUME Inv, Next
  PROVE  RefsLast
<1>1. CASE refs' = refs
  BY <1>1 DEF RefsLast
<1>2. CASE Commit
  <2>1. web.diff \in Diffs /\ refs' = [refs EXCEPT ![web.branch] = web.diff]
    BY <1>2 DEF Commit, Inv, Handling
  <2> QED BY <2>1, DispatchAssumption DEF RefsLast, Inv, TypeOK
<1>3. ASSUME NEW k \in Suffixes, CreateBranch(k)
      PROVE  RefsLast
  BY <1>3 DEF CreateBranch, RefsLast, Inv, TypeOK
<1> QED BY <1>1, <1>2, <1>3, RefWriters

ConfirmationsLast == confirmed \subseteq confirmed'

LEMMA ConfirmationsStay ==
  ASSUME Next
  PROVE  ConfirmationsLast
  BY ConfirmationWriter DEF RecordConfirmation, ConfirmationsLast

DiffsLast ==
  \A r \in Rems : rems[r].diff \in Diffs => rems'[r].diff \in Diffs

\* A diff is replaced by a diff: a new row takes the place of none.
LEMMA DiffsStay ==
  ASSUME Inv, Next
  PROVE  DiffsLast
<1> USE DEF DiffsLast
<1>0. rems \in [Rems -> Remediation]
  BY DEF Inv, TypeOK
<1>1. CASE rems' = rems
  BY <1>1
<1>2. ASSUME NEW r \in Rems, RequestRemediation(r)
      PROVE  DiffsLast
  <2>1. rems[r].diff = NoDiff
    BY <1>2 DEF RequestRemediation, Inv, ReadyHasDiff
  <2> QED BY <1>0, <1>2, <2>1, DispatchAssumption DEF RequestRemediation
<1>3. ASSUME NEW w \in Workers, NEW r \in Rems, NEW d \in Diffs, FinishGeneration(w, r, d)
      PROVE  DiffsLast
  BY <1>0, <1>3 DEF FinishGeneration
<1>4. ASSUME NEW r, NEW status, rems' = [rems EXCEPT ![r].status = status]
      PROVE  DiffsLast
  <2>1. \A s \in Rems : rems[s] \in Remediation
    BY <1>0
  <2>2. ASSUME NEW s \in Rems
        PROVE  rems'[s].diff = rems[s].diff
    BY <1>0, <1>4, <2>1 DEF Remediation
  <2> QED BY <2>2
<1> QED
  BY <1>1, <1>2, <1>3, <1>4, RemWriters
     DEF WorkerStep, StartGeneration, FailGeneration, DropGeneration, tables,
         RecordPull, MarkDispatchFailed

-----------------------------------------------------------------------------
(* The parts of the invariant                                              *)

LEMMA MergesStep ==
  ASSUME Inv, Next
  PROVE  MergesAreFinal'
<1>1. CASE prs' = prs
  BY <1>1 DEF Inv, MergesAreFinal
<1>2. CASE EventStep
  <2>1. PICK n \in Pulls, event \in Events :
          /\ Exists(n) /\ Last(prs[n].log) # "merged"
          /\ prs' = [prs EXCEPT ![n].log = Append(@, event)]
    BY <1>2, EventIsAdded DEF Inv
  <2>2. /\ prs[n] \in Pull /\ prs'[n] = [prs[n] EXCEPT !.log = Append(prs[n].log, event)]
        /\ \A m \in Pulls \ {n} : prs'[m] = prs[m]
    BY <2>1 DEF Inv, TypeOK
  <2>3. prs'[n].log = Append(prs[n].log, event) /\ prs[n].log \in Seq(Events)
    BY <2>2 DEF Pull
  <2>4. /\ Len(prs'[n].log) = Len(prs[n].log) + 1 /\ Len(prs[n].log) \in Nat
        /\ \A i \in 1..Len(prs[n].log) : prs'[n].log[i] = prs[n].log[i]
    BY <2>3
  <2>5. ASSUME NEW i \in 1..Len(prs'[n].log), prs'[n].log[i] = "merged"
        PROVE  i = Len(prs'[n].log)
    <3>1. SUFFICES ASSUME i \in 1..Len(prs[n].log) PROVE FALSE
      BY <2>4
    <3>2. prs[n].log[i] = "merged" /\ i = Len(prs[n].log)
      BY <2>4, <2>5, <3>1 DEF Inv, MergesAreFinal
    <3> QED BY <2>1, <3>2 DEF Last
  <2> QED BY <2>2, <2>5 DEF Inv, MergesAreFinal
<1>3. ASSUME NEW n \in Pulls, OpenPull(n)
      PROVE  MergesAreFinal'
  <2>1. prs'[n].log = <<"open">> /\ \A m \in Pulls \ {n} : prs'[m] = prs[m]
    BY <1>3 DEF OpenPull, Inv, TypeOK
  <2> QED BY <2>1 DEF Inv, MergesAreFinal
<1> QED BY <1>1, <1>2, <1>3, PullWriters

LEMMA PullOpens ==
  ASSUME Inv, Next, NEW n \in Pulls, ~Exists(n), Exists(n)'
  PROVE  OpenPull(n)
<1>1. prs' # prs
  BY DEF Exists
<1>2. ~EventStep
  <2>1. SUFFICES ASSUME EventStep PROVE FALSE
    OBVIOUS
  <2>2. PICK m \in Pulls, event \in Events :
          Exists(m) /\ prs' = [prs EXCEPT ![m].log = Append(@, event)]
    BY <2>1, EventIsAdded DEF Inv
  <2> QED BY <2>2 DEF Exists, Inv, TypeOK
<1>3. PICK m \in Pulls : OpenPull(m)
  BY <1>1, <1>2, PullWriters
<1>4. m = n
  BY <1>3 DEF OpenPull, Exists, Inv, TypeOK
<1> QED BY <1>3, <1>4

LEMMA HeadsStep ==
  ASSUME Inv, Next
  PROVE  HeadsExist'
<1>1. SUFFICES ASSUME NEW n \in Pulls, Exists(n)'
               PROVE  prs'[n].head \in Branches /\ refs'[prs'[n].head] # "absent"
  BY DEF HeadsExist
<1>2. CASE Exists(n)
  BY <1>2, PullsStay, RefsStay DEF PullsLast, RefsLast, Inv, HeadsExist
<1>3. CASE ~Exists(n)
  <2>1. OpenPull(n)
    BY <1>1, <1>3, PullOpens
  <2>2. /\ prs'[n].head = web.branch /\ refs' = refs
        /\ web.branch \in Branches /\ refs[web.branch] = web.diff /\ web.diff \in Diffs
    BY <2>1 DEF OpenPull, Inv, TypeOK, Handling
  <2> QED BY <2>2, DispatchAssumption
<1> QED BY <1>2, <1>3

LEMMA ConfirmedStep ==
  ASSUME Inv, Next
  PROVE  OnlyConfirmedDiffs'
<1>1. ASSUME NEW n \in Pulls, Exists(n)'
      PROVE  <<prs'[n].rem, prs'[n].diff>> \in confirmed'
  <2>1. CASE Exists(n)
    BY <2>1, PullsStay, ConfirmationsStay
       DEF PullsLast, ConfirmationsLast, Inv, OnlyConfirmedDiffs
  <2>2. CASE ~Exists(n)
    <3>1. OpenPull(n)
      BY <1>1, <2>2, PullOpens
    <3>2. /\ prs'[n].rem = web.rem /\ prs'[n].diff = refs[web.branch]
          /\ refs[web.branch] = web.diff /\ <<web.rem, web.diff>> \in confirmed
      BY <3>1 DEF OpenPull, Inv, TypeOK, Handling
    <3> QED BY <3>2, ConfirmationsStay DEF ConfirmationsLast
  <2> QED BY <2>1, <2>2
<1>2. ASSUME NEW b \in Branches, refs'[b] \in Diffs
      PROVE  \E r \in Rems : <<r, refs'[b]>> \in confirmed'
  <2>1. CASE refs'[b] = refs[b]
    BY <1>2, <2>1, ConfirmationsStay DEF ConfirmationsLast, Inv, OnlyConfirmedDiffs
  <2>2. CASE Commit /\ refs'[b] # refs[b]
    <3>1. /\ refs'[b] = web.diff /\ web.rem \in Rems
          /\ <<web.rem, web.diff>> \in confirmed
      BY <2>2 DEF Commit, Inv, TypeOK, Handling
    <3> QED BY <3>1, ConfirmationsStay DEF ConfirmationsLast
  <2>3. ASSUME NEW k \in Suffixes, CreateBranch(k), refs'[b] # refs[b]
        PROVE  FALSE
    <3>1. refs'[b] = "base"
      BY <2>3 DEF CreateBranch, Inv, TypeOK
    <3> QED BY <1>2, <3>1, DispatchAssumption
  <2> QED BY <2>1, <2>2, <2>3, RefWriters
<1> QED BY <1>1, <1>2 DEF OnlyConfirmedDiffs, Exists

\* A row that is settled or opened again, for an event that has happened.
LEMMA RowFollows ==
  ASSUME Inv, Next, prs' = prs, NEW n \in Pulls, rows[n].state # "none",
         \/ Merged(n) /\ Last(prs[n].log) = "merged"
         \/ Rejected(n) /\ WasClosed(n)
         \/ Reopened(n)
  PROVE  RowsMatchGitHub' /\ VerifiesOnlyMerges'
<1>1. PICK state \in {"open", "merged", "rejected"} :
        /\ rows' = [rows EXCEPT ![n].state = state]
        /\ state = "merged" => Last(prs[n].log) = "merged"
        /\ state = "rejected" => WasClosed(n)
        /\ state = "merged" \/ verify' = verify
  BY DEF Merged, Rejected, Reopened
<1>2. /\ rows'[n].state = state /\ rows'[n].rem = rows[n].rem
      /\ rows'[n].branch = rows[n].branch
      /\ \A m \in Pulls \ {n} : rows'[m] = rows[m]
  <2>1. rows[n] \in Row /\ rows'[n] = [rows[n] EXCEPT !.state = state]
    BY <1>1 DEF Inv, TypeOK
  <2> QED BY <2>1, <1>1 DEF Inv, TypeOK, Row
<1>3. RowsMatchGitHub'
  <2>1. ASSUME NEW m \in Pulls, rows'[m].state # "none"
        PROVE  /\ Exists(m) /\ prs[m].rem = rows'[m].rem /\ prs[m].head = rows'[m].branch
               /\ rows'[m].state = "merged" => Last(prs[m].log) = "merged"
               /\ rows'[m].state = "rejected" =>
                    \E i \in 1..Len(prs[m].log) : prs[m].log[i] = "closed"
    BY <2>1, <1>1, <1>2 DEF Inv, RowsMatchGitHub, WasClosed
  <2> QED BY <2>1 DEF RowsMatchGitHub, Exists, Last
<1>4. VerifiesOnlyMerges'
  <2>1. rows'[n].state # "none"
    BY <1>2
  <2>2. CASE state = "merged"
    BY <1>1, <2>1, <2>2 DEF VerifiesOnlyMerges, Last
  <2>3. CASE verify' = verify
    BY <1>2, <2>1, <2>3 DEF Inv, VerifiesOnlyMerges, Last
  <2> QED BY <1>1, <2>2, <2>3
<1> QED BY <1>3, <1>4

LEMMA RowsStep ==
  ASSUME Inv, Next
  PROVE  RowsMatchGitHub' /\ VerifiesOnlyMerges'
<1>1. ASSUME UNCHANGED rows, verify' = "none" <=> verify = "none"
      PROVE  RowsMatchGitHub' /\ VerifiesOnlyMerges'
  <2>1. \A n \in Pulls : rows[n].state # "none" => Exists(n)
    BY DEF Inv, RowsMatchGitHub
  <2>2. RowsMatchGitHub'
    BY <1>1, <2>1, PullsStay DEF PullsLast, Inv, RowsMatchGitHub, WasClosed
  <2>3. VerifiesOnlyMerges'
    BY <1>1, <2>1, PullsStay DEF PullsLast, Inv, VerifiesOnlyMerges
  <2> QED BY <2>2, <2>3
<1>2. CASE RecordPull
  <2>1. /\ web.pull \in Pulls /\ Exists(web.pull) /\ prs' = prs /\ verify' = verify
        /\ prs[web.pull].rem = web.rem /\ prs[web.pull].head = web.branch
        /\ rows' = [rows EXCEPT ![web.pull] =
                      [state |-> "open", rem |-> web.rem, branch |-> web.branch]]
    BY <1>2 DEF RecordPull, github, Inv, Handling
  <2>2. RowsMatchGitHub'
    BY <2>1 DEF Inv, TypeOK, RowsMatchGitHub, Exists, Last
  <2>3. VerifiesOnlyMerges'
    BY <2>1 DEF Inv, TypeOK, VerifiesOnlyMerges, Last
  <2> QED BY <2>2, <2>3
<1>3. CASE DeliveryStep
  <2>1. PICK n \in Pulls, i \in 1..MaxEvents :
          i <= Len(prs[n].log) /\ Apply(n, prs[n].log[i]) /\ prs' = prs
    BY <1>3 DEF DeliveryStep, Deliver, github
  <2>2. i \in 1..Len(prs[n].log)
    <3>1. prs[n].log \in Seq(Events)
      BY DEF Inv, TypeOK, Pull
    <3> QED BY <3>1, <2>1
  <2>3. CASE rows[n].state = "none" \/ UNCHANGED <<rows, verify>>
    BY <1>1, <2>1, <2>3 DEF Apply
  <2>4. CASE Merged(n) /\ prs[n].log[i] = "merged" /\ rows[n].state # "none"
    BY <2>1, <2>2, <2>4, RowFollows DEF Inv, MergesAreFinal, Last
  <2>5. CASE Rejected(n) /\ prs[n].log[i] = "closed" /\ rows[n].state # "none"
    BY <2>1, <2>2, <2>5, RowFollows DEF WasClosed
  <2>6. CASE Reopened(n) /\ rows[n].state # "none"
    BY <2>1, <2>6, RowFollows
  <2> QED BY <2>1, <2>3, <2>4, <2>5, <2>6 DEF Apply
<1>4. CASE SyncRow
  <2>1. /\ web.pull \in Pulls /\ rows[web.pull].state # "none" /\ prs' = prs
        /\ web.seen = "merged" => Last(prs[web.pull].log) = "merged"
        /\ web.seen = "closed" => WasClosed(web.pull)
    BY <1>4 DEF SyncRow, github, Inv, Handling
  <2>2. \/ Merged(web.pull) /\ web.seen = "merged"
        \/ Rejected(web.pull) /\ web.seen = "closed"
        \/ UNCHANGED <<rows, verify>>
    BY <1>4 DEF SyncRow
  <2> QED BY <1>1, <2>1, <2>2, RowFollows
<1> QED BY <1>1, <1>2, <1>3, <1>4, RowWriters

LEMMA ReadyStep ==
  ASSUME Inv, Next
  PROVE  ReadyHasDiff'
<1>0. rems \in [Rems -> Remediation]
  BY DEF Inv, TypeOK
<1>1. CASE rems' = rems
  BY <1>1 DEF Inv, ReadyHasDiff
<1>2. ASSUME NEW r \in Rems, RequestRemediation(r)
      PROVE  ReadyHasDiff'
  BY <1>0, <1>2 DEF RequestRemediation, Inv, ReadyHasDiff
<1>3. ASSUME NEW w \in Workers, NEW r \in Rems, NEW d \in Diffs, FinishGeneration(w, r, d)
      PROVE  ReadyHasDiff'
  <2>1. rems' = [rems EXCEPT ![r] = [status |-> "ready", diff |-> d]]
    BY <1>3 DEF FinishGeneration
  <2> QED BY <1>0, <2>1 DEF Inv, ReadyHasDiff
\* A status is set, and to one that goes with a diff only where there is one.
<1>4. ASSUME NEW r, NEW status, rems' = [rems EXCEPT ![r].status = status],
             status # "none",
             r \in Rems => status = "generation_failed" \/ rems[r].diff \in Diffs
      PROVE  ReadyHasDiff'
  <2>1. \A s \in Rems : rems[s] \in Remediation
    BY <1>0
  <2>2. ASSUME NEW s \in Rems
        PROVE  /\ rems'[s].diff = rems[s].diff
               /\ rems'[s].status = IF s = r THEN status ELSE rems[s].status
    BY <1>0, <1>4, <2>1 DEF Remediation
  <2> QED BY <1>4, <2>2 DEF Inv, ReadyHasDiff
<1>5. RecordPull \/ MarkDispatchFailed =>
        rems[web.rem].diff \in Diffs
  BY DEF RecordPull, MarkDispatchFailed, Inv, Handling
<1> QED
  BY <1>1, <1>2, <1>3, <1>4, <1>5, RemWriters
     DEF WorkerStep, StartGeneration, FailGeneration, DropGeneration, tables,
         RecordPull, MarkDispatchFailed

LEMMA BranchesStep ==
  ASSUME Inv, Next
  PROVE  LiveBranchNotReused'
<1>1. ASSUME \A n \in Pulls :
               /\ rows'[n].state # "none" => rows[n].state # "none"
               /\ rows'[n].state # "none" => rows'[n].branch = rows[n].branch
      PROVE  LiveBranchNotReused'
  BY <1>1 DEF Inv, LiveBranchNotReused
<1>2. CASE RecordPull
  <2>1. /\ web.pull \in Pulls /\ web.branch \notin LiveBranches
        /\ rows' = [rows EXCEPT ![web.pull] =
                      [state |-> "open", rem |-> web.rem, branch |-> web.branch]]
    BY <1>2 DEF RecordPull, Inv, Handling
  <2>2. \A n \in Pulls : rows[n].state # "none" => rows[n].branch # web.branch
    BY <2>1 DEF LiveBranches
  <2> QED BY <2>1, <2>2 DEF Inv, TypeOK, LiveBranchNotReused
<1>3. ASSUME NEW n \in Pulls, rows[n].state # "none",
             Merged(n) \/ Rejected(n) \/ Reopened(n)
      PROVE  LiveBranchNotReused'
  <2>1. \A m \in Pulls \ {n} : rows'[m] = rows[m]
    BY <1>3 DEF Merged, Rejected, Reopened, Inv, TypeOK
  <2> QED BY <1>1, <1>3, <2>1, RowsStay DEF RowsLast
<1>4. ASSUME UNCHANGED rows
      PROVE  LiveBranchNotReused'
  BY <1>1, <1>4
<1>5. DeliveryStep => LiveBranchNotReused'
  BY <1>3, <1>4 DEF DeliveryStep, Deliver, Apply
<1>6. SyncRow => LiveBranchNotReused'
  <2>1. web.at = "polled" => web.pull \in Pulls /\ rows[web.pull].state # "none"
    BY DEF Inv, Handling
  <2> QED BY <1>3, <1>4, <2>1 DEF SyncRow
<1> QED BY <1>2, <1>4, <1>5, <1>6, RowWriters

\* The handler waits while others act.
LEMMA HandlerWaits ==
  ASSUME Inv, Next, web' = web, ~HandlerStep
  PROVE  Handling'
<1>1. web \in Handler
  BY DEF Inv, TypeOK
<1>2. /\ RowsLast /\ DiffsLast /\ ConfirmationsLast /\ PullsLast
  BY RowsStay, DiffsStay, ConfirmationsStay, PullsStay DEF Inv
<1>3. refs' = refs
  BY StepKinds, WorkerLeaves, BoardLeaves, EventLeaves
     DEF DeliveryStep, Deliver, github
<1>4. web.at # "idle" => rows' = rows
  BY StepKinds, WorkerLeaves, BoardLeaves, EventLeaves
     DEF DeliveryStep, Deliver
<1>5. web.at # "idle" => LiveBranches' = LiveBranches
  BY <1>4 DEF LiveBranches
<1>6. \A n \in web.todo : rows'[n].state # "none"
  BY <1>1, <1>2 DEF Handler, RowsLast, Inv, Handling
<1>7. web.at \in {"confirm", "gate", "branch", "commit", "propose", "record", "fail"} =>
        web.rem \in Rems /\ rems'[web.rem].diff \in Diffs
  BY <1>2 DEF DiffsLast, Inv, Handling
<1>8. web.at \in {"branch", "commit", "propose", "record"} =>
        web.diff \in Diffs /\ <<web.rem, web.diff>> \in confirmed'
  BY <1>2 DEF ConfirmationsLast, Inv, Handling
<1>9. web.at = "record" =>
        /\ web.pull \in Pulls /\ Exists(web.pull)'
        /\ prs'[web.pull].rem = web.rem /\ prs'[web.pull].head = web.branch
  BY <1>2 DEF PullsLast, Inv, Handling
<1>10. web.at = "polled" =>
         /\ web.pull \in Pulls /\ rows'[web.pull].state # "none"
         /\ web.seen = "merged" => Last(prs[web.pull].log)' = "merged"
         /\ web.seen = "closed" => WasClosed(web.pull)'
  <2>1. SUFFICES ASSUME web.at = "polled" PROVE
                   /\ web.pull \in Pulls /\ rows'[web.pull].state # "none"
                   /\ web.seen = "merged" => Last(prs[web.pull].log)' = "merged"
                   /\ web.seen = "closed" => WasClosed(web.pull)'
    OBVIOUS
  <2>2. web.pull \in Pulls /\ rows[web.pull].state # "none"
    BY <2>1 DEF Inv, Handling
  <2>3. Exists(web.pull)
    BY <2>2 DEF Inv, RowsMatchGitHub
  <2> QED BY <2>1, <2>2, <2>3, <1>2 DEF RowsLast, PullsLast, Inv, Handling
<1>11. web.at = "branch" => web.live = LiveBranches'
  BY <1>5 DEF Inv, Handling
<1>12. web.at \in {"commit", "propose", "record"} =>
         web.branch \in Branches /\ web.branch \notin LiveBranches'
  BY <1>5 DEF Inv, Handling
<1>13. web.at = "propose" => refs'[web.branch] = web.diff
  BY <1>3 DEF Inv, Handling
<1> QED
  BY <1>6, <1>7, <1>8, <1>9, <1>10, <1>11, <1>12, <1>13
     DEF Handling, Exists, Last

LEMMA ConfirmStep ==
  ASSUME Inv, Next,
         \/ \E r \in Rems : ReadForApproval(r)
         \/ RecordConfirmation \/ PassGate \/ StopAtGate
  PROVE  Handling'
<1>1. web \in Handler /\ DiffsLast
  BY DiffsStay DEF Inv, TypeOK
<1>2. \A n \in web.todo : rows'[n].state # "none"
  BY <1>1, RowsStay DEF Handler, RowsLast, Inv, Handling
<1>3. ASSUME NEW r \in Rems, ReadForApproval(r)
      PROVE  Handling'
  <2>1. rems' = rems /\ rems[r].diff \in Diffs
    BY <1>3 DEF ReadForApproval, Dispatchable, Inv, ReadyHasDiff
  <2>2. web' = [web EXCEPT !.at = "confirm", !.rem = r]
    BY <1>3 DEF ReadForApproval
  <2>3. web'.at = "confirm" /\ web'.rem = r /\ web'.todo = web.todo
    BY <1>1, <2>2 DEF Handler
  <2> QED BY <1>2, <2>1, <2>3 DEF Handling
<1>4. CASE RecordConfirmation
  <2>1. web' = [web EXCEPT !.at = "gate"] /\ web.at = "confirm"
    BY <1>4 DEF RecordConfirmation
  <2>2. web'.at = "gate" /\ web'.rem = web.rem /\ web'.todo = web.todo
    BY <1>1, <2>1 DEF Handler
  <2> QED BY <1>1, <1>2, <2>1, <2>2 DEF DiffsLast, Inv, Handling
<1>5. CASE PassGate
  <2>1. /\ web.at = "gate" /\ rems' = rems /\ rows' = rows /\ confirmed' = confirmed
        /\ <<web.rem, rems[web.rem].diff>> \in confirmed
        /\ web' = [web EXCEPT !.at = "branch", !.diff = rems[web.rem].diff,
                              !.live = LiveBranches]
    BY <1>5 DEF PassGate, ConfirmationMatches, tables
  <2>2. /\ web'.at = "branch" /\ web'.rem = web.rem /\ web'.todo = web.todo
        /\ web'.diff = rems[web.rem].diff /\ web'.live = LiveBranches
    BY <1>1, <2>1 DEF Handler
  <2>3. LiveBranches' = LiveBranches
    BY <2>1 DEF LiveBranches
  <2> QED BY <1>2, <2>1, <2>2, <2>3 DEF Inv, Handling
<1>6. CASE StopAtGate
  BY <1>6 DEF StopAtGate, Idle, Handling
<1> QED BY <1>3, <1>4, <1>5, <1>6

LEMMA CallStep ==
  ASSUME Inv, Next,
         \/ \E k \in Suffixes : CreateBranch(k) \/ ReuseBranch(k)
         \/ Commit \/ GitHubFails \/ \E n \in Pulls : OpenPull(n)
  PROVE  Handling'
<1>0. web \in Handler
  BY DEF Inv, TypeOK
<1>1. /\ web.at \in {"branch", "commit", "propose"}
      /\ rems' = rems /\ rows' = rows /\ confirmed' = confirmed
  BY DEF CreateBranch, ReuseBranch, Commit, GitHubFails, OpenPull, tables
<1>2. /\ web.rem \in Rems /\ rems'[web.rem].diff \in Diffs
      /\ web.diff \in Diffs /\ <<web.rem, web.diff>> \in confirmed'
      /\ \A n \in web.todo : rows'[n].state # "none"
      /\ LiveBranches' = LiveBranches
  BY <1>1 DEF Inv, Handling, LiveBranches
<1>3. NameOf[web.diff] \in Names
  BY <1>2, DispatchAssumption
<1>4. ASSUME NEW k \in Suffixes, CreateBranch(k)
      PROVE  Handling'
  <2> DEFINE b == <<NameOf[web.diff], k>>
  <2>1. PICK place \in {"commit", "fail"} :
          web' = [web EXCEPT !.at = place, !.branch = b]
    BY <1>4 DEF CreateBranch, After
  <2>2. /\ web'.at = place /\ web'.branch = b /\ web'.rem = web.rem
        /\ web'.diff = web.diff /\ web'.todo = web.todo
    BY <1>0, <2>1 DEF Handler
  <2>3. b \in Branches
    BY <1>3 DEF Branches
  <2>4. b \notin LiveBranches
    <3>1. refs[b] = "absent"
      BY <1>4 DEF CreateBranch, Fresh
    <3>2. ASSUME NEW n \in Pulls, rows[n].state # "none"
          PROVE  rows[n].branch # b
      BY <3>1, <3>2 DEF Inv, RowsMatchGitHub, HeadsExist
    <3> QED BY <3>2 DEF LiveBranches
  <2> QED BY <1>2, <2>2, <2>3, <2>4 DEF Handling
<1>5. ASSUME NEW k \in Suffixes, ReuseBranch(k)
      PROVE  Handling'
  <2> DEFINE b == <<NameOf[web.diff], k>>
  <2>1. /\ web.at = "branch" /\ refs[b] = web.diff /\ b \notin web.live /\ refs' = refs
        /\ web' = [web EXCEPT !.at = "propose", !.branch = b]
    BY <1>5 DEF ReuseBranch, Reusable, github
  <2>2. /\ web'.at = "propose" /\ web'.branch = b /\ web'.rem = web.rem
        /\ web'.diff = web.diff /\ web'.todo = web.todo
    BY <1>0, <2>1 DEF Handler
  <2>3. b \in Branches /\ b \notin LiveBranches
    BY <1>3, <2>1 DEF Branches, Inv, Handling
  <2> QED BY <1>2, <2>1, <2>2, <2>3 DEF Handling
<1>6. CASE Commit
  <2>1. PICK place \in {"propose", "fail"} : web' = [web EXCEPT !.at = place]
    BY <1>6 DEF Commit, After
  <2>2. /\ web'.at = place /\ web'.branch = web.branch /\ web'.rem = web.rem
        /\ web'.diff = web.diff /\ web'.todo = web.todo
    BY <1>0, <2>1 DEF Handler
  <2>3. web.branch \in Branches /\ web.branch \notin LiveBranches
    BY <1>6 DEF Commit, Inv, Handling
  <2>4. refs'[web.branch] = web.diff
    BY <1>6, <2>3 DEF Commit, Inv, TypeOK
  <2> QED BY <1>2, <2>2, <2>3, <2>4 DEF Handling
<1>7. CASE GitHubFails
  <2>1. web'.at = "fail" /\ web'.rem = web.rem /\ web'.todo = web.todo
    BY <1>0, <1>7 DEF GitHubFails, Handler
  <2> QED BY <1>2, <2>1 DEF Handling
<1>8. ASSUME NEW n \in Pulls, OpenPull(n)
      PROVE  Handling'
  <2>1. PICK place \in {"record", "fail"} :
          web' = [web EXCEPT !.at = place, !.pull = n]
    BY <1>8 DEF OpenPull, After
  <2>2. /\ web'.at = place /\ web'.branch = web.branch /\ web'.rem = web.rem
        /\ web'.diff = web.diff /\ web'.todo = web.todo /\ web'.pull = n
    BY <1>0, <2>1 DEF Handler
  <2>3. web.branch \in Branches /\ web.branch \notin LiveBranches
    BY <1>8 DEF OpenPull, Inv, Handling
  <2>4. prs'[n].rem = web.rem /\ prs'[n].head = web.branch /\ Exists(n)'
    BY <1>8 DEF OpenPull, Inv, TypeOK, Exists
  <2> QED BY <1>2, <2>2, <2>3, <2>4 DEF Handling, Exists
<1> QED BY <1>4, <1>5, <1>6, <1>7, <1>8

LEMMA EndStep ==
  ASSUME Inv, Next,
         \/ RecordPull \/ MarkDispatchFailed \/ RecordRefused
         \/ SyncRefused \/ SyncStarved \/ SyncEnds \/ WebCrash
  PROVE  Handling'
  BY DEF RecordPull, MarkDispatchFailed, RecordRefused, SyncRefused, SyncStarved, SyncEnds,
         WebCrash, Idle, Handling

LEMMA SyncStep ==
  ASSUME Inv, Next,
         StartSync \/ SyncRow \/ \E n \in Pulls : Poll(n)
  PROVE  Handling'
<1>0. web \in Handler
  BY DEF Inv, TypeOK
<1>1. \A n \in web.todo : rows'[n].state # "none"
  BY <1>0, RowsStay DEF Handler, RowsLast, Inv, Handling
<1>2. CASE StartSync
  <2>1. web'.at = "sync" /\ web'.todo = OpenRows
    BY <1>0, <1>2 DEF StartSync, Handler
  <2>2. \A n \in OpenRows : rows'[n].state # "none"
    BY <1>2 DEF StartSync, OpenRows
  <2> QED BY <2>1, <2>2 DEF Handling
<1>3. CASE SyncRow
  <2>1. web' = [Idle EXCEPT !.at = "sync", !.todo = web.todo]
    BY <1>3 DEF SyncRow
  <2>2. web'.at = "sync" /\ web'.todo = web.todo
    BY <2>1 DEF Idle
  <2> QED BY <1>1, <2>2 DEF Handling
<1>4. ASSUME NEW n \in Pulls, Poll(n)
      PROVE  Handling'
  <2>1. /\ web.at = "sync" /\ n \in web.todo /\ rows' = rows /\ prs' = prs
        /\ \/ web' = [web EXCEPT !.at = "polled", !.pull = n, !.todo = @ \ {n},
                                 !.seen = Last(prs[n].log)]
           \/ web' = [web EXCEPT !.todo = @ \ {n}]
    BY <1>4 DEF Poll, github
  <2>2. /\ web'.todo = web.todo \ {n}
        /\ \/ /\ web'.at = "polled" /\ web'.pull = n
              /\ web'.seen = Last(prs[n].log)
           \/ web'.at = "sync"
    BY <1>0, <2>1 DEF Handler
  <2>3. rows[n].state # "none" /\ prs[n].log # << >> /\ prs[n].log \in Seq(Events)
    BY <2>1 DEF Inv, Handling, RowsMatchGitHub, Exists, TypeOK, Pull
  <2>4. Last(prs[n].log) = "closed" => WasClosed(n)
    BY <2>3 DEF Last, WasClosed
  <2>5. /\ Last(prs[n].log)' = Last(prs[n].log) /\ WasClosed(n)' = WasClosed(n)
    BY <2>1 DEF Last, WasClosed
  <2> QED BY <1>1, <2>1, <2>2, <2>3, <2>4, <2>5 DEF Handling
<1> QED BY <1>2, <1>3, <1>4

LEMMA HandlingStep ==
  ASSUME Inv, Next
  PROVE  Handling'
<1>1. CASE HandlerStep
  BY <1>1, ConfirmStep, CallStep, EndStep, SyncStep DEF HandlerStep
<1>2. CASE ~HandlerStep
  <2>1. web' = web
    BY <1>2, StepKinds, WorkerLeaves, BoardLeaves, EventLeaves
       DEF DeliveryStep, Deliver
  <2> QED BY <1>2, <2>1, HandlerWaits
<1> QED BY <1>1, <1>2

-----------------------------------------------------------------------------
(* Types                                                                   *)

\* The board is written by the steps below, with names of statuses.
LEMMA BoardWriters ==
  ASSUME TypeOK, Next
  PROVE  cov' \in Statuses
<1>1. WorkerStep => cov' \in Statuses
  BY DEF TypeOK, Statuses, WorkerStep, RequestRemediation, StartGeneration,
         FinishGeneration, FailGeneration, DropGeneration
<1>2. EventStep => cov' \in Statuses
  BY EventLeaves DEF TypeOK
<1>3. DeliveryStep \/ SyncRow => cov' \in Statuses
  BY DEF TypeOK, Statuses, DeliveryStep, Deliver, Apply, SyncRow, Merged,
         Rejected, Reopened
<1>4. BoardStep => cov' \in Statuses
  BY DEF TypeOK, Statuses, BoardStep, FinishVerification, MoveBoard, FailVerification,
         RetryVerification, MarkMigrated, Reconnect
<1>5. HandlerStep => cov' \in Statuses
  BY <1>3 DEF TypeOK, Statuses, HandlerStep, ReadForApproval, RecordConfirmation,
         PassGate, StopAtGate, CreateBranch, ReuseBranch, Commit, GitHubFails,
         OpenPull, Poll, RecordPull, MarkDispatchFailed, RecordRefused,
         StartSync, SyncRefused, SyncStarved, SyncEnds, WebCrash
<1> QED BY <1>1, <1>2, <1>3, <1>4, <1>5, StepKinds

LEMMA TablesTyped ==
  ASSUME Inv, Next
  PROVE  /\ connected' \in BOOLEAN /\ failedRows' \subseteq Rems
         /\ verify' \in {"none", "queued", "done", "failed"}
         /\ done' \subseteq Pulls \X (1..MaxEvents)
         /\ worker' \in [Workers -> SUBSET Rems]
<1> USE DEF Inv, TypeOK
<1>1. WorkerStep =>
        /\ worker' \in [Workers -> SUBSET Rems]
        /\ UNCHANGED <<connected, failedRows, verify, done>>
  BY DEF WorkerStep, RequestRemediation, StartGeneration, FinishGeneration,
         FailGeneration, DropGeneration, Oldest, Generating, tables
<1>2. EventStep => UNCHANGED <<connected, failedRows, verify, done, worker>>
  BY EventLeaves
<1>3. BoardStep =>
        /\ connected' \in BOOLEAN /\ verify' \in {"none", "queued", "done", "failed"}
        /\ UNCHANGED <<failedRows, done, worker>>
  BY DEF BoardStep, FinishVerification, MoveBoard, FailVerification,
         RetryVerification, MarkMigrated, Reconnect, tables
<1>4. DeliveryStep \/ SyncRow =>
        /\ done' \subseteq Pulls \X (1..MaxEvents)
        /\ verify' \in {"none", "queued", "done", "failed"}
        /\ UNCHANGED <<connected, failedRows, worker>>
  <2>1. ASSUME NEW n, Merged(n) \/ Rejected(n) \/ Reopened(n) \/ verify' = verify
        PROVE  verify' \in {"none", "queued", "done", "failed"}
    BY <2>1 DEF Merged, EnqueueVerification, Rejected, Reopened
  <2>2. CASE DeliveryStep
    <3>1. PICK n \in Pulls, i \in 1..MaxEvents : Deliver(n, i)
      BY <2>2 DEF DeliveryStep
    <3>2. verify' \in {"none", "queued", "done", "failed"}
      BY <2>1, <3>1 DEF Deliver, Apply
    <3>3. done' = done \cup {<<n, i>>} /\ UNCHANGED <<connected, failedRows, worker>>
      BY <3>1 DEF Deliver
    <3> QED BY <3>2, <3>3
  <2>3. CASE SyncRow
    <3>1. verify' \in {"none", "queued", "done", "failed"}
      BY <2>1, <2>3 DEF SyncRow
    <3> QED BY <2>3, <3>1 DEF SyncRow, tables
  <2> QED BY <2>2, <2>3
<1>5. MarkDispatchFailed =>
        /\ failedRows' \subseteq Rems /\ UNCHANGED <<connected, verify, done, worker>>
  BY DEF MarkDispatchFailed, Handling
<1>6. HandlerStep =>
        \/ SyncRow \/ MarkDispatchFailed
        \/ UNCHANGED <<connected, failedRows, verify, done, worker>>
  BY DEF HandlerStep, ReadForApproval, RecordConfirmation, PassGate, StopAtGate,
         CreateBranch, ReuseBranch, Commit, GitHubFails, OpenPull, Poll,
         RecordPull, RecordRefused, StartSync, SyncRefused, SyncStarved, SyncEnds, WebCrash, tables
<1> QED BY <1>1, <1>2, <1>3, <1>4, <1>5, <1>6, StepKinds

LEMMA RemsTyped ==
  ASSUME Inv, Next
  PROVE  rems' \in [Rems -> Remediation]
<1> USE DEF Inv, TypeOK
<1>1. CASE rems' = rems
  BY <1>1
<1>2. ASSUME NEW r \in Rems, RequestRemediation(r)
      PROVE  rems' \in [Rems -> Remediation]
  BY <1>2 DEF RequestRemediation, Remediation, RemStatuses
<1>3. ASSUME NEW w \in Workers, NEW r \in Rems, NEW d \in Diffs, FinishGeneration(w, r, d)
      PROVE  rems' \in [Rems -> Remediation]
  BY <1>3 DEF FinishGeneration, Remediation, RemStatuses
<1>4. ASSUME NEW r, NEW status \in RemStatuses,
             rems' = [rems EXCEPT ![r].status = status]
      PROVE  rems' \in [Rems -> Remediation]
  <2>1. \A s \in Rems : [rems[s] EXCEPT !.status = status] \in Remediation
    BY DEF Remediation
  <2> QED BY <1>4, <2>1
<1> QED
  BY <1>1, <1>2, <1>3, <1>4, RemWriters
     DEF WorkerStep, StartGeneration, FailGeneration, DropGeneration, tables,
         RecordPull, MarkDispatchFailed, RemStatuses

LEMMA RowsTyped ==
  ASSUME Inv, Next
  PROVE  rows' \in [Pulls -> Row]
<1> USE DEF Inv, TypeOK
<1>1. CASE UNCHANGED rows
  BY <1>1
<1>2. CASE RecordPull
  <2>1. [state |-> "open", rem |-> web.rem, branch |-> web.branch] \in Row
    BY <1>2 DEF RecordPull, Handling, Row, RowStates
  <2> QED BY <1>2, <2>1 DEF RecordPull
<1>3. ASSUME NEW n, Merged(n) \/ Rejected(n) \/ Reopened(n)
      PROVE  rows' \in [Pulls -> Row]
  <2>1. PICK state \in RowStates : rows' = [rows EXCEPT ![n].state = state]
    BY <1>3 DEF Merged, Rejected, Reopened, RowStates
  <2>2. \A m \in Pulls : [rows[m] EXCEPT !.state = state] \in Row
    BY DEF Row
  <2> QED BY <2>1, <2>2
<1> QED
  BY <1>1, <1>2, <1>3, RowWriters DEF DeliveryStep, Deliver, Apply, SyncRow

LEMMA GitHubTyped ==
  ASSUME Inv, Next
  PROVE  /\ refs' \in [Branches -> Diffs \cup {"absent", "base"}]
         /\ prs' \in [Pulls -> Pull]
         /\ confirmed' \subseteq Rems \X (Diffs \cup {NoDiff})
<1> USE DEF Inv, TypeOK
<1>1. refs' \in [Branches -> Diffs \cup {"absent", "base"}]
  <2>1. Commit => web.diff \in Diffs
    BY DEF Commit, Handling
  <2> QED BY <2>1, RefWriters DEF Commit, CreateBranch
<1>2. prs' \in [Pulls -> Pull]
  <2>1. CASE prs' = prs
    BY <2>1
  <2>2. CASE EventStep
    <3>1. PICK n \in Pulls, event \in Events :
            prs' = [prs EXCEPT ![n].log = Append(@, event)]
      BY <2>2, EventIsAdded
    <3>2. /\ prs[n] \in Pull /\ Append(prs[n].log, event) \in Seq(Events)
      BY DEF Pull
    <3>3. [prs[n] EXCEPT !.log = Append(prs[n].log, event)] \in Pull
      BY <3>2 DEF Pull
    <3> QED BY <3>1, <3>3
  <2>3. ASSUME NEW n \in Pulls, OpenPull(n)
        PROVE  prs' \in [Pulls -> Pull]
    <3>1. /\ web.rem \in Rems /\ refs[web.branch] \in Diffs /\ web.branch \in Branches
      BY <2>3 DEF OpenPull, Handling
    <3>2. <<"open">> \in Seq(Events)
      BY DEF Events
    <3>3. [rem |-> web.rem, diff |-> refs[web.branch],
           head |-> web.branch, log |-> <<"open">>] \in Pull
      BY <3>1, <3>2 DEF Pull
    <3> QED BY <2>3, <3>3 DEF OpenPull
  <2> QED BY <2>1, <2>2, <2>3, PullWriters
<1>3. confirmed' \subseteq Rems \X (Diffs \cup {NoDiff})
  <2>1. RecordConfirmation => web.rem \in Rems /\ rems[web.rem].diff \in Diffs
    BY DEF RecordConfirmation, Handling
  <2> QED BY <2>1, ConfirmationWriter DEF RecordConfirmation
<1> QED BY <1>1, <1>2, <1>3

LEMMA HandlerTyped ==
  ASSUME Inv, Next
  PROVE  web' \in Handler
<1>0. web \in Handler /\ Idle \in Handler
  BY DEF Inv, TypeOK, Idle, Handler, Places, Events
<1>1. \A n \in Pulls : rows[n].state # "none" => rows[n].branch \in Branches
  BY DEF Inv, RowsMatchGitHub, HeadsExist
<1>2. LiveBranches \subseteq Branches
  BY <1>1 DEF LiveBranches
<1>3. ASSUME \/ \E r \in Rems : ReadForApproval(r)
             \/ RecordConfirmation \/ PassGate \/ StopAtGate
      PROVE  web' \in Handler
  <2>1. ASSUME NEW r \in Rems
        PROVE  [web EXCEPT !.at = "confirm", !.rem = r] \in Handler
    BY <1>0 DEF Handler, Places
  <2>2. [web EXCEPT !.at = "gate"] \in Handler
    BY <1>0 DEF Handler, Places
  <2>3. web.at = "gate" => rems[web.rem].diff \in Diffs
    BY DEF Inv, Handling
  <2>4. web.at = "gate" =>
          [web EXCEPT !.at = "branch", !.diff = rems[web.rem].diff,
                      !.live = LiveBranches] \in Handler
    BY <1>0, <1>2, <2>3 DEF Handler, Places
  <2>5. CASE \E r \in Rems : ReadForApproval(r)
    BY <2>1, <2>5 DEF ReadForApproval
  <2>6. CASE RecordConfirmation
    BY <2>2, <2>6 DEF RecordConfirmation
  <2>7. CASE PassGate
    BY <2>4, <2>7 DEF PassGate
  <2>8. CASE StopAtGate
    BY <1>0, <2>8 DEF StopAtGate
  <2> QED BY <1>3, <2>5, <2>6, <2>7, <2>8
<1>4. ASSUME \/ \E k \in Suffixes : CreateBranch(k) \/ ReuseBranch(k)
             \/ Commit \/ GitHubFails \/ \E n \in Pulls : OpenPull(n)
      PROVE  web' \in Handler
  <2>1. ASSUME NEW place \in Places, NEW b \in Branches
        PROVE  [web EXCEPT !.at = place, !.branch = b] \in Handler
    BY <1>0 DEF Handler
  <2>2. ASSUME NEW place \in Places
        PROVE  [web EXCEPT !.at = place] \in Handler
    BY <1>0 DEF Handler
  <2>3. ASSUME NEW place \in Places, NEW n \in Pulls
        PROVE  [web EXCEPT !.at = place, !.pull = n] \in Handler
    BY <1>0 DEF Handler
  <2>4. web.at = "branch" => \A k \in Suffixes : <<NameOf[web.diff], k>> \in Branches
    BY DispatchAssumption DEF Inv, Handling, Branches
  <2>5. /\ After("commit") \subseteq Places /\ After("propose") \subseteq Places
        /\ After("record") \subseteq Places
        /\ "propose" \in Places /\ "fail" \in Places
    BY DEF After, Places
  <2>6. ASSUME NEW k \in Suffixes, CreateBranch(k) \/ ReuseBranch(k)
        PROVE  web' \in Handler
    <3>1. PICK place \in Places :
            web' = [web EXCEPT !.at = place, !.branch = <<NameOf[web.diff], k>>]
      BY <2>5, <2>6 DEF CreateBranch, ReuseBranch
    <3>2. <<NameOf[web.diff], k>> \in Branches
      BY <2>4, <2>6 DEF CreateBranch, ReuseBranch
    <3> QED BY <2>1, <3>1, <3>2
  <2>7. Commit \/ GitHubFails => web' \in Handler
    BY <2>2, <2>5 DEF Commit, GitHubFails
  <2>8. ASSUME NEW n \in Pulls, OpenPull(n)
        PROVE  web' \in Handler
    <3>1. PICK place \in Places : web' = [web EXCEPT !.at = place, !.pull = n]
      BY <2>5, <2>8 DEF OpenPull
    <3> QED BY <2>3, <3>1
  <2> QED BY <1>4, <2>6, <2>7, <2>8
<1>5. ASSUME \/ RecordPull \/ MarkDispatchFailed \/ RecordRefused
             \/ SyncRefused \/ SyncStarved \/ SyncEnds \/ WebCrash
      PROVE  web' \in Handler
  BY <1>0, <1>5 DEF RecordPull, MarkDispatchFailed, RecordRefused, SyncRefused, SyncStarved,
                    SyncEnds, WebCrash
<1>6. ASSUME StartSync \/ SyncRow \/ \E n \in Pulls : Poll(n)
      PROVE  web' \in Handler
  <2>1. [web EXCEPT !.at = "sync", !.todo = OpenRows] \in Handler
    BY <1>0 DEF Handler, Places, OpenRows
  <2>2. [Idle EXCEPT !.at = "sync", !.todo = web.todo] \in Handler
    BY <1>0 DEF Handler, Places
  <2>3. ASSUME NEW n \in Pulls, Poll(n)
        PROVE  web' \in Handler
    <3>1. rows[n].state # "none"
      BY <2>3 DEF Poll, Inv, Handling
    <3>2. prs[n].log # << >> /\ prs[n].log \in Seq(Events)
      BY <3>1 DEF Inv, TypeOK, RowsMatchGitHub, Exists, Pull
    <3>3. Last(prs[n].log) \in Events
      BY <3>2 DEF Last
    <3>4. [web EXCEPT !.at = "polled", !.pull = n, !.todo = @ \ {n},
                      !.seen = Last(prs[n].log)] \in Handler
      BY <1>0, <3>3 DEF Handler, Places
    <3>5. [web EXCEPT !.todo = @ \ {n}] \in Handler
      BY <1>0 DEF Handler
    <3> QED BY <2>3, <3>4, <3>5 DEF Poll
  <2> QED BY <1>6, <2>1, <2>2, <2>3 DEF StartSync, SyncRow
<1>7. WorkerStep \/ EventStep \/ DeliveryStep \/ BoardStep => web' = web
  BY WorkerLeaves, EventLeaves, BoardLeaves DEF DeliveryStep, Deliver
<1> QED BY <1>0, <1>3, <1>4, <1>5, <1>6, <1>7, StepKinds DEF HandlerStep

-----------------------------------------------------------------------------
(* Theorems                                                                *)

LEMMA InvHoldsInitially ==
  ASSUME Init
  PROVE  Inv
<1>1. TypeOK
  <2>1. /\ NoRem \in Remediation /\ NoRow \in Row /\ NoPull \in Pull /\ Idle \in Handler
    BY DEF NoRem, Remediation, RemStatuses, NoRow, Row, RowStates, NoPull, Pull,
           Idle, Handler, Places, Events
  <2> QED BY <2>1 DEF Init, TypeOK, Statuses
<1>2. /\ \A r \in Rems : rems[r] = NoRem
      /\ \A n \in Pulls : rows[n] = NoRow /\ prs[n] = NoPull
      /\ \A b \in Branches : refs[b] \notin Diffs
      /\ web = Idle /\ verify = "none"
  BY DispatchAssumption DEF Init
<1>3. ReadyHasDiff /\ Handling
  BY <1>2 DEF ReadyHasDiff, Handling, NoRem, Idle
<1>4. \A n \in Pulls : ~Exists(n) /\ rows[n].state = "none" /\ prs[n].log = << >>
  BY <1>2 DEF Exists, NoPull, NoRow
<1>5. /\ OnlyConfirmedDiffs /\ MergesAreFinal /\ HeadsExist
      /\ RowsMatchGitHub /\ VerifiesOnlyMerges /\ LiveBranchNotReused
  BY <1>2, <1>4 DEF OnlyConfirmedDiffs, MergesAreFinal, HeadsExist,
     RowsMatchGitHub, VerifiesOnlyMerges, LiveBranchNotReused
<1> QED BY <1>1, <1>3, <1>5 DEF Inv

LEMMA InvIsInductive ==
  ASSUME Inv, [Next]_vars
  PROVE  Inv'
<1>1. CASE Next
  <2>1. TypeOK'
    BY <1>1, BoardWriters, TablesTyped, RemsTyped, RowsTyped, GitHubTyped, HandlerTyped
       DEF Inv, TypeOK
  <2> QED
    BY <1>1, <2>1, ReadyStep, HandlingStep, ConfirmedStep, MergesStep, HeadsStep,
       RowsStep, BranchesStep
       DEF Inv
<1>2. CASE UNCHANGED vars
  <2>1. TypeOK'
    BY <1>2 DEF vars, Inv, TypeOK
  <2>2. ReadyHasDiff' /\ MergesAreFinal' /\ HeadsExist'
    BY <1>2 DEF vars, Inv, ReadyHasDiff, MergesAreFinal, HeadsExist, Exists
  <2>3. LiveBranches' = LiveBranches
    BY <1>2 DEF vars, LiveBranches
  <2>4. \A n \in Pulls : /\ Exists(n)' = Exists(n) /\ WasClosed(n)' = WasClosed(n)
                         /\ Last(prs[n].log)' = Last(prs[n].log)
    BY <1>2 DEF vars, Exists, WasClosed, Last
  <2>5. Handling'
    BY <1>2, <2>3, <2>4 DEF vars, Inv, Handling
  <2>6. OnlyConfirmedDiffs' /\ RowsMatchGitHub' /\ VerifiesOnlyMerges' /\ LiveBranchNotReused'
    BY <1>2, <2>4 DEF vars, Inv, OnlyConfirmedDiffs, RowsMatchGitHub, VerifiesOnlyMerges,
       LiveBranchNotReused
  <2> QED BY <2>1, <2>2, <2>5, <2>6 DEF Inv
<1> QED BY <1>1, <1>2

\* The invariant holds in every state that the program reaches.
LEMMA Invariance == Spec => []Inv
<1>1. Init => Inv
  BY InvHoldsInitially
<1>2. Inv /\ [Next]_vars => Inv'
  BY InvIsInductive
<1> QED BY <1>1, <1>2, PTL DEF Spec

\* Every variable holds a value of its type, in every state of the program.
THEOREM TypeCorrect == Spec => []TypeOK
<1>1. Inv => TypeOK
  BY DEF Inv
<1> QED BY <1>1, Invariance, PTL

\* What is on GitHub was approved: the gate compares the diff that it then
\* carries through the calls, and a branch is used again only if it holds it.
THEOREM ConfirmedDiffs == Spec => []OnlyConfirmedDiffs
<1>1. Inv => OnlyConfirmedDiffs
  BY DEF Inv
<1> QED BY <1>1, Invariance, PTL

\* A row follows its pull request, whatever the order of webhooks and syncs.
THEOREM RowsFollowGitHub == Spec => []RowsMatchGitHub
<1>1. Inv => RowsMatchGitHub
  BY DEF Inv
<1> QED BY <1>1, Invariance, PTL

\* A verification follows a merge of a recorded pull request.
THEOREM VerificationsFollowMerges == Spec => []VerifiesOnlyMerges
<1>1. Inv => VerifiesOnlyMerges
  BY DEF Inv
<1> QED BY <1>1, Invariance, PTL

\* No branch serves two recorded pull requests.
THEOREM BranchesAreNotReused == Spec => []LiveBranchNotReused
<1>1. Inv => LiveBranchNotReused
  BY DEF Inv
<1> QED BY <1>1, Invariance, PTL

-----------------------------------------------------------------------------
(* The board and the rows                                                  *)

LEMMA BoardFollowsRows ==
  ASSUME Inv, PrOpenHasLivePull, Next
  PROVE  PrOpenHasLivePull'
<1>1. ASSUME UNCHANGED rows, cov' = "pr_open" => cov = "pr_open"
      PROVE  PrOpenHasLivePull'
  BY <1>1 DEF PrOpenHasLivePull
<1>2. CASE RecordPull
  <2>1. web.pull \in Pulls /\ rows'[web.pull].state = "open"
    BY <1>2 DEF RecordPull, Inv, TypeOK, Handling
  <2> QED BY <2>1 DEF PrOpenHasLivePull
<1>3. ASSUME NEW n \in Pulls, Merged(n) \/ Rejected(n) \/ Reopened(n)
      PROVE  PrOpenHasLivePull'
  <2>1. CASE Rejected(n)
    BY <2>1 DEF Rejected, PrOpenHasLivePull
  <2>2. CASE Merged(n) \/ Reopened(n)
    <3>1. PICK state \in {"open", "merged"} : rows' = [rows EXCEPT ![n].state = state]
      BY <2>2 DEF Merged, Reopened
    <3>2. rows[n] \in Row /\ rows'[n] = [rows[n] EXCEPT !.state = state]
      BY <3>1 DEF Inv, TypeOK
    <3>3. rows'[n].state = state
      BY <3>2 DEF Row
    <3> QED BY <3>3 DEF PrOpenHasLivePull
  <2> QED BY <1>3, <2>1, <2>2
<1>4. CASE DeliveryStep
  <2>1. PICK n \in Pulls, i \in 1..MaxEvents : Apply(n, prs[n].log[i])
    BY <1>4 DEF DeliveryStep, Deliver
  <2> QED BY <1>1, <1>3, <2>1 DEF Apply
<1>5. CASE SyncRow
  <2>1. web.pull \in Pulls
    BY <1>5 DEF SyncRow, Inv, Handling
  <2> QED BY <1>1, <1>3, <1>5, <2>1 DEF SyncRow
<1>6. CASE WorkerStep \/ EventStep \/ BoardStep
  <2>1. rows' = rows
    BY <1>6, WorkerLeaves, EventLeaves, BoardLeaves
  <2>2. WorkerStep => cov' = cov \/ cov' = "remediation_pending"
    BY DEF WorkerStep, RequestRemediation, StartGeneration, FinishGeneration,
           FailGeneration, DropGeneration
  <2>3. BoardStep => cov' = cov \/ cov' # "pr_open"
    BY DispatchAssumption
       DEF BoardStep, FinishVerification, MoveBoard, FailVerification,
           RetryVerification, MarkMigrated, Reconnect
  <2>4. EventStep => cov' = cov
    BY EventLeaves
  <2> QED BY <1>1, <1>6, <2>1, <2>2, <2>3, <2>4
<1>7. CASE HandlerStep /\ ~RecordPull /\ ~SyncRow
  <2>1. rows' = rows
    BY <1>7 DEF HandlerStep, ReadForApproval, RecordConfirmation, PassGate, StopAtGate,
       CreateBranch, ReuseBranch, Commit, GitHubFails, OpenPull, Poll,
       MarkDispatchFailed, RecordRefused, StartSync, SyncRefused, SyncStarved, SyncEnds, WebCrash
  <2>2. cov' = cov \/ cov' = "dispatch_failed"
    BY <1>7 DEF HandlerStep, ReadForApproval, RecordConfirmation, PassGate, StopAtGate,
       CreateBranch, ReuseBranch, Commit, GitHubFails, OpenPull, Poll,
       MarkDispatchFailed, RecordRefused, StartSync, SyncRefused, SyncStarved, SyncEnds, WebCrash
  <2> QED BY <1>1, <2>1, <2>2
<1> QED BY <1>2, <1>4, <1>5, <1>6, <1>7, StepKinds

\* The board shows an open pull request only with a row that is live.
THEOREM OpenOnTheBoard == Spec => []PrOpenHasLivePull
<1>1. Init => PrOpenHasLivePull
  BY DEF Init, PrOpenHasLivePull
<1>2. Inv /\ PrOpenHasLivePull /\ [Next]_vars => PrOpenHasLivePull'
  <2>1. UNCHANGED vars /\ PrOpenHasLivePull => PrOpenHasLivePull'
    BY DEF vars, PrOpenHasLivePull
  <2> QED BY <2>1, BoardFollowsRows
<1> QED BY <1>1, <1>2, Invariance, PTL DEF Spec

-----------------------------------------------------------------------------
(* One worker                                                              *)

OneWorker == \A v, w \in Workers : v = w

\* With one worker a remediation is generated once, so nothing takes one back
\* that is being dispatched, or that has been.
GeneratedOnce ==
  /\ \A w \in Workers :
       \A r \in worker[w] : rems[r].status = "generating"
  /\ web.at \in {"confirm", "gate", "branch", "commit", "propose", "record", "fail"} =>
       rems[web.rem].status \in {"ready", "dispatch_failed"}
  /\ \A n \in Pulls :
       rows[n].state # "none" => rems[rows[n].rem].status = "dispatched"

SettledStay ==
  \A r \in Rems : rems[r].status \in {"ready", "dispatch_failed", "dispatched"} =>
    rems'[r].status = rems[r].status

\* Generation leaves every remediation alone that is past it.
LEMMA WorkersLeaveSettled ==
  ASSUME Inv, GeneratedOnce, WorkerStep
  PROVE  SettledStay
<1> USE DEF SettledStay
<1>0. rems \in [Rems -> Remediation] /\ worker \in [Workers -> SUBSET Rems]
  BY DEF Inv, TypeOK
<1>1. ASSUME NEW r \in Rems, RequestRemediation(r)
      PROVE  SettledStay
  BY <1>0, <1>1 DEF RequestRemediation
<1>2. ASSUME NEW w \in Workers, NEW q \in worker[w], NEW rem,
             rems' = [rems EXCEPT ![q] = rem]
      PROVE  SettledStay
  BY <1>0, <1>2 DEF GeneratedOnce
<1>3. ASSUME NEW w \in Workers, NEW q \in Rems, FailGeneration(w, q)
      PROVE  SettledStay
  BY <1>2, <1>3 DEF FailGeneration, Current
<1>4. ASSUME NEW w \in Workers, NEW q \in Rems, NEW d \in Diffs, FinishGeneration(w, q, d)
      PROVE  SettledStay
  BY <1>2, <1>4 DEF FinishGeneration, Current
<1>5. CASE UNCHANGED rems
  BY <1>5
<1> QED BY <1>1, <1>3, <1>4, <1>5 DEF WorkerStep, StartGeneration, DropGeneration

\* A dispatch ends with one status set.
LEMMA OneStatusSet ==
  ASSUME Inv, NEW status, web.rem \in Rems, rems' = [rems EXCEPT ![web.rem].status = status]
  PROVE  /\ rems'[web.rem].status = status
         /\ \A r \in Rems \ {web.rem} : rems'[r] = rems[r]
<1>1. rems[web.rem] \in Remediation
  BY DEF Inv, TypeOK
<1> QED BY <1>1 DEF Inv, TypeOK, Remediation

\* Rows are first written by the record of a dispatch.
LEMMA RowsGrow ==
  ASSUME Inv, Next, ~RecordPull
  PROVE  \A n \in Pulls : rows'[n].state # "none" => rows[n].state # "none"
<1>1. ASSUME NEW n \in Pulls, rows[n].state # "none",
             Merged(n) \/ Rejected(n) \/ Reopened(n)
      PROVE  \A m \in Pulls : rows'[m].state # "none" => rows[m].state # "none"
  BY <1>1 DEF Merged, Rejected, Reopened, Inv, TypeOK
<1>2. DeliveryStep =>
        rows' = rows \/ \A m \in Pulls : rows'[m].state # "none" => rows[m].state # "none"
  BY <1>1 DEF DeliveryStep, Deliver, Apply
<1>3. SyncRow =>
        rows' = rows \/ \A m \in Pulls : rows'[m].state # "none" => rows[m].state # "none"
  BY <1>1 DEF SyncRow, Inv, Handling
<1> QED BY <1>2, <1>3, RowWriters

\* A dispatch begins with a remediation that can be dispatched, and keeps it.
LEMMA DispatchKeepsRem ==
  ASSUME Inv, GeneratedOnce, Next, ~WorkerStep
  PROVE  web'.at \in {"confirm", "gate", "branch", "commit", "propose", "record", "fail"} =>
           rems[web'.rem].status \in {"ready", "dispatch_failed"}
<1>0. web \in Handler
  BY DEF Inv, TypeOK
<1>1. ASSUME NEW r \in Rems, ReadForApproval(r)
      PROVE  rems[web'.rem].status \in {"ready", "dispatch_failed"}
  <2>1. web'.rem = r
    BY <1>0, <1>1 DEF ReadForApproval, Handler
  <2> QED BY <1>1, <2>1 DEF ReadForApproval, Dispatchable
<1>2. ASSUME \/ RecordConfirmation \/ PassGate \/ Commit \/ GitHubFails
             \/ \E k \in Suffixes : CreateBranch(k) \/ ReuseBranch(k)
             \/ \E n \in Pulls : OpenPull(n)
      PROVE  rems[web'.rem].status \in {"ready", "dispatch_failed"}
  <2>1. web.at \in {"confirm", "gate", "branch", "commit", "propose"}
    BY <1>2 DEF RecordConfirmation, PassGate, Commit, GitHubFails, CreateBranch,
                ReuseBranch, OpenPull
  <2>2. web'.rem = web.rem
    <3>1. \A k : CreateBranch(k) \/ ReuseBranch(k) => web'.rem = web.rem
      BY <1>0 DEF CreateBranch, ReuseBranch, Handler
    <3>2. \A n : OpenPull(n) => web'.rem = web.rem
      BY <1>0 DEF OpenPull, Handler
    <3>3. RecordConfirmation \/ PassGate \/ Commit \/ GitHubFails => web'.rem = web.rem
      BY <1>0 DEF RecordConfirmation, PassGate, Commit, GitHubFails, Handler
    <3> QED BY <1>2, <3>1, <3>2, <3>3
  <2> QED BY <2>1, <2>2 DEF GeneratedOnce
<1>3. ASSUME \/ StopAtGate \/ RecordPull \/ MarkDispatchFailed \/ RecordRefused
             \/ StartSync \/ SyncRow \/ SyncRefused \/ SyncStarved \/ SyncEnds \/ WebCrash
             \/ \E n \in Pulls : Poll(n)
      PROVE  web'.at \in {"idle", "sync", "polled"}
  <2>1. StartSync \/ (\E n \in Pulls : Poll(n)) => web'.at \in {"idle", "sync", "polled"}
    BY <1>0 DEF StartSync, Poll, Handler
  <2>2. Idle.at = "idle" /\ [Idle EXCEPT !.at = "sync", !.todo = web.todo].at = "sync"
    BY DEF Idle
  <2>3. SyncRow => web'.at = "sync"
    BY <2>2 DEF SyncRow
  <2>4. \/ StopAtGate \/ RecordPull \/ MarkDispatchFailed \/ RecordRefused
        \/ SyncRefused \/ SyncStarved \/ SyncEnds \/ WebCrash
        => web' = Idle
    BY DEF StopAtGate, RecordPull, MarkDispatchFailed, RecordRefused, SyncRefused, SyncStarved,
           SyncEnds, WebCrash
  <2> QED BY <1>3, <2>1, <2>2, <2>3, <2>4
<1>4. ASSUME EventStep \/ DeliveryStep \/ BoardStep
      PROVE  web' = web
  BY <1>4, EventLeaves, BoardLeaves DEF DeliveryStep, Deliver
<1> QED BY <1>1, <1>2, <1>3, <1>4, StepKinds DEF HandlerStep, GeneratedOnce

LEMMA GeneratedOnceStep ==
  ASSUME OneWorker, Inv, GeneratedOnce, OnePullPerRemediation, Next
  PROVE  GeneratedOnce' /\ OnePullPerRemediation'
<1>0. /\ rems \in [Rems -> Remediation] /\ worker \in [Workers -> SUBSET Rems]
      /\ RowsLast
  BY RowsStay DEF Inv, TypeOK
<1>1. \A n \in Pulls : rows[n].state # "none" => rows[n].rem \in Rems
  <2>1. ASSUME NEW n \in Pulls, rows[n].state # "none"
        PROVE  rows[n].rem \in Rems
    <3>1. <<prs[n].rem, prs[n].diff>> \in confirmed /\ prs[n].rem = rows[n].rem
      BY <2>1 DEF Inv, RowsMatchGitHub, OnlyConfirmedDiffs
    <3> QED BY <3>1 DEF Inv, TypeOK
  <2> QED BY <2>1
<1>2. CASE WorkerStep
  <2>1. UNCHANGED <<rows, web>> /\ SettledStay
    BY <1>2, WorkerLeaves, WorkersLeaveSettled
  <2>2. ASSUME NEW w \in Workers, NEW q \in worker'[w]
        PROVE  rems'[q].status = "generating"
    <3>1. ASSUME NEW r \in Rems, RequestRemediation(r)
          PROVE  rems'[q].status = "generating"
      BY <1>0, <2>2, <3>1 DEF RequestRemediation, GeneratedOnce
    <3>2. ASSUME NEW v \in Workers, StartGeneration(v)
          PROVE  rems'[q].status = "generating"
      BY <1>0, <2>2, <3>2 DEF StartGeneration, Oldest, Generating, GeneratedOnce
    \* The only worker lets go of the row it settles.
    <3>3. ASSUME NEW v \in Workers, NEW r \in Rems, NEW rem,
                 worker' = [worker EXCEPT ![v] = @ \ {r}],
                 rems' = [rems EXCEPT ![r] = rem]
          PROVE  rems'[q].status = "generating"
      <4>1. v = w
        BY DEF OneWorker
      <4>2. q \in worker[w] /\ q # r
        BY <1>0, <2>2, <3>3, <4>1
      <4>3. rems[q].status = "generating" /\ q \in Rems
        BY <1>0, <4>2 DEF GeneratedOnce
      <4> QED BY <1>0, <3>3, <4>2, <4>3
    <3>4. ASSUME NEW v \in Workers, NEW r \in Rems,
                 FailGeneration(v, r) \/ \E d \in Diffs : FinishGeneration(v, r, d)
          PROVE  rems'[q].status = "generating"
      BY <3>3, <3>4 DEF FailGeneration, FinishGeneration
    <3>5. ASSUME NEW v \in Workers, DropGeneration(v)
          PROVE  rems'[q].status = "generating"
      BY <1>0, <2>2, <3>5 DEF DropGeneration, GeneratedOnce
    <3> QED BY <1>2, <3>1, <3>2, <3>4, <3>5 DEF WorkerStep
  <2>3. OnePullPerRemediation'
    BY <2>1 DEF OnePullPerRemediation
  <2>4. web.at \in {"confirm", "gate", "branch", "commit", "propose", "record", "fail"} =>
          web.rem \in Rems
    BY DEF Inv, Handling
  <2> QED BY <1>1, <2>1, <2>2, <2>3, <2>4 DEF GeneratedOnce, SettledStay
<1>3. CASE RecordPull
  <2>1. /\ web.rem \in Rems /\ web.pull \in Pulls /\ web' = Idle /\ worker' = worker
        /\ rems[web.rem].status \in {"ready", "dispatch_failed"}
        /\ rems' = [rems EXCEPT ![web.rem].status = "dispatched"]
        /\ rows' = [rows EXCEPT ![web.pull] =
                      [state |-> "open", rem |-> web.rem, branch |-> web.branch]]
    BY <1>3 DEF RecordPull, Inv, Handling, GeneratedOnce
  <2>2. /\ rems'[web.rem].status = "dispatched"
        /\ \A r \in Rems \ {web.rem} : rems'[r] = rems[r]
    BY <2>1, OneStatusSet
  <2>3. /\ rows'[web.pull].rem = web.rem
        /\ \A n \in Pulls \ {web.pull} : rows'[n] = rows[n]
    BY <2>1 DEF Inv, TypeOK
  <2>4. \A n \in Pulls : rows[n].state # "none" => rows[n].rem # web.rem
    BY <2>1 DEF GeneratedOnce
  <2>5. OnePullPerRemediation'
    BY <2>3, <2>4 DEF OnePullPerRemediation
  <2>6. \A w \in Workers : web.rem \notin worker[w]
    BY <2>1 DEF GeneratedOnce
  <2>7. GeneratedOnce'
    BY <1>0, <1>1, <2>1, <2>2, <2>3, <2>6 DEF GeneratedOnce, Idle
  <2> QED BY <2>5, <2>7
<1>4. CASE MarkDispatchFailed
  <2>1. /\ web.rem \in Rems /\ web' = Idle /\ worker' = worker /\ rows' = rows
        /\ rems[web.rem].status \in {"ready", "dispatch_failed"}
        /\ rems' = [rems EXCEPT ![web.rem].status = "dispatch_failed"]
    BY <1>4 DEF MarkDispatchFailed, Inv, Handling, GeneratedOnce
  <2>2. /\ rems'[web.rem].status = "dispatch_failed"
        /\ \A r \in Rems \ {web.rem} : rems'[r] = rems[r]
    BY <2>1, OneStatusSet
  <2>3. GeneratedOnce'
    BY <1>0, <1>1, <2>1, <2>2 DEF GeneratedOnce, Idle
  <2> QED BY <2>1, <2>3 DEF OnePullPerRemediation
<1>5. CASE ~WorkerStep /\ ~RecordPull /\ ~MarkDispatchFailed
  <2>1. rems' = rems
    BY <1>5, RemWriters
  <2>2. worker' = worker
    BY <1>5, StepKinds, BoardLeaves, EventLeaves
       DEF HandlerStep, DeliveryStep, Deliver, ReadForApproval, RecordConfirmation,
           PassGate, StopAtGate, CreateBranch, ReuseBranch, Commit, GitHubFails,
           OpenPull, Poll, RecordRefused, StartSync, SyncRow, SyncRefused, SyncStarved, SyncEnds,
           WebCrash
  <2>3. \A n \in Pulls : rows'[n].state # "none" =>
          rows[n].state # "none" /\ rows'[n].rem = rows[n].rem
    BY <1>0, <1>5, RowsGrow DEF RowsLast
  <2>4. web'.at \in {"confirm", "gate", "branch", "commit", "propose", "record", "fail"} =>
          rems[web'.rem].status \in {"ready", "dispatch_failed"}
    BY <1>5, DispatchKeepsRem
  <2> QED BY <2>1, <2>2, <2>3, <2>4 DEF GeneratedOnce, OnePullPerRemediation
<1> QED BY <1>2, <1>3, <1>4, <1>5

\* With one worker, no remediation has two recorded pull requests: of two
\* clicks the second finds it dispatched.
THEOREM OnePullEach == OneWorker /\ Spec => []OnePullPerRemediation
<1> DEFINE All == OneWorker /\ GeneratedOnce /\ OnePullPerRemediation
<1>1. OneWorker /\ Init => All
  BY DEF Init, GeneratedOnce, OnePullPerRemediation, Idle, NoRow
<1>2. Inv /\ All /\ [Next]_vars => All'
  <2>1. All /\ UNCHANGED vars => All'
    BY DEF vars, OneWorker, GeneratedOnce, OnePullPerRemediation
  <2>2. Inv /\ All /\ Next => All'
    BY GeneratedOnceStep DEF OneWorker
  <2> QED BY <2>1, <2>2
<1>3. All => OnePullPerRemediation
  OBVIOUS
<1> QED BY <1>1, <1>2, <1>3, Invariance, PTL DEF Spec

-----------------------------------------------------------------------------
(* Refinement                                                              *)

Carried(n) == IF Exists(n) THEN {<<prs[n].rem, prs[n].diff>>} ELSE {}
HasMerged(n) == Exists(n) /\ Last(prs[n].log) = "merged"
Tracked(n) == rows[n].state # "none"

\* A step that leaves confirmations, pull requests and rows alone, and asks
\* for no first verification, is a stutter.
LEMMA Stutters ==
  ASSUME confirmed' = confirmed,
         \A n \in Pulls : /\ Carried(n)' = Carried(n) /\ HasMerged(n)' = HasMerged(n)
                          /\ Tracked(n)' = Tracked(n),
         verify' = "none" <=> verify = "none"
  PROVE  UNCHANGED Change!vars
<1>1. [n \in Pulls |-> Carried(n)]' = [n \in Pulls |-> Carried(n)]
  OBVIOUS
<1>2. {n \in Pulls : HasMerged(n)}' = {n \in Pulls : HasMerged(n)}
  OBVIOUS
<1>3. {n \in Pulls : Tracked(n)}' = {n \in Pulls : Tracked(n)}
  OBVIOUS
<1> QED BY <1>1, <1>2, <1>3 DEF Change!vars, Carried, HasMerged, Tracked

LEMMA Approves ==
  ASSUME Inv, RecordConfirmation
  PROVE  Change!Next
<1>1. /\ UNCHANGED <<rows, verify, prs>> /\ web.rem \in Rems
      /\ rems[web.rem].diff \in Diffs
      /\ confirmed' = confirmed \cup {<<web.rem, rems[web.rem].diff>>}
  BY DEF RecordConfirmation, github, Inv, Handling
<1>2. Change!Approve(<<web.rem, rems[web.rem].diff>>)
  BY <1>1 DEF Change!Approve, Exists, Last
<1> QED BY <1>1, <1>2 DEF Change!Next

LEMMA Publishes ==
  ASSUME Inv, NEW n \in Pulls, OpenPull(n)
  PROVE  Change!Next
<1>1. /\ UNCHANGED <<rows, verify, confirmed>> /\ ~Exists(n)
      /\ prs' = [prs EXCEPT ![n] = [rem |-> web.rem, diff |-> web.diff,
                                   head |-> web.branch, log |-> <<"open">>]]
      /\ <<web.rem, web.diff>> \in confirmed
  BY DEF OpenPull, tables, Inv, Handling
<1>2. /\ prs'[n].rem = web.rem /\ prs'[n].diff = web.diff /\ prs'[n].log = <<"open">>
      /\ \A m \in Pulls \ {n} : prs'[m] = prs[m]
  BY <1>1 DEF Inv, TypeOK
<1>3. /\ Carried(n) = {} /\ Carried(n)' = {<<web.rem, web.diff>>}
      /\ \A m \in Pulls \ {n} : Carried(m)' = Carried(m)
      /\ \A m \in Pulls : HasMerged(m)' = HasMerged(m)
  BY <1>1, <1>2 DEF Carried, HasMerged, Exists, Last
<1>4. /\ [m \in Pulls |-> Carried(m)][n] = {}
      /\ [m \in Pulls |-> Carried(m)]' =
           [[m \in Pulls |-> Carried(m)] EXCEPT ![n] = {<<web.rem, web.diff>>}]
  BY <1>3
<1>5. {m \in Pulls : HasMerged(m)}' = {m \in Pulls : HasMerged(m)}
  BY <1>3
<1>6. Change!Publish(n)
  BY <1>1, <1>4, <1>5 DEF Change!Publish, Carried, HasMerged
<1> QED BY <1>6 DEF Change!Next

LEMMA EventsMap ==
  ASSUME Inv, EventStep
  PROVE  Change!Next \/ UNCHANGED Change!vars
<1>1. PICK n \in Pulls, event \in Events :
        /\ Exists(n) /\ Last(prs[n].log) # "merged"
        /\ prs' = [prs EXCEPT ![n].log = Append(@, event)]
  BY EventIsAdded DEF Inv
<1>2. UNCHANGED <<rows, verify, confirmed>>
  BY EventLeaves
<1>3. /\ prs[n] \in Pull /\ prs'[n] = [prs[n] EXCEPT !.log = Append(prs[n].log, event)]
      /\ \A m \in Pulls \ {n} : prs'[m] = prs[m]
  BY <1>1 DEF Inv, TypeOK
<1>4. /\ prs'[n].log = Append(prs[n].log, event) /\ prs[n].log \in Seq(Events)
      /\ prs'[n].rem = prs[n].rem /\ prs'[n].diff = prs[n].diff
  BY <1>3 DEF Pull
<1>5. Exists(n)' /\ Last(prs[n].log)' = event
  BY <1>4 DEF Exists, Last
<1>6. /\ \A m \in Pulls : Carried(m)' = Carried(m)
      /\ HasMerged(n)' <=> event = "merged"
      /\ \A m \in Pulls \ {n} : HasMerged(m)' = HasMerged(m)
  BY <1>1, <1>3, <1>4, <1>5 DEF Carried, HasMerged, Exists, Last
<1>7. CASE event = "merged"
  <2>1. {m \in Pulls : HasMerged(m)}' = {m \in Pulls : HasMerged(m)} \cup {n}
    BY <1>6, <1>7
  <2>2. [m \in Pulls |-> Carried(m)]' = [m \in Pulls |-> Carried(m)]
    BY <1>6
  <2>3. [m \in Pulls |-> Carried(m)][n] # {}
    BY <1>1 DEF Carried
  <2>4. Change!Merge(n)
    BY <1>2, <2>1, <2>2, <2>3 DEF Change!Merge, Carried, HasMerged
  <2> QED BY <2>4 DEF Change!Next
<1>8. CASE event # "merged"
  <2>1. HasMerged(n)' = HasMerged(n)
    BY <1>1, <1>6, <1>8 DEF HasMerged
  <2>2. \A m \in Pulls : Tracked(m)' = Tracked(m)
    BY <1>2 DEF Tracked
  <2> QED BY <1>2, <1>6, <2>1, <2>2, Stutters
<1> QED BY <1>7, <1>8

LEMMA Tracks ==
  ASSUME Inv, RecordPull
  PROVE  Change!Next
<1>0. PICK n \in Pulls : n = web.pull
  BY DEF RecordPull, Inv, Handling
<1>1. /\ UNCHANGED <<prs, verify, confirmed>> /\ Exists(n)
      /\ rows' = [rows EXCEPT ![n] =
                    [state |-> "open", rem |-> web.rem, branch |-> web.branch]]
  BY <1>0 DEF RecordPull, tables, github, Inv, Handling
<1>2. {m \in Pulls : Tracked(m)}' = {m \in Pulls : Tracked(m)} \cup {n}
  BY <1>1 DEF Tracked, Inv, TypeOK
<1>3. /\ [m \in Pulls |-> Carried(m)]' = [m \in Pulls |-> Carried(m)]
      /\ [m \in Pulls |-> Carried(m)][n] # {}
      /\ {m \in Pulls : HasMerged(m)}' = {m \in Pulls : HasMerged(m)}
  BY <1>1 DEF Carried, HasMerged, Exists, Last
<1>4. Change!Track(n)
  BY <1>1, <1>2, <1>3 DEF Change!Track, Carried, HasMerged, Tracked
<1> QED BY <1>4 DEF Change!Next

\* A delivery or the sync: if a first verification is asked for, there is a
\* merged row, for the invariant holds after the step.
LEMMA Asks ==
  ASSUME Inv, Inv', Next, DeliveryStep \/ SyncRow
  PROVE  Change!Next \/ UNCHANGED Change!vars
<1>1. confirmed' = confirmed /\ prs' = prs
  BY DEF DeliveryStep, Deliver, SyncRow, tables, github
<1>2. /\ \A m \in Pulls : Carried(m)' = Carried(m) /\ HasMerged(m)' = HasMerged(m)
      /\ [m \in Pulls |-> Carried(m)]' = [m \in Pulls |-> Carried(m)]
      /\ {m \in Pulls : HasMerged(m)}' = {m \in Pulls : HasMerged(m)}
  BY <1>1 DEF Carried, HasMerged, Exists, Last
<1>3. ASSUME NEW n \in Pulls, rows[n].state # "none",
             Merged(n) \/ Rejected(n) \/ Reopened(n)
      PROVE  \A m \in Pulls : Tracked(m)' = Tracked(m)
  <2>1. \A m \in Pulls \ {n} : rows'[m] = rows[m]
    BY <1>3 DEF Merged, Rejected, Reopened, Inv, TypeOK
  <2>2. rows'[n].state # "none"
    BY <1>3, RowsStay DEF RowsLast
  <2> QED BY <1>3, <2>1, <2>2 DEF Tracked
<1>4. ASSUME UNCHANGED rows
      PROVE  \A m \in Pulls : Tracked(m)' = Tracked(m)
  BY <1>4 DEF Tracked
<1>5. /\ \A m \in Pulls : Tracked(m)' = Tracked(m)
      /\ verify' = verify \/ verify' = "queued"
  <2>1. CASE DeliveryStep
    <3>1. PICK n \in Pulls, i \in 1..MaxEvents : Apply(n, prs[n].log[i])
      BY <2>1 DEF DeliveryStep, Deliver
    <3> QED BY <1>3, <1>4, <3>1 DEF Apply, Merged, Rejected, Reopened, EnqueueVerification
  <2>2. CASE SyncRow
    <3>1. web.pull \in Pulls /\ rows[web.pull].state # "none"
      BY <2>2 DEF SyncRow, Inv, Handling
    <3> QED BY <1>3, <1>4, <2>2, <3>1
            DEF SyncRow, Merged, Rejected, Reopened, EnqueueVerification
  <2> QED BY <2>1, <2>2
<1>6. CASE verify' = verify
  BY <1>1, <1>2, <1>5, <1>6, Stutters
<1>7. CASE verify' = "queued"
  <2>1. PICK n \in Pulls : rows'[n].state # "none" /\ Last(prs'[n].log) = "merged"
    BY <1>7 DEF Inv, VerifiesOnlyMerges, Last
  <2>2. Exists(n)'
    BY <2>1 DEF Inv, RowsMatchGitHub, Exists
  <2>3. Tracked(n) /\ HasMerged(n)
    BY <1>2, <1>5, <2>1, <2>2 DEF Tracked, HasMerged, Exists, Last
  <2>4. {m \in Pulls : HasMerged(m)} \cap {m \in Pulls : Tracked(m)} # {}
    BY <2>3
  <2>5. {m \in Pulls : Tracked(m)}' = {m \in Pulls : Tracked(m)}
    BY <1>5
  <2>6. Change!Ask
    BY <1>1, <1>2, <1>7, <2>4, <2>5 DEF Change!Ask, Carried, HasMerged, Tracked
  <2> QED BY <2>6 DEF Change!Next
<1> QED BY <1>5, <1>6, <1>7

LEMMA StepRefines ==
  ASSUME Inv, Inv', [Next]_vars
  PROVE  [Change!Next]_Change!vars
<1>1. CASE UNCHANGED vars
  <2>1. \A n \in Pulls : /\ Carried(n)' = Carried(n) /\ HasMerged(n)' = HasMerged(n)
                         /\ Tracked(n)' = Tracked(n)
    BY <1>1 DEF vars, Carried, HasMerged, Tracked, Exists, Last
  <2> QED BY <1>1, <2>1, Stutters DEF vars
<1>2. CASE Next /\ (RecordConfirmation \/ \E n \in Pulls : OpenPull(n))
  BY <1>2, Approves, Publishes
<1>3. CASE Next /\ (EventStep \/ RecordPull \/ DeliveryStep \/ SyncRow)
  BY <1>3, EventsMap, Tracks, Asks
<1>4. ASSUME Next, ~RecordConfirmation, ~EventStep, ~RecordPull, ~DeliveryStep, ~SyncRow,
             ~\E n \in Pulls : OpenPull(n)
      PROVE  UNCHANGED Change!vars
  <2>1. confirmed' = confirmed /\ prs' = prs /\ rows' = rows
    BY <1>4, ConfirmationWriter, PullWriters, RowWriters
  <2>2. verify' = "none" <=> verify = "none"
    BY <1>4, RowWriters
  <2>3. \A n \in Pulls : /\ Carried(n)' = Carried(n) /\ HasMerged(n)' = HasMerged(n)
                         /\ Tracked(n)' = Tracked(n)
    BY <2>1 DEF Carried, HasMerged, Tracked, Exists, Last
  <2> QED BY <2>1, <2>2, <2>3, Stutters
<1> QED BY <1>1, <1>2, <1>3, <1>4

\* Dispatch implements the life of a change.
THEOREM DispatchImplementsChange == Spec => ImplementsChange
<1>1. Init => Change!Init
  <2>1. SUFFICES ASSUME Init PROVE Change!Init
    OBVIOUS
  <2>2. \A n \in Pulls : ~Exists(n) /\ rows[n].state = "none"
    BY <2>1 DEF Init, Exists, NoPull, NoRow
  <2> QED BY <2>1, <2>2 DEF Init, Change!Init
<1>2. Inv /\ Inv' /\ [Next]_vars => [Change!Next]_Change!vars
  BY StepRefines
<1> QED BY <1>1, <1>2, Invariance, PTL DEF Spec, ImplementsChange, Change!Spec
=============================================================================
