------------------------------ MODULE Dispatch ------------------------------
(***************************************************************************)
(* From a remediation to a verified migration, for one entry and one       *)
(* repository, one pair.  Every query but two filters by the pair: the     *)
(* sync and the workers go through the rows of all pairs in one loop, and  *)
(* what the others can do to this one there is SyncStarved and             *)
(* DropGeneration.                                                         *)
(*                                                                         *)
(* Workers generate diffs; a vendor approves one in the web process, which *)
(* dispatches it to GitHub in several calls; the state of the pull request *)
(* comes back by webhook or by polling, and a merge asks for a             *)
(* verification.  The POST handlers of the web process run one at a time   *)
(* and make blocking calls, so `web' is the only handler under way; the    *)
(* workers and the users of GitHub act between any two of its steps.       *)
(***************************************************************************)
EXTENDS Coverage, Naturals, Sequences, FiniteSets

CONSTANTS
  MaxRemediations,  \* bound: rows of remediation
  MaxPulls,         \* bound: pull requests Patchline opens
  MaxEvents,        \* bound: events of one pull request
  Diffs,            \* diffs, up to their canonical hash
  NoDiff,           \* diff_content of a remediation that has none
  Names,            \* base names of branches
  NameOf,           \* NameOf[d]: eight hex digits of the hash, not the hash
  LastSuffix,       \* branch names end in nothing, -2, ..., -LastSuffix
  Workers,          \* worker processes
  Interference,     \* what may go wrong: see below
  Elsewhere         \* statuses that scans of the pair give the board

\* "github": a call fails, with or without its effect; "web": the process
\* ends at any point; "verification": a verification scan fails; "reopen": a
\* closed pull request is opened again on GitHub; "repository": the repository
\* is disconnected and connected; "manual": the pair is marked as migrated by
\* hand.
Interferences == {"github", "web", "verification", "reopen", "repository",
                  "manual"}

ASSUME DispatchAssumption ==
  /\ MaxRemediations \in Nat /\ MaxPulls \in Nat
  /\ MaxEvents \in Nat \ {0} /\ LastSuffix \in Nat \ {0}
  /\ NoDiff \notin Diffs /\ Diffs \cap {"absent", "base"} = {}
  /\ NameOf \in [Diffs -> Names]
  /\ Interference \subseteq Interferences
  /\ Elsewhere \subseteq {"scanning", "no_hits", "pattern_detected", "scan_failed"}

VARIABLES
  cov,        \* coverage_state.status of the pair
  connected,  \* repository.connection_state = "active"
  rems,       \* remediation, by id
  confirmed,  \* confirmation: remediation and hash of the diff
  rows,       \* pull_request with a number, by that number
  failedRows, \* remediations with a pull_request row in dispatch_failed
  done,       \* webhook_delivery in succeeded: number and event
  verify,     \* scan_job: the latest verification of the pair
  web,        \* the handler under way in the web process
  worker,     \* the remediations each worker has read and not yet generated
  refs,       \* GitHub: what a branch points to
  prs         \* GitHub: the pull requests, each with its events

vars == <<cov, connected, rems, confirmed, rows, failedRows, done, verify,
          web, worker, refs, prs>>
tables == <<connected, confirmed, failedRows, done>>
github == <<refs, prs>>

-----------------------------------------------------------------------------
(* Tables                                                                  *)

Rems == 1..MaxRemediations
Pulls == 1..MaxPulls
Suffixes == 1..LastSuffix
Branches == Names \X Suffixes
NoBranch == << >>

RemStatuses == {"none", "generating", "ready", "generation_failed",
                "dispatch_failed", "dispatched"}
Remediation == [status : RemStatuses, diff : Diffs \cup {NoDiff}]
NoRem == [status |-> "none", diff |-> NoDiff]

RowStates == {"none", "open", "merged", "rejected"}
Row == [state : RowStates, rem : Rems \cup {0}, branch : Branches \cup {NoBranch}]
NoRow == [state |-> "none", rem |-> 0, branch |-> NoBranch]

\* A pull request exists from its first event on.
Events == {"open", "closed", "merged"}
Pull == [rem : Rems \cup {0}, diff : Diffs \cup {NoDiff},
         head : Branches \cup {NoBranch}, log : Seq(Events)]
NoPull == [rem |-> 0, diff |-> NoDiff, head |-> NoBranch, log |-> << >>]
Exists(n) == prs[n].log # << >>
Last(log) == log[Len(log)]
IsOpen(n) == Exists(n) /\ Last(prs[n].log) = "open"

Places == {"idle", "confirm", "gate", "branch", "commit", "propose", "record",
           "fail", "sync", "polled"}
Handler == [at : Places, rem : Rems \cup {0}, diff : Diffs \cup {NoDiff},
            live : SUBSET (Branches \cup {NoBranch}), branch : Branches \cup {NoBranch},
            pull : Pulls \cup {0}, todo : SUBSET Pulls, seen : Events]
Idle == [at |-> "idle", rem |-> 0, diff |-> NoDiff, live |-> {},
         branch |-> NoBranch, pull |-> 0, todo |-> {}, seen |-> "open"]

\* assert_transition: a transaction that asks for another status is rolled
\* back as a whole.
May(to) == cov = to \/ CanTransition(cov, to)

\* _latest_remediation: the highest id.
Latest(r) == /\ rems[r].status # "none"
             /\ \A s \in Rems : s > r => rems[s].status = "none"
\* A plausible mistake: a dispatched remediation can be dispatched again.
DispatchableTwice(r) == rems[r].status \in {"ready", "dispatch_failed", "dispatched"}

Dispatchable(r) == rems[r].status \in {"ready", "dispatch_failed"}

\* A plausible mistake: only an open row keeps its branch.
OpenBranches == {rows[n].branch : n \in {m \in Pulls : rows[m].state = "open"}}

\* `existing' of dispatch_remediation: branches with a row that is not
\* dispatch_failed.  The failed rows name no branch.
LiveBranches == {rows[n].branch : n \in {m \in Pulls : rows[m].state # "none"}}

-----------------------------------------------------------------------------
(* Generation                                                              *)

\* generate_remediation (route): a row for a scan that found something.
RequestRemediation(r) ==
  /\ web.at = "idle" /\ connected
  /\ rems[r].status = "none"
  /\ \A s \in Rems : s < r => rems[s].status # "none"
  /\ rems' = [rems EXCEPT ![r] = [status |-> "generating", diff |-> NoDiff]]
  /\ UNCHANGED <<cov, tables, rows, verify, web, worker, github>>

\* process_pending_remediations reads the oldest five rows of all pairs, which
\* nothing claims, and goes through them one by one without a second look.
Generating == {r \in Rems : rems[r].status = "generating"}
Oldest(n) == {r \in Generating : Cardinality({s \in Generating : s < r}) < n}
Current(w, r) == r \in worker[w] /\ \A s \in worker[w] : r <= s

StartGeneration(w) ==
  /\ worker[w] = {} /\ Generating # {}
  /\ \E n \in 1..5 : worker' = [worker EXCEPT ![w] = Oldest(n)]
  /\ UNCHANGED <<cov, tables, rems, rows, verify, web, github>>

\* The last transaction: it writes whatever the row has become since.
FinishGeneration(w, r, d) ==
  /\ Current(w, r)
  /\ May("remediation_pending")
  /\ rems' = [rems EXCEPT ![r] = [status |-> "ready", diff |-> d]]
  /\ cov' = "remediation_pending"
  /\ worker' = [worker EXCEPT ![w] = @ \ {r}]
  /\ UNCHANGED <<tables, rows, verify, web, github>>

\* No occurrences, an error of the engine or of GitHub, a malformed diff, or
\* one that does not apply or parse: the board is left alone.
FailGeneration(w, r) ==
  /\ Current(w, r)
  /\ rems' = [rems EXCEPT ![r].status = "generation_failed"]
  /\ worker' = [worker EXCEPT ![w] = @ \ {r}]
  /\ UNCHANGED <<cov, tables, rows, verify, web, github>>

\* The board refuses a result, of this pair or of another one whose rows come in
\* between, or the worker ends: the pass is over and the rows stay.
DropGeneration(w) ==
  /\ worker[w] # {}
  /\ worker' = [worker EXCEPT ![w] = {}]
  /\ UNCHANGED <<cov, tables, rems, rows, verify, web, github>>

-----------------------------------------------------------------------------
(* Approval and dispatch                                                   *)

\* Bounds: a dispatch begins while a name and a number are left for it.
Room == /\ \E n \in Pulls : ~Exists(n)
        /\ \A d \in Diffs : \E k \in Suffixes : refs[<<NameOf[d], k>>] = "absent"

\* approve_and_dispatch, its first transaction.
ReadForApproval(r) ==
  /\ web.at = "idle" /\ Room
  /\ Latest(r) /\ Dispatchable(r)
  /\ web' = [web EXCEPT !.at = "confirm", !.rem = r]
  /\ UNCHANGED <<cov, tables, rems, rows, verify, worker, github>>

\* record_confirmation, of the diff the row has by now.
RecordConfirmation ==
  /\ web.at = "confirm"
  /\ confirmed' = confirmed \cup {<<web.rem, rems[web.rem].diff>>}
  /\ web' = [web EXCEPT !.at = "gate"]
  /\ UNCHANGED <<cov, connected, rems, rows, failedRows, done, verify, worker, github>>

\* A plausible mistake: the gate compares the remediation and not the hash.
ConfirmedOnce(r) == \E d \in Diffs : <<r, d>> \in confirmed

ConfirmationMatches(r) == <<r, rems[r].diff>> \in confirmed

\* The gate of dispatch_remediation, and what is read with it.
PassGate ==
  /\ web.at = "gate"
  /\ Dispatchable(web.rem) /\ ConfirmationMatches(web.rem) /\ connected
  /\ web' = [web EXCEPT !.at = "branch", !.diff = rems[web.rem].diff,
                        !.live = LiveBranches]
  /\ UNCHANGED <<cov, tables, rems, rows, verify, worker, github>>

StopAtGate ==
  /\ web.at = "gate"
  /\ ~(Dispatchable(web.rem) /\ ConfirmationMatches(web.rem) /\ connected)
  /\ web' = Idle
  /\ UNCHANGED <<cov, tables, rems, rows, verify, worker, github>>

\* Where the handler is after a call to GitHub that has had its effect: the
\* transport repeats a call whose answer is lost, and the repeated call finds
\* the effect there and is an error.
After(place) == {place} \cup (IF "github" \in Interference THEN {"fail"} ELSE {})

\* choose_branch: the first name that is free, or on the way there one whose
\* commit compares equal and that no live row names.  GitHub renders the diff
\* in its own way and may not answer, so an equal branch can be passed over.
Reachable(k) == \A j \in Suffixes : j < k => refs[<<NameOf[web.diff], j>>] # "absent"
Fresh(b) == refs[b] = "absent"
\* A plausible mistake: the commit of an existing branch is not compared.
ReusableUnseen(b) == refs[b] # "absent" /\ b \notin web.live

Reusable(b) == refs[b] = web.diff /\ b \notin web.live

\* create_ref, at the head of the default branch.
CreateBranch(k) ==
  LET b == <<NameOf[web.diff], k>> IN
  /\ web.at = "branch"
  /\ Reachable(k) /\ Fresh(b)
  /\ refs' = [refs EXCEPT ![b] = "base"]
  /\ \E place \in After("commit") :
       web' = [web EXCEPT !.at = place, !.branch = b]
  /\ UNCHANGED <<cov, tables, rems, rows, verify, worker, prs>>

ReuseBranch(k) ==
  LET b == <<NameOf[web.diff], k>> IN
  /\ web.at = "branch"
  /\ Reachable(k) /\ Reusable(b)
  /\ web' = [web EXCEPT !.at = "propose", !.branch = b]
  /\ UNCHANGED <<cov, tables, rems, rows, verify, worker, github>>

\* Blobs, tree and commit reach the branch with the update of its ref.
Commit ==
  /\ web.at = "commit"
  /\ refs' = [refs EXCEPT ![web.branch] = web.diff]
  /\ \E place \in After("propose") : web' = [web EXCEPT !.at = place]
  /\ UNCHANGED <<cov, tables, rems, rows, verify, worker, prs>>

\* GitHub refuses a second open pull request of one branch.
HeadIsTaken(b) == \E n \in Pulls : IsOpen(n) /\ prs[n].head = b

OpenPull(n) ==
  /\ web.at = "propose"
  /\ ~HeadIsTaken(web.branch)
  /\ ~Exists(n) /\ \A m \in Pulls : m < n => Exists(m)
  /\ prs' = [prs EXCEPT ![n] = [rem |-> web.rem, diff |-> refs[web.branch],
                                head |-> web.branch, log |-> <<"open">>]]
  /\ \E place \in After("record") :
       web' = [web EXCEPT !.at = place, !.pull = n]
  /\ UNCHANGED <<cov, tables, rems, rows, verify, worker, refs>>

\* A call that fails without an effect; the diff may also fail to apply to
\* the head of the default branch.
GitHubFails ==
  /\ \/ web.at \in {"branch", "commit", "propose"} /\ "github" \in Interference
     \/ web.at = "propose" /\ HeadIsTaken(web.branch)
  /\ web' = [web EXCEPT !.at = "fail"]
  /\ UNCHANGED <<cov, tables, rems, rows, verify, worker, github>>

\* The last transaction of a dispatch, rolled back if the board refuses it.
RecordPull ==
  /\ web.at = "record" /\ May("pr_open")
  /\ rems' = [rems EXCEPT ![web.rem].status = "dispatched"]
  /\ rows' = [rows EXCEPT ![web.pull] =
                [state |-> "open", rem |-> web.rem, branch |-> web.branch]]
  /\ cov' = "pr_open"
  /\ web' = Idle
  /\ UNCHANGED <<tables, verify, worker, github>>

\* _mark_dispatch_failed, one failed row per remediation.
MarkDispatchFailed ==
  /\ web.at = "fail" /\ May("dispatch_failed")
  /\ rems' = [rems EXCEPT ![web.rem].status = "dispatch_failed"]
  /\ failedRows' = failedRows \cup {web.rem}
  /\ cov' = "dispatch_failed"
  /\ web' = Idle
  /\ UNCHANGED <<connected, confirmed, rows, done, verify, worker, github>>

RecordRefused ==
  /\ \/ web.at = "record" /\ ~May("pr_open")
     \/ web.at = "fail" /\ ~May("dispatch_failed")
  /\ web' = Idle
  /\ UNCHANGED <<cov, tables, rems, rows, verify, worker, github>>

WebCrash ==
  /\ "web" \in Interference /\ web.at # "idle"
  /\ web' = Idle
  /\ UNCHANGED <<cov, tables, rems, rows, verify, worker, github>>

-----------------------------------------------------------------------------
(* What becomes of a pull request                                          *)

\* enqueue_verification: nothing if one is queued or running,
\* which verify = "queued" stands for; a new one otherwise.
EnqueueVerification == verify' = "queued"

Merged(n) ==
  /\ rows' = [rows EXCEPT ![n].state = "merged"]
  /\ EnqueueVerification
  /\ UNCHANGED cov

\* A plausible mistake: the state of the row is the word GitHub uses.
RejectedAsClosed(n) ==
  /\ May("pr_rejected")
  /\ rows' = [rows EXCEPT ![n] = [@ EXCEPT !.state = "closed"]]
  /\ cov' = "pr_rejected"
  /\ UNCHANGED verify

\* A plausible mistake: the row is rejected and the board is not told.
RejectedQuietly(n) ==
  /\ rows' = [rows EXCEPT ![n].state = "rejected"]
  /\ UNCHANGED <<cov, verify>>

\* A plausible mistake: `closed' is taken for `merged'.
RejectedAsMerged(n) == Merged(n)

Rejected(n) ==
  /\ May("pr_rejected")
  /\ rows' = [rows EXCEPT ![n].state = "rejected"]
  /\ cov' = "pr_rejected"
  /\ UNCHANGED verify

Reopened(n) ==
  /\ rows' = [rows EXCEPT ![n].state = "open"]
  /\ UNCHANGED <<cov, verify>>

\* _PullRequestHandler.apply; a pull request without a row is not ours.
Apply(n, event) ==
  \/ /\ rows[n].state = "none"
     /\ UNCHANGED <<cov, rows, verify>>
  \/ /\ rows[n].state # "none"
     /\ \/ event = "merged" /\ Merged(n)
        \/ event = "closed" /\ Rejected(n)
        \/ event = "open" /\ Reopened(n)

\* process_webhook.  Events come in any order, or never; GitHub sends again
\* what failed, and what has succeeded is skipped.
Deliver(n, i) ==
  /\ web.at = "idle"
  /\ i <= Len(prs[n].log) /\ <<n, i>> \notin done
  /\ Apply(n, prs[n].log[i])
  /\ done' = done \cup {<<n, i>>}
  /\ UNCHANGED <<connected, rems, confirmed, failedRows, web, worker, github>>

\* A plausible mistake: the sync looks for the rows that are settled.
SettledRows == {n \in Pulls : rows[n].state \notin {"none", "open"}}

\* sync_pull_requests: the open rows, then for each a call and a transaction.
OpenRows == {n \in Pulls : rows[n].state = "open"}

StartSync ==
  /\ web.at = "idle" /\ OpenRows # {}
  /\ web' = [web EXCEPT !.at = "sync", !.todo = OpenRows]
  /\ UNCHANGED <<cov, tables, rems, rows, verify, worker, github>>

\* The answer for the next row, or none: the row is passed over.
Poll(n) ==
  /\ web.at = "sync" /\ n \in web.todo /\ \A m \in web.todo : n <= m
  /\ \/ web' = [web EXCEPT !.at = "polled", !.pull = n, !.todo = @ \ {n},
                           !.seen = Last(prs[n].log)]
     \/ "github" \in Interference /\ web' = [web EXCEPT !.todo = @ \ {n}]
  /\ UNCHANGED <<cov, tables, rems, rows, verify, worker, github>>

\* No other handler has run since the rows were read: the row is still open.
SyncRow ==
  /\ web.at = "polled"
  /\ \/ web.seen = "merged" /\ Merged(web.pull)
     \/ web.seen = "closed" /\ Rejected(web.pull)
     \/ web.seen = "open" /\ UNCHANGED <<cov, rows, verify>>
  /\ web' = [Idle EXCEPT !.at = "sync", !.todo = web.todo]
  /\ UNCHANGED <<tables, rems, worker, github>>

\* A refused rejection ends the request, with the rows that come after it.
SyncRefused ==
  /\ web.at = "polled" /\ web.seen = "closed" /\ ~May("pr_rejected")
  /\ web' = Idle
  /\ UNCHANGED <<cov, tables, rems, rows, verify, worker, github>>

\* So does that of a row of another pair, which may come before any of ours.
SyncStarved ==
  /\ web.at = "sync" /\ web.todo # {}
  /\ web' = Idle
  /\ UNCHANGED <<cov, tables, rems, rows, verify, worker, github>>

SyncEnds ==
  /\ web.at = "sync" /\ web.todo = {}
  /\ web' = Idle
  /\ UNCHANGED <<cov, tables, rems, rows, verify, worker, github>>

-----------------------------------------------------------------------------
(* The verification, the board and the repository                          *)

\* The last transaction of a verification scan.  One the board refuses is
\* rolled back and leaves the job pending (module ScanQueue).
FinishVerification(to) ==
  /\ verify = "queued" /\ to \in {"migrated", "migration_incomplete"}
  /\ May(to)
  /\ cov' = to
  /\ verify' = "done"
  /\ UNCHANGED <<tables, rems, rows, web, worker, github>>

FailVerification ==
  /\ verify = "queued" /\ "verification" \in Interference
  /\ verify' = "failed"
  /\ UNCHANGED <<cov, tables, rems, rows, web, worker, github>>

\* retry_job
RetryVerification ==
  /\ verify = "failed" /\ web.at = "idle"
  /\ verify' = "queued"
  /\ UNCHANGED <<cov, tables, rems, rows, web, worker, github>>

\* The scans of the pair, which module ScanQueue models.
MoveBoard(to) ==
  /\ to \in Elsewhere /\ CanTransition(cov, to)
  /\ cov' = to
  /\ UNCHANGED <<tables, rems, rows, verify, web, worker, github>>

MarkMigrated ==
  /\ "manual" \in Interference /\ web.at = "idle" /\ May("migrated")
  /\ cov' = "migrated"
  /\ UNCHANGED <<tables, rems, rows, verify, web, worker, github>>

\* Installation webhooks and re-check (module ScanQueue).
Reconnect ==
  /\ "repository" \in Interference /\ web.at = "idle"
  /\ connected' = ~connected
  /\ UNCHANGED <<cov, rems, confirmed, rows, failedRows, done, verify, web,
                 worker, github>>

\* The users of GitHub.  A merge is final; a push to an open pull request is
\* the event `synchronize', which the code treats like `reopened'.
Happens(n, event) ==
  /\ Len(prs[n].log) < MaxEvents
  /\ prs' = [prs EXCEPT ![n].log = Append(@, event)]
  /\ UNCHANGED <<cov, tables, rems, rows, verify, web, worker, refs>>

MergePull(n) == IsOpen(n) /\ Happens(n, "merged")
ClosePull(n) == IsOpen(n) /\ Happens(n, "closed")
PushToPull(n) == IsOpen(n) /\ Happens(n, "open")
ReopenPull(n) ==
  /\ "reopen" \in Interference
  /\ Exists(n) /\ Last(prs[n].log) = "closed" /\ ~HeadIsTaken(prs[n].head)
  /\ Happens(n, "open")

-----------------------------------------------------------------------------
(* Behaviours                                                              *)

Init ==
  /\ cov = "pattern_detected" /\ connected = TRUE
  /\ rems = [r \in Rems |-> NoRem]
  /\ confirmed = {} /\ failedRows = {} /\ done = {}
  /\ rows = [n \in Pulls |-> NoRow]
  /\ verify = "none"
  /\ web = Idle
  /\ worker = [w \in Workers |-> {}]
  /\ refs = [b \in Branches |-> "absent"]
  /\ prs = [n \in Pulls |-> NoPull]

Generation ==
  \/ \E r \in Rems : RequestRemediation(r)
  \/ \E w \in Workers : StartGeneration(w) \/ DropGeneration(w)
  \/ \E w \in Workers, r \in Rems :
       FailGeneration(w, r) \/ \E d \in Diffs : FinishGeneration(w, r, d)

Approval ==
  \/ \E r \in Rems : ReadForApproval(r)
  \/ RecordConfirmation \/ PassGate \/ StopAtGate

Dispatching ==
  \/ \E k \in Suffixes : CreateBranch(k) \/ ReuseBranch(k)
  \/ Commit \/ GitHubFails
  \/ \E n \in Pulls : OpenPull(n)
  \/ RecordPull \/ MarkDispatchFailed \/ RecordRefused

Tracking ==
  \/ \E n \in Pulls, i \in 1..MaxEvents : Deliver(n, i)
  \/ StartSync \/ SyncRow \/ SyncRefused \/ SyncStarved \/ SyncEnds
  \/ \E n \in Pulls : Poll(n)

Verification ==
  \/ \E to \in Statuses : FinishVerification(to) \/ MoveBoard(to)
  \/ FailVerification \/ RetryVerification \/ MarkMigrated

Environment ==
  \/ WebCrash \/ Reconnect
  \/ \E n \in Pulls :
       MergePull(n) \/ ClosePull(n) \/ PushToPull(n) \/ ReopenPull(n)

Next == Generation \/ Approval \/ Dispatching \/ Tracking \/ Verification \/ Environment

Spec == Init /\ [][Next]_vars

\* A handler that is interrupted for ever is excluded, one that is interrupted
\* now and then is not; the vendor comes back to the button of the sync, GitHub
\* answers, and workers run the queue.  Nothing forces a webhook to arrive.
FairSpec ==
  /\ Spec
  /\ SF_vars(RecordConfirmation) /\ SF_vars(PassGate \/ StopAtGate)
  /\ SF_vars(Dispatching)
  /\ SF_vars(StartSync) /\ SF_vars(SyncStarved \/ \E n \in Pulls : Poll(n))
  /\ SF_vars(SyncRow \/ SyncRefused) /\ SF_vars(SyncEnds)
  /\ WF_vars(\E to \in Statuses : FinishVerification(to))

-----------------------------------------------------------------------------
(* Properties                                                              *)

\* Every variable holds a value of its type.
TypeOK ==
  /\ cov \in Statuses /\ connected \in BOOLEAN
  /\ rems \in [Rems -> Remediation]
  /\ confirmed \subseteq Rems \X (Diffs \cup {NoDiff})
  /\ rows \in [Pulls -> Row] /\ failedRows \subseteq Rems
  /\ done \subseteq Pulls \X (1..MaxEvents)
  /\ verify \in {"none", "queued", "done", "failed"}
  /\ web \in Handler
  /\ worker \in [Workers -> SUBSET Rems]
  /\ refs \in [Branches -> Diffs \cup {"absent", "base"}]
  /\ prs \in [Pulls -> Pull]

\* What Patchline puts on GitHub, a pull request or a commit on a branch, is a
\* diff that somebody has approved, and a pull request carries the one approved
\* for its own remediation: whatever regenerates the diff between the click
\* and the gate or during the calls, and whichever branch is used again.
OnlyConfirmedDiffs ==
  /\ \A n \in Pulls : Exists(n) => <<prs[n].rem, prs[n].diff>> \in confirmed
  /\ \A b \in Branches : refs[b] \in Diffs =>
       \E r \in Rems : <<r, refs[b]>> \in confirmed

\* A row names a pull request that was opened for its remediation from its
\* branch; it is merged only if GitHub has merged it, and rejected only if
\* GitHub has closed it, however late or often its events arrive.
RowsMatchGitHub ==
  \A n \in Pulls : rows[n].state # "none" =>
    /\ Exists(n) /\ prs[n].rem = rows[n].rem /\ prs[n].head = rows[n].branch
    /\ rows[n].state = "merged" => Last(prs[n].log) = "merged"
    /\ rows[n].state = "rejected" =>
         \E i \in 1..Len(prs[n].log) : prs[n].log[i] = "closed"

\* The board shows an open pull request only while one is recorded that is
\* open or merged.
PrOpenHasLivePull ==
  cov = "pr_open" => \E n \in Pulls : rows[n].state \in {"open", "merged"}

\* The branch of a recorded pull request is not proposed a second time.
LiveBranchNotReused ==
  \A m, n \in Pulls :
    rows[m].state # "none" /\ rows[n].state # "none"
      /\ rows[m].branch = rows[n].branch => m = n

\* A verification is asked for only when GitHub has merged a pull request that
\* carries an approved diff.
VerifiesOnlyMerges ==
  verify # "none" =>
    \E n \in Pulls : rows[n].state # "none" /\ Last(prs[n].log) = "merged"

\* With one worker, a remediation has at most one recorded pull request.
OnePullPerRemediation ==
  \A m, n \in Pulls :
    rows[m].state # "none" /\ rows[n].state # "none"
      /\ rows[m].rem = rows[n].rem => m = n

\* Every step of the program is a step of the life of a change, or none.
Change == INSTANCE ChangeLifecycle WITH
  Changes <- Rems \X (Diffs \cup {NoDiff}),
  Numbers <- Pulls,
  approved <- confirmed,
  published <- [n \in Pulls |->
                  IF Exists(n) THEN {<<prs[n].rem, prs[n].diff>>} ELSE {}],
  merged <- {n \in Pulls : Exists(n) /\ Last(prs[n].log) = "merged"},
  tracked <- {n \in Pulls : rows[n].state # "none"},
  asked <- verify # "none"

ImplementsChange == Change!Spec

\* The board does not go on showing an open pull request when the recorded one
\* is merged: it comes to migrated or to an incomplete migration, though the
\* webhook may be lost, late or followed by an older one, and the web process
\* may end at any point; provided the rejections of other pairs' rows are not
\* refused for ever, because one that is ends every sync (pr_sync.py:59).
OthersAreAccepted == <>[][~SyncStarved]_vars

MergedIsVerified ==
  OthersAreAccepted =>
    \A n \in Pulls :
      (cov = "pr_open" /\ rows[n].state # "none" /\ Last(prs[n].log) = "merged")
        ~> cov \in {"migrated", "migration_incomplete"}

\* What webhook_handlers.py and pr_sync.py say of a merge: coverage stays
\* pr_open until the result of the verification lands.
PrOpenUntilVerified ==
  (verify = "queued" /\ \E n \in Pulls : rows[n].state = "merged")
    => cov = "pr_open"
=============================================================================
