----------------------------- MODULE ScanQueue ------------------------------
(***************************************************************************)
(* The scan-job queue and the processes that use it: the web process that  *)
(* enqueues, retries and reacts to installation webhooks, the workers that *)
(* claim and execute jobs and write their result to the coverage board,    *)
(* and the rescan scheduler of each worker.  Source: core/jobs.py,         *)
(* core/scanning.py, core/derivation.py, worker.py, and the handlers that  *)
(* call them.                                                              *)
(*                                                                         *)
(* sqlite3 opens a transaction at the first write, so what a handler reads *)
(* before it is not protected from the other process.  One action is one   *)
(* transaction from its first write to its commit; where a handler reads   *)
(* something first that another process may change (the claim, the requeue *)
(* at startup, the scan trigger, mark-migrated, the periodic rescan), the  *)
(* read is an action of its own, and so is every look of the scan trigger, *)
(* which may look at many rows before it writes one.  The handlers of the  *)
(* web process are coroutines that do not await in between, so they never  *)
(* interleave with each other.  A transaction that raises is rolled back   *)
(* and leaves no trace: in the web process that is mostly the absence of a *)
(* step, in a worker it is a step, because the worker goes on with its     *)
(* loop.                                                                   *)
(***************************************************************************)
EXTENDS Coverage, Naturals, FiniteSets, Functions

CONSTANTS
  Entries,        \* changelog entries
  Repos,          \* customer repositories
  Branches,       \* branch names
  DefaultBranch,  \* the default branch of every repository
  BranchLists,    \* the scan_branches values a vendor may save
  Matching,       \* the (entry, repository) pairs of one language
  Workers,        \* worker processes on the database
  Faults,         \* the faults that may happen: "crash", "busy"
  Overlaps,       \* what may overlap: "scans" a scan outlasts the stale-claim
                  \* limit of 15 minutes, "starts" two workers start at once
  MaxJobs         \* bound on the rows of the scan_job table

Pairs == Entries \X Repos

ASSUME ScanQueueAssumption ==
  /\ DefaultBranch \in Branches
  /\ BranchLists \subseteq SUBSET Branches
  /\ Matching \subseteq Pairs
  /\ Faults \subseteq {"crash", "busy"}
  /\ Overlaps \subseteq {"scans", "starts"}
  /\ MaxJobs \in Nat

VARIABLES
  entry,       \* [Entries -> status], the changelog_entry table
  derived,     \* the entries with a row in derived_pattern
  conn,        \* [Repos -> connection state], the repository table
  branches,    \* [Repos -> scan_branches], {} when the column is not set
  cov,         \* [Pairs -> BoardRow], the coverage_state table
  jobs,        \* [JobIds -> row or Absent], the scan_job table
  generating,  \* the pairs with a remediation to be generated
  web,         \* what the web process has read and not yet written
  worker,      \* [Workers -> where its main loop is, and with what]
  plan,        \* [Workers -> the pairs its scheduler thread will rescan]
  lastWord,    \* [Pairs -> what was said of the pair last: the result of a
               \* committed scan, or "byHand" by mark-migrated]
  dispatched   \* the pairs with a row in pull_request

setup == <<entry, derived, conn, branches>>

vars ==
  <<entry, derived, conn, branches, cov, jobs, generating, web, worker, plan,
    lastWord, dispatched>>

-----------------------------------------------------------------------------
\* Rows of scan_job

JobIds == 1..MaxJobs

PRIORITY_USER == 10
PRIORITY_RESCAN == 0

\* due: next_attempt_at is NULL or past.  stale: running, with claimed_at
\* older than STALE_CLAIM_MINUTES.  found: occurrences_count > 0.
Job == [pair : Pairs, branch : Branches, priority : 0..PRIORITY_USER,
        purpose : {"scan", "manual_rescan", "verification", "rescan"},
        status : {"queued", "running", "done", "failed", "skipped_language"},
        due : BOOLEAN, stale : BOOLEAN, found : BOOLEAN]

\* An id that is not used yet.
Absent == [status |-> "absent"]

NewJob(p, b, prio) ==
  [pair |-> p, branch |-> b, priority |-> prio, purpose |-> "scan",
   status |-> "queued", due |-> TRUE, stale |-> FALSE, found |-> FALSE]

Rows == {j \in JobIds : jobs[j] # Absent}
Pending(j) == jobs[j].status \in {"queued", "running"}
PendingJobs(p) == {j \in Rows : jobs[j].pair = p /\ Pending(j)}

\* The n lowest unused ids.
NextIds(n) ==
  {j \in JobIds : /\ jobs[j] = Absent
                  /\ Cardinality({i \in 1..j : jobs[i] = Absent}) <= n}

\* The ways to number a set of new rows: queries give repositories no order,
\* but within a repository the default branch comes first.
Numberings(rows) ==
  {at \in Bijection(NextIds(Cardinality(rows)), rows) :
     \A i, k \in DOMAIN at :
       (/\ at[i].pair = at[k].pair
        /\ at[k].branch = DefaultBranch
        /\ i < k) => at[i].branch = DefaultBranch}

Inserted(at) == [j \in JobIds |-> IF j \in DOMAIN at THEN at[j] ELSE jobs[j]]
Insert(row) == \E at \in Numberings({row}) : jobs' = Inserted(at)

-----------------------------------------------------------------------------
\* Enqueueing

Configured(r) == IF branches[r] = {} THEN {DefaultBranch} ELSE branches[r]

\* Mutant of BranchPriority: the default branch is boosted above the range.
BranchPriorityBoosted(b) ==
  IF b = DefaultBranch THEN PRIORITY_USER + 1 ELSE PRIORITY_USER

BranchPriority(b) ==
  IF b = DefaultBranch THEN PRIORITY_USER ELSE PRIORITY_USER - 1

\* The row enqueue_scans_for_entry creates for one branch of one pair.
ScanRow(p, b) ==
  [NewJob(p, b, BranchPriority(b)) EXCEPT
     !.status = IF p \in Matching THEN "queued" ELSE "skipped_language"]

\* Mutant of PendingBranches: a pending job of a pair stands for all its branches.
PendingOnAnyBranch(p) == {b \in Branches : PendingJobs(p) # {}}

\* The branches of a pair with a pending job, of whatever purpose.
PendingBranches(p) == {jobs[j].branch : j \in PendingJobs(p)}

\* ... and those it creates for the pairs T, but for the branches passed over.
ScanRows(T, over) ==
  {ScanRow(q[1], q[2]) : q \in
     {q \in T \X Branches :
        /\ q[2] \in Configured(q[1][2])
        /\ q \notin over
        /\ q[2] \notin PendingBranches(q[1])}}

ScanStatus(p) == IF p \in Matching THEN "scanning" ELSE "skipped_language"

\* One row of the board that refuses its transition aborts the transaction.
Refused(T) == \E p \in T : ~Accepts(cov[p], ScanStatus(p))

\* What enqueue_scans_for_entry writes for the pairs T: rows and board.
EnqueueScans(T, rows) ==
  /\ \E at \in Numberings(rows) : jobs' = Inserted(at)
  /\ cov' = [p \in Pairs |->
               IF p \in T THEN Moved(cov[p], ScanStatus(p)) ELSE cov[p]]

\* POST /entries/{e}/scan.  Only an inserted row or a moved status begins the
\* transaction.  Until then every look is a query of its own: seen, the branches
\* that had a pending job; past, the pairs whose branches were all seen pending
\* and whose board was where it should be, which the request does not come back to.
Free == [at |-> "free"]
Targets(e) == {p \in Pairs : p[1] = e /\ conn[p[2]] = "active"}

ReadForScan(e) ==
  /\ web = Free
  /\ entry[e] = "ready"
  /\ web' = [at |-> "scan", entry |-> e, seen |-> {}, past |-> {}]
  /\ UNCHANGED <<setup, cov, jobs, generating, worker,
                 plan, lastWord, dispatched>>

\* One repository after the other, the default branch first.
LooksAt(p) ==
  /\ web.at = "scan"
  /\ p \in Targets(web.entry) \ web.past
  /\ \A q \in web.seen : q[1] \in web.past \cup {p}

Unseen(p) == {b \in Configured(p[2]) : <<p, b>> \notin web.seen}

\* The transaction begins: with the row of a branch that had no pending job, or
\* with the board row of a pair that accepted the transition.
Writes(fresh, moved) ==
  [at |-> "write", entry |-> web.entry, seen |-> web.seen, past |-> web.past,
   fresh |-> fresh, moved |-> moved]

LookForPending(p, b) ==
  /\ LooksAt(p)
  /\ b \in Unseen(p)
  /\ DefaultBranch \in Unseen(p) => b = DefaultBranch
  /\ web' = IF b \in PendingBranches(p)
              THEN [web EXCEPT !.seen = @ \cup {<<p, b>>}]
              ELSE Writes({<<p, b>>}, {})
  /\ UNCHANGED <<setup, cov, jobs, generating, worker,
                 plan, lastWord, dispatched>>

LookAtBoard(p) ==
  /\ LooksAt(p)
  /\ Unseen(p) = {}
  /\ web' = CASE cov[p].status = ScanStatus(p) -> [web EXCEPT !.past = @ \cup {p}]
              [] CanTransition(cov[p].status, ScanStatus(p)) -> Writes({}, {p})
              [] OTHER -> Free
  /\ UNCHANGED <<setup, cov, jobs, generating, worker,
                 plan, lastWord, dispatched>>

NothingToWrite ==
  /\ web.at = "scan"
  /\ Targets(web.entry) \subseteq web.past
  /\ web' = Free
  /\ UNCHANGED <<setup, cov, jobs, generating, worker,
                 plan, lastWord, dispatched>>

\* The transaction, for the pairs not past.  The first write follows the look
\* before it, whatever has happened since; the later looks are up to date.
ToScan == Targets(web.entry) \ web.past

TriggerRows ==
  {ScanRow(q[1], q[2]) : q \in web.fresh} \cup ScanRows(ToScan, web.seen)

TriggerRefused == Refused(ToScan \ web.moved)

ScanTrigger ==
  /\ web.at = "write"
  /\ web' = Free
  /\ \/ ~TriggerRefused /\ EnqueueScans(ToScan, TriggerRows)
     \/ TriggerRefused /\ UNCHANGED <<cov, jobs>>
  /\ UNCHANGED <<setup, generating, worker, plan, lastWord, dispatched>>

\* Bound: a request whose rows do not fit into the table is not followed.
Fits(rows) == Cardinality(rows) + Cardinality(Rows) <= MaxJobs

ScanBeyondBound ==
  /\ web.at = "write"
  /\ ~TriggerRefused
  /\ ~Fits(TriggerRows)
  /\ web' = Free
  /\ UNCHANGED <<setup, cov, jobs, generating, worker,
                 plan, lastWord, dispatched>>

\* POST /entries/{e}/repos/{r}/rescan: no look at the entry's status, at its
\* language or at the jobs already pending.
RescanRepo(p) ==
  /\ web = Free
  /\ conn[p[2]] = "active"
  /\ Accepts(cov[p], "scanning")
  /\ Insert(NewJob(p, DefaultBranch, PRIORITY_USER))
  /\ cov' = [cov EXCEPT ![p] = Moved(@, "scanning")]
  /\ UNCHANGED <<setup, generating, web, worker, plan, lastWord, dispatched>>

\* POST /jobs/{j}/retry: the board is not moved.
\* Mutant of Retryable: a job that seems stuck may be retried too.
RetryableRunning(j) ==
  jobs[j].status \in {"failed", "skipped_language", "running"}

Retryable(j) == jobs[j].status \in {"failed", "skipped_language"}

RetryJob(j) ==
  /\ web = Free
  /\ Retryable(j)
  /\ jobs' = [jobs EXCEPT ![j].status = "queued", ![j].due = TRUE,
                          ![j].stale = FALSE]
  /\ UNCHANGED <<setup, cov, generating, web, worker,
                 plan, lastWord, dispatched>>

\* POST /repositories/{r}/branches.
ConfigureBranches(r, list) ==
  /\ web = Free
  /\ conn[r] = "active"
  /\ branches' = [branches EXCEPT ![r] = list]
  /\ UNCHANGED <<entry, derived, conn, cov, jobs, generating, web, worker,
                 plan, lastWord, dispatched>>

\* The webhooks installation (created) and installation_repositories (added):
\* the repositories R become active (none, when a new installation lists no
\* repository) and every ready entry is enqueued for all
\* active repositories without a pending job of that entry.
RepositoriesAdded(R) ==
  /\ web = Free
  /\ conn' = [r \in Repos |-> IF r \in R THEN "active" ELSE conn[r]]
  /\ LET T == {p \in Pairs : /\ entry[p[1]] = "ready"
                             /\ conn'[p[2]] = "active"
                             /\ PendingJobs(p) = {}}
     IN  ~Refused(T) /\ EnqueueScans(T, ScanRows(T, {}))
  /\ UNCHANGED <<entry, derived, branches, generating, web, worker,
                 plan, lastWord, dispatched>>

\* recheck_installations: the repositories GitHub lists become active, those of
\* a vanished installation removed; nothing is enqueued.  With nothing listed
\* this is also the webhook installation_repositories (removed).
Recheck(listed, gone) ==
  /\ web = Free
  /\ listed \cap gone = {}
  /\ \A r \in gone : conn[r] # "absent"
  /\ conn' = [r \in Repos |-> CASE r \in listed -> "active"
                               [] r \in gone -> "removed"
                               [] OTHER -> conn[r]]
  /\ UNCHANGED <<entry, derived, branches, cov, jobs, generating, web, worker,
                 plan, lastWord, dispatched>>

\* enqueue_periodic_rescans, by the scheduler thread of a running worker: what
\* it reads before its first insert.  (A pair whose job ends between the two is
\* taken up by the next survey.)
SurveyRescans(w) ==
  /\ worker[w].at \notin {"down", "starting"}
  /\ plan[w] = {}
  /\ plan' = [plan EXCEPT ![w] =
                {p \in Pairs : /\ cov[p].status \in {"migrated", "no_hits"}
                               /\ conn[p[2]] = "active"
                               /\ entry[p[1]] = "ready"
                               /\ PendingJobs(p) = {}}]
  /\ UNCHANGED <<setup, cov, jobs, generating, web,
                 worker, lastWord, dispatched>>

\* ... and what it writes: from the first insert on, the looks for pending jobs
\* are up to date.  The rows keep the column's default purpose, and the board
\* is not moved.
RescanRow(p) == NewJob(p, DefaultBranch, PRIORITY_RESCAN)

InsertRescans(w) ==
  /\ \E first \in plan[w] :
       \E at \in Numberings({RescanRow(p) : p \in
                  {first} \cup {q \in plan[w] : PendingJobs(q) = {}}}) :
         jobs' = Inserted(at)
  /\ plan' = [plan EXCEPT ![w] = {}]
  /\ UNCHANGED <<setup, cov, generating, web, worker, lastWord, dispatched>>

-----------------------------------------------------------------------------
\* The rest of the system, as far as the queue can tell

\* Dispatch and pull-request events move a pair through these.
ChangeStatuses == {"pr_open", "dispatch_failed", "pr_rejected"}

ChangeStep(p, to) ==
  /\ to \in ChangeStatuses
  /\ web = Free
  /\ CanTransition(cov[p].status, to)
  /\ cov' = [cov EXCEPT ![p] = Moved(@, to)]
  /\ dispatched' = IF to = "pr_open" THEN dispatched \cup {p} ELSE dispatched
  /\ UNCHANGED <<setup, jobs, generating, web, worker, plan, lastWord>>

\* POST /entries/{e}/repos/{r}/mark-migrated: the row is read and validated,
\* then the status is written, whatever the row has become.  The flag is written
\* with it unless the row that was read had it already.
\* Mutant of MarkedManually: the flag is forgotten.
MarkedWithoutFlag(row, flag) == [row EXCEPT !.status = "migrated"]

MarkedManually(row, flag) ==
  [row EXCEPT !.status = "migrated", !.manual = flag => @]

ReadForMark(p) ==
  /\ web = Free
  /\ CanTransition(cov[p].status, "migrated")
  /\ web' = [at |-> "mark", pair |-> p, flag |-> cov[p].manual]
  /\ UNCHANGED <<setup, cov, jobs, generating, worker,
                 plan, lastWord, dispatched>>

MarkMigrated ==
  /\ web.at = "mark"
  /\ web' = Free
  /\ cov' = [cov EXCEPT ![web.pair] = MarkedManually(@, web.flag)]
  /\ lastWord' = [lastWord EXCEPT ![web.pair] = "byHand"]
  /\ UNCHANGED <<setup, jobs, generating, worker, plan, dispatched>>

\* enqueue_verification, when a pull request of the pair is seen merged.
EnqueueVerification(p) ==
  /\ web = Free
  /\ p \in dispatched
  /\ ~\E j \in PendingJobs(p) : jobs[j].purpose = "verification"
  /\ Insert([NewJob(p, DefaultBranch, PRIORITY_USER) EXCEPT
               !.purpose = "verification", !.due = FALSE])
  /\ UNCHANGED <<setup, cov, generating, web, worker,
                 plan, lastWord, dispatched>>

\* POST /entries/{e}/repos/{r}/generate: the last finished job of the pair on the
\* default branch found something.  The status of the board is not looked at.
\* (Bound: one remediation of a pair is generated at a time.)
FinishedJobs(p) ==
  {j \in Rows : /\ jobs[j].pair = p
                /\ jobs[j].branch = DefaultBranch
                /\ jobs[j].status = "done"}

RequestRemediation(p) ==
  /\ web = Free
  /\ conn[p[2]] = "active"
  /\ \E j \in FinishedJobs(p) : /\ jobs[j].found
                               /\ \A i \in FinishedJobs(p) : i <= j
  /\ generating' = generating \cup {p}
  /\ UNCHANGED <<setup, cov, jobs, web, worker, plan, lastWord, dispatched>>

\* next_attempt_at passes.
BecomeDue(j) ==
  /\ jobs[j].status = "queued" /\ ~jobs[j].due
  /\ jobs' = [jobs EXCEPT ![j].due = TRUE]
  /\ UNCHANGED <<setup, cov, generating, web, worker,
                 plan, lastWord, dispatched>>

-----------------------------------------------------------------------------
\* A worker's main loop

Idle == [at |-> "idle"]
Down == [at |-> "down"]

Go(w, place) == worker' = [worker EXCEPT ![w] = place]

\* The worker executes the job: between the claim and the last transaction.
Holds(w, j) == worker[w].at \in {"claimed", "scanning"} /\ worker[w].job = j

\* A claim grows older than STALE_CLAIM_MINUTES.
BecomeStale(j) ==
  /\ jobs[j].status = "running" /\ ~jobs[j].stale
  /\ "scans" \in Overlaps \/ ~\E w \in Workers : Holds(w, j)
  /\ jobs' = [jobs EXCEPT ![j].stale = TRUE]
  /\ UNCHANGED <<setup, cov, generating, web, worker,
                 plan, lastWord, dispatched>>

\* Mutant of StaleClaim: the start requeues every claim, whatever its age.
AnyClaim(j) == jobs[j].status = "running"

\* Mutant of StaleClaim: the comparison of the ages the wrong way round.
FreshClaim(j) == jobs[j].status = "running" /\ ~jobs[j].stale

\* The start of run_worker, requeue_stale_jobs: the SELECT ...
StaleClaim(j) == jobs[j].status = "running" /\ jobs[j].stale

Start(w) ==
  /\ worker[w].at = "down"
  /\ "starts" \in Overlaps \/ \A v \in Workers : worker[v].at # "starting"
  /\ Go(w, [at |-> "starting", stale |-> {j \in Rows : StaleClaim(j)}])
  /\ UNCHANGED <<setup, cov, jobs, generating, web, plan, lastWord, dispatched>>

\* ... and the UPDATE of the rows it returned, by their ids.
Requeue(w) ==
  /\ worker[w].at = "starting"
  /\ jobs' = [j \in JobIds |->
                IF j \in worker[w].stale
                  THEN [jobs[j] EXCEPT !.status = "queued", !.stale = FALSE]
                  ELSE jobs[j]]
  /\ Go(w, Idle)
  /\ UNCHANGED <<setup, cov, generating, web, plan, lastWord, dispatched>>

Crash(w) ==
  /\ "crash" \in Faults
  /\ worker[w].at # "down"
  /\ Go(w, Down)
  /\ plan' = [plan EXCEPT ![w] = {}]
  /\ UNCHANGED <<setup, cov, jobs, generating, web, lastWord, dispatched>>

\* A pass begins with the drafts.  derive_entry looks at the entry, asks the
\* engine and writes what it answered; nobody claims the entry in between.
Derive(w, e) ==
  /\ worker[w].at = "idle"
  /\ entry[e] = "draft"
  /\ Go(w, [at |-> "deriving", entry |-> e])
  /\ UNCHANGED <<setup, cov, jobs, generating, web, plan, lastWord, dispatched>>

FinishDerivation(w) ==
  LET e == worker[w].entry IN
  /\ worker[w].at = "deriving"
  /\ \/ /\ entry' = [entry EXCEPT ![e] = "ready"]
        /\ derived' = derived \cup {e}
     \/ /\ entry' = [entry EXCEPT ![e] = "derivation_failed"]
        /\ UNCHANGED derived
  /\ Go(w, Idle)
  /\ UNCHANGED <<conn, branches, cov, jobs, generating, web,
                 plan, lastWord, dispatched>>

\* process_pending_remediations: the rows that are 'generating' now, one by one.
StartPass(w) ==
  /\ worker[w].at = "idle"
  /\ Go(w, [at |-> "generating", batch |-> generating])
  /\ UNCHANGED <<setup, cov, jobs, generating, web, plan, lastWord, dispatched>>

\* generate_remediation ends in a diff that the board accepts,
Generated(w, p) ==
  /\ Accepts(cov[p], "remediation_pending")
  /\ cov' = [cov EXCEPT ![p] = Moved(@, "remediation_pending")]
  /\ generating' = generating \ {p}
  /\ Go(w, [worker[w] EXCEPT !.batch = @ \ {p}])

\* ... in generation_failed,
NotGenerated(w, p) ==
  /\ generating' = generating \ {p}
  /\ Go(w, [worker[w] EXCEPT !.batch = @ \ {p}])
  /\ UNCHANGED cov

\* ... or in a diff that the board refuses: the row stays 'generating', and the
\* exception ends the pass before it comes to the jobs.
GenerationRefused(w, p) ==
  /\ ~Accepts(cov[p], "remediation_pending")
  /\ Go(w, Idle)
  /\ UNCHANGED <<cov, generating>>

Generate(w) ==
  /\ worker[w].at = "generating"
  /\ \E p \in worker[w].batch :
       Generated(w, p) \/ NotGenerated(w, p) \/ GenerationRefused(w, p)
  /\ UNCHANGED <<setup, jobs, web, plan, lastWord, dispatched>>

\* process_one_job comes when the remediations are done.  claim_next_job, the
\* SELECT: highest priority first, then oldest.
AtQueue(w) == worker[w].at = "generating" /\ worker[w].batch = {}

Eligible(j) == j \in Rows /\ jobs[j].status = "queued" /\ jobs[j].due

Before(i, j) == \/ jobs[i].priority > jobs[j].priority
                \/ jobs[i].priority = jobs[j].priority /\ i <= j

\* Mutant of Select: the SELECT takes the head of all queued jobs, and the time of
\* its next attempt is checked afterwards.
SelectHeadOfQueue(w, j) ==
  /\ AtQueue(w)
  /\ Eligible(j)
  /\ \A i \in Rows : jobs[i].status = "queued" => Before(j, i)
  /\ Go(w, [at |-> "selected", job |-> j])
  /\ UNCHANGED <<setup, cov, jobs, generating, web,
                 plan, lastWord, dispatched>>

Select(w, j) ==
  /\ AtQueue(w)
  /\ Eligible(j)
  /\ \A i \in JobIds : Eligible(i) => Before(j, i)
  /\ Go(w, [at |-> "selected", job |-> j])
  /\ UNCHANGED <<setup, cov, jobs, generating, web,
                 plan, lastWord, dispatched>>

NothingDue(w) ==
  /\ AtQueue(w)
  /\ ~\E j \in JobIds : Eligible(j)
  /\ Go(w, Idle)
  /\ UNCHANGED <<setup, cov, jobs, generating, web, plan, lastWord, dispatched>>

\* claim_next_job, the conditional UPDATE.
\* Mutant of StillQueued: an UPDATE without its WHERE status = 'queued'.
NoStatusCheck(j) == jobs[j].status # "absent"

StillQueued(j) == jobs[j].status = "queued"

Claim(w) ==
  LET j == worker[w].job IN
  /\ worker[w].at = "selected"
  /\ IF StillQueued(j)
       THEN /\ jobs' = [jobs EXCEPT ![j].status = "running", ![j].stale = FALSE]
            /\ Go(w, [at |-> "claimed", job |-> j])
       ELSE /\ Go(w, Idle)
            /\ UNCHANGED jobs
  /\ UNCHANGED <<setup, cov, generating, web, plan, lastWord, dispatched>>

\* execute_scan_job, the first transaction: the job fails at once, and the
\* board keeps its status, when the repository is not active or the entry has
\* no derived pattern.
Scannable(p) == conn[p[2]] = "active" /\ p[1] \in derived

StartScan(w) ==
  LET j == worker[w].job IN
  /\ worker[w].at = "claimed"
  /\ IF Scannable(jobs[j].pair)
       THEN /\ Go(w, [at |-> "scanning", job |-> j])
            /\ UNCHANGED jobs
       ELSE /\ jobs' = [jobs EXCEPT ![j].status = "failed"]
            /\ Go(w, Idle)
  /\ UNCHANGED <<setup, cov, generating, web, plan, lastWord, dispatched>>

\* ... the network phase ends in a RateLimitError.
RateLimited(w) ==
  /\ worker[w].at = "scanning"
  /\ jobs' = [jobs EXCEPT ![worker[w].job].status = "queued",
                          ![worker[w].job].due = FALSE,
                          ![worker[w].job].stale = FALSE]
  /\ Go(w, Idle)
  /\ UNCHANGED <<setup, cov, generating, web, plan, lastWord, dispatched>>

\* ... or in any other error: the job fails, and with it the board, but only
\* for a scan's job and only if the board accepts it (_fail_coverage).
Failed(p, purpose) ==
  IF purpose \in {"scan", "manual_rescan"} /\ Accepts(cov[p], "scan_failed")
    THEN Moved(cov[p], "scan_failed") ELSE cov[p]

FailScan(w) ==
  LET j == worker[w].job
      p == jobs[j].pair
  IN
  /\ worker[w].at = "scanning"
  /\ jobs' = [jobs EXCEPT ![j].status = "failed"]
  /\ cov' = [cov EXCEPT ![p] = Failed(p, jobs[j].purpose)]
  /\ Go(w, Idle)
  /\ UNCHANGED <<setup, generating, web, plan, lastWord, dispatched>>

\* The status the last transaction asks for, by the purpose of the job, of a
\* pair with the status now.
Target(purpose, found, now) ==
  CASE purpose = "verification" ->
         IF found THEN "migration_incomplete" ELSE "migrated"
    [] purpose = "rescan" -> IF found THEN "pattern_detected" ELSE now
    [] OTHER -> IF found THEN "pattern_detected" ELSE "no_hits"

\* Mutant of Result: a refused transition is skipped and the rest is written.
ResultOrStay(p, purpose, found) ==
  IF Accepts(cov[p], Target(purpose, found, cov[p].status))
    THEN Target(purpose, found, cov[p].status) ELSE cov[p].status

Result(p, purpose, found) == Target(purpose, found, cov[p].status)

Verdict(p, purpose, found) ==
  IF purpose = "verification" /\ ~found
    THEN Transitioned(cov[p], "migrated", TRUE, "clear")
    ELSE Moved(cov[p], Result(p, purpose, found))

\* ... or in a result, which the last transaction writes to the job and to the
\* board together.
FinishScan(w, found) ==
  LET j == worker[w].job
      p == jobs[j].pair
      purpose == jobs[j].purpose
  IN
  /\ worker[w].at = "scanning"
  /\ Accepts(cov[p], Result(p, purpose, found))
  /\ jobs' = [jobs EXCEPT ![j].status = "done", ![j].found = found]
  /\ cov' = [cov EXCEPT ![p] = Verdict(p, purpose, found)]
  /\ lastWord' = [lastWord EXCEPT ![p] = IF found THEN "some" ELSE "none"]
  /\ Go(w, Idle)
  /\ UNCHANGED <<setup, generating, web, plan, dispatched>>

\* ... which the board may refuse: the transaction is rolled back, run_worker
\* logs the exception and goes on, and the row stays 'running'.
RefuseResult(w, found) ==
  LET p == jobs[worker[w].job].pair IN
  /\ worker[w].at = "scanning"
  /\ ~Accepts(cov[p], Result(p, jobs[worker[w].job].purpose, found))
  /\ Go(w, Idle)
  /\ UNCHANGED <<setup, cov, jobs, generating, web,
                 plan, lastWord, dispatched>>

\* Any transaction of a pass may end in DatabaseBusy: the pass is over, and what
\* it had in hand stays as it is.  At the start it ends the worker.
Busy(w) ==
  /\ "busy" \in Faults
  /\ worker[w].at \notin {"down", "idle"}
  /\ Go(w, IF worker[w].at = "starting" THEN Down ELSE Idle)
  /\ UNCHANGED <<setup, cov, jobs, generating, web, plan, lastWord, dispatched>>

-----------------------------------------------------------------------------
Init ==
  /\ entry = [e \in Entries |-> "draft"]
  /\ derived = {}
  /\ conn = [r \in Repos |-> "absent"]
  /\ branches = [r \in Repos |-> {}]
  /\ cov = [p \in Pairs |-> FreshRow]
  /\ jobs = [j \in JobIds |-> Absent]
  /\ generating = {}
  /\ web = Free
  /\ worker = [w \in Workers |-> Down]
  /\ plan = [w \in Workers |-> {}]
  /\ lastWord = [p \in Pairs |-> "never"]
  /\ dispatched = {}

Web ==
  \/ \E e \in Entries : ReadForScan(e)
  \/ \E p \in Pairs : LookAtBoard(p) \/ \E b \in Branches : LookForPending(p, b)
  \/ NothingToWrite
  \/ ScanTrigger
  \/ ScanBeyondBound
  \/ \E p \in Pairs : RescanRepo(p)
  \/ \E j \in JobIds : RetryJob(j)
  \/ \E r \in Repos, list \in BranchLists : ConfigureBranches(r, list)
  \/ \E R \in SUBSET Repos : RepositoriesAdded(R)
  \/ \E listed, gone \in SUBSET Repos : Recheck(listed, gone)
  \/ \E p \in Pairs : ReadForMark(p)
  \/ MarkMigrated
  \/ \E p \in Pairs : EnqueueVerification(p) \/ RequestRemediation(p)

\* One step of the worker's loop once it holds a job.
Execute(w) ==
  \/ StartScan(w)
  \/ RateLimited(w)
  \/ FailScan(w)
  \/ \E found \in BOOLEAN : FinishScan(w, found) \/ RefuseResult(w, found)

Worker(w) ==
  \/ Start(w)
  \/ Requeue(w)
  \/ \E e \in Entries : Derive(w, e)
  \/ FinishDerivation(w)
  \/ StartPass(w)
  \/ Generate(w)
  \/ \E j \in JobIds : Select(w, j)
  \/ NothingDue(w)
  \/ Claim(w)
  \/ Execute(w)
  \/ SurveyRescans(w)
  \/ InsertRescans(w)
  \/ Busy(w)
  \/ Crash(w)

Environment ==
  \/ \E p \in Pairs, to \in ChangeStatuses : ChangeStep(p, to)
  \/ \E j \in JobIds : BecomeDue(j) \/ BecomeStale(j)

Next == Web \/ Environment \/ \E w \in Workers : Worker(w)

Spec == Init /\ [][Next]_vars

\* The end of a scan that is not a rate limit.
Answer(w) ==
  \/ FailScan(w)
  \/ \E found \in BOOLEAN : FinishScan(w, found) \/ RefuseResult(w, found)

\* The main loop never rests while it has something to do, the entrypoint restarts
\* a worker that is down, and claims grow old.  The database is not busy, GitHub does
\* not limit the rate, and the process does not end, at every attempt for ever.
\* Nothing is assumed of the vendor, of webhooks, of the scheduler's clock, or of the
\* time a Retry-After asks for.
Fairness ==
  /\ \A j \in JobIds : WF_vars(BecomeStale(j))
  /\ \A w \in Workers :
       /\ WF_vars(Start(w))
       /\ SF_vars(Requeue(w))
       /\ SF_vars(FinishDerivation(w))
       /\ SF_vars(StartPass(w))
       /\ SF_vars(Generate(w))
       /\ SF_vars(\E j \in JobIds : Select(w, j))
       /\ SF_vars(NothingDue(w))
       /\ SF_vars(Claim(w))
       /\ SF_vars(StartScan(w))
       /\ SF_vars(Answer(w))

FairSpec == Spec /\ Fairness

-----------------------------------------------------------------------------
\* Properties

\* What the web process may have read and not yet written.
ScanReads ==
  [at : {"scan"}, entry : Entries,
   seen : SUBSET (Pairs \X Branches), past : SUBSET Pairs]
ScanWrites ==
  [at : {"write"}, entry : Entries,
   seen : SUBSET (Pairs \X Branches), past : SUBSET Pairs,
   fresh : SUBSET (Pairs \X Branches), moved : SUBSET Pairs]
Marks == [at : {"mark"}, pair : Pairs, flag : BOOLEAN]
Requests == {Free} \cup ScanReads \cup ScanWrites \cup Marks

\* Every table holds rows of its type.
TypeOK ==
  /\ entry \in [Entries -> {"draft", "ready", "derivation_failed"}]
  /\ derived \in SUBSET Entries
  /\ conn \in [Repos -> {"absent", "active", "removed"}]
  /\ branches \in [Repos -> SUBSET Branches]
  /\ cov \in [Pairs -> BoardRow]
  /\ jobs \in [JobIds -> Job \cup {Absent}]
  /\ generating \in SUBSET Pairs
  /\ web \in Requests
  /\ plan \in [Workers -> SUBSET Pairs]
  /\ worker \in [Workers ->
                  [at : {"down", "idle"}]
                    \cup [at : {"starting"}, stale : SUBSET JobIds]
                    \cup [at : {"deriving"}, entry : Entries]
                    \cup [at : {"generating"}, batch : SUBSET Pairs]
                    \cup [at : {"selected", "claimed", "scanning"}, job : JobIds]]
  /\ lastWord \in [Pairs -> {"never", "none", "some", "byHand"}]
  /\ dispatched \in SUBSET Pairs

\* Two workers never execute the same job, and the row of a job under
\* execution says so: claim_next_job's conditional UPDATE, together with a
\* requeue that spares live claims, is all that separates two workers.
ExclusiveClaims ==
  \A w \in Workers, j \in JobIds : Holds(w, j) =>
    /\ jobs[j].status = "running"
    /\ \A v \in Workers \ {w} : ~Holds(v, j)

\* The board never contradicts the last word on a pair: "no hits" rests on a clean
\* scan committed since any other scan and any mark by hand, "migrated" on one or on
\* a mark by hand, "pattern detected" and "migration incomplete" on a scan with
\* hits, across refused results, failures, retries, rescans and late writes.
BoardMatchesLastScan ==
  \A p \in Pairs :
    /\ cov[p].status = "no_hits" => lastWord[p] = "none"
    /\ cov[p].status = "migrated" => lastWord[p] \in {"none", "byHand"}
    /\ cov[p].status \in {"pattern_detected", "migration_incomplete"} =>
         lastWord[p] = "some"

\* A pair is "migrated" without the manual flag only with the timestamp of a
\* verification and a verification job that found nothing (dispatch.py:342,
\* scanning.py:278): no scan, rescan or retry reaches it another way.
Verified(p) ==
  /\ cov[p].stamped
  /\ \E j \in Rows : /\ jobs[j].pair = p
                     /\ jobs[j].purpose = "verification"
                     /\ jobs[j].status = "done"
                     /\ ~jobs[j].found

MigratedIsVerified ==
  \A p \in Pairs : cov[p].status = "migrated" /\ ~cov[p].manual => Verified(p)

\* The result of a finished job is final: no requeue, retry, second claim or
\* late worker ever touches a row that is done.
DoneIsFinal ==
  [][\A j \in JobIds : jobs[j].status = "done" => jobs'[j] = jobs[j]]_vars

\* In the next state every configured branch of the pairs T of one language has a
\* pending job, the branches passed over excepted.
EveryBranchQueued(T, over) ==
  \A p \in T \cap Matching : \A b \in Configured(p[2]) :
    \/ <<p, b>> \in over
    \/ \E j \in Rows' : jobs'[j].pair = p /\ jobs'[j].branch = b /\ Pending(j)'

\* When the scan trigger has ended without an error, a job is pending for every
\* configured branch of every active repository of the language, whatever was
\* pending, being settled or requested meanwhile; but a branch that the request saw
\* pending before it began to write (of any number of repositories) may have lost
\* its job since.
TriggerQueuesEveryBranch ==
  [][(/\ \/ web.at = "scan" /\ Targets(web.entry) \subseteq web.past
         \/ web.at = "write" /\ ~TriggerRefused /\ Fits(TriggerRows)
      /\ web'.at = "free")
       => EveryBranchQueued(Targets(web.entry), web.seen)]_vars

\* A job that may be claimed is claimed, however many other jobs wait for the
\* end of a rate limit (jobs.py:235), provided the vendor does not retry for ever,
\* the board does not refuse a remediation for ever, and crashes come to an end (each
\* restart may bring back, ahead of it, a job whose result is refused again).
Served == \A j \in JobIds : Eligible(j) ~> ~Eligible(j)
FinitelyManyRetries == <>[][\A j \in JobIds : ~RetryJob(j)]_vars
RemediationsAccepted ==
  <>[](\A p \in generating : Accepts(cov[p], "remediation_pending"))

FinitelyManyCrashes == <>[][\A w \in Workers : ~Crash(w)]_vars

EventuallyServed ==
  FinitelyManyRetries /\ RemediationsAccepted /\ FinitelyManyCrashes => Served

\* A running job that nobody executes, because its worker ended or its result was
\* refused, is not running for ever, provided workers start again and again: only a
\* start looks for stale claims (worker.py:121), and the first start after a crash
\* comes before the claim is stale.
Abandoned(j) ==
  jobs[j].status = "running" /\ ~\E w \in Workers : Holds(w, j)
WorkersStartAgain == []<><<\E w \in Workers : Start(w)>>_vars

AbandonedJobsComeBack ==
  WorkersStartAgain => \A j \in JobIds : Abandoned(j) ~> ~Abandoned(j)

\* What the queue promises of each job (JobLease): it is taken by one worker at
\* a time, settled by that worker alone, put back only when abandoned, and never
\* changed once done.  Every step of every process is one of those or none.
Stage(row) ==
  CASE row.status = "absent" -> "unused"
    [] row.status = "queued" -> "waiting"
    [] row.status = "running" -> "taken"
    [] row.status = "done" -> "done"
    [] OTHER -> "failed"

LeaseState == [j \in JobIds |-> Stage(jobs[j])]

LeaseHolders == [j \in JobIds |-> {w \in Workers : Holds(w, j)}]

Lease == INSTANCE JobLease WITH
           Jobs <- JobIds, state <- LeaseState, holders <- LeaseHolders

ImplementsJobLease == Lease!Spec

-----------------------------------------------------------------------------
\* What the repository says of itself and the code does not do: violated by the
\* run that checks it.

\* scanning.py:237, "never let a job wedge the queue": a claimed job is settled.
NoJobWedgesTheQueue ==
  \A j \in JobIds : jobs[j].status = "running" ~> jobs[j].status # "running"
=============================================================================
