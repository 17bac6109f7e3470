# Patchline: verification project

Patchline watches the changelog of a platform, derives search patterns from
breaking changes, scans the repositories of customers for affected code,
generates remediations and dispatches them as pull requests. This directory
holds TLA+ models of it, the TLC runs that check them, and the theorems TLAPS
proves about them. File names are relative to `src/patchline/` of the
repository unless they begin with `docker/`.

## The system

Two processes share one SQLite database: a web process (`app.py`, one uvicorn
process, all POST handlers and webhooks are coroutines that make blocking
calls) and a worker (`worker.py`: the main loop, a rescan scheduler thread, a
heartbeat thread). `docker/entrypoint.sh` runs the migrations under a lock file,
starts the worker, restarts it 5 seconds after it ends, and becomes the web
process. Nothing prevents a second worker on the same database, and
`core/jobs.py` is written for several.

| Component | State | Operations | Talks to |
| --- | --- | --- | --- |
| Coverage board (`core/coverage.py`) | `coverage_state`: status, manual flag, verification time of each (entry, repository) | `apply_transition` along a table of 12 statuses | called by everything below, inside the caller's transaction |
| Scan-job queue (`core/jobs.py`) | `scan_job` rows | enqueue, claim, requeue stale claims, requeue rate-limited jobs, periodic rescans, verification | web process (enqueues, retries), workers (claim, settle) |
| Scan execution (`core/scanning.py`) | the job and the board row of its pair | a short transaction, the network phase, a last transaction | GitHub, engine, board |
| Worker loop (`worker.py`) | where the pass is, the rows it read | start, derivations, remediations, one job, flush of notifications | all of core |
| Derivation (`core/derivation.py`) | `changelog_entry.status`, `derived_pattern` | look at a draft, ask the engine, write | engine |
| Remediation (`core/remediation_flow.py`) | `remediation` | enqueue, generate and validate a diff, confirm | engine, diff application, board |
| Dispatch (`core/dispatch.py`) | `pull_request`, `confirmation` | validate, branch, commit, open the pull request, record | GitHub, board |
| Webhooks, sync, re-check (`core/webhook_handlers.py`, `core/pr_sync.py`, `core/recheck.py`) | `webhook_delivery`, `pull_request`, `repository` | installation and pull-request events, polling | GitHub, queue, board |
| Notifications (`core/notifications.py`) | `notification` | record in the caller's transaction, flush outside it | a vendor's receiver |
| Migration lock (`docker/entrypoint.sh`) | the lock file and its age | acquire, refresh, remove when stale, release | other containers on the volume |
| Diffs (`core/diffhash.py`, `core/diffapply.py`) | none | canonical form, application of hunks | remediation, dispatch |
| Configuration (`core/config_store.py`) | `config`: the count of engine failures, the instance id, a list of latencies | get, set | queue, notifications |
| Sign-in (`auth.py`, `routes/auth.py`) | `session` | GitHub OAuth with a single-use state, idle and absolute expiry, step-up before a dispatch, revocation | the routes |
| Sessions (`db.py`) | the writer's lock | transaction, rollback, retry while the database is busy | everything |
| GitHub client, engine (`adapters/`) | installation tokens | HTTP calls, their retries, the stripping of a diff | GitHub, the engine |
| Pages, health, CLI | none that the workflow reads | rendering, reporting, operator commands | |

What is hard:

* **Reads before the transaction.** sqlite3 begins a transaction at the first
  *write*, so the SELECTs of a handler before it are not protected from the
  other process. The claim, the requeue at startup, the scan trigger,
  mark-migrated and the periodic rescan all read first and write later.
* **A claim has no owner.** A worker's claim is the status `running` and a
  time. A worker that is gone and one that is slow look the same.
* **A refused transition aborts its caller.** `apply_transition` raises, and the
  caller's transaction goes with it, including the part that settles a job.
* **Several jobs of one pair.** Branches, retries, rescans and verifications of
  one pair finish in any order, each moving the same row of the board.
* **Loops that stop at the first exception.** A pass does derivations, then
  remediations, then one job; what raises early starves what comes later.
* **Redelivery and reordering** of webhooks, and calls to GitHub that succeed
  without the answer being seen.
* **Sequences of calls outside any transaction.** A dispatch makes several calls
  to GitHub between its reads and its last transaction; the diff may be
  regenerated, the board moved and the process ended between any two of them.
* **Flushing without a claim.** Every process sends whatever notification is
  pending, its own or not, and records its own outcome.
* **Text that looks like syntax.** Canonical form, splitter, hunk parser and
  structure check each decide for themselves which line of a diff is a header.

What makes the components correct:

* board: it agrees with the last scan committed for the pair; `migrated`
  without the manual flag rests on a clean verification;
* queue: one worker per job at a time; a result is final; nothing that is due
  waits for ever; a claimed job is settled;
* dispatch: nothing on GitHub that was not approved, one recorded pull request
  per remediation and per branch, rows that follow GitHub; a merged pull request
  is verified;
* notifications: each is delivered at least once or recorded as failed;
* migration lock: one migration at a time, and a dead holder does not block;
* diffs: the hash does not depend on the order of files; applying a diff gives
  the new text or fails.

## How the project is built

| Module | Stands on | Models | Proofs |
| --- | --- | --- | --- |
| `Coverage` | | the table of statuses and `apply_transition` | |
| `ScanQueue` | `Coverage` | queue, scans, worker loop, scheduler, entries | `ScanQueueProofs`, `ScanQueueBoardProofs` |
| `JobLease` | | abstract: what the queue promises of one job | `ScanQueueLeaseProofs` |
| `MigrationLock` | | the lock of `docker/entrypoint.sh` | `MigrationLockProofs` |
| `Dispatch` | `Coverage` | remediations, approval, dispatch, pull requests, verification | `DispatchProofs` |
| `ChangeLifecycle` | | abstract: the life of one change | `DispatchProofs` |
| `Outbox` | | notifications, the count of engine failures | `OutboxProofs` |
| `Diffs` | | the text of a diff from the engine to a commit | `DiffsProofs`, `DiffsApplyProofs` |

`MCScanQueue`, `MCMigrationLock`, `MCDispatch`, `MCOutbox` and `MCDiffs` give the
constants values for TLC. `ScanQueue` and `Dispatch` cut the same workflow at the
board: each models its own half in full and the other's as the moves of the
board that half can make (`ChangeStep`, `RequestRemediation`, `EnqueueVerification`
in the one, `MoveBoard` and `FinishVerification` in the other). No module that is
proved about, and none it uses, declares a recursive operator; the parsers of
`Diffs` are folds.

## What is modelled

**`Coverage`** has no variables: the twelve statuses, the table as a set of
pairs, and `apply_transition` in three operators: `Accepts` (it does not raise),
`Transitioned` (the row after it, with the early return that leaves flag and
time alone) and `Moved` (without either argument).

**`ScanQueue`** is the queue with every process that touches it.

| Variable | In the code |
| --- | --- |
| `entry`, `derived`, `conn`, `branches` | `changelog_entry.status`, the presence of a `derived_pattern` row, `repository.connection_state`, `repository.scan_branches` |
| `cov` | `coverage_state` |
| `jobs` | `scan_job`, by id; ids are given in order |
| `generating`, `dispatched` | pairs with a remediation in `generating`, pairs with a row in `pull_request` |
| `web` | what the handler that runs in the web process has read and not yet written |
| `worker` | where the main loop of each worker is, and what it has read |
| `plan` | what a scheduler thread has read |
| `lastWord` | what was said of a pair last, by a committed scan (`"none"`, `"some"`) or by mark-migrated (`"byHand"`): history, read by no action |

*Granularity.* An action is a transaction from its first write to its commit.
Where a handler reads something first that the other process may change, the
read is an action of its own (`ReadForMark`/`MarkMigrated`, `Start`/`Requeue`,
`Select`/`Claim`, `SurveyRescans`/`InsertRescans`). The scan trigger reads on, one
repository after the other, until it has something to write: `LookForPending` is
the query for one branch, `LookAtBoard` the row of the board behind the last branch
of a repository, and `ScanTrigger` the transaction that begins with the first row or
move, for the repositories not yet `past`. A request may so pass by any number of
repositories whose branches are all pending and whose board says `scanning`. The
late write of mark-migrated contains the flag only if the row it has read did not
have it (`MarkedManually`). The handlers of the web process do not await
in between, so `web` holds one at a time and the other handlers require it to be
free. A scan is `StartScan` and one of `RateLimited`, `FailScan`, `FinishScan`,
`RefuseResult`; a derivation is `Derive` and `FinishDerivation`; a pass is
`StartPass`, any number of `Generate`, then `Select` or `NothingDue`.

*Rollback.* A transaction that raises leaves nothing. In the web process that is
the absence of a step; in a worker it is a step (`RefuseResult`,
`GenerationRefused`, `Busy`), because the loop goes on.

*Time.* `due` is "`next_attempt_at` is empty or past", `stale` is "`running`, and
claimed longer than 15 minutes ago". `BecomeDue` and `BecomeStale` are time
passing. `Overlaps` says what else time may do: `"scans"`, a scan outlasts the 15
minutes; `"starts"`, two workers are between the two halves of their start at
once.

*Abstractions.* All repositories have the same default branch (names of branches
do not matter otherwise) and a language that matches the entry's or not. The
occurrences of a result are whether there are any. One remediation of a pair is
generated at a time. Dispatch and pull-request events appear as the moves of the
board they make (`ChangeStep`) and as `EnqueueVerification`; `Dispatch` details them.

*Bounds.* `MaxJobs`: rows of `scan_job`, checked where rows are inserted
(`NextIds`, `Fits`); `ScanBeyondBound` drops a request whose rows do not fit. Two
rows are enough for two jobs of one pair to meet in every order, which is where
the hazards of the queue lie; a late mark over a verification and a rescan takes three,
and is left to the theorems. The other sets are in the configurations.

**`JobLease`** is what the queue promises of one job, without rows, board,
order or time: it is taken by one worker at a time, settled by that worker,
abandoned and then reclaimed, and done for good. `ScanQueue` maps to it by
`LeaseState` (the status of the row) and `LeaseHolders` (the workers between
claim and result).

**`MigrationLock`** is the script up to the release of the lock, for containers
that share a volume. `at` is where the entrypoint's loop is, `refresher` where its
background loop is, `lock` the file and whether it is older than 30 minutes. Each
test of the file and each act on it is an action of its own: nothing ties `[ -f ]`
to `stat`, `stat` to `rm -f`, or `[ -f ]` to `touch`. The container's own pid is 1, so
`kill "$$"` does nothing (the Dockerfile makes the script the ENTRYPOINT; run as
another pid, it would end itself after the migrations). `stat` of a file that has
vanished leaves the arithmetic expansion without an operand, at which dash, the
image's `/bin/sh`, exits. A file becomes stale only when no refresher lives: 60 seconds
against 30 minutes. `Stop` ends a container at any point; the restart policy
starts it again.

**`Dispatch`** is the life of the remediations of one entry and one repository, a pair.
The queries filter by the pair, but for two: the sync and a worker's pass go through
the rows of all pairs in one loop. What rows of other pairs can do to this one is an action
each: `SyncStarved`, a rejection of theirs is refused and ends the sync with our rows behind
it, and `DropGeneration`, a result of theirs is refused and ends the pass. A pass takes the
oldest five rows of all pairs, hence some of our oldest (`Oldest(n)`).

| Variable | In the code |
| --- | --- |
| `cov`, `connected` | `coverage_state.status`, `repository.connection_state` |
| `rems` | `remediation`, by id: status and diff |
| `confirmed` | `confirmation`: remediation and hash of the diff |
| `rows`, `failedRows` | `pull_request` with a number, by that number; remediations with a row in `dispatch_failed` |
| `done` | `webhook_delivery` in `succeeded`: pull request and event |
| `verify` | the latest verification in `scan_job` |
| `web` | the POST handler under way, and what it has read |
| `worker` | the remediations each worker has read in this pass and not yet been through |
| `refs`, `prs` | GitHub: branches and what they hold; pull requests, each with its events in order |

*Granularity.* The POST handlers of the web process make blocking calls, so one
runs at a time; workers and the users of GitHub act between any two of its steps.
Its places are `confirm` and `gate` (the transactions of `approve_and_dispatch` and
of `dispatch_remediation`), `branch`, `commit`, `propose` (the calls), `record` and
`fail` (the two last transactions), `sync` and `polled` (the loop of
`sync_pull_requests`). A webhook is handled in one transaction and is one action,
`Deliver`. Generation is `StartGeneration`, which claims nothing, and a last transaction
that writes whatever the row has become since.

*GitHub.* `After(place)` is where a handler finds itself after a call that has had
its effect. The transport repeats a POST whose answer was lost; the repeated call
meets its own effect and is refused, so the handler goes to `fail` although the
branch, commit or pull request exists. `GitHubFails` is a call without an effect.
`prs[n].log` are the events of a pull request; `Deliver(n, i)` may happen in any
order of `i`, or never, and a failed delivery may be sent again. A push is the event
`open` once more, since the code treats `synchronize` like `reopened`. A diff stands for
its canonical hash; `NameOf` gives the name of its branch, which holds eight digits
of the hash, so two diffs may share one.

*What may go wrong* is the set `Interference`: calls that fail (`"github"`),
a web process that ends anywhere (`"web"`), verifications that fail,
pull requests opened again, repositories disconnected, pairs marked by hand. A run
chooses those its question is about; the theorems hold for every choice.

*Bounds.* `MaxRemediations`, `MaxPulls`, `MaxEvents` (of one pull request) and
`LastSuffix` (of branch names). `Room` lets a dispatch begin only while a name and a
number are left. `dispatch` has two diffs of one remediation, two pull requests and
colliding names: the second pull request is the one that could carry the wrong diff
or take the wrong branch. `tracking` has two remediations and pull requests with four events each,
enough for closed, opened again, pushed to and merged in every order of delivery.

**`ChangeLifecycle`** is what dispatch promises, without branches, failures,
handlers or order: a change is approved, published, merged, tracked, and a
verification is asked for only when something merged is tracked. `Dispatch` maps to
it by `confirmed`, the pull requests on GitHub with what they carry, the rows, and
whether a verification was ever asked for.

**`Outbox`** is the table `notification` with every process that flushes it, and
the counter that decides which engine failures are announced. A row is written in
the transaction of its event. After the commit the same process reads the
oldest pending rows, claims none, posts each up to `Attempts` times (`Post`: the
receiver may accept it, and the answer be lost, independently) and writes its own
outcome over whatever is there (`Settle`). The counter is read before the
transaction of a success begins (`ReadForSuccess`) and written in it; the key is
unique, so two first rows collide and take the later transaction with them
(`CountRefused`). A failure is counted under the lock its transaction already holds, unless
that transaction has nothing to write before: when two workers fail at the same draft or
remediation with the same message, the second finds the status it wants, reads the count
outside a transaction (`ReadForFailure`) and writes it over whatever was counted since
(`EngineFailsLate`, `DerivationFailsLate`). `lost` remembers that this has happened since the
last success.
`Limit` is 1 and `Threshold` 2 in the run (50 and 3 in the code), which makes a backlog and
the boundary short to reach; the theorems hold for any values.

**`Diffs`** follows one diff: the adapter strips it or hands it on (`Receive`), generation
checks it (`Validate`: structure, reconstruction), dispatch rebuilds the files
(`Commit`). A line is a record that says how it begins; a text
matters only as far as a parser looks at it, so `"++i"` and `"-- p"` are the
texts that look like headers. `SplitFileSections`, `CanonicalDiff`, `ParseHunks`, `ApplyUnifiedDiff`
and `PerFileDiffs` are the functions of `core/diffhash.py` and `core/diffapply.py`. `Structured` is
the structure check of the library `unidiff`, modelled from its use in `core/remediation_flow.py`. The
reference is a *script*, one sequence of lines each marked as kept,
context, removed or added: from it follow the old file, the new file, and every diff an engine may
write for it (`RawDiff`), in two orders of two files, with and without metadata.
`Habits` allows what engines should not do: trimming blanks and
hunks without context. `Texts` holds the lines a file may have; it contains those of the
second file, whose change is fixed. `CanonicalDiff` adds the lines of one file after the other
(`LinesOf`) in alphabetical order, which is what the stable sort of `core/diffhash.py:104` makes of the
sections. All scripts of up to four lines over two texts are tried; a
hunk needs one line to exist and two hunks need a line between them, so four lines hold two hunks
with different offsets.

## Runs

Passing (distinct states in parentheses):

* **two_workers** (914,105): two workers that crash and restart, one pair, two jobs,
  no overlaps. `TypeOK`; `ExclusiveClaims`; `DoneIsFinal`; `ImplementsJobLease`, every
  step of every process is a step of `JobLease`.
* **board** (894,118): two repositories of the entry's language, one or two configured branches,
  one worker with crashes and a busy database, two jobs.
  `BoardMatchesLastScan`: the status of a pair never contradicts the last word on it;
  `MigratedIsVerified`; `TriggerQueuesEveryBranch`: after a scan trigger a job is pending for
  every configured branch of both repositories, except for branches the request saw pending
  before it began to write and whose job ended since. Repositories are interchangeable
  (symmetry). Two things do not fit into it and are left to the theorems, which hold for any
  `Matching` and `MaxJobs`: repositories of another language, and a mark that has read the flag set while a
  verification clears it, which takes a third job.
* **liveness** (32,399): one worker that crashes, a database that is busy now and then.
  `EventuallyServed`: a job that may be claimed is claimed, provided the vendor
  does not retry jobs for ever, the board does not refuse a remediation for
  ever (the disagreements below say why), and crashes come to an end.
  `AbandonedJobsComeBack`: a job that is `running` in nobody's hands, after a crash or a
  refused result, does not stay so, provided workers start again and again. Only a start looks for stale
  claims, and the start that follows a crash comes before the claim is stale.
* **migration_lock** (2,789): three containers that stop at any point.
  `ExclusiveUntilStale`, until a lock becomes stale one container migrates at a time,
  behind a lock file; `EveryContainerServes`, a dead holder keeps nobody from serving,
  provided containers stop being stopped and no refresher without a migration lives
  for ever.
* **dispatch** (507,824): one remediation that two workers regenerate while it is
  approved and dispatched; failing calls, processes that end, a repository that is
  disconnected. `TypeOK`; `OnlyConfirmedDiffs`, nothing is on GitHub that was not approved for
  its remediation; `ImplementsChange`, every step is one of `ChangeLifecycle` or none.
* **tracking** (993,275): two remediations and two pull requests that are merged,
  closed, opened again and pushed to, with events lost, late or repeated, a sync at the same
  time, verifications that fail, pairs marked by hand. `RowsMatchGitHub`, `PrOpenHasLivePull`,
  `LiveBranchNotReused`, `VerifiesOnlyMerges`, `OnePullPerRemediation` (one worker).
* **verification** (3,083): `MergedIsVerified`, a board at `pr_open` whose pull request
  is merged comes to `migrated` or `migration_incomplete`, though the webhook may
  never arrive and the web process may end anywhere. The premise `OthersAreAccepted` is needed: a
  row of another pair whose rejection is refused ends every sync before ours is polled, at every
  press (`SyncStarved`; without the premise TLC shows that loop). One pull request, because a second row of the
  same pair breaks the promise in two ways more: its own refused rejection
  (`SyncRefused`), and its rejection moving the board, or an older merged row making the premise true of a newer open one.
* **outbox** (574,081): two processes, two notifications, two attempts, one crash.
  `TypeOK`; `SentWasReceived`; `DuplicatesAreBounded`, a receiver sees a notification at most `Attempts`
  times per process or crash; `FailuresAreAnnounced`, as long as no failure since the last success was
  counted over another (without that exception the run finds the two workers above);
  `PendingIsSettled`.
* **diffs** (87,900): `TypeOK`; `ReconstructsOrFails`, what is committed is what the engine
  meant; `OrdinaryDiffsApply`, a diff with context is never refused; `HashIgnoresLayout`, all
  ways to write a change have one canonical form.

Violated, each against a statement of the repository (PROJECT.json quotes it):

* **wedge**: two branches of a pair are scanned; the first result is
  `pattern_detected`, the second asks for `no_hits`, which the table refuses, so
  the whole last transaction is rolled back and the job stays `running`: no claim,
  retry or rescan sees it again before a worker starts 15 minutes later
  (`core/scanning.py:237` says that no job wedges the queue).
* **reopened**: a pull request is closed (board: `pr_rejected`), opened again (the row is
  open, the board is not moved) and merged. A verification waits while the board says
  `pr_rejected`, from where its result is refused (`core/webhook_handlers.py:223`: coverage stays
  `pr_open` until the result lands).
* **silent_diff**: an added line that begins with `++`, such as `++i`, is written `+++i` in the
  diff and taken for the header of a file `i`. The change of its file is lost without an error
  (`core/diffapply.py:10`: loud, never silently wrong).

*Fairness.* In `ScanQueue` the worker's loop never rests while it has something to
do, and the entrypoint restarts a worker that is down: weak fairness of `Start`. A
database that is busy, or a crash, may abort every other step and send
the worker back to the beginning of the pass, so these steps have strong fairness:
the database is not busy, and GitHub does not limit the rate, at every attempt for ever
(`db.py` retries with backoff before it gives up). Claims grow old (weak fairness of `BecomeStale`).
Nothing is assumed of vendors,
webhooks, the scheduler, or the end of a `Retry-After`. In `MigrationLock` shells run and
time passes (weak fairness), the restart policy restarts what exits, and migrations do not
fail for ever (strong fairness of `Migrated`). In `Dispatch` the process may end between any two steps
of a handler, so a handler's steps have strong fairness: it is not interrupted every
time. So has `StartSync`, the button a vendor presses when a pull request does
not move; a sync that has begun goes on to its next row unless another pair's row ends it
(strong fairness of `SyncStarved` or `Poll`); workers finish verifications (weak fairness; that they do is `EventuallyServed`). No webhook need arrive. In
`Outbox` a process that has begun to flush goes on (weak fairness) and events, after
each of which a flush follows, keep coming (strong fairness of `Event`): without
another event a notification a crash has left behind does stay pending. The last
transaction of a scan or a generation comes too (weak fairness of `LastTransaction`).

## Disagreements without a run

They read off a few lines, or rest on a statement weaker than those above. The models
have the behaviour unless it says otherwise.

Board and queue:

* `apply_transition` returns before it writes flag and time when the status does not
  change, so a verification cannot confirm a pair that was marked by hand
  (`core/coverage.py:106` against `:116`).
* `mark_migrated_manually` says it starts from two statuses and the table allows
  `pr_open` too (`core/dispatch.py:343`).
* A scan longer than 15 minutes is requeued by the start of another worker and executed
  twice (`core/jobs.py:216`); the theorems on claims assume it does not happen.
* Two workers that start at once may requeue a claim that the first of them has already
  given to somebody (`core/jobs.py:219`; in the model, `Overlaps = {"starts"}`).
* Two workers may derive one draft and the later answer wins (`core/derivation.py:54`).
* A job that ends between the look of the scan trigger and its first write is still
  counted as pending, so the board says `scanning` and nothing is queued. This may happen to branches
  of several repositories in one request, as long as the repositories before had nothing to
  write (`core/jobs.py:59`; the exception in `TriggerQueuesEveryBranch`).
* mark-migrated writes over whatever is committed after its read, a scan's or a verification's result included
  (`core/dispatch.py:345`): the mark is then the last word on the pair.
* A mark that has read a row with the flag set writes the status only
  (`core/coverage.py:113`). When a clean verification has cleared the flag since, and a rescan found something, the
  pair is `migrated` without the flag, as if verified after that rescan; `core/dispatch.py:343` says
  that the flag is set. What remains true is `BoardMatchesLastScan` (the mark is the last word) and
  `MigratedIsVerified` (there was a clean verification).
* One repository with an open pull request refuses the scan of every repository
  (`core/jobs.py:98`; the README describes one action for all repositories).
* The periodic rescan is stored with purpose `scan`, so a clean rescan of a migrated pair asks
  for `no_hits` and is refused; the branch of `core/scanning.py:139` for `rescan` is never
  taken (`core/jobs.py:277`; theorem `RescanPurposeIsUnused`).
* A failed verification can be retried while a newer one is pending
  (`routes/actions.py:372`).
* A remediation whose last transaction is refused stays `generating` and is the first
  thing of every pass: no pass comes to the jobs (`core/remediation_flow.py:227`, `worker.py:143`).

Pull requests:

* When the answer to `create_pull_request` is lost, the repeated call is refused, the dispatch
  is recorded as failed, and no row refers to the pull request. Its webhooks are ignored,
  and a new dispatch finds the branch taken until it is closed (`adapters/scm/github.py:120`).
* A late `synchronize` re-opens the row of a settled pull request
  (`core/webhook_handlers.py:252`); the sync that follows may then reject the board of a newer one.
* A rejection the board refuses ends the sync, whichever pair the row belongs to; the rows behind it are not
  polled, now or at the next press, so a merge whose webhook was lost may never be verified
  (`core/pr_sync.py:59`, against its lines 1-4; `SyncRefused` and `SyncStarved`, and the premise of
  `MergedIsVerified`).
* The sync asks GitHub without an installation token (`core/pr_sync.py`), so it sees public
  repositories only. Tokens are not modelled.

Notifications: a notification that was sent may be recorded as failed by another flusher
that got no answer; two first writes of the failure counter collide and the later
transaction is lost with the result of its scan (`core/config_store.py:21`); and two workers that fail at the
same draft or remediation may count one over the other, after which a failure that
reaches the threshold may go unannounced (`core/derivation.py:71`, `core/remediation_flow.py:183`; the
exception in `FailuresAreAnnounced`).

Diffs, all found with other values of `Habits` and `Texts`:

* The canonical form drops empty lines, which are context lines whose blank was trimmed.
  The diff usually fails the structure check, but the headers of a file that follows can fill up
  the counts of the hunk, and the change is misplaced.
* A hunk that shows nothing of the old file (`@@ -k,0 ...`) is applied one line early.
* A removed line `-- p` is a header to `core/diffhash.py` and splits its section.

Migration lock: two containers that have both read the age of a stale lock, of which the second removes
the lock the first has created since, so that both migrate (`entrypoint.sh:40`); and the refresher that is
not killed (`entrypoint.sh:68`), which may touch a lock after its release and keep it fresh
without a holder, or keep the lock of the next container fresh after that one has died.

## Proofs

`ScanQueueProofs` proves, for any sets of entries, repositories, branches, workers
and any number of jobs that satisfy `ScanQueueAssumption`:

* `TypeInvariant`, `TypeCorrectness`: `Spec => []TypeOK`. `TypeOK` alone is not
  inductive: `Claim` writes the row with the id in the worker's hand, which must
  exist. `RowsInHand` says so, and `TypeInv` is the conjunction. One lemma per group of
  actions (`WebType`, `EnvironmentType`, `PassType`, `ExecuteType`, `SchedulerType`), one step
  per action. New rows go through `InsertedRows`: the rows a numbering adds are typed
  and the old ones stay.
* `ClaimsInvariant`, `ClaimsAreExclusive`: `Spec => []ExclusiveClaims`, assuming
  `Overlaps = {}`. Exclusiveness is not inductive either: a start that
  *selects* stale claims and later *requeues* them by id must not meet a row that
  somebody has taken in between. `ClaimInv` adds that a claim in somebody's hands is
  fresh (`HeldJobsRun`), that what a start has selected is still stale
  (`SelectedIsStale`), and that one worker starts at a time (`OneStarts`). `QuietStep`
  does all actions that hold no job, `ReleaseStep` all those by which a worker lets go.
* `ResultsAreFinal`: `Spec => DoneIsFinal`, from the same invariant: only the holder
  settles a row, and only a `running` one.

* `QueueImplementsLease` (`ScanQueueLeaseProofs`): `Spec => ImplementsJobLease`, same
  assumption. Four lemmas say what a step of a lease is in terms of rows and hands
  (`LeaseStutters`, `LeaseSubmits`, `LeaseEnds`, `LeaseLetsGo`), and each action is brought
  under one of them; `ClaimInv` supplies the guards (a row that is claimed has no holder, a
  row that is requeued was taken and has none).

The assumption is needed: a scan that outlasts its claim is executed twice.

`ScanQueueBoardProofs`, without that assumption but where it is named:

* `BoardAgrees`: `Spec => []BoardMatchesLastScan`. Every step but the last transaction of a
  scan is *tacit*: it leaves a row of the board, moves it to a status that tells nothing of
  a result, or marks it by hand and says so in `lastWord` (`OtherStepsAreTacit`), whether or not the
  late write contains the flag. The last transaction writes result and board together. The invariant needs `NoRescans`: with the purpose `rescan` the branch of
  `execute_scan_job` that keeps the status would keep `pattern_detected` after a clean scan.
  `RescanPurposeIsUnused` states that no handler sets it.
* `TriggerIsComplete`: `Spec => TriggerQueuesEveryBranch`, an action property. `OnlyTriggerAnswers`
  finds the one action that ends a scan trigger without a refusal; `EnqueueCovers` shows that the rows
  it inserts, together with the pending ones, cover every configured branch of the repositories not
  yet past; `PastIsSeenStep` keeps the invariant that every branch of a repository the request has
  passed by was seen pending by it, which is what the exception names.
  `InsertedIsStored` says that inserting a set of rows leaves each of them in the table under some id.
* `MigrationsAreVerified`: `Spec => []MigratedIsVerified`, where `Overlaps = {}`, because the
  verification that migrated a pair must stay done. A late mark that will not write the flag makes this
  not inductive; `LateMark` adds that, when the flag it has read is gone since, a verification has cleared it.

`MigrationLockProofs`: `LockTypes`, and `LockExcludes`, `Spec => ExclusiveUntilStale`. The
invariant adds that nobody is about to remove a lock (`NoRemover`), which holds as long as
none is stale; then only the one that migrates takes the file away.

`DispatchProofs`, for any numbers of remediations, pull requests, events, diffs and
workers, any assignment of names, and every kind of interference; only `OnePullEach` assumes
one worker.

* `TypeCorrect`, `ConfirmedDiffs`, `RowsFollowGitHub`, `VerificationsFollowMerges`,
  `BranchesAreNotReused`: `TypeOK`, `OnlyConfirmedDiffs`, `RowsMatchGitHub`, `VerifiesOnlyMerges`,
  `LiveBranchNotReused` hold always. None is inductive alone; `Inv` is their conjunction with
  what ties them together. `Handling` says what the handler under way may rely on at each
  place: at `branch` that the live branches it read are still all of them, at `commit`
  that its branch is none of these, at `propose` that the branch holds its diff, at `record` that the pull
  request carries its remediation and branch. `MergesAreFinal` keeps a polled merge true until it
  is applied, `ReadyHasDiff` excludes approving nothing, `HeadsExist` keeps a head from
  being created again. The lemmas come in three groups: which actions write a table
  (`PullWriters`, `RowWriters`, `RefWriters` ...), what is never taken back (`PullsStay`, `RowsStay`,
  `RefsStay`, `ConfirmationsStay`), and one lemma per conjunct of `Inv`.
* `OpenOnTheBoard`: `PrOpenHasLivePull`, by a further invariant on top of `Inv`: only a
  rejection turns a live row into another, and it moves the board in the same transaction.
* `OnePullEach`: `OnePullPerRemediation` for one worker (`OneWorker`). With two, a late
  generation makes a dispatched remediation `ready` again; `GeneratedOnce` says that with one it
  cannot.
* `DispatchImplementsChange`: `Spec => ImplementsChange`. Lemmas say which steps
  approve, publish, track and ask, or stutter (`Approves`, `Publishes`, `Tracks`, `Asks`, `Stutters`), and each action is
  brought under one; `Inv` supplies the guards.

`OutboxProofs`, for any finite set of processes and any limits: `TypeCorrect`; `SentMeansReceived`,
whose invariant carries the knowledge from the post to the record (`Posting`);
`ThresholdIsAnnounced`, whose invariant is that the count never falls behind the failures
since the last success (`CountKeepsUp`): a reset that keeps a stale row or loses one
only ever errs upwards. Only a count written over another falls behind, and `lost` excepts it until the
next success. `DuplicationIsBounded`: `Spec => []DuplicatesAreBounded`. What a receiver has seen
of a notification is counted in *slots*, one for each attempt of each process. `Used(i)` is the set of
slots that are spent: all of a process that does not hold `i` once it is settled, and the
attempts made by one that is posting it. The invariant `PostsAreCounted` bounds the posts by the
cardinality of this set plus a full set of attempts per crash, because a process that ended may take the
notification up again. A post spends a slot that was free (`PostIsCounted`), a crash
gives back at most `Attempts` (`CrashIsCounted`), no other step gives one back, and
`HandsAreEmpty` keeps what an idle process once held out of the count.

`DiffsProofs` and `DiffsApplyProofs`, for changes of any number of lines, treat the
parsers as what they are, folds. `FoldLeft` is a recursive function on sets of positions, so
the first lemmas (`SetOfNumbers` to `FoldedFacts`) show by induction over sets
that there is such a function and that it has the equations of a fold: empty, one more line, concatenation.
Each parser is then put in that form (`SplitIsFolded`, `ParseIsFolded`, `PartIsFolded`, `TallyIsFolded` ...).
Induction over a diff or a change is always the statement that the set of the lengths, or
sequences, with some property is closed under one more line.

* `CanonicalFormIsFinal`: the canonical form of a diff that begins with a header is its own
  canonical form. The lines of one file are one section, headers are clean after the first
  time (`CleanLinesFacts`), and a second reading finds the sections the first has closed
  (`SoundSplitLine`, `RereadType`).
* `HashIsOfTheChange`: `Spec => []HashIgnoresLayout`, assuming `"trims" \notin Habits`, for any
  texts, those that look like headers included. A reading with stamps and one without are alike
  (`AlikeSplitLine`); metadata between files is skipped; the sections of two files follow each
  other, and no line of one is a line of the other (`PartsAreApart`), so their order does not
  matter.
  An engine that trims changes context lines, and with them the hash.
* `TypesAreKept`: `Spec => []TypeOK`, for every habit and text: what the parsers return,
  whatever they are given, has the types of their accumulators.
* `FilesAreRebuilt`: `Spec => []ReconstructsOrFails`, assuming `Habits = {}` and that no text looks
  like the header of a file, `Texts \cap (PlusTexts \cup DashTexts) = {}`. The invariant
  `DiffIsOrdinary` says that what is stored is one of the ways to write the change, which holds
  after the adapter too, because the canonical form of an ordinary diff is its plainest writing
  (`CanonicalIsPlain`). The core is `RenderedIsApplied`, by induction over the lines of
  the change: behind each of them (`Caught`) the applicator has read a beginning of the old
  file and written, with what it has yet to copy, the same beginning of the new (`Follows`). A line
  that is not shown is copied later (`CaughtUnshown`); at a hunk the number in its header is the
  number of old lines before it (`HunksAreInPlace`), so exactly the lines yet to be copied are,
  and the line that is expected is the line that is there (`LineIsFound`). `TwoPartsAreRead` shows that `per_file_diffs`
  returns both parts whole.
* `OrdinaryDiffsPass`: `Spec => []OrdinaryDiffsApply`, same assumptions. What `unidiff` counts off is
  what is left of the hunk (`Tallied`): behind a line that is shown, as many old and new lines
  are expected as the run still has.

Both assumptions are needed: one line `++i` is lost (the run `silent_diff`), a hunk without
context is applied one line early, and an empty context line without its blank is not found
(the disagreements on diffs above).
No assumption names the number of lines, their texts or their order; the two paths
and the change of the second file are those of the model.

Only model-checked: liveness (`EventuallyServed`, `AbandonedJobsComeBack`, `EveryContainerServes`, `MergedIsVerified`,
`PendingIsSettled`), which the prover does not reach. Every invariant and every
action property that a passing run checks is a theorem.

## Not modelled

* Sign-in and sessions. They decide who may press a button; their handlers run one at a time in
  one process, read and write rows nothing else uses, and the workflow does not depend on them.
* Pages, health, CLI. They render and report; the operator commands are run while the
  program is stopped.
* HTTP, signatures and decoding of requests, installation tokens and their cache, archive
  downloads and their bounds, contents of occurrences, the work of the engine: their outcomes are
  branches of the actions that call them.
* The instance id, the list of latencies and the default language in `core/config_store.py`; the heartbeat,
  which nothing in the workflow reads; connection pools and pragmas in `db.py`.
