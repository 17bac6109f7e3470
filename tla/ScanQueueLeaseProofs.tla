------------------------ MODULE ScanQueueLeaseProofs ------------------------
(***************************************************************************)
(* ScanQueue implements JobLease when no scan outlasts the stale-claim     *)
(* limit and starts do not overlap: every step of every process is, seen   *)
(* through LeaseState and LeaseHolders, a step of a lease or a stutter.    *)
(* The invariants TypeInv and ClaimInv of ScanQueueProofs say what the     *)
(* guards of the lease ask for.                                            *)
(***************************************************************************)
EXTENDS ScanQueueProofs

LeaseStep == Lease!Next \/ UNCHANGED Lease!vars

-----------------------------------------------------------------------------
\* The steps of a lease, by what they do to the rows and to the holders

\* Neither a stage nor a holder changes.
LEMMA LeaseStutters ==
  ASSUME \A j \in JobIds : Stage(jobs'[j]) = Stage(jobs[j]),
         \A w \in Workers, j \in JobIds : Holds(w, j)' <=> Holds(w, j)
  PROVE  LeaseStep
<1>1. LeaseState' = LeaseState
  BY DEF LeaseState
<1>2. LeaseHolders' = LeaseHolders
  BY DEF LeaseHolders
<1> QED
  BY <1>1, <1>2 DEF LeaseStep, Lease!vars

\* Inserted rows are submitted; those of another language are closed at once.
LEMMA LeaseSubmits ==
  ASSUME jobs \in JobTable, jobs' \in JobTable, UNCHANGED worker,
         \A j \in Rows : jobs'[j] = jobs[j],
         \A j \in JobIds : jobs'[j] # jobs[j] =>
           jobs'[j].status \in {"queued", "skipped_language"}
  PROVE  LeaseStep
<1> DEFINE S == {j \in JobIds : jobs'[j] # jobs[j]}
           closed == {j \in S : jobs'[j].status = "skipped_language"}
<1>1. \A j \in S : LeaseState[j] = "unused"
  BY DEF Rows, LeaseState, Stage, Absent
<1>2. \A j \in JobIds : Stage(jobs'[j]) =
        IF j \notin S THEN Stage(jobs[j])
        ELSE IF j \in closed THEN "failed" ELSE "waiting"
  BY DEF Stage
<1>3. LeaseState' = [j \in JobIds |-> IF j \notin S THEN LeaseState[j]
                       ELSE IF j \in closed THEN "failed" ELSE "waiting"]
  BY <1>2 DEF LeaseState
<1>4. LeaseHolders' = LeaseHolders
  BY DEF LeaseHolders, Holds
<1>5. Lease!Submit(S, closed)
  BY <1>1, <1>3, <1>4 DEF Lease!Submit
<1> QED
  BY <1>5 DEF LeaseStep, Lease!Next

\* Only the holder's hand changes, and it held the job j: with the row it settles
\* the job, without it abandons it.
LEMMA LeaseEnds ==
  ASSUME TypeInv, ClaimInv, NEW w \in Workers, NEW j \in JobIds,
         Holds(w, j),
         NEW place, Go(w, place), place.at \notin {"claimed", "scanning"},
         \A i \in JobIds \ {j} : jobs'[i] = jobs[i],
         \/ jobs'[j] = jobs[j]
         \/ Stage(jobs'[j]) \in {"waiting", "failed", "done"}
  PROVE  LeaseStep
<1>0. worker \in [Workers -> Places]
  BY DEF TypeInv, TypeOK, Places
<1>1. /\ worker'[w] = place
      /\ \A v \in Workers \ {w} : worker'[v] = worker[v]
  BY <1>0 DEF Go
<1>2. LeaseHolders[j] = {w}
  BY DEF LeaseHolders, ClaimInv, HeldByOne
<1>3. \A v \in Workers, i \in JobIds : Holds(v, i)' <=> Holds(v, i) /\ v # w
  BY <1>1 DEF Holds
<1>4. \A i \in JobIds : Holds(w, i) => i = j
  BY DEF Holds
<1>5. LeaseHolders' = [LeaseHolders EXCEPT ![j] = {}]
  <2>1. \A i \in JobIds : {v \in Workers : Holds(v, i)'}
                            = IF i = j THEN {} ELSE LeaseHolders[i]
    BY <1>2, <1>3, <1>4 DEF LeaseHolders
  <2> QED
    BY <2>1 DEF LeaseHolders
<1>6. LeaseState[j] = "taken"
  BY DEF LeaseState, Stage, ClaimInv, HeldJobsRun
<1>7. CASE jobs'[j] = jobs[j]
  <2>1. LeaseState' = LeaseState
    BY <1>7 DEF LeaseState
  <2>2. Lease!Abandon(w, j)
    BY <1>2, <1>5, <2>1 DEF Lease!Abandon
  <2> QED
    BY <2>2 DEF LeaseStep, Lease!Next
<1>8. CASE Stage(jobs'[j]) \in {"waiting", "failed", "done"}
  <2>1. LeaseState' = [LeaseState EXCEPT ![j] = Stage(jobs'[j])]
    BY DEF LeaseState
  <2>2. Lease!Settle(w, j, Stage(jobs'[j]))
    BY <1>2, <1>5, <1>6, <2>1 DEF Lease!Settle
  <2> QED
    BY <1>8, <2>2 DEF LeaseStep, Lease!Next
<1> QED
  BY <1>7, <1>8

\* A worker that leaves the jobs alone lets go of what it holds, if anything.
LEMMA LeaseLetsGo ==
  ASSUME TypeInv, ClaimInv, NEW w \in Workers,
         NEW place, Go(w, place), place.at \notin {"claimed", "scanning"},
         UNCHANGED jobs
  PROVE  LeaseStep
<1>1. worker \in [Workers -> Places]
  BY DEF TypeInv, TypeOK, Places
<1>2. CASE \E j \in JobIds : Holds(w, j)
  BY <1>2, LeaseEnds
<1>3. CASE ~\E j \in JobIds : Holds(w, j)
  <2>1. \A v \in Workers, j \in JobIds : Holds(v, j)' <=> Holds(v, j)
    BY <1>1, <1>3 DEF Go, Holds
  <2> QED
    BY <2>1, LeaseStutters
<1> QED
  BY <1>2, <1>3

-----------------------------------------------------------------------------
\* The steps of the processes

\* The rows that are inserted wait, or are of another language.
LEMMA ScanRowsWait ==
  ASSUME ScanQueueAssumption, TypeOK, NEW T \in SUBSET Pairs,
         NEW rows \in SUBSET Job, FromScan(rows), EnqueueScans(T, rows)
  PROVE  /\ jobs' \in JobTable
         /\ \A j \in Rows : jobs'[j] = jobs[j]
         /\ \A j \in JobIds : jobs'[j] # jobs[j] =>
              jobs'[j].status \in {"queued", "skipped_language"}
<1>1. PICK at \in Numberings(rows) : jobs' = Inserted(at)
  BY DEF EnqueueScans
<1> QED
  BY <1>1, InsertedRows DEF TypeOK, JobTable, FromScan

LEMMA WebLease ==
  ASSUME ScanQueueAssumption, TypeInv, ClaimInv, Web
  PROVE  LeaseStep
<1>0. TypeOK /\ jobs \in JobTable
  BY DEF TypeInv, TypeOK, JobTable
<1>1. ASSUME UNCHANGED <<jobs, worker>> PROVE LeaseStep
  BY <1>1, LeaseStutters DEF Holds
<1>2. CASE ScanTrigger
  <2>1. CASE EnqueueScans(ToScan, TriggerRows)
    <3>1. ToScan \in SUBSET Pairs /\ TriggerRows \in SUBSET Job
      BY <1>0, <1>2, TriggerWrites DEF ScanTrigger
    <3>2. UNCHANGED worker
      BY <1>2 DEF ScanTrigger
    <3> QED
      BY <1>0, <2>1, <3>1, <3>2, RowsFromScan, ScanRowsWait, LeaseSubmits
  <2> QED
    BY <1>1, <1>2, <2>1 DEF ScanTrigger
<1>3. ASSUME NEW p \in Pairs, RescanRepo(p) PROVE LeaseStep
  <2>1. NewJob(p, DefaultBranch, PRIORITY_USER) \in Job
    BY NewRowsType DEF PRIORITY_USER
  <2>2. NewJob(p, DefaultBranch, PRIORITY_USER).status = "queued"
    BY DEF NewJob
  <2> QED
    BY <1>0, <1>3, <2>1, <2>2, InsertRow, LeaseSubmits DEF RescanRepo
<1>4. ASSUME NEW j \in JobIds, RetryJob(j) PROVE LeaseStep
  <2>1. jobs[j] \in Job
    BY <1>0, <1>4, RowsHaveJobs DEF RetryJob, Retryable
  <2>2. jobs'[j].status = "queued"
    BY <1>0, <1>4, <2>1 DEF RetryJob, JobTable, Job
  <2>3. \A i \in JobIds \ {j} : jobs'[i] = jobs[i]
    BY <1>0, <1>4 DEF RetryJob, JobTable
  <2>4. LeaseState[j] = "failed"
    BY <1>4 DEF LeaseState, Stage, RetryJob, Retryable
  <2>5. LeaseState' = [LeaseState EXCEPT ![j] = "waiting"]
    BY <2>2, <2>3 DEF LeaseState, Stage
  <2>6. LeaseHolders' = LeaseHolders
    BY <1>4 DEF LeaseHolders, Holds, RetryJob
  <2>7. Lease!Retry(j)
    BY <2>4, <2>5, <2>6 DEF Lease!Retry
  <2> QED
    BY <2>7 DEF LeaseStep, Lease!Next
<1>5. ASSUME NEW R \in SUBSET Repos, RepositoriesAdded(R) PROVE LeaseStep
  <2>1. UNCHANGED worker
    BY <1>5 DEF RepositoriesAdded
  <2>2. PICK T \in SUBSET Pairs : EnqueueScans(T, ScanRows(T, {}))
    BY <1>5 DEF RepositoriesAdded
  <2> QED
    BY <1>0, <2>1, <2>2, ScanRowsType, RowsFromScan, ScanRowsWait, LeaseSubmits
<1>6. ASSUME NEW p \in Pairs, EnqueueVerification(p) PROVE LeaseStep
  <2> DEFINE row == [NewJob(p, DefaultBranch, PRIORITY_USER) EXCEPT
                       !.purpose = "verification", !.due = FALSE]
  <2>1. NewJob(p, DefaultBranch, PRIORITY_USER) \in Job
    BY NewRowsType DEF PRIORITY_USER
  <2>2. row \in Job /\ row.status = "queued"
    BY <2>1 DEF Job, NewJob
  <2> QED
    BY <1>0, <1>6, <2>2, InsertRow, LeaseSubmits DEF EnqueueVerification
<1>7. ASSUME \/ \E e \in Entries : ReadForScan(e)
             \/ \E p \in Pairs : LookAtBoard(p)
             \/ \E p \in Pairs, b \in Branches : LookForPending(p, b)
             \/ NothingToWrite
             \/ ScanBeyondBound
             \/ \E r \in Repos, list \in BranchLists : ConfigureBranches(r, list)
             \/ \E listed, gone \in SUBSET Repos : Recheck(listed, gone)
             \/ \E p \in Pairs : ReadForMark(p)
             \/ MarkMigrated
             \/ \E p \in Pairs : RequestRemediation(p)
      PROVE  LeaseStep
  <2>1. UNCHANGED <<jobs, worker>>
    BY <1>7 DEF ReadForScan, LookAtBoard, LookForPending, NothingToWrite,
                ScanBeyondBound, ConfigureBranches, Recheck, ReadForMark,
                MarkMigrated, RequestRemediation
  <2> QED
    BY <1>1, <2>1
<1> QED
  BY <1>2, <1>3, <1>4, <1>5, <1>6, <1>7 DEF Web

LEMMA EnvironmentLease ==
  ASSUME TypeInv, Environment
  PROVE  LeaseStep
<1>0. jobs \in JobTable
  BY DEF TypeInv, TypeOK, JobTable
<1>1. ASSUME \A j \in JobIds : jobs'[j].status = jobs[j].status, UNCHANGED worker
      PROVE  LeaseStep
  <2>1. \A j \in JobIds : Stage(jobs'[j]) = Stage(jobs[j])
    BY <1>1 DEF Stage
  <2>2. \A w \in Workers, j \in JobIds : Holds(w, j)' <=> Holds(w, j)
    BY <1>1 DEF Holds
  <2> QED
    BY <2>1, <2>2, LeaseStutters
<1>2. ASSUME NEW p \in Pairs, NEW to \in ChangeStatuses, ChangeStep(p, to)
      PROVE  LeaseStep
  BY <1>1, <1>2 DEF ChangeStep
<1>3. ASSUME NEW j \in JobIds, BecomeDue(j) \/ BecomeStale(j) PROVE LeaseStep
  <2>1. jobs[j] \in Job
    BY <1>0, <1>3, RowsHaveJobs DEF BecomeDue, BecomeStale
  <2>2. \A i \in JobIds : jobs'[i].status = jobs[i].status
    BY <1>0, <1>3, <2>1 DEF BecomeDue, BecomeStale, JobTable, Job
  <2> QED
    BY <1>1, <1>3, <2>2 DEF BecomeDue, BecomeStale
<1> QED
  BY <1>2, <1>3 DEF Environment

\* The requeue at startup finds every row it selected taken and held by nobody.
LEMMA RequeueReclaims ==
  ASSUME TypeInv, ClaimInv, NEW w \in Workers, Requeue(w)
  PROVE  LeaseStep
<1> DEFINE S == worker[w].stale
<1>0. worker \in [Workers -> Places] /\ jobs \in JobTable /\ RowsInHand
  BY DEF TypeInv, TypeOK, Places, JobTable
<1>1. S \subseteq Rows /\ \A j \in S : StaleClaim(j)
  BY <1>0 DEF Requeue, RowsInHand, ClaimInv, SelectedIsStale
<1>2. \A j \in S : LeaseState[j] = "taken" /\ LeaseHolders[j] = {}
  BY <1>1 DEF Rows, StaleClaim, LeaseState, LeaseHolders, Stage,
              ClaimInv, HeldJobsRun
<1>3. \A j \in JobIds : Stage(jobs'[j]) =
        IF j \in S THEN "waiting" ELSE Stage(jobs[j])
  <2>1. \A j \in S : jobs[j] \in Job
    BY <1>0, <1>1, RowsHaveJobs
  <2> QED
    BY <1>0, <2>1 DEF Requeue, Stage, Job
<1>4. LeaseState' = [j \in JobIds |-> IF j \in S THEN "waiting" ELSE LeaseState[j]]
  BY <1>3 DEF LeaseState
<1>5. \A v \in Workers, j \in JobIds : Holds(v, j)' <=> Holds(v, j)
  BY <1>0 DEF Requeue, Go, Holds, Idle
<1>6. LeaseHolders' = LeaseHolders
  BY <1>5 DEF LeaseHolders
<1>7. Lease!Reclaim(S)
  BY <1>2, <1>4, <1>6 DEF Lease!Reclaim
<1> QED
  BY <1>0, <1>1, <1>7 DEF LeaseStep, Lease!Next, Rows

\* The conditional UPDATE takes a job that waits, or nothing.
LEMMA ClaimTakes ==
  ASSUME TypeInv, ClaimInv, NEW w \in Workers, Claim(w)
  PROVE  LeaseStep
<1> DEFINE k == worker[w].job
<1>0. worker \in [Workers -> Places] /\ jobs \in JobTable /\ RowsInHand
  BY DEF TypeInv, TypeOK, Places, JobTable
<1>1. k \in JobIds /\ jobs[k] \in Job /\ worker[w].at = "selected"
  BY <1>0, RowsHaveJobs DEF Claim, RowsInHand, Rows
<1>2. CASE StillQueued(k)
  <2>1. /\ jobs'[k].status = "running"
        /\ \A j \in JobIds \ {k} : jobs'[j] = jobs[j]
        /\ jobs[k].status = "queued"
    BY <1>0, <1>1, <1>2 DEF Claim, StillQueued, JobTable, Job
  <2>2. /\ worker'[w] = [at |-> "claimed", job |-> k]
        /\ \A v \in Workers \ {w} : worker'[v] = worker[v]
    BY <1>0, <1>2 DEF Claim, Go
  <2>3. LeaseState[k] = "waiting"
    BY <1>1, <2>1 DEF LeaseState, Stage
  <2>4. Lease!Free(w)
    BY <1>1 DEF Lease!Free, LeaseHolders, Holds
  <2>5. LeaseState' = [LeaseState EXCEPT ![k] = "taken"]
    BY <1>1, <2>1 DEF LeaseState, Stage
  <2>6. \A v \in Workers : ~Holds(v, k)
    BY <1>1, <2>1 DEF ClaimInv, HeldJobsRun
  <2>7. \A v \in Workers, j \in JobIds :
          Holds(v, j)' <=> IF v = w THEN j = k ELSE Holds(v, j)
    BY <2>2 DEF Holds
  <2>8. \A j \in JobIds : {v \in Workers : Holds(v, j)'}
                            = IF j = k THEN {w} ELSE {v \in Workers : Holds(v, j)}
    BY <1>1, <2>6, <2>7 DEF Holds
  <2>9. LeaseHolders' = [LeaseHolders EXCEPT ![k] = {w}]
    BY <2>8 DEF LeaseHolders
  <2>10. Lease!Take(w, k)
    BY <2>3, <2>4, <2>5, <2>9 DEF Lease!Take
  <2> QED
    BY <1>1, <2>10 DEF LeaseStep, Lease!Next
<1>3. CASE ~StillQueued(k)
  BY <1>3, LeaseLetsGo DEF Claim, Idle
<1> QED
  BY <1>2, <1>3

\* The ends of a scan settle the job in hand or abandon it.
LEMMA ExecuteLease ==
  ASSUME TypeInv, ClaimInv, NEW w \in Workers, Execute(w)
  PROVE  LeaseStep
<1> DEFINE k == worker[w].job
<1>0. worker \in [Workers -> Places] /\ jobs \in JobTable /\ RowsInHand
  BY DEF TypeInv, TypeOK, Places, JobTable
<1>1. Holds(w, k) /\ k \in JobIds /\ jobs[k] \in Job
  <2>1. worker[w].at \in {"claimed", "scanning"}
    BY DEF Execute, StartScan, RateLimited, FailScan, FinishScan, RefuseResult
  <2> QED
    BY <1>0, <2>1, RowsHaveJobs DEF Holds, RowsInHand, Rows
<1>2. CASE StartScan(w) /\ Scannable(jobs[k].pair)
  <2>1. \A v \in Workers, j \in JobIds : Holds(v, j)' <=> Holds(v, j)
    BY <1>0, <1>2 DEF StartScan, Go, Holds
  <2> QED
    BY <1>2, <2>1, LeaseStutters DEF StartScan
<1>3. ASSUME Go(w, Idle),
             \A i \in JobIds \ {k} : jobs'[i] = jobs[i],
             \/ jobs'[k] = jobs[k]
             \/ jobs'[k].status \in {"queued", "failed", "done"}
      PROVE  LeaseStep
  <2>1. \/ jobs'[k] = jobs[k]
        \/ Stage(jobs'[k]) \in {"waiting", "failed", "done"}
    BY <1>3 DEF Stage
  <2>2. Idle.at \notin {"claimed", "scanning"}
    BY DEF Idle
  <2> QED
    BY <1>1, <1>3, <2>1, <2>2, LeaseEnds
<1>4. ASSUME \/ StartScan(w) /\ ~Scannable(jobs[k].pair)
             \/ RateLimited(w) \/ FailScan(w)
             \/ \E found \in BOOLEAN : FinishScan(w, found) \/ RefuseResult(w, found)
      PROVE  LeaseStep
  <2>1. Go(w, Idle)
    BY <1>4 DEF StartScan, RateLimited, FailScan, FinishScan, RefuseResult
  <2>2. \A i \in JobIds \ {k} : jobs'[i] = jobs[i]
    BY <1>0, <1>4
       DEF StartScan, RateLimited, FailScan, FinishScan, RefuseResult, JobTable
  <2>3. \/ jobs'[k] = jobs[k]
        \/ jobs'[k].status \in {"queued", "failed", "done"}
    <3>1. CASE RateLimited(w)
      BY <1>0, <1>1, <3>1 DEF RateLimited, JobTable, Job
    <3>2. CASE FailScan(w)
      BY <1>0, <1>1, <3>2 DEF FailScan, JobTable, Job
    <3>3. CASE \E found \in BOOLEAN : FinishScan(w, found)
      BY <1>0, <1>1, <3>3 DEF FinishScan, JobTable, Job
    <3>4. CASE StartScan(w) /\ ~Scannable(jobs[k].pair)
      BY <1>0, <1>1, <3>4 DEF StartScan, JobTable, Job
    <3> QED
      BY <1>4, <3>1, <3>2, <3>3, <3>4 DEF RefuseResult
  <2> QED
    BY <1>3, <2>1, <2>2, <2>3
<1> QED
  BY <1>2, <1>4 DEF Execute

LEMMA WorkerLease ==
  ASSUME ScanQueueAssumption, TypeInv, ClaimInv, NEW w \in Workers, Worker(w)
  PROVE  LeaseStep
<1>0. worker \in [Workers -> Places] /\ jobs \in JobTable /\ TypeOK
  BY DEF TypeInv, TypeOK, Places, JobTable
<1>1. ASSUME \/ Start(w)
             \/ \E e \in Entries : Derive(w, e)
             \/ FinishDerivation(w) \/ StartPass(w) \/ NothingDue(w)
             \/ \E j \in JobIds : Select(w, j)
             \/ Busy(w) \/ Crash(w)
      PROVE  LeaseStep
  <2>1. jobs' = jobs
    BY <1>1 DEF Start, Derive, FinishDerivation, StartPass, NothingDue, Select,
                Busy, Crash
  <2>2. Go(w, worker'[w]) /\ worker'[w].at \notin {"claimed", "scanning"}
    BY <1>0, <1>1 DEF Start, Derive, FinishDerivation, StartPass, NothingDue,
                      Select, Busy, Crash, Idle, Down, Go
  <2> QED
    BY <2>1, <2>2, LeaseLetsGo
<1>2. CASE Generate(w)
  <2>1. PICK p \in worker[w].batch :
          \/ Generated(w, p) \/ NotGenerated(w, p) \/ GenerationRefused(w, p)
    BY <1>2 DEF Generate
  <2>2. worker[w] \in [at : {"generating"}, batch : SUBSET Pairs]
    BY <1>0, <1>2 DEF Generate, Places
  <2>3. [worker[w] EXCEPT !.batch = @ \ {p}].at = "generating"
    BY <2>2
  <2>4. Go(w, worker'[w]) /\ worker'[w].at \notin {"claimed", "scanning"}
    <3>1. \/ Go(w, Idle)
          \/ Go(w, [worker[w] EXCEPT !.batch = @ \ {p}])
      BY <2>1 DEF Generated, NotGenerated, GenerationRefused
    <3>2. Idle.at \notin {"claimed", "scanning"}
      BY DEF Idle
    <3>3. \A place : Go(w, place) => worker'[w] = place /\ Go(w, worker'[w])
      BY <1>0 DEF Go
    <3> QED
      BY <2>3, <3>1, <3>2, <3>3
  <2> QED
    BY <1>2, <2>4, LeaseLetsGo DEF Generate
<1>3. CASE SurveyRescans(w)
  BY <1>3, LeaseStutters DEF SurveyRescans, Holds
<1>4. CASE InsertRescans(w)
  <2>1. PICK first \in plan[w] :
          \E at \in Numberings({RescanRow(p) : p \in
                     {first} \cup {q \in plan[w] : PendingJobs(q) = {}}}) :
            jobs' = Inserted(at)
    BY <1>4 DEF InsertRescans
  <2> DEFINE rows == {RescanRow(p) : p \in
                        {first} \cup {q \in plan[w] : PendingJobs(q) = {}}}
  <2>2. rows \in SUBSET Job
    BY <1>0, NewRowsType DEF TypeOK
  <2>3. \A row \in rows : row.status = "queued"
    BY DEF RescanRow, NewJob
  <2>4. PICK at \in Numberings(rows) : jobs' = Inserted(at)
    BY <2>1
  <2> HIDE DEF rows
  <2>5. /\ jobs' \in JobTable
        /\ \A j \in Rows : jobs'[j] = jobs[j]
        /\ \A j \in JobIds : jobs'[j] # jobs[j] => jobs'[j].status = "queued"
    BY <1>0, <2>2, <2>3, <2>4, InsertedRows
  <2>6. UNCHANGED worker
    BY <1>4 DEF InsertRescans
  <2> QED
    BY <1>0, <2>5, <2>6, LeaseSubmits
<1> QED
  BY <1>1, <1>2, <1>3, <1>4, RequeueReclaims, ClaimTakes, ExecuteLease DEF Worker

LEMMA LeaseStarts == Init => Lease!Init
<1> SUFFICES ASSUME Init PROVE Lease!Init
  OBVIOUS
<1>1. LeaseState = [j \in JobIds |-> "unused"]
  BY DEF Init, LeaseState, Stage, Absent
<1>2. LeaseHolders = [j \in JobIds |-> {}]
  BY DEF Init, LeaseHolders, Holds, Down
<1> QED
  BY <1>1, <1>2 DEF Lease!Init

\* Provided no scan outlasts the stale-claim limit and starts do not overlap, the
\* queue with all its processes implements the lease of a job (JobLease): what
\* claim_next_job, execute_scan_job, requeue_stale_jobs and the handlers do to
\* a row is always one of a lease's steps, or none.
THEOREM QueueImplementsLease ==
  ASSUME Overlaps = {}
  PROVE  Spec => ImplementsJobLease
<1>1. TypeInv /\ ClaimInv /\ [Next]_vars => [Lease!Next]_(Lease!vars)
  <2> SUFFICES ASSUME TypeInv, ClaimInv, [Next]_vars PROVE LeaseStep
    BY DEF LeaseStep
  <2>1. CASE UNCHANGED vars
    BY <2>1, LeaseStutters DEF vars, Holds
  <2> QED
    BY <2>1, WebLease, EnvironmentLease, WorkerLease, ScanQueueAssumption DEF Next
<1> QED
  BY <1>1, LeaseStarts, TypeInvariant, ClaimsInvariant, PTL
     DEF Spec, ImplementsJobLease, Lease!Spec
=============================================================================
