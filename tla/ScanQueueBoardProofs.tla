------------------------ MODULE ScanQueueBoardProofs ------------------------
(***************************************************************************)
(* Proofs about what ScanQueue writes to the coverage board.  Only the     *)
(* last transaction of a scan and mark-migrated give a pair one of the     *)
(* statuses that speak of a result (Telling) or change its flag and its    *)
(* timestamp; every other step leaves the row alone or moves it to another *)
(* status.                                                                 *)
(***************************************************************************)
EXTENDS ScanQueueProofs

Telling == {"no_hits", "pattern_detected", "migrated", "migration_incomplete"}

\* The new row of a pair says nothing about a result that the old one did not.
Untold(old, new) ==
  \/ new = old
  \/ /\ new.status \notin Telling
     /\ new.manual = old.manual
     /\ new.stamped = old.stamped

Tacit(p) == Untold(cov[p], cov'[p])

\* No row has the purpose of a periodic rescan: RescanRow leaves the column's
\* default, and no handler sets another.
NoRescans == \A j \in Rows : jobs[j].purpose # "rescan"

PurposesKept ==
  \A j \in JobIds : jobs'[j] # jobs[j] =>
    \/ jobs'[j].purpose # "rescan"
    \/ j \in Rows /\ jobs'[j].purpose = jobs[j].purpose

TacitStep == (\A p \in Pairs : Tacit(p)) /\ UNCHANGED lastWord /\ PurposesKept

-----------------------------------------------------------------------------
LEMMA MovedStatus ==
  ASSUME NEW row, NEW to
  PROVE  Moved(row, to).status = to
  BY DEF Moved, Transitioned

\* A transition to a status that is not "migrated" leaves flag and timestamp.
LEMMA MovedRest ==
  ASSUME NEW row \in BoardRow, NEW to, to # "migrated"
  PROVE  /\ Moved(row, to).manual = row.manual
         /\ Moved(row, to).stamped = row.stamped
  BY DEF Moved, Transitioned, BoardRow

LEMMA MovedIsUntold ==
  ASSUME NEW row \in BoardRow, NEW to, to \notin Telling
  PROVE  Untold(row, Moved(row, to))
  BY MovedStatus, MovedRest DEF Untold, Telling

\* A step that leaves board and rows alone.
LEMMA BoardIsLeft ==
  ASSUME UNCHANGED <<cov, jobs, lastWord>>
  PROVE  TacitStep
  BY DEF TacitStep, Tacit, Untold, PurposesKept

\* A row changes, and keeps its purpose.
LEMMA PurposeStays ==
  ASSUME jobs \in JobTable, NEW k \in Rows,
         \A j \in JobIds \ {k} : jobs'[j] = jobs[j],
         jobs'[k].purpose = jobs[k].purpose
  PROVE  PurposesKept
  BY DEF PurposesKept

\* enqueue_scans_for_entry moves pairs to 'scanning' or 'skipped_language'.
LEMMA EnqueueIsTacit ==
  ASSUME ScanQueueAssumption, TypeOK, NEW T \in SUBSET Pairs,
         NEW rows \in SUBSET Job, FromScan(rows),
         EnqueueScans(T, rows), UNCHANGED lastWord
  PROVE  TacitStep
<1>1. PICK at \in Numberings(rows) : jobs' = Inserted(at)
  BY DEF EnqueueScans
<1>2. PurposesKept
  BY <1>1, InsertedRows DEF TypeOK, JobTable, PurposesKept, FromScan
<1>3. \A p \in Pairs : ScanStatus(p) \notin Telling
  BY DEF ScanStatus, Telling
<1>4. \A p \in Pairs : Untold(cov[p], Moved(cov[p], ScanStatus(p)))
  BY <1>3, MovedIsUntold DEF TypeOK
<1>5. \A p \in Pairs : Tacit(p)
  BY <1>4 DEF EnqueueScans, Tacit, Untold
<1> QED
  BY <1>2, <1>5 DEF TacitStep

\* Requests, but for the mark by hand.
LEMMA WebIsTacit ==
  ASSUME ScanQueueAssumption, TypeInv, Web, ~MarkMigrated
  PROVE  TacitStep
<1>0. TypeOK /\ jobs \in JobTable /\ cov \in [Pairs -> BoardRow]
  BY DEF TypeInv, TypeOK, JobTable
<1>1. CASE ScanTrigger
  <2>1. /\ UNCHANGED lastWord
        /\ ToScan \in SUBSET Pairs /\ TriggerRows \in SUBSET Job
    BY <1>0, <1>1, TriggerWrites DEF ScanTrigger
  <2>2. CASE EnqueueScans(ToScan, TriggerRows)
    BY <1>0, <2>1, <2>2, RowsFromScan, EnqueueIsTacit
  <2> QED
    BY <1>1, <2>1, <2>2, BoardIsLeft DEF ScanTrigger
<1>2. ASSUME NEW p \in Pairs, RescanRepo(p) PROVE TacitStep
  <2>1. NewJob(p, DefaultBranch, PRIORITY_USER) \in Job
    BY NewRowsType DEF PRIORITY_USER
  <2>2. NewJob(p, DefaultBranch, PRIORITY_USER).purpose = "scan"
    BY DEF NewJob
  <2>3. PurposesKept
    BY <1>0, <1>2, <2>1, <2>2, InsertRow DEF RescanRepo, PurposesKept
  <2>4. Untold(cov[p], Moved(cov[p], "scanning"))
    BY <1>0, MovedIsUntold DEF Telling
  <2>5. \A q \in Pairs : Tacit(q)
    BY <1>0, <1>2, <2>4 DEF RescanRepo, Tacit, Untold
  <2> QED
    BY <1>2, <2>3, <2>5 DEF RescanRepo, TacitStep
<1>3. ASSUME NEW j \in JobIds, RetryJob(j) PROVE TacitStep
  <2>1. jobs[j] \in Job /\ j \in Rows
    BY <1>0, <1>3, RowsHaveJobs DEF RetryJob, Retryable
  <2>2. PurposesKept
    BY <1>0, <1>3, <2>1, PurposeStays DEF RetryJob, JobTable, Job
  <2> QED
    BY <1>3, <2>2 DEF RetryJob, TacitStep, Tacit, Untold
<1>4. ASSUME NEW R \in SUBSET Repos, RepositoriesAdded(R) PROVE TacitStep
  <2>1. UNCHANGED lastWord
    BY <1>4 DEF RepositoriesAdded
  <2>2. PICK T \in SUBSET Pairs : EnqueueScans(T, ScanRows(T, {}))
    BY <1>4 DEF RepositoriesAdded
  <2> QED
    BY <1>0, <2>1, <2>2, ScanRowsType, RowsFromScan, EnqueueIsTacit
<1>5. ASSUME NEW p \in Pairs, EnqueueVerification(p) PROVE TacitStep
  <2> DEFINE row == [NewJob(p, DefaultBranch, PRIORITY_USER) EXCEPT
                       !.purpose = "verification", !.due = FALSE]
  <2>1. NewJob(p, DefaultBranch, PRIORITY_USER) \in Job
    BY NewRowsType DEF PRIORITY_USER
  <2>2. row \in Job /\ row.purpose = "verification"
    BY <2>1 DEF Job
  <2>3. PurposesKept
    BY <1>0, <1>5, <2>2, InsertRow DEF EnqueueVerification, PurposesKept
  <2> QED
    BY <1>5, <2>3 DEF EnqueueVerification, TacitStep, Tacit, Untold
<1>7. ASSUME \/ \E e \in Entries : ReadForScan(e)
             \/ \E p \in Pairs : LookAtBoard(p)
             \/ \E p \in Pairs, b \in Branches : LookForPending(p, b)
             \/ NothingToWrite
             \/ ScanBeyondBound
             \/ \E r \in Repos, list \in BranchLists : ConfigureBranches(r, list)
             \/ \E listed, gone \in SUBSET Repos : Recheck(listed, gone)
             \/ \E p \in Pairs : ReadForMark(p) \/ RequestRemediation(p)
      PROVE  TacitStep
  BY <1>7, BoardIsLeft
     DEF ReadForScan, LookAtBoard, LookForPending, NothingToWrite,
         ScanBeyondBound, ConfigureBranches, Recheck, ReadForMark,
         RequestRemediation
<1> QED
  BY <1>1, <1>2, <1>3, <1>4, <1>5, <1>7 DEF Web

\* Pull requests and time.
LEMMA EnvironmentIsTacit ==
  ASSUME TypeInv, Environment
  PROVE  TacitStep
<1>0. jobs \in JobTable /\ cov \in [Pairs -> BoardRow]
  BY DEF TypeInv, TypeOK, JobTable
<1>1. ASSUME NEW p \in Pairs, NEW to \in ChangeStatuses, ChangeStep(p, to)
      PROVE  TacitStep
  <2>1. Untold(cov[p], Moved(cov[p], to))
    BY <1>0, MovedIsUntold DEF ChangeStatuses, Telling
  <2>2. \A q \in Pairs : Tacit(q)
    BY <1>0, <1>1, <2>1 DEF ChangeStep, Tacit, Untold
  <2> QED
    BY <1>1, <2>2 DEF ChangeStep, TacitStep, PurposesKept
<1>2. ASSUME NEW j \in JobIds, BecomeDue(j) \/ BecomeStale(j) PROVE TacitStep
  <2>1. jobs[j] \in Job /\ j \in Rows
    BY <1>0, <1>2, RowsHaveJobs DEF BecomeDue, BecomeStale
  <2>2. PurposesKept
    BY <1>0, <1>2, <2>1, PurposeStays DEF BecomeDue, BecomeStale, JobTable, Job
  <2> QED
    BY <1>2, <2>2 DEF BecomeDue, BecomeStale, TacitStep, Tacit, Untold
<1> QED
  BY <1>1, <1>2 DEF Environment

\* Workers, but for the last transaction of a scan.
LEMMA WorkerIsTacit ==
  ASSUME ScanQueueAssumption, TypeInv, NEW w \in Workers, Worker(w),
         ~\E found \in BOOLEAN : FinishScan(w, found)
  PROVE  TacitStep
<1> DEFINE k == worker[w].job
<1>0. /\ TypeOK /\ RowsInHand /\ jobs \in JobTable
      /\ cov \in [Pairs -> BoardRow]
      /\ worker \in [Workers -> Places]
  BY DEF TypeInv, TypeOK, JobTable, Places
<1>1. ASSUME worker[w].at \in {"selected", "claimed", "scanning"}
      PROVE  k \in Rows /\ k \in JobIds /\ jobs[k] \in Job
  BY <1>0, <1>1, RowsHaveJobs DEF RowsInHand, Rows
<1>2. ASSUME \/ Start(w)
             \/ \E e \in Entries : Derive(w, e)
             \/ FinishDerivation(w) \/ StartPass(w) \/ NothingDue(w)
             \/ \E j \in JobIds : Select(w, j)
             \/ \E found \in BOOLEAN : RefuseResult(w, found)
             \/ SurveyRescans(w) \/ Busy(w) \/ Crash(w)
      PROVE  TacitStep
  BY <1>2, BoardIsLeft
     DEF Start, Derive, FinishDerivation, StartPass, NothingDue, Select,
         RefuseResult, SurveyRescans, Busy, Crash
<1>3. CASE Requeue(w)
  <2>1. worker[w].stale \subseteq Rows
    BY <1>0, <1>3 DEF Requeue, RowsInHand
  <2>2. \A j \in JobIds : jobs'[j] # jobs[j] =>
          j \in Rows /\ jobs'[j].purpose = jobs[j].purpose
    BY <1>0, <1>3, <2>1, RowsHaveJobs DEF Requeue, JobTable, Job
  <2> QED
    BY <1>3, <2>2 DEF Requeue, TacitStep, Tacit, Untold, PurposesKept
<1>4. CASE Generate(w)
  <2>1. PICK p \in worker[w].batch :
          \/ Generated(w, p) \/ NotGenerated(w, p) \/ GenerationRefused(w, p)
    BY <1>4 DEF Generate
  <2>2. p \in Pairs
    BY <1>0, <1>4 DEF Generate, Places
  <2>4. Untold(cov[p], Moved(cov[p], "remediation_pending"))
    BY <1>0, <2>2, MovedIsUntold DEF Telling
  <2>3. \A q \in Pairs : Tacit(q)
    BY <1>0, <2>1, <2>4 DEF Generated, NotGenerated, GenerationRefused, Tacit, Untold
  <2> QED
    BY <1>4, <2>3 DEF Generate, TacitStep, PurposesKept
<1>5. CASE Claim(w)
  <2>1. k \in Rows /\ k \in JobIds /\ jobs[k] \in Job
    BY <1>1, <1>5 DEF Claim
  <2>2. PurposesKept
    BY <1>0, <1>5, <2>1, PurposeStays DEF Claim, JobTable, Job, PurposesKept
  <2> QED
    BY <1>5, <2>2 DEF Claim, TacitStep, Tacit, Untold
<1>6. CASE StartScan(w)
  <2>1. k \in Rows /\ k \in JobIds /\ jobs[k] \in Job
    BY <1>1, <1>6 DEF StartScan
  <2>2. PurposesKept
    BY <1>0, <1>6, <2>1, PurposeStays DEF StartScan, JobTable, Job, PurposesKept
  <2> QED
    BY <1>6, <2>2 DEF StartScan, TacitStep, Tacit, Untold
<1>7. CASE RateLimited(w)
  <2>1. k \in Rows /\ k \in JobIds /\ jobs[k] \in Job
    BY <1>1, <1>7 DEF RateLimited
  <2>2. PurposesKept
    BY <1>0, <1>7, <2>1, PurposeStays DEF RateLimited, JobTable, Job
  <2> QED
    BY <1>7, <2>2 DEF RateLimited, TacitStep, Tacit, Untold
<1>8. CASE FailScan(w)
  <2>1. k \in Rows /\ k \in JobIds /\ jobs[k] \in Job
    BY <1>1, <1>8 DEF FailScan
  <2>2. PurposesKept
    BY <1>0, <1>8, <2>1, PurposeStays DEF FailScan, JobTable, Job
  <2>3. \A p \in Pairs : Untold(cov[p], Moved(cov[p], "scan_failed"))
    BY <1>0, MovedIsUntold DEF Telling
  <2>5. \A p \in Pairs : Untold(cov[p], Failed(p, jobs[k].purpose))
    BY <2>3 DEF Failed, Untold
  <2>4. \A p \in Pairs : Tacit(p)
    BY <1>0, <1>8, <2>5 DEF FailScan, Tacit, Untold
  <2> QED
    BY <1>8, <2>2, <2>4 DEF FailScan, TacitStep
<1>9. CASE InsertRescans(w)
  <2>1. PICK first \in plan[w] :
          \E at \in Numberings({RescanRow(p) : p \in
                     {first} \cup {q \in plan[w] : PendingJobs(q) = {}}}) :
            jobs' = Inserted(at)
    BY <1>9 DEF InsertRescans
  <2> DEFINE rows == {RescanRow(p) : p \in
                        {first} \cup {q \in plan[w] : PendingJobs(q) = {}}}
  <2>2. rows \in SUBSET Job
    BY <1>0, NewRowsType DEF TypeOK
  <2>3. \A row \in rows : row.purpose = "scan"
    BY DEF RescanRow, NewJob
  <2>4. PICK at \in Numberings(rows) : jobs' = Inserted(at)
    BY <2>1
  <2> HIDE DEF rows
  <2>5. PurposesKept
    BY <1>0, <2>2, <2>3, <2>4, InsertedRows DEF PurposesKept
  <2> QED
    BY <1>9, <2>5 DEF InsertRescans, TacitStep, Tacit, Untold
<1> QED
  BY <1>2, <1>3, <1>4, <1>5, <1>6, <1>7, <1>8, <1>9 DEF Worker, Execute

\* Every step but the last transaction of a scan and the mark by hand is tacit.
LEMMA OtherStepsAreTacit ==
  ASSUME ScanQueueAssumption, TypeInv, [Next]_vars, ~MarkMigrated,
         ~\E w \in Workers, found \in BOOLEAN : FinishScan(w, found)
  PROVE  TacitStep
<1>1. CASE UNCHANGED vars
  BY <1>1, BoardIsLeft DEF vars
<1> QED
  BY <1>1, WebIsTacit, EnvironmentIsTacit, WorkerIsTacit DEF Next

-----------------------------------------------------------------------------
\* The last transaction of a scan

\* What it writes.
LEMMA FinishWrites ==
  ASSUME TypeInv, NoRescans, NEW w \in Workers, NEW found \in BOOLEAN,
         FinishScan(w, found)
  PROVE  LET k == worker[w].job
             p == jobs[k].pair
         IN
         /\ k \in Rows /\ p \in Pairs /\ jobs'[k] \in Job /\ PurposesKept
         /\ jobs'[k].pair = p
         /\ jobs'[k].purpose = jobs[k].purpose
         /\ jobs'[k].status = "done" /\ jobs'[k].found = found
         /\ lastWord'[p] = IF found THEN "some" ELSE "none"
         /\ cov'[p] = Verdict(p, jobs[k].purpose, found)
         /\ jobs[k].purpose \in {"scan", "manual_rescan", "verification"}
         /\ \A q \in Pairs \ {p} : cov'[q] = cov[q] /\ lastWord'[q] = lastWord[q]
<1> DEFINE k == worker[w].job
           p == jobs[k].pair
<1>0. /\ RowsInHand /\ jobs \in JobTable
      /\ cov \in [Pairs -> BoardRow]
      /\ lastWord \in [Pairs -> {"never", "none", "some", "byHand"}]
  BY DEF TypeInv, TypeOK, JobTable
<1>1. k \in Rows /\ k \in JobIds /\ jobs[k] \in Job
  BY <1>0, RowsHaveJobs DEF FinishScan, RowsInHand, Rows
<1>2. p \in Pairs /\ jobs[k].purpose \in {"scan", "manual_rescan", "verification"}
  BY <1>1 DEF Job, NoRescans
<1>3. jobs'[k] = [jobs[k] EXCEPT !.status = "done", !.found = found]
  BY <1>0, <1>1 DEF FinishScan, JobTable
<1>4. /\ jobs'[k] \in Job /\ jobs'[k].pair = p /\ jobs'[k].found = found
      /\ jobs'[k].purpose = jobs[k].purpose /\ jobs'[k].status = "done"
  BY <1>1, <1>3 DEF Job
<1>5. \A j \in JobIds \ {k} : jobs'[j] = jobs[j]
  BY <1>0 DEF FinishScan, JobTable
<1>6. PurposesKept
  BY <1>0, <1>1, <1>4, <1>5, PurposeStays
<1>7. /\ lastWord'[p] = IF found THEN "some" ELSE "none"
      /\ cov'[p] = Verdict(p, jobs[k].purpose, found)
      /\ \A q \in Pairs \ {p} : cov'[q] = cov[q] /\ lastWord'[q] = lastWord[q]
  BY <1>0, <1>2 DEF FinishScan
<1> QED
  BY <1>1, <1>2, <1>4, <1>6, <1>7

\* ... and the row of the board it leaves.
LEMMA VerdictTells ==
  ASSUME NEW p \in Pairs, cov[p] \in BoardRow, NEW found \in BOOLEAN,
         NEW purpose \in {"scan", "manual_rescan", "verification"}
  PROVE  LET row == Verdict(p, purpose, found) IN
         /\ found => row.status \in {"pattern_detected", "migration_incomplete"}
         /\ ~found => row.status \in {"no_hits", "migrated"}
         /\ row.status = "migrated" =>
              /\ purpose = "verification" /\ ~found
              /\ row.stamped \/ row = cov[p]
         /\ \/ row.manual = cov[p].manual /\ row.stamped = cov[p].stamped
            \/ purpose = "verification" /\ ~found /\ row.stamped
<1> DEFINE row == Verdict(p, purpose, found)
<1>1. CASE purpose = "verification" /\ ~found
  <2>1. row = Transitioned(cov[p], "migrated", TRUE, "clear")
    BY <1>1 DEF Verdict
  <2>2. CASE cov[p].status = "migrated"
    BY <1>1, <2>1, <2>2 DEF Transitioned
  <2>3. CASE cov[p].status # "migrated"
    <3>1. row.status = "migrated" /\ row.stamped = (cov[p].stamped \/ TRUE)
      BY <2>1, <2>3 DEF Transitioned
    <3> QED
      BY <1>1, <3>1
  <2> QED
    BY <2>2, <2>3
<1>2. CASE ~(purpose = "verification" /\ ~found)
  <2>1. row.status = Result(p, purpose, found)
    BY <1>2, MovedStatus DEF Verdict
  <2>2. Result(p, purpose, found)
          = IF purpose = "verification" THEN "migration_incomplete"
            ELSE IF found THEN "pattern_detected" ELSE "no_hits"
    BY <1>2 DEF Result, Target
  <2>3. row.manual = cov[p].manual /\ row.stamped = cov[p].stamped
    BY <1>2, <2>2, MovedRest DEF Verdict
  <2> QED
    BY <1>2, <2>1, <2>2, <2>3
<1> QED
  BY <1>1, <1>2

-----------------------------------------------------------------------------
\* The board agrees with the last scan

BoardInv == BoardMatchesLastScan /\ NoRescans

LEMMA PurposesStayKnown ==
  ASSUME TypeInv, TypeInv', NoRescans, PurposesKept
  PROVE  NoRescans'
  BY DEF NoRescans, PurposesKept, Rows

\* What a mark by hand writes.
LEMMA MarkWrites ==
  ASSUME TypeInv, MarkMigrated
  PROVE  /\ web.pair \in Pairs
         /\ cov'[web.pair].status = "migrated"
         /\ cov'[web.pair].stamped = cov[web.pair].stamped
         /\ cov'[web.pair].manual = (web.flag => cov[web.pair].manual)
         /\ lastWord'[web.pair] = "byHand"
         /\ \A q \in Pairs \ {web.pair} :
              cov'[q] = cov[q] /\ lastWord'[q] = lastWord[q]
         /\ UNCHANGED jobs
         /\ web' = Free
<1>1. web.pair \in Pairs /\ web.flag \in BOOLEAN
  BY WebRecords DEF TypeInv, MarkMigrated
<1>2. cov \in [Pairs -> BoardRow] /\ cov[web.pair] \in BoardRow
  BY <1>1 DEF TypeInv, TypeOK
<1>3. lastWord \in [Pairs -> {"never", "none", "some", "byHand"}]
  BY DEF TypeInv, TypeOK
<1>4. cov'[web.pair] = MarkedManually(cov[web.pair], web.flag)
  BY <1>1, <1>2 DEF MarkMigrated
<1>5. /\ cov'[web.pair].status = "migrated"
      /\ cov'[web.pair].stamped = cov[web.pair].stamped
      /\ cov'[web.pair].manual = (web.flag => cov[web.pair].manual)
  BY <1>2, <1>4 DEF MarkedManually, BoardRow
<1>6. lastWord'[web.pair] = "byHand"
  BY <1>1, <1>3 DEF MarkMigrated
<1>7. \A q \in Pairs \ {web.pair} : cov'[q] = cov[q] /\ lastWord'[q] = lastWord[q]
  BY <1>1, <1>2, <1>3 DEF MarkMigrated
<1> QED
  BY <1>1, <1>5, <1>6, <1>7 DEF MarkMigrated

LEMMA BoardStep ==
  ASSUME ScanQueueAssumption, TypeInv, BoardInv, [Next]_vars
  PROVE  BoardInv'
<1>0. TypeInv'
  BY TypeStep
<1>1. CASE TacitStep
  <2>1. BoardMatchesLastScan'
    BY <1>1 DEF BoardInv, BoardMatchesLastScan, TacitStep, Tacit, Untold, Telling
  <2> QED
    BY <1>0, <1>1, <2>1, PurposesStayKnown DEF BoardInv, TacitStep
<1>3. CASE MarkMigrated
  <2>1. BoardMatchesLastScan'
    BY <1>3, MarkWrites DEF BoardInv, BoardMatchesLastScan
  <2>2. NoRescans'
    BY <1>3, MarkWrites DEF BoardInv, NoRescans, Rows
  <2> QED
    BY <2>1, <2>2 DEF BoardInv
<1>2. ASSUME NEW w \in Workers, NEW found \in BOOLEAN, FinishScan(w, found)
      PROVE  BoardInv'
  <2> DEFINE k == worker[w].job
             p == jobs[k].pair
  <2>1. /\ p \in Pairs /\ PurposesKept
        /\ lastWord'[p] = IF found THEN "some" ELSE "none"
        /\ cov'[p] = Verdict(p, jobs[k].purpose, found)
        /\ jobs[k].purpose \in {"scan", "manual_rescan", "verification"}
        /\ \A q \in Pairs \ {p} : cov'[q] = cov[q] /\ lastWord'[q] = lastWord[q]
    BY <1>2, FinishWrites DEF BoardInv
  <2>2. cov[p] \in BoardRow
    BY <2>1 DEF TypeInv, TypeOK
  <2>3. /\ found => cov'[p].status \in {"pattern_detected", "migration_incomplete"}
        /\ ~found => cov'[p].status \in {"no_hits", "migrated"}
    BY <2>1, <2>2, VerdictTells
  <2>4. BoardMatchesLastScan'
    BY <2>1, <2>3 DEF BoardInv, BoardMatchesLastScan
  <2> QED
    BY <1>0, <2>1, <2>4, PurposesStayKnown DEF BoardInv
<1> QED
  BY <1>1, <1>2, <1>3, OtherStepsAreTacit

\* The board and the purposes of the rows, together inductive.
THEOREM BoardInvariant == Spec => []BoardInv
<1>1. Init => BoardInv
  BY DEF Init, BoardInv, BoardMatchesLastScan, NoRescans, Rows, FreshRow
<1>2. TypeInv /\ BoardInv /\ [Next]_vars => BoardInv'
  BY BoardStep, ScanQueueAssumption
<1> QED
  BY <1>1, <1>2, TypeInvariant, PTL DEF Spec

\* For any number of workers, whatever overlaps or crashes: the board never
\* contradicts the last word on a pair (execute_scan_job's last transaction and
\* mark-migrated against every other writer of coverage_state).
THEOREM BoardAgrees == Spec => []BoardMatchesLastScan
<1>1. BoardInv => BoardMatchesLastScan
  BY DEF BoardInv
<1> QED
  BY <1>1, BoardInvariant, PTL

\* No job ever has the purpose 'rescan': execute_scan_job's branch for it, which
\* keeps the status of the board, is never taken.
THEOREM RescanPurposeIsUnused == Spec => []NoRescans
<1>1. BoardInv => NoRescans
  BY DEF BoardInv
<1> QED
  BY <1>1, BoardInvariant, PTL

-----------------------------------------------------------------------------
\* A pair is migrated by a verification, or by hand

\* A mark that does not write the flag, because the row it has read had it, finds
\* the flag gone only after a verification.
LateMark ==
  \A p \in Pairs :
    web.at = "mark" /\ web.pair = p /\ web.flag /\ ~cov[p].manual => Verified(p)

VerifiedInv == MigratedIsVerified /\ LateMark

\* The proof of a verification is never lost.
LEMMA VerifiedStays ==
  ASSUME Final, NEW p \in Pairs, Verified(p), cov[p].stamped => cov'[p].stamped
  PROVE  Verified(p)'
<1>1. PICK j \in Rows : /\ jobs[j].pair = p
                        /\ jobs[j].purpose = "verification"
                        /\ jobs[j].status = "done"
                        /\ ~jobs[j].found
  BY DEF Verified
<1>2. j \in Rows' /\ jobs'[j] = jobs[j]
  BY <1>1 DEF Final, Rows
<1> QED
  BY <1>1, <1>2 DEF Verified

\* A step, the mark by hand excepted, clears the flag, or makes a pair migrated,
\* only with such a proof.
OnlyVerifies(p) ==
  \/ Verified(p)'
  \/ /\ cov[p].stamped => cov'[p].stamped
     /\ cov'[p].manual = cov[p].manual
     /\ cov'[p].status = "migrated" => cov'[p] = cov[p]

LEMMA StepsOnlyVerify ==
  ASSUME ScanQueueAssumption, TypeInv, BoardInv, Final, [Next]_vars, ~MarkMigrated,
         MigratedIsVerified
  PROVE  \A p \in Pairs : OnlyVerifies(p)
<1>1. CASE TacitStep
  BY <1>1 DEF TacitStep, Tacit, Untold, Telling, OnlyVerifies
<1>2. ASSUME NEW w \in Workers, NEW found \in BOOLEAN, FinishScan(w, found)
      PROVE  \A p \in Pairs : OnlyVerifies(p)
  <2>0. PICK k, p : k = worker[w].job /\ p = jobs[k].pair
    OBVIOUS
  <2>1. /\ k \in Rows /\ p \in Pairs /\ jobs'[k] \in Job
        /\ jobs'[k].pair = p
        /\ jobs'[k].purpose = jobs[k].purpose
        /\ jobs'[k].status = "done" /\ jobs'[k].found = found
        /\ cov'[p] = Verdict(p, jobs[k].purpose, found)
        /\ jobs[k].purpose \in {"scan", "manual_rescan", "verification"}
        /\ \A q \in Pairs \ {p} : cov'[q] = cov[q]
    BY <1>2, <2>0, FinishWrites DEF BoardInv
  <2>2. cov[p] \in BoardRow
    BY <2>1 DEF TypeInv, TypeOK
  <2>3. /\ cov'[p].status = "migrated" =>
             /\ jobs[k].purpose = "verification" /\ ~found
             /\ cov'[p].stamped \/ cov'[p] = cov[p]
        /\ \/ cov'[p].manual = cov[p].manual /\ cov'[p].stamped = cov[p].stamped
           \/ jobs[k].purpose = "verification" /\ ~found /\ cov'[p].stamped
    BY <2>1, <2>2, VerdictTells
  <2>4. jobs[k].purpose = "verification" /\ ~found /\ cov'[p].stamped => Verified(p)'
    BY <2>1 DEF Verified, Rows, Job, Absent
  <2>5. OnlyVerifies(p)
    BY <2>3, <2>4 DEF OnlyVerifies
  <2>6. \A q \in Pairs \ {p} : OnlyVerifies(q)
    BY <2>1 DEF OnlyVerifies
  <2> QED
    BY <2>5, <2>6
<1> QED
  BY <1>1, <1>2, OtherStepsAreTacit

\* What the web process has read to mark a pair stays until it writes.
LEMMA MarkIsRead ==
  ASSUME [Next]_vars, web'.at = "mark"
  PROVE  \/ UNCHANGED web
         \/ \E p \in Pairs : ReadForMark(p)
<1>1. CASE Web
  <2>1. ASSUME NEW p \in Pairs, LookAtBoard(p) PROVE FALSE
    <3>1. [web EXCEPT !.past = @ \cup {p}].at = web.at
      OBVIOUS
    <3>2. web'.at \in {web.at, "write", "free"}
      BY <2>1, <3>1 DEF LookAtBoard, Writes, Free
    <3> QED
      BY <2>1, <3>2 DEF LookAtBoard, LooksAt
  <2>2. ASSUME NEW p \in Pairs, NEW b \in Branches, LookForPending(p, b)
        PROVE  FALSE
    <3>1. [web EXCEPT !.seen = @ \cup {<<p, b>>}].at = web.at
      OBVIOUS
    <3>2. web'.at \in {web.at, "write"}
      BY <2>2, <3>1 DEF LookForPending, Writes
    <3> QED
      BY <2>2, <3>2 DEF LookForPending, LooksAt
  <2>3. ASSUME \/ \E e \in Entries : ReadForScan(e)
               \/ NothingToWrite \/ ScanTrigger \/ ScanBeyondBound \/ MarkMigrated
        PROVE  FALSE
    BY <2>3 DEF ReadForScan, NothingToWrite, ScanTrigger, ScanBeyondBound,
                MarkMigrated, Free
  <2>4. ASSUME \/ \E p \in Pairs : RescanRepo(p)
               \/ \E j \in JobIds : RetryJob(j)
               \/ \E r \in Repos, list \in BranchLists : ConfigureBranches(r, list)
               \/ \E R \in SUBSET Repos : RepositoriesAdded(R)
               \/ \E listed, gone \in SUBSET Repos : Recheck(listed, gone)
               \/ \E p \in Pairs : EnqueueVerification(p) \/ RequestRemediation(p)
        PROVE  UNCHANGED web
    BY <2>4 DEF RescanRepo, RetryJob, ConfigureBranches, RepositoriesAdded, Recheck,
                EnqueueVerification, RequestRemediation
  <2> QED
    BY <1>1, <2>1, <2>2, <2>3, <2>4 DEF Web
<1>2. CASE Environment
  BY <1>2 DEF Environment, ChangeStep, BecomeDue, BecomeStale
<1>3. ASSUME NEW w \in Workers, Worker(w) PROVE UNCHANGED web
  BY <1>3
     DEF Worker, Execute, Start, Requeue, Derive, FinishDerivation, StartPass,
         Generate, Select, NothingDue, Claim, StartScan, RateLimited, FailScan,
         FinishScan, RefuseResult, SurveyRescans, InsertRescans, Busy, Crash
<1> QED
  BY <1>1, <1>2, <1>3 DEF Next, vars

LEMMA VerifiedStep ==
  ASSUME ScanQueueAssumption, TypeInv, BoardInv, VerifiedInv, Final, [Next]_vars
  PROVE  VerifiedInv'
<1>1. CASE MarkMigrated
  <2>1. \A p \in Pairs : cov'[p].stamped = cov[p].stamped
    BY <1>1, MarkWrites
  <2>2. \A p \in Pairs : Verified(p) => Verified(p)'
    BY <2>1, VerifiedStays
  <2>3. ASSUME NEW p \in Pairs, cov'[p].status = "migrated", ~cov'[p].manual
        PROVE  Verified(p)'
    <3>1. CASE p = web.pair
      <4>1. web.at = "mark" /\ web.flag /\ ~cov[p].manual
        BY <1>1, <2>3, <3>1, MarkWrites DEF MarkMigrated
      <4> QED
        BY <2>2, <3>1, <4>1 DEF VerifiedInv, LateMark
    <3>2. CASE p # web.pair
      <4>1. cov'[p] = cov[p]
        BY <1>1, <3>2, MarkWrites
      <4> QED
        BY <2>2, <2>3, <4>1 DEF VerifiedInv, MigratedIsVerified
    <3> QED
      BY <3>1, <3>2
  <2>4. MigratedIsVerified'
    BY <2>3 DEF MigratedIsVerified
  <2>5. web' = Free
    BY <1>1 DEF MarkMigrated
  <2>6. LateMark'
    BY <2>5 DEF LateMark, Free
  <2> QED
    BY <2>4, <2>6 DEF VerifiedInv
<1>2. CASE ~MarkMigrated
  <2>1. \A p \in Pairs : OnlyVerifies(p)
    BY <1>2, StepsOnlyVerify DEF VerifiedInv
  <2>2. \A p \in Pairs : Verified(p) => Verified(p)'
    BY <2>1, VerifiedStays DEF OnlyVerifies
  <2>3. MigratedIsVerified'
    BY <2>1, <2>2 DEF VerifiedInv, MigratedIsVerified, OnlyVerifies
  <2>4. ASSUME NEW p \in Pairs,
               web'.at = "mark", web'.pair = p, web'.flag, ~cov'[p].manual
        PROVE  Verified(p)'
    <3>1. CASE UNCHANGED web
      <4>1. CASE cov'[p].manual = cov[p].manual
        <5>1. Verified(p)
          BY <2>4, <3>1, <4>1 DEF VerifiedInv, LateMark
        <5> QED
          BY <2>2, <5>1
      <4>2. CASE cov'[p].manual # cov[p].manual
        BY <2>1, <4>2 DEF OnlyVerifies
      <4> QED
        BY <4>1, <4>2
    <3>2. ASSUME NEW q \in Pairs, ReadForMark(q) PROVE FALSE
      BY <2>4, <3>2 DEF ReadForMark
    <3> QED
      BY <2>4, <3>1, <3>2, MarkIsRead
  <2>5. LateMark'
    BY <2>4 DEF LateMark
  <2> QED
    BY <2>3, <2>5 DEF VerifiedInv
<1> QED
  BY <1>1, <1>2

\* Where results are final, a pair that is 'migrated' without the manual flag has
\* the time of a verification and the verification job that found nothing.
THEOREM MigrationsAreVerified ==
  ASSUME Overlaps = {}
  PROVE  Spec => []MigratedIsVerified
<1>1. Init => BoardInv /\ VerifiedInv
  BY DEF Init, BoardInv, BoardMatchesLastScan, VerifiedInv, MigratedIsVerified,
         LateMark, Free, NoRescans, Rows, FreshRow
<1>2. TypeInv /\ ClaimInv /\ BoardInv /\ VerifiedInv /\ [Next]_vars
        => BoardInv' /\ VerifiedInv'
  BY BoardStep, VerifiedStep, ClaimStep, ScanQueueAssumption
<1>3. VerifiedInv => MigratedIsVerified
  BY DEF VerifiedInv
<1> QED
  BY <1>1, <1>2, <1>3, TypeInvariant, ClaimsInvariant, PTL DEF Spec

-----------------------------------------------------------------------------
\* What the scan trigger leaves in the queue

\* An insertion stores every row it is given.
LEMMA InsertedIsStored ==
  ASSUME NEW rows \in SUBSET Job, NEW at \in Numberings(rows)
  PROVE  \A row \in rows : \E j \in JobIds : Inserted(at)[j] = row
<1>1. /\ DOMAIN at = NextIds(Cardinality(rows))
      /\ \A row \in rows : \E j \in DOMAIN at : at[j] = row
  BY DEF Numberings, Bijection, Surjection
<1>2. DOMAIN at \subseteq JobIds
  BY <1>1 DEF NextIds
<1> QED
  BY <1>1, <1>2 DEF Inserted

LEMMA ScanRowFields ==
  ASSUME NEW p \in Matching, NEW b \in Branches
  PROVE  /\ ScanRow(p, b).pair = p
         /\ ScanRow(p, b).branch = b
         /\ ScanRow(p, b).status = "queued"
  BY DEF ScanRow, NewJob

\* enqueue_scans_for_entry leaves a pending job for every branch that it has not
\* passed over.
LEMMA EnqueueCovers ==
  ASSUME ScanQueueAssumption, TypeOK, NEW T \in SUBSET Pairs, NEW over,
         NEW rows \in SUBSET Job, ScanRows(T, over) \subseteq rows,
         EnqueueScans(T, rows)
  PROVE  EveryBranchQueued(T, over)
<1> SUFFICES ASSUME NEW p \in T \cap Matching, NEW b \in Configured(p[2]),
                    <<p, b>> \notin over
             PROVE  \E j \in Rows' : /\ jobs'[j].pair = p
                                     /\ jobs'[j].branch = b
                                     /\ Pending(j)'
  BY DEF EveryBranchQueued
<1>0. jobs \in JobTable /\ b \in Branches /\ p \in Pairs
  BY DEF TypeOK, JobTable, Configured, ScanQueueAssumption, Pairs
<1>1. PICK at \in Numberings(rows) : jobs' = Inserted(at)
  BY DEF EnqueueScans
<1>3. CASE b \in PendingBranches(p)
  <2>1. PICK j \in Rows : jobs[j].pair = p /\ Pending(j) /\ jobs[j].branch = b
    BY <1>3 DEF PendingBranches, PendingJobs
  <2>2. jobs'[j] = jobs[j]
    BY <1>0, <1>1, InsertedRows
  <2> QED
    BY <2>1, <2>2 DEF Rows, Pending
<1>4. CASE b \notin PendingBranches(p)
  <2>1. <<p, b>> \in T \X Branches /\ <<p, b>>[1] = p /\ <<p, b>>[2] = b
    BY <1>0
  <2>2. ScanRow(p, b) \in rows
    BY <1>4, <2>1 DEF ScanRows
  <2>3. PICK j \in JobIds : jobs'[j] = ScanRow(p, b)
    BY <1>1, <2>2, InsertedIsStored
  <2>4. /\ jobs'[j].pair = p /\ jobs'[j].branch = b
        /\ jobs'[j].status = "queued"
    BY <1>0, <2>3, ScanRowFields
  <2>5. jobs'[j] # Absent
    BY <2>4 DEF Absent
  <2> QED
    BY <2>4, <2>5 DEF Rows, Pending
<1> QED
  BY <1>3, <1>4

\* The request goes past a pair only when it has seen all its branches pending.
PastIsSeen ==
  web.at \in {"scan", "write"} =>
    \A p \in web.past : \A b \in Configured(p[2]) : <<p, b>> \in web.seen

LEMMA PastIsSeenStep ==
  ASSUME TypeInv, PastIsSeen, [Next]_vars
  PROVE  PastIsSeen'
<1>1. CASE UNCHANGED <<web, branches>>
  BY <1>1 DEF PastIsSeen, Configured
<1>2. ASSUME NEW e \in Entries, ReadForScan(e) PROVE PastIsSeen'
  BY <1>2 DEF ReadForScan, PastIsSeen
<1>3. ASSUME NEW p \in Pairs, NEW b \in Branches, LookForPending(p, b)
      PROVE  PastIsSeen'
  <2>1. web \in ScanReads /\ branches' = branches /\ web.at = "scan"
    BY <1>3, WebRecords DEF TypeInv, LookForPending, LooksAt, setup
  <2>2. web'.past = web.past /\ web.seen \subseteq web'.seen
    BY <1>3, <2>1 DEF LookForPending, Writes, ScanReads
  <2> QED
    BY <2>1, <2>2 DEF PastIsSeen, Configured
<1>4. ASSUME NEW p \in Pairs, LookAtBoard(p) PROVE PastIsSeen'
  <2>1. web \in ScanReads /\ branches' = branches /\ web.at = "scan"
    BY <1>4, WebRecords DEF TypeInv, LookAtBoard, LooksAt, setup
  <2>2. \A b \in Configured(p[2]) : <<p, b>> \in web.seen
    BY <1>4 DEF LookAtBoard, Unseen
  <2>3. CASE web' = Free
    BY <2>3 DEF PastIsSeen, Free
  <2>4. CASE web'.past \subseteq web.past \cup {p} /\ web'.seen = web.seen
    <3>1. \A q \in web.past : \A b \in Configured(q[2]) : <<q, b>> \in web.seen
      BY <2>1 DEF PastIsSeen
    <3>2. \A q \in web'.past : \A b \in Configured(q[2]) : <<q, b>> \in web'.seen
      BY <2>2, <2>4, <3>1
    <3> QED
      BY <2>1, <3>2 DEF PastIsSeen, Configured
  <2> QED
    BY <1>4, <2>1, <2>3, <2>4 DEF LookAtBoard, Writes, ScanReads
<1>5. CASE NothingToWrite \/ ScanTrigger \/ ScanBeyondBound \/ MarkMigrated
  <2>1. web' = Free
    BY <1>5 DEF NothingToWrite, ScanTrigger, ScanBeyondBound, MarkMigrated
  <2> QED
    BY <2>1 DEF PastIsSeen, Free
<1>6. ASSUME NEW p \in Pairs, ReadForMark(p) PROVE PastIsSeen'
  BY <1>6 DEF ReadForMark, PastIsSeen
<1>7. ASSUME \/ \E p \in Pairs : RescanRepo(p)
             \/ \E j \in JobIds : RetryJob(j)
             \/ \E r \in Repos, list \in BranchLists : ConfigureBranches(r, list)
             \/ \E R \in SUBSET Repos : RepositoriesAdded(R)
             \/ \E listed, gone \in SUBSET Repos : Recheck(listed, gone)
             \/ \E p \in Pairs : EnqueueVerification(p) \/ RequestRemediation(p)
      PROVE  PastIsSeen'
  <2>1. web' = Free
    BY <1>7 DEF RescanRepo, RetryJob, ConfigureBranches, RepositoriesAdded, Recheck,
                EnqueueVerification, RequestRemediation
  <2> QED
    BY <2>1 DEF PastIsSeen, Free
<1>8. CASE Environment
  BY <1>1, <1>8 DEF Environment, ChangeStep, BecomeDue, BecomeStale, setup
<1>9. ASSUME NEW w \in Workers, Worker(w) PROVE PastIsSeen'
  BY <1>1, <1>9
     DEF Worker, Execute, Start, Requeue, Derive, FinishDerivation, StartPass,
         Generate, Select, NothingDue, Claim, StartScan, RateLimited, FailScan,
         FinishScan, RefuseResult, SurveyRescans, InsertRescans, Busy, Crash, setup
<1> QED
  BY <1>1, <1>2, <1>3, <1>4, <1>5, <1>6, <1>7, <1>8, <1>9 DEF Next, Web, vars

\* The transaction of a request ends in the trigger alone, or at the model's bound.
LEMMA OnlyTriggerAnswers ==
  ASSUME TypeInv, [Next]_vars, web.at = "write", web'.at = "free"
  PROVE  ScanTrigger \/ ScanBeyondBound
<1>1. web # Free /\ web.at # "mark" /\ web.at # "scan" /\ web' # web
  BY DEF Free
<1>2. CASE Web
  BY <1>1, <1>2
     DEF Web, ReadForScan, LookAtBoard, LookForPending, LooksAt, NothingToWrite,
         RescanRepo, RetryJob, ConfigureBranches,
         RepositoriesAdded, Recheck, ReadForMark, MarkMigrated,
         EnqueueVerification, RequestRemediation
<1>3. CASE Environment
  BY <1>1, <1>3 DEF Environment, ChangeStep, BecomeDue, BecomeStale
<1>4. ASSUME NEW w \in Workers, Worker(w) PROVE FALSE
  BY <1>1, <1>4
     DEF Worker, Execute, Start, Requeue, Derive, FinishDerivation, StartPass,
         Generate, Select, NothingDue, Claim, StartScan, RateLimited, FailScan,
         FinishScan, RefuseResult, SurveyRescans, InsertRescans, Busy, Crash
<1> QED
  BY <1>1, <1>2, <1>3, <1>4 DEF Next, vars

\* The request has ended without an error.
Answered ==
  /\ \/ web.at = "scan" /\ Targets(web.entry) \subseteq web.past
     \/ web.at = "write" /\ ~TriggerRefused /\ Fits(TriggerRows)
  /\ web'.at = "free"

LEMMA AnsweredIsComplete ==
  ASSUME TypeInv, PastIsSeen, [Next]_vars, Answered
  PROVE  EveryBranchQueued(Targets(web.entry), web.seen)
<1>1. TypeOK /\ \A p \in web.past : \A b \in Configured(p[2]) : <<p, b>> \in web.seen
  BY DEF TypeInv, PastIsSeen, Answered
<1>2. CASE web.at = "scan"
  <2>1. Targets(web.entry) \subseteq web.past
    BY <1>2 DEF Answered
  <2> QED
    BY <1>1, <2>1 DEF EveryBranchQueued
<1>3. CASE web.at = "write"
  <2>1. ToScan \in SUBSET Pairs /\ TriggerRows \in SUBSET Job
    BY <1>1, <1>3, TriggerWrites, ScanQueueAssumption
  <2>2. ScanRows(ToScan, web.seen) \subseteq TriggerRows
    BY DEF TriggerRows
  <2>3. EnqueueScans(ToScan, TriggerRows)
    BY <1>3, OnlyTriggerAnswers DEF Answered, ScanTrigger, ScanBeyondBound
  <2>4. EveryBranchQueued(ToScan, web.seen)
    BY <1>1, <2>1, <2>2, <2>3, EnqueueCovers, ScanQueueAssumption
  <2> QED
    BY <1>1, <2>4 DEF EveryBranchQueued, ToScan
<1> QED
  BY <1>2, <1>3 DEF Answered

\* Whatever was pending, being settled or requested meanwhile: when the scan trigger
\* of an entry has ended without an error, every configured branch of every active
\* repository of the language has a pending job, but for those that the request has
\* seen pending, of any number of repositories (enqueue_scans_for_entry).
THEOREM TriggerIsComplete == Spec => TriggerQueuesEveryBranch
<1>1. Init => PastIsSeen
  BY DEF Init, PastIsSeen, Free
<1>2. TypeInv /\ PastIsSeen /\ [Next]_vars => PastIsSeen'
  BY PastIsSeenStep
<1>3. TypeInv /\ PastIsSeen /\ [Next]_vars
        => [Answered => EveryBranchQueued(Targets(web.entry), web.seen)]_vars
  BY AnsweredIsComplete
<1> QED
  BY <1>1, <1>2, <1>3, TypeInvariant, PTL
     DEF Spec, TriggerQueuesEveryBranch, Answered
=============================================================================
