-------------------------- MODULE ScanQueueProofs ---------------------------
(***************************************************************************)
(* Proofs about ScanQueue, for any number of entries, repositories,        *)
(* branches, workers and jobs.                                             *)
(*                                                                         *)
(* TypeOK is not inductive: a worker writes to the job it has in hand, and *)
(* the row would lose its type if there were no row.  RowsInHand says that *)
(* there is one; a row, once inserted, is never deleted (RowsStay).        *)
(***************************************************************************)
EXTENDS ScanQueue, TLAPS

\* The rows of jobs that a worker has read and will write exist.
RowsInHand ==
  \A w \in Workers :
    /\ worker[w].at = "starting" => worker[w].stale \subseteq Rows
    /\ worker[w].at \in {"selected", "claimed", "scanning"} =>
         worker[w].job \in Rows

TypeInv == TypeOK /\ RowsInHand

JobTable == [JobIds -> Job \cup {Absent}]

-----------------------------------------------------------------------------
\* Lemmas about the operators

\* A status that is neither of the table nor a row is told from a row's.
LEMMA RowsHaveJobs ==
  ASSUME jobs \in JobTable
  PROVE  /\ \A j \in Rows : jobs[j] \in Job
         /\ \A j \in JobIds : jobs[j].status # "absent" => j \in Rows
  BY DEF JobTable, Rows, Absent, Job

\* A transition keeps a row of the board well-formed.
LEMMA TransitionedType ==
  ASSUME NEW row \in BoardRow, NEW to \in Statuses, NEW stamp \in BOOLEAN,
         NEW manual
  PROVE  Transitioned(row, to, stamp, manual) \in BoardRow
  BY DEF Transitioned, BoardRow

LEMMA MovedType ==
  ASSUME NEW row \in BoardRow, NEW to \in Statuses
  PROVE  Moved(row, to) \in BoardRow
  BY TransitionedType DEF Moved

\* Inserting rows changes only ids that were not used.
LEMMA InsertedRows ==
  ASSUME jobs \in JobTable,
         NEW rows \in SUBSET Job,
         NEW at \in Numberings(rows)
  PROVE  /\ Inserted(at) \in JobTable
         /\ \A j \in Rows : Inserted(at)[j] = jobs[j]
         /\ \A j \in JobIds :
              Inserted(at)[j] # jobs[j] => Inserted(at)[j] \in rows
<1>1. /\ DOMAIN at = NextIds(Cardinality(rows))
      /\ \A j \in DOMAIN at : at[j] \in rows
  BY DEF Numberings, Bijection, Injection
<1>2. DOMAIN at \subseteq JobIds /\ DOMAIN at \cap Rows = {}
  BY <1>1 DEF NextIds, Rows
<1> QED
  BY <1>1, <1>2 DEF Inserted, JobTable, Rows

LEMMA InsertRow ==
  ASSUME jobs \in JobTable, NEW row \in Job, Insert(row)
  PROVE  /\ jobs' \in JobTable
         /\ \A j \in Rows : jobs'[j] = jobs[j]
         /\ \A j \in JobIds : jobs'[j] # jobs[j] => jobs'[j] = row
<1>1. PICK at \in Numberings({row}) : jobs' = Inserted(at)
  BY DEF Insert
<1> QED
  BY <1>1, InsertedRows

\* The rows that the handlers create are rows.
LEMMA NewRowsType ==
  ASSUME ScanQueueAssumption, NEW p \in Pairs
  PROVE  /\ \A prio \in 0..PRIORITY_USER :
              NewJob(p, DefaultBranch, prio) \in Job
         /\ \A b \in Branches : ScanRow(p, b) \in Job
         /\ RescanRow(p) \in Job
<1>1. PRIORITY_USER = 10 /\ PRIORITY_RESCAN = 0
  BY DEF PRIORITY_USER, PRIORITY_RESCAN
<1>2. \A b \in Branches, prio \in 0..PRIORITY_USER : NewJob(p, b, prio) \in Job
  BY DEF NewJob, Job
<1>3. \A b \in Branches : BranchPriority(b) \in 0..PRIORITY_USER
  BY <1>1 DEF BranchPriority
<1>4. \A b \in Branches : ScanRow(p, b) \in Job
  BY <1>2, <1>3 DEF ScanRow, Job
<1> QED
  BY <1>1, <1>2, <1>4 DEF ScanQueueAssumption, RescanRow

LEMMA ScanRowsType ==
  ASSUME ScanQueueAssumption, NEW T \in SUBSET Pairs, NEW over
  PROVE  ScanRows(T, over) \in SUBSET Job
  BY NewRowsType DEF ScanRows

\* Whatever the repository's language, they are rows of a scan nobody has claimed.
FromScan(rows) ==
  \A row \in rows : /\ row.purpose = "scan"
                    /\ row.status \in {"queued", "skipped_language"}

LEMMA RowsFromScan ==
  /\ \A T, over : FromScan(ScanRows(T, over))
  /\ FromScan(TriggerRows)
<1>1. \A p, b : /\ ScanRow(p, b).purpose = "scan"
               /\ ScanRow(p, b).status \in {"queued", "skipped_language"}
  BY DEF ScanRow, NewJob
<1>2. \A T, over : FromScan(ScanRows(T, over))
  BY <1>1 DEF FromScan, ScanRows
<1> QED
  BY <1>1, <1>2 DEF FromScan, TriggerRows

LEMMA EnqueueScansType ==
  ASSUME ScanQueueAssumption, TypeOK,
         NEW T \in SUBSET Pairs, NEW rows \in SUBSET Job,
         EnqueueScans(T, rows)
  PROVE  /\ jobs' \in JobTable
         /\ \A j \in Rows : jobs'[j] = jobs[j]
         /\ cov' \in [Pairs -> BoardRow]
<1>1. PICK at \in Numberings(rows) : jobs' = Inserted(at)
  BY DEF EnqueueScans
<1>2. jobs' \in JobTable /\ \A j \in Rows : jobs'[j] = jobs[j]
  BY <1>1, InsertedRows DEF TypeOK, JobTable
<1>3. \A p \in Pairs : ScanStatus(p) \in Statuses
  BY DEF ScanStatus, Statuses
<1>4. cov' \in [Pairs -> BoardRow]
  BY <1>3, MovedType DEF EnqueueScans, TypeOK
<1> QED
  BY <1>2, <1>4

LEMMA WebRecords ==
  ASSUME TypeOK
  PROVE  /\ web.at = "scan" => web \in ScanReads
         /\ web.at = "write" => web \in ScanWrites
         /\ web.at = "mark" => web.pair \in Pairs /\ web.flag \in BOOLEAN
  BY DEF TypeOK, Requests, Free, ScanReads, ScanWrites, Marks

\* What the transaction of a scan trigger writes.
LEMMA TriggerWrites ==
  ASSUME ScanQueueAssumption, TypeOK, web.at = "write"
  PROVE  /\ ToScan \in SUBSET Pairs
         /\ TriggerRows \in SUBSET Job
<1>1. web.fresh \in SUBSET (Pairs \X Branches)
  BY WebRecords DEF ScanWrites
<1>2. ToScan \in SUBSET Pairs
  BY DEF ToScan, Targets
<1>3. ScanRows(ToScan, web.seen) \in SUBSET Job
  BY <1>2, ScanRowsType
<1>4. \A q \in web.fresh : ScanRow(q[1], q[2]) \in Job
  BY <1>1, NewRowsType
<1> QED
  BY <1>2, <1>3, <1>4 DEF TriggerRows

-----------------------------------------------------------------------------
\* Type correctness

\* What the steps do to the table of jobs, whoever takes them.
JobsKept == jobs' \in JobTable /\ Rows \subseteq Rows'

\* A change of the fields of a row leaves a row.
LEMMA RowsStay ==
  ASSUME jobs \in JobTable, jobs' \in JobTable,
         \A j \in Rows : jobs'[j] = jobs[j] \/ jobs'[j] \in Job
  PROVE  JobsKept
  BY DEF JobsKept, JobTable, Rows, Job, Absent

LEMMA HandsKept ==
  ASSUME RowsInHand, JobsKept, UNCHANGED worker
  PROVE  RowsInHand'
  BY DEF RowsInHand, JobsKept

\* A worker that has nothing in hand, or rows, after its step.
HandOf(place) ==
  /\ place.at = "starting" => place.stale \subseteq Rows
  /\ place.at \in {"selected", "claimed", "scanning"} => place.job \in Rows

Places ==
  [at : {"down", "idle"}]
    \cup [at : {"starting"}, stale : SUBSET JobIds]
    \cup [at : {"deriving"}, entry : Entries]
    \cup [at : {"generating"}, batch : SUBSET Pairs]
    \cup [at : {"selected", "claimed", "scanning"}, job : JobIds]

LEMMA HandChanged ==
  ASSUME TypeOK, RowsInHand, JobsKept, NEW w \in Workers,
         NEW place \in Places, HandOf(place), Go(w, place)
  PROVE  worker' \in [Workers -> Places] /\ RowsInHand'
<1>1. worker \in [Workers -> Places]
  BY DEF TypeOK, Places
<1>2. worker' \in [Workers -> Places]
  BY <1>1 DEF Go
<1>3. ASSUME NEW v \in Workers
      PROVE  \/ worker'[v] = worker[v]
             \/ v = w /\ worker'[v] = place
  BY <1>1 DEF Go
<1>4. HandOf(place)'
  BY DEF HandOf, JobsKept
<1> QED
  BY <1>2, <1>3 DEF RowsInHand, JobsKept, HandOf

\* The request handlers keep the type invariant.
LEMMA WebType ==
  ASSUME ScanQueueAssumption, TypeInv, Web
  PROVE  TypeInv'
<1> USE DEF TypeInv
<1>0. jobs \in JobTable
  BY DEF TypeOK, JobTable
<1>1. ASSUME NEW e \in Entries, ReadForScan(e) PROVE TypeInv'
  <2>1. web' \in ScanReads
    BY <1>1 DEF ReadForScan, ScanReads
  <2>3. TypeOK'
    BY <1>1, <2>1 DEF TypeOK, ReadForScan, setup, Requests
  <2>2. RowsInHand'
    BY <1>0, <1>1, RowsStay, HandsKept DEF ReadForScan, JobTable
  <2> QED
    BY <2>2, <2>3
<1>13. ASSUME NEW p \in Pairs, NEW b \in Branches, LookForPending(p, b)
       PROVE  TypeInv'
  <2>1. web \in ScanReads
    BY <1>13, WebRecords DEF LookForPending, LooksAt
  <2>2. <<p, b>> \in Pairs \X Branches
    OBVIOUS
  <2>3. [web EXCEPT !.seen = @ \cup {<<p, b>>}] \in ScanReads
    BY <2>1, <2>2 DEF ScanReads
  <2>4. Writes({<<p, b>>}, {}) \in ScanWrites
    BY <2>1, <2>2 DEF ScanReads, ScanWrites, Writes
  <2>5. web' \in ScanReads \/ web' \in ScanWrites
    BY <1>13, <2>3, <2>4 DEF LookForPending
  <2>6. TypeOK'
    BY <1>13, <2>5 DEF TypeOK, LookForPending, setup, Requests
  <2>7. RowsInHand'
    BY <1>0, <1>13, RowsStay, HandsKept DEF LookForPending, JobTable
  <2> QED
    BY <2>6, <2>7
<1>14. ASSUME NEW p \in Pairs, LookAtBoard(p) PROVE TypeInv'
  <2>1. web \in ScanReads
    BY <1>14, WebRecords DEF LookAtBoard, LooksAt
  <2>2. [web EXCEPT !.past = @ \cup {p}] \in ScanReads
    BY <2>1 DEF ScanReads
  <2>3. Writes({}, {p}) \in ScanWrites
    BY <2>1 DEF ScanReads, ScanWrites, Writes
  <2>4. web' \in ScanReads \/ web' \in ScanWrites \/ web' = Free
    BY <1>14, <2>2, <2>3 DEF LookAtBoard
  <2>5. TypeOK'
    BY <1>14, <2>4 DEF TypeOK, LookAtBoard, setup, Requests
  <2>6. RowsInHand'
    BY <1>0, <1>14, RowsStay, HandsKept DEF LookAtBoard, JobTable
  <2> QED
    BY <2>5, <2>6
<1>2. CASE ScanTrigger
  <2>1. CASE EnqueueScans(ToScan, TriggerRows)
    <3>1. ToScan \in SUBSET Pairs /\ TriggerRows \in SUBSET Job
      BY <1>2, TriggerWrites DEF ScanTrigger
    <3>2. /\ jobs' \in JobTable
          /\ \A j \in Rows : jobs'[j] = jobs[j]
          /\ cov' \in [Pairs -> BoardRow]
      BY <2>1, <3>1, EnqueueScansType
    <3>3. TypeOK'
      BY <1>2, <3>2 DEF TypeOK, ScanTrigger, Requests, setup, JobTable
    <3>4. RowsInHand'
      BY <1>0, <1>2, <3>2, RowsStay, HandsKept DEF ScanTrigger
    <3> QED
      BY <3>3, <3>4
  <2>2. CASE UNCHANGED <<cov, jobs>>
    <3>1. TypeOK'
      BY <1>2, <2>2 DEF TypeOK, ScanTrigger, Requests, setup
    <3>2. RowsInHand'
      BY <1>0, <1>2, <2>2, RowsStay, HandsKept DEF ScanTrigger
    <3> QED
      BY <3>1, <3>2
  <2> QED
    BY <1>2, <2>1, <2>2 DEF ScanTrigger
<1>3. CASE ScanBeyondBound \/ NothingToWrite
  <2>1. TypeOK'
    BY <1>3 DEF TypeOK, ScanBeyondBound, NothingToWrite, Requests, setup
  <2>2. RowsInHand'
    BY <1>0, <1>3, RowsStay, HandsKept DEF ScanBeyondBound, NothingToWrite
  <2> QED
    BY <2>1, <2>2
<1>4. ASSUME NEW p \in Pairs, RescanRepo(p) PROVE TypeInv'
  <2>1. NewJob(p, DefaultBranch, PRIORITY_USER) \in Job
    BY NewRowsType DEF PRIORITY_USER
  <2>2. jobs' \in JobTable /\ \A j \in Rows : jobs'[j] = jobs[j]
    BY <1>0, <1>4, <2>1, InsertRow DEF RescanRepo
  <2>3. cov' \in [Pairs -> BoardRow]
    BY <1>4, MovedType DEF RescanRepo, TypeOK, Statuses
  <2>4. TypeOK'
    BY <1>4, <2>2, <2>3 DEF TypeOK, RescanRepo, setup, JobTable
  <2>5. RowsInHand'
    BY <1>0, <1>4, <2>2, RowsStay, HandsKept DEF RescanRepo
  <2> QED
    BY <2>4, <2>5
<1>5. ASSUME NEW j \in JobIds, RetryJob(j) PROVE TypeInv'
  <2>1. jobs[j] \in Job
    BY <1>0, <1>5, RowsHaveJobs DEF RetryJob, Retryable
  <2>2. jobs' \in JobTable /\ \A i \in Rows : jobs'[i] = jobs[i] \/ jobs'[i] \in Job
    BY <1>0, <1>5, <2>1 DEF RetryJob, JobTable, Job, Rows
  <2>3. TypeOK'
    BY <1>5, <2>2 DEF TypeOK, RetryJob, setup, JobTable
  <2>4. RowsInHand'
    BY <1>0, <1>5, <2>2, RowsStay, HandsKept DEF RetryJob
  <2> QED
    BY <2>3, <2>4
<1>6. ASSUME NEW r \in Repos, NEW list \in BranchLists, ConfigureBranches(r, list)
      PROVE  TypeInv'
  <2>1. TypeOK'
    BY <1>6 DEF TypeOK, ConfigureBranches, ScanQueueAssumption
  <2>2. RowsInHand'
    BY <1>0, <1>6, RowsStay, HandsKept DEF ConfigureBranches
  <2> QED
    BY <2>1, <2>2
<1>7. ASSUME NEW R \in SUBSET Repos, RepositoriesAdded(R) PROVE TypeInv'
  <2>1. /\ jobs' \in JobTable
        /\ \A j \in Rows : jobs'[j] = jobs[j]
        /\ cov' \in [Pairs -> BoardRow]
    <3>1. PICK T \in SUBSET Pairs : EnqueueScans(T, ScanRows(T, {}))
      BY <1>7 DEF RepositoriesAdded
    <3> QED
      BY <3>1, ScanRowsType, EnqueueScansType
  <2>2. TypeOK'
    BY <1>7, <2>1 DEF TypeOK, RepositoriesAdded, JobTable
  <2>3. RowsInHand'
    BY <1>0, <1>7, <2>1, RowsStay, HandsKept DEF RepositoriesAdded
  <2> QED
    BY <2>2, <2>3
<1>8. ASSUME NEW listed \in SUBSET Repos, NEW gone \in SUBSET Repos,
             Recheck(listed, gone)
      PROVE  TypeInv'
  <2>1. TypeOK'
    BY <1>8 DEF TypeOK, Recheck
  <2>2. RowsInHand'
    BY <1>0, <1>8, RowsStay, HandsKept DEF Recheck
  <2> QED
    BY <2>1, <2>2
<1>9. ASSUME NEW p \in Pairs, ReadForMark(p) PROVE TypeInv'
  <2>1. web' \in Marks
    BY <1>9 DEF ReadForMark, Marks, TypeOK, BoardRow
  <2>3. TypeOK'
    BY <1>9, <2>1 DEF TypeOK, ReadForMark, setup, Requests
  <2>2. RowsInHand'
    BY <1>0, <1>9, RowsStay, HandsKept DEF ReadForMark
  <2> QED
    BY <2>2, <2>3
<1>10. CASE MarkMigrated
  <2>0. \A row \in BoardRow, flag \in BOOLEAN : MarkedManually(row, flag) \in BoardRow
    BY DEF MarkedManually, BoardRow, Statuses
  <2>1. cov' \in [Pairs -> BoardRow]
    BY <1>10, <2>0, WebRecords DEF MarkMigrated, TypeOK
  <2>2. TypeOK'
    BY <1>10, <2>1 DEF TypeOK, MarkMigrated, Requests, setup
  <2>3. RowsInHand'
    BY <1>0, <1>10, RowsStay, HandsKept DEF MarkMigrated
  <2> QED
    BY <2>2, <2>3
<1>11. ASSUME NEW p \in Pairs, EnqueueVerification(p) PROVE TypeInv'
  <2>1. NewJob(p, DefaultBranch, PRIORITY_USER) \in Job
    BY NewRowsType DEF PRIORITY_USER
  <2>2. [NewJob(p, DefaultBranch, PRIORITY_USER) EXCEPT
           !.purpose = "verification", !.due = FALSE] \in Job
    BY <2>1 DEF Job
  <2>3. jobs' \in JobTable /\ \A j \in Rows : jobs'[j] = jobs[j]
    BY <1>0, <1>11, <2>2, InsertRow DEF EnqueueVerification
  <2>4. TypeOK'
    BY <1>11, <2>3 DEF TypeOK, EnqueueVerification, setup, JobTable
  <2>5. RowsInHand'
    BY <1>0, <1>11, <2>3, RowsStay, HandsKept DEF EnqueueVerification
  <2> QED
    BY <2>4, <2>5
<1>12. ASSUME NEW p \in Pairs, RequestRemediation(p) PROVE TypeInv'
  <2>1. TypeOK'
    BY <1>12 DEF TypeOK, RequestRemediation, setup
  <2>2. RowsInHand'
    BY <1>0, <1>12, RowsStay, HandsKept DEF RequestRemediation
  <2> QED
    BY <2>1, <2>2
<1> QED
  BY <1>1, <1>2, <1>3, <1>4, <1>5, <1>6, <1>7, <1>8, <1>9, <1>10, <1>11, <1>12,
     <1>13, <1>14
     DEF Web

\* Putting another row at an id keeps the table.
LEMMA RowChanged ==
  ASSUME jobs \in JobTable, NEW j \in JobIds, NEW row \in Job,
         jobs' = [jobs EXCEPT ![j] = row]
  PROVE  /\ jobs' \in JobTable
         /\ \A i \in Rows : jobs'[i] = jobs[i] \/ jobs'[i] \in Job
  BY DEF JobTable, Rows

\* So do time and the pull-request side of the system.
LEMMA EnvironmentType ==
  ASSUME ScanQueueAssumption, TypeInv, Environment
  PROVE  TypeInv'
<1> USE DEF TypeInv
<1>0. jobs \in JobTable
  BY DEF TypeOK, JobTable
<1>1. ASSUME NEW p \in Pairs, NEW to \in ChangeStatuses, ChangeStep(p, to)
      PROVE  TypeInv'
  <2>1. to \in Statuses
    BY DEF ChangeStatuses, Statuses
  <2>2. cov' \in [Pairs -> BoardRow]
    BY <1>1, <2>1, MovedType DEF ChangeStep, TypeOK
  <2>3. TypeOK'
    BY <1>1, <2>2 DEF TypeOK, ChangeStep, setup
  <2>4. RowsInHand'
    BY <1>0, <1>1, RowsStay, HandsKept DEF ChangeStep
  <2> QED
    BY <2>3, <2>4
<1>2. ASSUME NEW j \in JobIds, BecomeDue(j) \/ BecomeStale(j)
      PROVE  TypeInv'
  <2>1. jobs[j] \in Job
    BY <1>0, <1>2, RowsHaveJobs DEF BecomeDue, BecomeStale
  <2>2. /\ jobs' \in JobTable
        /\ \A i \in Rows : jobs'[i] = jobs[i] \/ jobs'[i] \in Job
    <3>1. CASE BecomeDue(j)
      <4>1. [jobs[j] EXCEPT !.due = TRUE] \in Job
        BY <2>1 DEF Job
      <4>2. jobs' = [jobs EXCEPT ![j] = [jobs[j] EXCEPT !.due = TRUE]]
        BY <3>1 DEF BecomeDue
      <4> QED
        BY <1>0, <4>1, <4>2, RowChanged
    <3>2. CASE BecomeStale(j)
      <4>1. [jobs[j] EXCEPT !.stale = TRUE] \in Job
        BY <2>1 DEF Job
      <4>2. jobs' = [jobs EXCEPT ![j] = [jobs[j] EXCEPT !.stale = TRUE]]
        BY <3>2 DEF BecomeStale
      <4> QED
        BY <1>0, <4>1, <4>2, RowChanged
    <3> QED
      BY <1>2, <3>1, <3>2
  <2>3. TypeOK'
    BY <1>2, <2>2 DEF TypeOK, BecomeDue, BecomeStale, setup, JobTable
  <2>4. RowsInHand'
    BY <1>0, <1>2, <2>2, RowsStay, HandsKept DEF BecomeDue, BecomeStale
  <2> QED
    BY <2>3, <2>4
<1> QED
  BY <1>1, <1>2 DEF Environment

\* A worker's step keeps the type invariant when it leaves the other tables to
\* lemmas of their own.
LEMMA WorkerMoves ==
  ASSUME TypeInv, NEW w \in Workers, NEW place \in Places, HandOf(place),
         Go(w, place),
         jobs' \in JobTable,
         \A j \in Rows : jobs'[j] = jobs[j] \/ jobs'[j] \in Job,
         entry' \in [Entries -> {"draft", "ready", "derivation_failed"}],
         derived' \in SUBSET Entries,
         cov' \in [Pairs -> BoardRow],
         generating' \in SUBSET Pairs,
         plan' \in [Workers -> SUBSET Pairs],
         lastWord' \in [Pairs -> {"never", "none", "some", "byHand"}],
         UNCHANGED <<conn, branches, web, dispatched>>
  PROVE  TypeInv'
<1>1. jobs \in JobTable
  BY DEF TypeInv, TypeOK, JobTable
<1>2. JobsKept
  BY <1>1, RowsStay
<1>3. worker' \in [Workers -> Places] /\ RowsInHand'
  BY <1>2, HandChanged DEF TypeInv
<1>4. TypeOK'
  BY <1>3 DEF TypeInv, TypeOK, JobTable, Places
<1> QED
  BY <1>3, <1>4 DEF TypeInv

\* The places without a job.
LEMMA EmptyHands ==
  /\ Idle \in Places /\ HandOf(Idle)
  /\ Down \in Places /\ HandOf(Down)
  /\ \A e \in Entries : LET place == [at |-> "deriving", entry |-> e]
                        IN  place \in Places /\ HandOf(place)
  /\ \A S \in SUBSET Pairs : LET place == [at |-> "generating", batch |-> S]
                             IN  place \in Places /\ HandOf(place)
  BY DEF Idle, Down, Places, HandOf

\* The places with one.
LEMMA FullHands ==
  ASSUME NEW j \in Rows, NEW at \in {"selected", "claimed", "scanning"}
  PROVE  [at |-> at, job |-> j] \in Places /\ HandOf([at |-> at, job |-> j])
  BY DEF Places, HandOf, Rows

\* The main loop up to the claim.
LEMMA PassType ==
  ASSUME ScanQueueAssumption, TypeInv, NEW w \in Workers,
         \/ Start(w) \/ Requeue(w) \/ Crash(w) \/ Busy(w)
         \/ \E e \in Entries : Derive(w, e)
         \/ FinishDerivation(w) \/ StartPass(w) \/ Generate(w)
         \/ NothingDue(w)
  PROVE  TypeInv'
<1>0. /\ jobs \in JobTable
      /\ TypeOK
      /\ RowsInHand
      /\ worker \in [Workers -> Places]
  BY DEF TypeInv, TypeOK, JobTable, Places
<1>1. CASE Start(w)
  <2> DEFINE place == [at |-> "starting", stale |-> {j \in Rows : StaleClaim(j)}]
  <2>1. place \in Places /\ HandOf(place)
    BY DEF Places, HandOf, Rows
  <2>2. Go(w, place)
    BY <1>1 DEF Start
  <2> HIDE DEF place
  <2> QED
    BY <1>0, <1>1, <2>1, <2>2, WorkerMoves DEF Start, setup, TypeOK
<1>2. CASE Requeue(w)
  <2>1. \A j \in worker[w].stale : jobs[j] \in Job
    BY <1>0, <1>2, RowsHaveJobs DEF Requeue, RowsInHand
  <2>2. \A j \in worker[w].stale :
          [jobs[j] EXCEPT !.status = "queued", !.stale = FALSE] \in Job
    BY <2>1 DEF Job
  <2>3. /\ jobs' \in JobTable
        /\ \A j \in Rows : jobs'[j] = jobs[j] \/ jobs'[j] \in Job
    BY <1>0, <1>2, <2>2 DEF Requeue, JobTable, Rows
  <2> QED
    BY <1>0, <1>2, <2>3, EmptyHands, WorkerMoves DEF Requeue, setup, TypeOK
<1>3. CASE Crash(w)
  BY <1>0, <1>3, EmptyHands, WorkerMoves DEF Crash, setup, TypeOK
<1>4. CASE Busy(w)
  BY <1>0, <1>4, EmptyHands, WorkerMoves DEF Busy, setup, TypeOK
<1>5. ASSUME NEW e \in Entries, Derive(w, e) PROVE TypeInv'
  BY <1>0, <1>5, EmptyHands, WorkerMoves DEF Derive, setup, TypeOK
<1>6. CASE FinishDerivation(w)
  <2>1. worker[w].entry \in Entries
    BY <1>0, <1>6 DEF FinishDerivation, Places
  <2> QED
    BY <1>0, <1>6, <2>1, EmptyHands, WorkerMoves
       DEF FinishDerivation, setup, TypeOK
<1>7. CASE StartPass(w)
  BY <1>0, <1>7, EmptyHands, WorkerMoves DEF StartPass, setup, TypeOK
<1>8. CASE Generate(w)
  <2>1. worker[w] \in [at : {"generating"}, batch : SUBSET Pairs]
    BY <1>0, <1>8 DEF Generate, Places
  <2>2. PICK p \in worker[w].batch :
          \/ Generated(w, p) \/ NotGenerated(w, p) \/ GenerationRefused(w, p)
    BY <1>8 DEF Generate
  <2>3. /\ p \in Pairs
        /\ LET place == [worker[w] EXCEPT !.batch = @ \ {p}]
           IN  place \in Places /\ HandOf(place)
    <3>1. p \in Pairs
      BY <2>1
    <3>2. [worker[w] EXCEPT !.batch = @ \ {p}]
            \in [at : {"generating"}, batch : SUBSET Pairs]
      BY <2>1
    <3> QED
      BY <3>1, <3>2 DEF Places, HandOf
  <2>4. cov' \in [Pairs -> BoardRow]
    BY <1>0, <2>2, <2>3, MovedType
       DEF Generated, NotGenerated, GenerationRefused, TypeOK, Statuses
  <2>5. generating' \in SUBSET Pairs
    BY <1>0, <2>2 DEF Generated, NotGenerated, GenerationRefused, TypeOK
  <2>6. \/ Go(w, Idle)
        \/ Go(w, [worker[w] EXCEPT !.batch = @ \ {p}])
    BY <2>2, <2>3 DEF Generated, NotGenerated, GenerationRefused
  <2> QED
    BY <1>0, <1>8, <2>3, <2>4, <2>5, <2>6, EmptyHands, WorkerMoves
       DEF Generate, setup, TypeOK
<1>9. CASE NothingDue(w)
  BY <1>0, <1>9, EmptyHands, WorkerMoves DEF NothingDue, setup, TypeOK
<1> QED
  BY <1>1, <1>2, <1>3, <1>4, <1>5, <1>6, <1>7, <1>8, <1>9

\* The claim of a job and its execution.
LEMMA ExecuteType ==
  ASSUME ScanQueueAssumption, TypeInv, NEW w \in Workers,
         \/ \E j \in JobIds : Select(w, j)
         \/ Claim(w)
         \/ Execute(w)
  PROVE  TypeInv'
<1> DEFINE k == worker[w].job
<1>0. /\ jobs \in JobTable
      /\ TypeOK
      /\ RowsInHand
  BY DEF TypeInv, TypeOK, JobTable
<1>1. ASSUME NEW j \in JobIds, Select(w, j) PROVE TypeInv'
  <2>1. j \in Rows
    BY <1>1 DEF Select, Eligible
  <2> QED
    BY <1>0, <1>1, <2>1, FullHands, WorkerMoves DEF Select, setup, TypeOK
<1>2. ASSUME worker[w].at \in {"selected", "claimed", "scanning"}
      PROVE  /\ k \in Rows /\ k \in JobIds
             /\ jobs[k] \in Job
             /\ jobs[k].pair \in Pairs
             /\ [jobs[k] EXCEPT !.status = "failed"] \in Job
             /\ [jobs[k] EXCEPT !.status = "running", !.stale = FALSE] \in Job
             /\ [jobs[k] EXCEPT !.status = "queued", !.due = FALSE,
                               !.stale = FALSE] \in Job
             /\ \A found \in BOOLEAN :
                  [jobs[k] EXCEPT !.status = "done", !.found = found] \in Job
  <2>1. k \in Rows /\ k \in JobIds /\ jobs[k] \in Job
    BY <1>0, <1>2, RowsHaveJobs DEF RowsInHand, Rows
  <2>2. jobs[k].pair \in Pairs
    BY <2>1 DEF Job
  <2> HIDE DEF k
  <2>3. /\ [jobs[k] EXCEPT !.status = "failed"] \in Job
        /\ [jobs[k] EXCEPT !.status = "running", !.stale = FALSE] \in Job
    BY <2>1 DEF Job
  <2>4. [jobs[k] EXCEPT !.status = "queued", !.due = FALSE, !.stale = FALSE] \in Job
    BY <2>1 DEF Job
  <2>5. \A found \in BOOLEAN :
          [jobs[k] EXCEPT !.status = "done", !.found = found] \in Job
    BY <2>1 DEF Job
  <2> QED
    BY <2>1, <2>2, <2>3, <2>4, <2>5
<1>3. CASE Claim(w)
  <2>1. CASE StillQueued(k)
    <3>1. jobs' = [jobs EXCEPT ![k] = [jobs[k] EXCEPT !.status = "running",
                                                      !.stale = FALSE]]
      BY <1>3, <2>1 DEF Claim
    <3>2. /\ jobs' \in JobTable
          /\ \A j \in Rows : jobs'[j] = jobs[j] \/ jobs'[j] \in Job
      BY <1>0, <1>2, <1>3, <3>1, RowChanged DEF Claim
    <3> QED
      BY <1>0, <1>2, <1>3, <2>1, <3>2, FullHands, WorkerMoves
         DEF Claim, setup, TypeOK
  <2>2. CASE ~StillQueued(k)
    BY <1>0, <1>3, <2>2, EmptyHands, WorkerMoves DEF Claim, setup, TypeOK
  <2> QED
    BY <2>1, <2>2
<1>4. CASE StartScan(w)
  <2>1. CASE Scannable(jobs[k].pair)
    BY <1>0, <1>2, <1>4, <2>1, FullHands, WorkerMoves DEF StartScan, setup, TypeOK
  <2>2. CASE ~Scannable(jobs[k].pair)
    <3>1. jobs' = [jobs EXCEPT ![k] = [jobs[k] EXCEPT !.status = "failed"]]
      BY <1>4, <2>2 DEF StartScan
    <3>2. /\ jobs' \in JobTable
          /\ \A j \in Rows : jobs'[j] = jobs[j] \/ jobs'[j] \in Job
      BY <1>0, <1>2, <1>4, <3>1, RowChanged DEF StartScan
    <3> QED
      BY <1>0, <1>4, <2>2, <3>2, EmptyHands, WorkerMoves
         DEF StartScan, setup, TypeOK
  <2> QED
    BY <2>1, <2>2
<1>5. CASE RateLimited(w)
  <2>1. jobs' = [jobs EXCEPT ![k] = [jobs[k] EXCEPT !.status = "queued",
                                        !.due = FALSE, !.stale = FALSE]]
    BY <1>5 DEF RateLimited
  <2>2. /\ jobs' \in JobTable
        /\ \A j \in Rows : jobs'[j] = jobs[j] \/ jobs'[j] \in Job
    BY <1>0, <1>2, <1>5, <2>1, RowChanged DEF RateLimited
  <2> QED
    BY <1>0, <1>5, <2>2, EmptyHands, WorkerMoves DEF RateLimited, setup, TypeOK
<1>6. CASE FailScan(w)
  <2>1. jobs' = [jobs EXCEPT ![k] = [jobs[k] EXCEPT !.status = "failed"]]
    BY <1>6 DEF FailScan
  <2>2. /\ jobs' \in JobTable
        /\ \A j \in Rows : jobs'[j] = jobs[j] \/ jobs'[j] \in Job
    BY <1>0, <1>2, <1>6, <2>1, RowChanged DEF FailScan
  <2>3. \A p \in Pairs : cov[p] \in BoardRow
    BY <1>0 DEF TypeOK
  <2>4. \A p \in Pairs : \A purpose : Failed(p, purpose) \in BoardRow
    BY <2>3, MovedType DEF Failed, Statuses
  <2>5. cov' \in [Pairs -> BoardRow]
    BY <1>0, <1>6, <2>4 DEF FailScan, TypeOK
  <2> QED
    BY <1>0, <1>6, <2>2, <2>5, EmptyHands, WorkerMoves DEF FailScan, setup, TypeOK
<1>7. ASSUME NEW found \in BOOLEAN, FinishScan(w, found) PROVE TypeInv'
  <2>1. jobs' = [jobs EXCEPT ![k] = [jobs[k] EXCEPT !.status = "done",
                                                    !.found = found]]
    BY <1>7 DEF FinishScan
  <2>2. /\ jobs' \in JobTable
        /\ \A j \in Rows : jobs'[j] = jobs[j] \/ jobs'[j] \in Job
    BY <1>0, <1>2, <1>7, <2>1, RowChanged DEF FinishScan
  <2>3. \A p \in Pairs : cov[p] \in BoardRow /\ cov[p].status \in Statuses
    BY <1>0 DEF TypeOK, BoardRow
  <2>4. \A p \in Pairs : \A purpose : Result(p, purpose, found) \in Statuses
    BY <2>3 DEF Result, Target, Statuses
  <2>5. "migrated" \in Statuses
    BY DEF Statuses
  <2>6. \A p \in Pairs : \A purpose : Verdict(p, purpose, found) \in BoardRow
    BY <2>3, <2>4, <2>5, MovedType, TransitionedType DEF Verdict
  <2>7. cov' \in [Pairs -> BoardRow]
    BY <1>0, <1>7, <2>6 DEF FinishScan, TypeOK
  <2>8. lastWord' \in [Pairs -> {"never", "none", "some", "byHand"}]
    BY <1>0, <1>7 DEF FinishScan, TypeOK
  <2> QED
    BY <1>0, <1>7, <2>2, <2>7, <2>8, EmptyHands, WorkerMoves
       DEF FinishScan, setup, TypeOK
<1>8. ASSUME NEW found \in BOOLEAN, RefuseResult(w, found) PROVE TypeInv'
  BY <1>0, <1>8, EmptyHands, WorkerMoves DEF RefuseResult, setup, TypeOK
<1> QED
  BY <1>1, <1>3, <1>4, <1>5, <1>6, <1>7, <1>8 DEF Execute

\* The scheduler thread.
LEMMA SchedulerType ==
  ASSUME ScanQueueAssumption, TypeInv, NEW w \in Workers,
         SurveyRescans(w) \/ InsertRescans(w)
  PROVE  TypeInv'
<1>0. jobs \in JobTable /\ TypeOK /\ RowsInHand
  BY DEF TypeInv, TypeOK, JobTable
<1>1. CASE SurveyRescans(w)
  <2>1. TypeOK'
    BY <1>0, <1>1 DEF TypeOK, SurveyRescans, setup
  <2>2. RowsInHand'
    BY <1>0, <1>1, RowsStay, HandsKept DEF SurveyRescans
  <2> QED
    BY <2>1, <2>2 DEF TypeInv
<1>2. CASE InsertRescans(w)
  <2>1. PICK first \in plan[w] :
          \E at \in Numberings({RescanRow(p) : p \in
                     {first} \cup {q \in plan[w] : PendingJobs(q) = {}}}) :
            jobs' = Inserted(at)
    BY <1>2 DEF InsertRescans
  <2>2. {RescanRow(p) : p \in {first} \cup {q \in plan[w] : PendingJobs(q) = {}}}
          \in SUBSET Job
    BY <1>0, NewRowsType DEF TypeOK
  <2>3. jobs' \in JobTable /\ \A j \in Rows : jobs'[j] = jobs[j]
    BY <1>0, <2>1, <2>2, InsertedRows
  <2>4. TypeOK'
    BY <1>0, <1>2, <2>3 DEF TypeOK, InsertRescans, setup, JobTable
  <2>5. RowsInHand'
    BY <1>0, <1>2, <2>3, RowsStay, HandsKept DEF InsertRescans
  <2> QED
    BY <2>4, <2>5 DEF TypeInv
<1> QED
  BY <1>1, <1>2

LEMMA TypeStep ==
  ASSUME ScanQueueAssumption, TypeInv, [Next]_vars
  PROVE  TypeInv'
<1>1. ASSUME NEW w \in Workers, Worker(w) PROVE TypeInv'
  BY <1>1, PassType, ExecuteType, SchedulerType DEF Worker
<1>2. CASE UNCHANGED vars
  BY <1>2 DEF vars, TypeInv, TypeOK, RowsInHand, Rows
<1> QED
  BY <1>1, <1>2, WebType, EnvironmentType DEF Next

LEMMA TypeInit ==
  ASSUME ScanQueueAssumption, Init
  PROVE  TypeInv
<1>1. FreshRow \in BoardRow
  BY DEF FreshRow, BoardRow, Statuses
<1>2. TypeOK
  BY <1>1 DEF TypeOK, Init, Requests, Down
<1>3. RowsInHand
  BY DEF RowsInHand, Init, Down
<1> QED
  BY <1>2, <1>3 DEF TypeInv

\* Every table holds rows of its type in every reachable state, and a worker
\* only ever has rows in hand that exist (TypeInv).
THEOREM TypeInvariant == Spec => []TypeInv
<1>1. Init => TypeInv
  BY TypeInit, ScanQueueAssumption
<1>2. TypeInv /\ [Next]_vars => TypeInv'
  BY TypeStep, ScanQueueAssumption
<1> QED
  BY <1>1, <1>2, PTL DEF Spec

\* TypeOK, the part of it the runs check: every table holds rows of its type.
THEOREM TypeCorrectness == Spec => []TypeOK
<1>1. TypeInv => TypeOK
  BY DEF TypeInv
<1> QED
  BY <1>1, TypeInvariant, PTL

-----------------------------------------------------------------------------
\* Exclusive claims

\* The inductive invariant behind ExclusiveClaims when no scan outlasts the limit
\* and starts do not overlap: a job under execution is running and its claim is
\* fresh, so no start selects it; and what a start has selected is still stale
\* when it is requeued, because nobody else requeues and no claim ages back.
HeldJobsRun ==
  \A w \in Workers, j \in JobIds :
    Holds(w, j) => jobs[j].status = "running" /\ ~jobs[j].stale

HeldByOne ==
  \A v, w \in Workers, j \in JobIds : Holds(v, j) /\ Holds(w, j) => v = w

SelectedIsStale ==
  \A w \in Workers : worker[w].at = "starting" =>
    \A j \in worker[w].stale : StaleClaim(j)

OneStarts ==
  \A v, w \in Workers :
    worker[v].at = "starting" /\ worker[w].at = "starting" => v = w

ClaimInv == HeldJobsRun /\ HeldByOne /\ SelectedIsStale /\ OneStarts

\* No step changes a finished job.
Final == \A j \in JobIds : jobs[j].status = "done" => jobs'[j] = jobs[j]

TakenOrDone(j) == jobs[j].status \in {"running", "done"}

\* Steps of the processes that hold nothing.
LEMMA QuietStep ==
  ASSUME TypeInv, ClaimInv, UNCHANGED worker,
         \A j \in JobIds : TakenOrDone(j) =>
           \/ jobs'[j] = jobs[j]
           \/ /\ jobs[j].status = "running" /\ ~\E w \in Workers : Holds(w, j)
              /\ jobs'[j].status = "running" /\ jobs'[j].stale
  PROVE  ClaimInv' /\ Final
<1>1. worker \in [Workers -> Places]
  BY DEF TypeInv, TypeOK, Places
<1>2. HeldJobsRun'
  BY DEF ClaimInv, HeldJobsRun, Holds, TakenOrDone
<1>3. HeldByOne' /\ OneStarts'
  BY DEF ClaimInv, HeldByOne, OneStarts, Holds
<1>4. \A w \in Workers : worker[w].at = "starting" => worker[w].stale \subseteq JobIds
  BY <1>1 DEF Places
<1>5. SelectedIsStale'
  BY <1>4 DEF ClaimInv, SelectedIsStale, StaleClaim, TakenOrDone
<1>6. Final
  BY DEF Final, TakenOrDone
<1> QED
  BY <1>2, <1>3, <1>5, <1>6 DEF ClaimInv

\* A worker comes to a place where it holds nothing: it wrote at most to the job
\* it held and, at its start, to those it had selected.
LEMMA ReleaseStep ==
  ASSUME TypeInv, ClaimInv, NEW w \in Workers, NEW place \in Places,
         Go(w, place),
         place.at \notin {"starting", "claimed", "scanning"},
         \A j \in JobIds : TakenOrDone(j) =>
           \/ jobs'[j] = jobs[j]
           \/ Holds(w, j)
           \/ worker[w].at = "starting" /\ j \in worker[w].stale
  PROVE  ClaimInv' /\ Final
<1>1. worker \in [Workers -> Places]
  BY DEF TypeInv, TypeOK, Places
<1>2. /\ worker'[w] = place
      /\ \A v \in Workers \ {w} : worker'[v] = worker[v]
  BY <1>1 DEF Go
<1>3. ASSUME NEW v \in Workers, NEW j \in JobIds, Holds(v, j)'
      PROVE  v # w /\ Holds(v, j) /\ jobs'[j] = jobs[j]
  <2>1. v # w /\ Holds(v, j)
    BY <1>2, <1>3 DEF Holds
  <2>2. TakenOrDone(j) /\ ~jobs[j].stale /\ ~Holds(w, j)
    BY <2>1 DEF ClaimInv, HeldJobsRun, HeldByOne, TakenOrDone
  <2>3. ~(worker[w].at = "starting" /\ j \in worker[w].stale)
    BY <2>2 DEF ClaimInv, SelectedIsStale, StaleClaim
  <2> QED
    BY <2>1, <2>2, <2>3
<1>4. HeldJobsRun' /\ HeldByOne'
  BY <1>3 DEF ClaimInv, HeldJobsRun, HeldByOne
<1>5. ASSUME NEW v \in Workers, worker'[v].at = "starting",
             NEW j \in worker'[v].stale
      PROVE  StaleClaim(j)'
  <2>1. v # w /\ worker[v].at = "starting" /\ j \in worker[v].stale /\ j \in JobIds
    BY <1>1, <1>2, <1>5 DEF Places
  <2>2. StaleClaim(j)
    BY <2>1 DEF ClaimInv, SelectedIsStale
  <2>3. worker[w].at # "starting" /\ ~Holds(w, j)
    BY <2>1, <2>2 DEF ClaimInv, OneStarts, HeldJobsRun, StaleClaim
  <2> QED
    BY <2>1, <2>2, <2>3 DEF StaleClaim, TakenOrDone
<1>6. SelectedIsStale'
  BY <1>5 DEF SelectedIsStale
<1>7. OneStarts'
  BY <1>2 DEF ClaimInv, OneStarts
<1>8. Final
  <2>1. \A j \in JobIds : jobs[j].status = "done" => ~Holds(w, j)
    BY DEF ClaimInv, HeldJobsRun
  <2>2. worker[w].at = "starting" =>
          \A j \in worker[w].stale : jobs[j].status = "running"
    BY DEF ClaimInv, SelectedIsStale, StaleClaim
  <2> QED
    BY <2>1, <2>2 DEF Final, TakenOrDone
<1> QED
  BY <1>4, <1>6, <1>7, <1>8 DEF ClaimInv

\* Inserting rows is quiet.
LEMMA InsertIsQuiet ==
  ASSUME TypeInv, ClaimInv, UNCHANGED worker,
         \A j \in Rows : jobs'[j] = jobs[j]
  PROVE  ClaimInv' /\ Final
<1>1. \A j \in JobIds : TakenOrDone(j) => j \in Rows
  BY RowsHaveJobs DEF TakenOrDone, TypeInv, TypeOK, JobTable
<1> QED
  BY <1>1, QuietStep

\* Requests, time and the pull-request side of the system.
LEMMA WebClaims ==
  ASSUME ScanQueueAssumption, TypeInv, ClaimInv, Web
  PROVE  ClaimInv' /\ Final
<1>0. TypeOK /\ jobs \in JobTable
  BY DEF TypeInv, TypeOK, JobTable
<1>1. ASSUME UNCHANGED <<jobs, worker>> PROVE ClaimInv' /\ Final
  BY <1>1, QuietStep
<1>2. CASE ScanTrigger
  <2>1. CASE EnqueueScans(ToScan, TriggerRows)
    <3>1. ToScan \in SUBSET Pairs /\ TriggerRows \in SUBSET Job
      BY <1>0, <1>2, TriggerWrites DEF ScanTrigger
    <3>2. \A j \in Rows : jobs'[j] = jobs[j]
      BY <1>0, <2>1, <3>1, EnqueueScansType
    <3> QED
      BY <1>2, <3>2, InsertIsQuiet DEF ScanTrigger
  <2> QED
    BY <1>1, <1>2, <2>1 DEF ScanTrigger
<1>3. ASSUME NEW p \in Pairs, RescanRepo(p) PROVE ClaimInv' /\ Final
  <2>1. NewJob(p, DefaultBranch, PRIORITY_USER) \in Job
    BY NewRowsType DEF PRIORITY_USER
  <2>2. \A j \in Rows : jobs'[j] = jobs[j]
    BY <1>0, <1>3, <2>1, InsertRow DEF RescanRepo
  <2> QED
    BY <1>3, <2>2, InsertIsQuiet DEF RescanRepo
<1>4. ASSUME NEW j \in JobIds, RetryJob(j) PROVE ClaimInv' /\ Final
  <2>1. ~TakenOrDone(j)
    BY <1>4 DEF RetryJob, Retryable, TakenOrDone
  <2>2. \A i \in JobIds : TakenOrDone(i) => jobs'[i] = jobs[i]
    BY <1>0, <1>4, <2>1 DEF RetryJob, JobTable
  <2> QED
    BY <1>4, <2>2, QuietStep DEF RetryJob
<1>5. ASSUME NEW R \in SUBSET Repos, RepositoriesAdded(R)
      PROVE  ClaimInv' /\ Final
  <2>1. \A j \in Rows : jobs'[j] = jobs[j]
    <3>1. PICK T \in SUBSET Pairs : EnqueueScans(T, ScanRows(T, {}))
      BY <1>5 DEF RepositoriesAdded
    <3> QED
      BY <1>0, <3>1, ScanRowsType, EnqueueScansType
  <2> QED
    BY <1>5, <2>1, InsertIsQuiet DEF RepositoriesAdded
<1>6. ASSUME NEW p \in Pairs, EnqueueVerification(p) PROVE ClaimInv' /\ Final
  <2>1. NewJob(p, DefaultBranch, PRIORITY_USER) \in Job
    BY NewRowsType DEF PRIORITY_USER
  <2>2. [NewJob(p, DefaultBranch, PRIORITY_USER) EXCEPT
           !.purpose = "verification", !.due = FALSE] \in Job
    BY <2>1 DEF Job
  <2>3. \A j \in Rows : jobs'[j] = jobs[j]
    BY <1>0, <1>6, <2>2, InsertRow DEF EnqueueVerification
  <2> QED
    BY <1>6, <2>3, InsertIsQuiet DEF EnqueueVerification
<1>7. ASSUME \/ \E e \in Entries : ReadForScan(e)
             \/ \E p \in Pairs : LookAtBoard(p)
             \/ \E p \in Pairs, b \in Branches : LookForPending(p, b)
             \/ NothingToWrite
             \/ ScanBeyondBound
             \/ \E r \in Repos, list \in BranchLists : ConfigureBranches(r, list)
             \/ \E listed, gone \in SUBSET Repos : Recheck(listed, gone)
             \/ \E p \in Pairs : ReadForMark(p)
             \/ MarkMigrated
             \/ \E p \in Pairs : RequestRemediation(p)
      PROVE  ClaimInv' /\ Final
  <2>1. UNCHANGED <<jobs, worker>>
    BY <1>7 DEF ReadForScan, LookAtBoard, LookForPending, NothingToWrite,
                ScanBeyondBound, ConfigureBranches, Recheck, ReadForMark,
                MarkMigrated, RequestRemediation
  <2> QED
    BY <1>1, <2>1
<1> QED
  BY <1>2, <1>3, <1>4, <1>5, <1>6, <1>7 DEF Web

LEMMA EnvironmentClaims ==
  ASSUME TypeInv, ClaimInv, "scans" \notin Overlaps, Environment
  PROVE  ClaimInv' /\ Final
<1>0. jobs \in JobTable
  BY DEF TypeInv, TypeOK, JobTable
<1>1. ASSUME NEW p \in Pairs, NEW to \in ChangeStatuses, ChangeStep(p, to)
      PROVE  ClaimInv' /\ Final
  BY <1>1, QuietStep DEF ChangeStep
<1>2. ASSUME NEW j \in JobIds, BecomeDue(j) PROVE ClaimInv' /\ Final
  <2>1. \A i \in JobIds : TakenOrDone(i) => jobs'[i] = jobs[i]
    BY <1>0, <1>2 DEF BecomeDue, TakenOrDone, JobTable
  <2> QED
    BY <1>2, <2>1, QuietStep DEF BecomeDue
<1>3. ASSUME NEW j \in JobIds, BecomeStale(j) PROVE ClaimInv' /\ Final
  <2>1. \A i \in JobIds \ {j} : jobs'[i] = jobs[i]
    BY <1>0, <1>3 DEF BecomeStale, JobTable
  <2>2. jobs[j] \in Job
    BY <1>0, <1>3, RowsHaveJobs DEF BecomeStale
  <2>3. /\ jobs[j].status = "running" /\ ~\E w \in Workers : Holds(w, j)
        /\ jobs'[j].status = "running" /\ jobs'[j].stale
    BY <1>0, <1>3, <2>2 DEF BecomeStale, JobTable, Job
  <2> QED
    BY <1>3, <2>1, <2>3, QuietStep DEF BecomeStale
<1> QED
  BY <1>1, <1>2, <1>3 DEF Environment

\* Workers.
LEMMA WorkerClaims ==
  ASSUME ScanQueueAssumption, TypeInv, ClaimInv, "starts" \notin Overlaps,
         NEW w \in Workers, Worker(w)
  PROVE  ClaimInv' /\ Final
<1> DEFINE k == worker[w].job
<1>0. /\ jobs \in JobTable
      /\ TypeOK
      /\ RowsInHand
      /\ worker \in [Workers -> Places]
  BY DEF TypeInv, TypeOK, JobTable, Places
<1>1. CASE Start(w)
  <2> DEFINE place == [at |-> "starting", stale |-> {j \in Rows : StaleClaim(j)}]
  <2>1. /\ worker'[w] = place
        /\ \A v \in Workers \ {w} : worker'[v] = worker[v]
        /\ jobs' = jobs
    BY <1>0, <1>1 DEF Start, Go
  <2>2. HeldJobsRun' /\ HeldByOne'
    BY <2>1 DEF ClaimInv, HeldJobsRun, HeldByOne, Holds
  <2>3. SelectedIsStale'
    BY <2>1 DEF ClaimInv, SelectedIsStale, StaleClaim
  <2>4. \A v \in Workers : worker[v].at # "starting"
    BY <1>1 DEF Start
  <2>5. OneStarts'
    BY <2>1, <2>4 DEF OneStarts
  <2>6. Final
    BY <2>1 DEF Final
  <2> QED
    BY <2>2, <2>3, <2>5, <2>6 DEF ClaimInv
<1>2. CASE Requeue(w)
  <2>1. \A j \in JobIds : jobs'[j] = jobs[j] \/ j \in worker[w].stale
    BY <1>2 DEF Requeue
  <2> QED
    BY <1>2, <2>1, EmptyHands, ReleaseStep DEF Requeue, Idle
<1>3. ASSUME NEW e \in Entries, Derive(w, e) PROVE ClaimInv' /\ Final
  BY <1>3, EmptyHands, ReleaseStep DEF Derive
<1>4. ASSUME FinishDerivation(w) \/ NothingDue(w) \/ Crash(w) \/ Busy(w)
      PROVE  ClaimInv' /\ Final
  <2>1. jobs' = jobs /\ (Go(w, Idle) \/ Go(w, Down))
    BY <1>4 DEF FinishDerivation, NothingDue, Crash, Busy
  <2> QED
    BY <2>1, EmptyHands, ReleaseStep DEF Idle, Down
<1>5. CASE StartPass(w)
  <2>1. generating \in SUBSET Pairs
    BY <1>0 DEF TypeOK
  <2> QED
    BY <1>5, <2>1, EmptyHands, ReleaseStep DEF StartPass
<1>6. CASE Generate(w)
  <2>1. PICK p \in worker[w].batch :
          \/ Generated(w, p) \/ NotGenerated(w, p) \/ GenerationRefused(w, p)
    BY <1>6 DEF Generate
  <2>2. worker[w] \in [at : {"generating"}, batch : SUBSET Pairs]
    BY <1>0, <1>6 DEF Generate, Places
  <2>3. [worker[w] EXCEPT !.batch = @ \ {p}]
          \in [at : {"generating"}, batch : SUBSET Pairs]
    BY <2>2
  <2>4. \/ Go(w, Idle)
        \/ Go(w, [worker[w] EXCEPT !.batch = @ \ {p}])
    BY <2>1 DEF Generated, NotGenerated, GenerationRefused
  <2>5. jobs' = jobs
    BY <1>6 DEF Generate
  <2>6. CASE Go(w, Idle)
    BY <2>5, <2>6, EmptyHands, ReleaseStep DEF Idle
  <2>7. CASE Go(w, [worker[w] EXCEPT !.batch = @ \ {p}])
    <3>1. [worker[w] EXCEPT !.batch = @ \ {p}] \in Places
      BY <2>3 DEF Places
    <3>2. [worker[w] EXCEPT !.batch = @ \ {p}].at = "generating"
      BY <2>3
    <3> QED
      BY <2>5, <2>7, <3>1, <3>2, ReleaseStep
  <2> QED
    BY <2>4, <2>6, <2>7
<1>7. ASSUME NEW j \in JobIds, Select(w, j) PROVE ClaimInv' /\ Final
  <2>1. [at |-> "selected", job |-> j] \in Places
    BY DEF Places
  <2> QED
    BY <1>7, <2>1, ReleaseStep DEF Select
<1>8. CASE Claim(w)
  <2>1. CASE StillQueued(k)
    <3>1. k \in JobIds /\ jobs[k] \in Job
      BY <1>0, <1>8, RowsHaveJobs DEF Claim, RowsInHand, Rows
    <3>2. /\ jobs[k].status = "queued"
          /\ jobs'[k].status = "running" /\ ~jobs'[k].stale
          /\ \A j \in JobIds \ {k} : jobs'[j] = jobs[j]
      BY <1>0, <1>8, <2>1, <3>1 DEF Claim, StillQueued, JobTable, Job
    <3>3. /\ worker'[w] = [at |-> "claimed", job |-> k]
          /\ worker[w].at = "selected"
          /\ \A v \in Workers \ {w} : worker'[v] = worker[v]
      BY <1>0, <1>8, <2>1 DEF Claim, Go
    <3>4. \A v \in Workers : ~Holds(v, k)
      BY <3>1, <3>2 DEF ClaimInv, HeldJobsRun
    <3>5. \A v \in Workers, j \in JobIds :
            Holds(v, j)' <=> IF v = w THEN j = k ELSE Holds(v, j)
      BY <3>3 DEF Holds
    <3>6. HeldJobsRun' /\ HeldByOne'
      BY <3>1, <3>2, <3>4, <3>5 DEF ClaimInv, HeldJobsRun, HeldByOne
    <3>7. \A v \in Workers : \A j : worker[v].at = "starting" /\ j \in worker[v].stale
            => j \in JobIds /\ j # k
      BY <1>0, <3>2 DEF ClaimInv, SelectedIsStale, StaleClaim, Places
    <3>8. SelectedIsStale'
      BY <3>2, <3>3, <3>7 DEF ClaimInv, SelectedIsStale, StaleClaim
    <3>9. OneStarts'
      BY <3>3 DEF ClaimInv, OneStarts
    <3>10. Final
      BY <3>2 DEF Final
    <3> QED
      BY <3>6, <3>8, <3>9, <3>10 DEF ClaimInv
  <2>2. CASE ~StillQueued(k)
    BY <1>8, <2>2, EmptyHands, ReleaseStep DEF Claim, Idle
  <2> QED
    BY <2>1, <2>2
<1>9. CASE StartScan(w)
  <2>1. CASE Scannable(jobs[k].pair)
    <3>1. /\ worker'[w] = [at |-> "scanning", job |-> k]
          /\ worker[w].at = "claimed"
          /\ \A v \in Workers \ {w} : worker'[v] = worker[v]
          /\ jobs' = jobs
      BY <1>0, <1>9, <2>1 DEF StartScan, Go
    <3>2. \A v \in Workers, j \in JobIds : Holds(v, j)' <=> Holds(v, j)
      BY <3>1 DEF Holds
    <3>3. HeldJobsRun' /\ HeldByOne'
      BY <3>1, <3>2 DEF ClaimInv, HeldJobsRun, HeldByOne
    <3>4. SelectedIsStale' /\ OneStarts'
      BY <3>1 DEF ClaimInv, SelectedIsStale, OneStarts, StaleClaim
    <3>5. Final
      BY <3>1 DEF Final
    <3> QED
      BY <3>3, <3>4, <3>5 DEF ClaimInv
  <2>2. CASE ~Scannable(jobs[k].pair)
    <3>1. \A j \in JobIds : jobs'[j] = jobs[j] \/ Holds(w, j)
      BY <1>0, <1>9, <2>2 DEF StartScan, Holds, JobTable
    <3> QED
      BY <1>9, <2>2, <3>1, EmptyHands, ReleaseStep DEF StartScan, Idle
  <2> QED
    BY <2>1, <2>2
<1>10. ASSUME \/ RateLimited(w) \/ FailScan(w)
              \/ \E found \in BOOLEAN : FinishScan(w, found) \/ RefuseResult(w, found)
       PROVE  ClaimInv' /\ Final
  <2>1. Go(w, Idle)
    BY <1>10 DEF RateLimited, FailScan, FinishScan, RefuseResult
  <2>2. \A j \in JobIds : jobs'[j] = jobs[j] \/ Holds(w, j)
    BY <1>0, <1>10
       DEF RateLimited, FailScan, FinishScan, RefuseResult, Holds, JobTable
  <2> QED
    BY <2>1, <2>2, EmptyHands, ReleaseStep DEF Idle
<1>11. CASE SurveyRescans(w)
  BY <1>11, QuietStep DEF SurveyRescans
<1>12. CASE InsertRescans(w)
  <2>1. PICK first \in plan[w] :
          \E at \in Numberings({RescanRow(p) : p \in
                     {first} \cup {q \in plan[w] : PendingJobs(q) = {}}}) :
            jobs' = Inserted(at)
    BY <1>12 DEF InsertRescans
  <2>2. {RescanRow(p) : p \in {first} \cup {q \in plan[w] : PendingJobs(q) = {}}}
          \in SUBSET Job
    BY <1>0, NewRowsType DEF TypeOK
  <2>3. \A j \in Rows : jobs'[j] = jobs[j]
    BY <1>0, <2>1, <2>2, InsertedRows
  <2> QED
    BY <1>12, <2>3, InsertIsQuiet DEF InsertRescans
<1> QED
  BY <1>1, <1>2, <1>3, <1>4, <1>5, <1>6, <1>7, <1>8, <1>9, <1>10, <1>11, <1>12
     DEF Worker, Execute

LEMMA ClaimStep ==
  ASSUME ScanQueueAssumption, Overlaps = {}, TypeInv, ClaimInv, [Next]_vars
  PROVE  ClaimInv' /\ Final
<1>1. CASE UNCHANGED vars
  BY <1>1, QuietStep DEF vars
<1> QED
  BY <1>1, WebClaims, EnvironmentClaims, WorkerClaims DEF Next

\* Provided no scan outlasts the stale-claim limit and workers do not start at the
\* same time, two workers never execute the same job, and the row of a job under
\* execution is 'running' (claim_next_job, requeue_stale_jobs).
THEOREM ClaimsInvariant ==
  ASSUME Overlaps = {}
  PROVE  Spec => []ClaimInv
<1>1. Init => ClaimInv
  BY DEF Init, ClaimInv, HeldJobsRun, HeldByOne, SelectedIsStale, OneStarts,
         Holds, Down
<1>2. TypeInv /\ ClaimInv /\ [Next]_vars => ClaimInv'
  BY ClaimStep, ScanQueueAssumption
<1> QED
  BY <1>1, <1>2, TypeInvariant, PTL DEF Spec

\* ... and so two workers never hold one job (ExclusiveClaims).
THEOREM ClaimsAreExclusive ==
  ASSUME Overlaps = {}
  PROVE  Spec => []ExclusiveClaims
<1>1. ClaimInv => ExclusiveClaims
  BY DEF ClaimInv, ExclusiveClaims, HeldJobsRun, HeldByOne
<1> QED
  BY <1>1, ClaimsInvariant, PTL

\* Under the same conditions no step of any process changes a finished job.
THEOREM ResultsAreFinal ==
  ASSUME Overlaps = {}
  PROVE  Spec => DoneIsFinal
<1>1. TypeInv /\ ClaimInv /\ [Next]_vars
        => [\A j \in JobIds : jobs[j].status = "done" => jobs'[j] = jobs[j]]_vars
  BY ClaimStep, ScanQueueAssumption DEF Final
<1> QED
  BY <1>1, TypeInvariant, ClaimsInvariant, PTL DEF Spec, DoneIsFinal
=============================================================================
