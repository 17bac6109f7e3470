------------------------------- MODULE Outbox -------------------------------
(***************************************************************************)
(* Notifications and the count of engine failures.                         *)
(*                                                                         *)
(* A notification is a row written in the transaction of the event it is   *)
(* about.  Once that has committed, the same process flushes whatever is   *)
(* pending, its own rows or those of others, without claiming them.  The   *)
(* count of consecutive engine failures decides which failure of a scan or *)
(* of a generation is announced.                                           *)
(*                                                                         *)
(* sqlite3 begins a transaction at the first write: what a process reads   *)
(* before is not protected from the others.                                *)
(***************************************************************************)
EXTENDS Integers, Sequences, FiniteSets

CONSTANTS
  Procs,        \* the web process and the workers
  Attempts,     \* MAX_DELIVERY_ATTEMPTS of a notification in one flush
  Limit,        \* rows a flush reads
  Threshold,    \* consecutive failures from which one is announced
  MaxNotes,     \* bound: notifications
  MaxCount,     \* bound: the count of failures, and the failures since a success
  MaxCrashes    \* bound: processes that end in the middle of a flush

ASSUME OutboxAssumption ==
  /\ IsFiniteSet(Procs)
  /\ Attempts \in Nat \ {0} /\ Limit \in Nat \ {0} /\ Threshold \in Nat \ {0}
  /\ MaxNotes \in Nat /\ MaxCount \in Nat /\ MaxCrashes \in Nat

VARIABLES
  notes,     \* notification.status, by id
  count,     \* config: engine_consecutive_failures, NoRow before the first
  proc,      \* what each process is doing
  received,  \* how often the receiver has accepted each notification
  streak,    \* history: failures committed since the last committed success
  lost,      \* history: one of them was counted over a count it had not read
  crashes    \* history: processes that ended in the middle of a flush

vars == <<notes, count, proc, received, streak, lost, crashes>>
tally == <<count, streak, lost>>
histories == <<received, crashes>>

NoRow == -1
Counts == {NoRow} \cup 0..MaxCount
Ids == 1..MaxNotes
Smallest(S) == CHOOSE i \in S : \A j \in S : i <= j

\* saw: the count read before the transaction began; batch: the ids a flush has
\* read and not yet settled; tries: posts of the smallest; ok: its outcome.
Places == {"idle", "success", "failure", "flush", "send", "settle"}
State == [at : Places, saw : Counts, batch : SUBSET Ids, tries : 0..Attempts,
          ok : BOOLEAN]
Idle == [at |-> "idle", saw |-> NoRow, batch |-> {}, tries |-> 0, ok |-> FALSE]
Flushing == [Idle EXCEPT !.at = "flush"]

-----------------------------------------------------------------------------
(* Events                                                                  *)

\* record_and_deliver, in the transaction of its caller.
Record == Len(notes) < MaxNotes /\ notes' = Append(notes, "pending")

\* A dispatch, or a webhook that is about something or not.
Event(p) ==
  /\ proc[p].at = "idle"
  /\ Record \/ UNCHANGED notes
  /\ proc' = [proc EXCEPT ![p] = Flushing]
  /\ UNCHANGED <<tally, histories>>

\* engine_consecutive_failures: no row counts as none.
Number(c) == IF c = NoRow THEN 0 ELSE c
Failures == Number(count)

\* The key is unique: the INSERT of a process that saw no row is refused when there
\* is one, and takes the whole transaction with it, notification and result
\* included.
RowAppeared(p) == proc[p].saw = NoRow /\ count # NoRow

\* Bound: no failure is begun that may lead beyond MaxCount.
Waiting == {p \in Procs : proc[p].at = "failure"}
Room == Failures < MaxCount /\ streak + Cardinality(Waiting) < MaxCount

\* A plausible mistake: failures from the one after the threshold on.
AnnouncedLate(failures) == failures > Threshold

Announced(failures) == failures >= Threshold

\* _notify_engine_failure.  Its transaction has written the job or the
\* remediation before, so the count is read and written under the lock.
EngineFails(p) ==
  /\ proc[p].at = "idle" /\ Room
  /\ count' = Failures + 1
  /\ streak' = streak + 1
  /\ IF Announced(count') THEN Record ELSE UNCHANGED notes
  /\ proc' = [proc EXCEPT ![p] = Flushing]
  /\ UNCHANGED <<lost, histories>>

\* derive_entry counts a failure and announces nothing.
DerivationFails(p) ==
  /\ proc[p].at = "idle" /\ Room
  /\ count' = Failures + 1
  /\ streak' = streak + 1
  /\ UNCHANGED <<notes, proc, lost, histories>>

\* When two workers fail at the same remediation or draft, the second finds its
\* status, and its message, written: nothing is, and the count is read before the
\* transaction begins, ...
ReadForFailure(p) ==
  /\ proc[p].at = "idle" /\ Room
  /\ proc' = [proc EXCEPT ![p] = [Idle EXCEPT !.at = "failure", !.saw = count]]
  /\ UNCHANGED <<notes, tally, histories>>

\* ... and written in it, over whatever the others have counted since.
CountOver(p) ==
  /\ proc[p].at = "failure"
  /\ count' = Number(proc[p].saw) + 1
  /\ streak' = streak + 1
  /\ lost' = (lost \/ count # proc[p].saw)

\* Of a generation.  The other worker has counted its failure: there is a row.
EngineFailsLate(p) ==
  /\ CountOver(p) /\ proc[p].saw # NoRow
  /\ IF Announced(count') THEN Record ELSE UNCHANGED notes
  /\ proc' = [proc EXCEPT ![p] = Flushing]
  /\ UNCHANGED histories

\* Of a derivation.
DerivationFailsLate(p) ==
  /\ CountOver(p) /\ ~RowAppeared(p)
  /\ proc' = [proc EXCEPT ![p] = Idle]
  /\ UNCHANGED <<notes, histories>>

\* record_engine_success looks for its row before anything is written, ...
ReadForSuccess(p) ==
  /\ proc[p].at = "idle"
  /\ proc' = [proc EXCEPT ![p] = [Idle EXCEPT !.at = "success", !.saw = count]]
  /\ UNCHANGED <<notes, tally, histories>>

\* ... and the row keeps its value when the one that was read is the one that
\* is written.
Reset(p) == count' = IF proc[p].saw = 0 THEN count ELSE 0

\* The last transaction of a scan.
ScanSucceeds(p) ==
  /\ proc[p].at = "success" /\ ~RowAppeared(p)
  /\ Reset(p)
  /\ streak' = 0 /\ lost' = FALSE
  /\ Record
  /\ proc' = [proc EXCEPT ![p] = Flushing]
  /\ UNCHANGED histories

\* That of a derivation or a generation, which tells nobody.  The latter writes
\* first and reads under the lock, as if nothing came between the two steps.
OtherSucceeds(p) ==
  /\ proc[p].at = "success" /\ ~RowAppeared(p)
  /\ Reset(p)
  /\ streak' = 0 /\ lost' = FALSE
  /\ proc' = [proc EXCEPT ![p] = Idle]
  /\ UNCHANGED <<notes, histories>>

CountRefused(p) ==
  /\ proc[p].at \in {"success", "failure"} /\ RowAppeared(p)
  /\ proc' = [proc EXCEPT ![p] = Idle]
  /\ UNCHANGED <<notes, tally, histories>>

-----------------------------------------------------------------------------
(* flush_pending                                                           *)

Pending == {i \in DOMAIN notes : notes[i] = "pending"}

\* The oldest rows, as many as the limit allows.
Oldest(S) == {i \in S : Cardinality({j \in S : j < i}) < Limit}

ReadPending(p) ==
  /\ proc[p].at = "flush"
  /\ proc' = [proc EXCEPT ![p] =
       IF Pending = {} THEN Idle
       ELSE [Idle EXCEPT !.at = "send", !.batch = Oldest(Pending)]]
  /\ UNCHANGED <<notes, tally, histories>>

Current(p) == Smallest(proc[p].batch)
Tried(p, accepted) ==
  IF accepted
  THEN [proc[p] EXCEPT !.at = "settle", !.ok = TRUE]
  ELSE [proc[p] EXCEPT !.at = IF proc[p].tries + 1 = Attempts THEN "settle" ELSE "send",
                       !.tries = @ + 1]

\* One POST of deliver.  The receiver may accept it and the answer be lost.
Post(p, accepted, answered) ==
  /\ proc[p].at = "send"
  /\ received' = [received EXCEPT ![Current(p)] = @ + (IF accepted THEN 1 ELSE 0)]
  /\ proc' = [proc EXCEPT ![p] = Tried(p, accepted /\ answered)]
  /\ UNCHANGED <<notes, tally, crashes>>

\* A plausible mistake: a post without an answer counts as sent.
OutcomeOptimistic(ok) == "sent"

\* A plausible mistake: a notification that failed is left for the next flush.
OutcomeRetried(ok) == IF ok THEN "sent" ELSE "pending"

\* A plausible mistake: another word for the same outcome.
OutcomeInWords(ok) == IF ok THEN "delivered" ELSE "failed"

\* The outcome, over whatever another flush has recorded since.
Outcome(ok) == IF ok THEN "sent" ELSE "failed"
Rest(p) == proc[p].batch \ {Current(p)}

Settle(p) ==
  /\ proc[p].at = "settle"
  /\ notes' = [notes EXCEPT ![Current(p)] = Outcome(proc[p].ok)]
  /\ proc' = [proc EXCEPT ![p] =
       IF Rest(p) = {} THEN Idle ELSE [Idle EXCEPT !.at = "send", !.batch = Rest(p)]]
  /\ UNCHANGED <<tally, histories>>

Crash(p) ==
  /\ proc[p].at # "idle" /\ crashes < MaxCrashes
  /\ proc' = [proc EXCEPT ![p] = Idle]
  /\ crashes' = crashes + 1
  /\ UNCHANGED <<notes, tally, received>>

-----------------------------------------------------------------------------
(* Behaviours                                                              *)

Init ==
  /\ notes = << >> /\ count = NoRow
  /\ proc = [p \in Procs |-> Idle]
  /\ received = [i \in Ids |-> 0]
  /\ streak = 0 /\ lost = FALSE /\ crashes = 0

Engine(p) ==
  \/ EngineFails(p) \/ DerivationFails(p)
  \/ ReadForFailure(p) \/ EngineFailsLate(p) \/ DerivationFailsLate(p)
  \/ ReadForSuccess(p) \/ ScanSucceeds(p) \/ OtherSucceeds(p)
  \/ CountRefused(p)

Flush(p) ==
  \/ ReadPending(p) \/ Settle(p)
  \/ \E accepted, answered \in BOOLEAN : Post(p, accepted, answered)

Next == \E p \in Procs : Event(p) \/ Engine(p) \/ Flush(p) \/ Crash(p)

Spec == Init /\ [][Next]_vars

\* Webhooks keep coming, a flush that has begun goes on, and so does the last
\* transaction of a scan, a generation or a derivation.
LastTransaction(p) ==
  \/ ScanSucceeds(p) \/ OtherSucceeds(p) \/ EngineFailsLate(p)
  \/ DerivationFailsLate(p) \/ CountRefused(p)

FairSpec ==
  /\ Spec
  /\ \A p \in Procs :
       SF_vars(Event(p)) /\ WF_vars(Flush(p)) /\ WF_vars(LastTransaction(p))

-----------------------------------------------------------------------------
(* Properties                                                              *)

\* Every variable holds a value of its type.
TypeOK ==
  /\ notes \in Seq({"pending", "sent", "failed"}) /\ Len(notes) <= MaxNotes
  /\ count \in Counts
  /\ proc \in [Procs -> State]
  /\ \A p \in Procs : /\ proc[p].batch \subseteq DOMAIN notes
                      /\ proc[p].at \in {"send", "settle"} => proc[p].batch # {}
                      /\ proc[p].at = "failure" => Number(proc[p].saw) < MaxCount
  /\ received \in [Ids -> Nat]
  /\ streak \in Nat /\ lost \in BOOLEAN /\ crashes \in 0..MaxCrashes

\* A notification that is recorded as sent was accepted by the receiver, also
\* when two processes flush it at once and disagree about what happened.
SentWasReceived ==
  \A i \in DOMAIN notes : notes[i] = "sent" => received[i] > 0

\* Flushing without a claim duplicates a notification only as often as there
\* are processes to flush it at once, or to start again after a crash.
DuplicatesAreBounded ==
  \A i \in Ids : received[i] <= Attempts * (Cardinality(Procs) + crashes)

\* The count never falls behind: the failure of a scan or of a generation that
\* is at least the Threshold-th since the last success is announced, whatever
\* other processes record meanwhile, as long as none of those failures was counted
\* over another, which takes two workers that fail at the same thing.
FailuresAreAnnounced ==
  [][\A p \in Procs :
       (proc[p].at \in {"idle", "failure"} /\ proc'[p].at = "flush"
          /\ streak' > streak /\ streak' >= Threshold /\ ~lost')
         => Len(notes') > Len(notes)]_vars

\* A notification is not pending for ever, though a flush reads only a few and
\* may end anywhere.
PendingIsSettled ==
  \A i \in Ids :
    (i \in DOMAIN notes /\ notes[i] = "pending") ~>
      (i \in DOMAIN notes /\ notes[i] # "pending")
=============================================================================
