---------------------------- MODULE OutboxProofs ----------------------------
(***************************************************************************)
(* Proofs about Outbox, for any number of processes and notifications.     *)
(*                                                                         *)
(* A notification is settled some time after its last post, while others   *)
(* post and settle it too: the invariant says what the outcome a process   *)
(* holds has to do with what was received (Posting), and that the count    *)
(* never falls behind the failures as long as none is counted over another *)
(* (CountKeepsUp).                                                         *)
(***************************************************************************)
EXTENDS Outbox, WellFoundedInduction, FiniteSetTheorems, TLAPS

\* What a process holds of the notification it is posting.
Posting ==
  \A p \in Procs :
    /\ proc[p].at = "send" => ~proc[p].ok /\ proc[p].tries < Attempts
    /\ proc[p].at = "settle" /\ proc[p].ok => received[Current(p)] > 0

CountKeepsUp == ~lost => streak <= Failures

Inv == TypeOK /\ Posting /\ SentWasReceived /\ CountKeepsUp

\* Every set of ids that is not empty has a smallest one.
LEMMA SmallestIsLeast ==
  ASSUME NEW S \in SUBSET Nat, S # {}
  PROVE  /\ Smallest(S) \in S
         /\ \E i \in S : \A j \in S : ~(j < i)
<1>1. PICK i \in S : \A j \in S : ~ (<<j, i>> \in OpToRel(<, Nat))
  BY NatLessThanWellFounded, WFMin
<1>2. \A j \in S : i <= j
  <2>1. ASSUME NEW j \in S, j < i
        PROVE  FALSE
    <3>1. <<j, i>> \in Nat \X Nat /\ <<j, i>>[1] < <<j, i>>[2]
      BY <2>1
    <3>2. <<j, i>> \in OpToRel(<, Nat)
      BY <3>1 DEF OpToRel
    <3> QED BY <1>1, <3>2
  <2> QED BY <2>1
<1>3. \A j \in S : ~(j < i)
  BY <1>2
<1>4. Smallest(S) \in S
  BY <1>2 DEF Smallest
<1> QED BY <1>3, <1>4

LEMMA CurrentIsHeld ==
  ASSUME TypeOK, NEW p \in Procs, proc[p].batch # {}
  PROVE  Current(p) \in proc[p].batch /\ Current(p) \in DOMAIN notes /\ Current(p) \in Ids
<1>1. DOMAIN notes = 1..Len(notes) /\ Len(notes) \in Nat /\ Len(notes) <= MaxNotes
  BY DEF TypeOK
<1>2. proc[p].batch \subseteq DOMAIN notes
  BY DEF TypeOK
<1>3. proc[p].batch \in SUBSET Nat
  BY <1>1, <1>2
<1>4. Current(p) \in proc[p].batch
  BY <1>3, SmallestIsLeast DEF Current
<1> QED BY <1>1, <1>2, <1>4, OutboxAssumption DEF Ids

\* A state that a process may be in, given the notifications there are.
Holds(s, n) ==
  /\ s \in State /\ s.batch \subseteq DOMAIN n
  /\ s.at \in {"send", "settle"} => s.batch # {}
  /\ s.at = "send" => ~s.ok /\ s.tries < Attempts
  /\ s.at = "failure" => Number(s.saw) < MaxCount

LEMMA IdleHolds ==
  ASSUME NEW n
  PROVE  Holds(Idle, n) /\ Holds(Flushing, n)
<1>1. 0 \in 0..Attempts /\ NoRow \in Counts /\ {} \in SUBSET Ids
  BY OutboxAssumption DEF Counts
<1>2. Idle \in State
  BY <1>1 DEF Idle, State, Places
<1>3. Flushing \in State /\ Flushing.at = "flush" /\ Flushing.batch = {}
  BY <1>2 DEF Flushing, Idle, State, Places
<1> QED BY <1>2, <1>3 DEF Holds, Idle

\* A step of one process that records at most one more notification.
LEMMA ProcStep ==
  ASSUME Inv, NEW p \in Procs, NEW s, Holds(s, notes'),
         proc' = [proc EXCEPT ![p] = s],
         Record \/ UNCHANGED notes,
         received' = received,
         s.at = "settle" => ~s.ok,
         count' \in Counts, streak' \in Nat, lost' \in BOOLEAN, crashes' \in 0..MaxCrashes,
         CountKeepsUp'
  PROVE  Inv'
<1>1. /\ notes' \in Seq({"pending", "sent", "failed"}) /\ Len(notes') <= MaxNotes
      /\ DOMAIN notes \subseteq DOMAIN notes'
      /\ \A i \in DOMAIN notes' : notes'[i] = "sent" => i \in DOMAIN notes /\ notes[i] = "sent"
  <2>1. CASE UNCHANGED notes
    BY <2>1 DEF Inv, TypeOK
  <2>2. CASE Record
    BY <2>2, OutboxAssumption DEF Record, Inv, TypeOK
  <2> QED BY <2>1, <2>2
<1>2. /\ proc'[p] = s /\ \A q \in Procs \ {p} : proc'[q] = proc[q]
      /\ proc' \in [Procs -> State]
  BY DEF Inv, TypeOK, Holds
<1>3. TypeOK'
  BY <1>1, <1>2 DEF Inv, TypeOK, Holds
<1>4. Posting'
  BY <1>2 DEF Inv, Posting, Current, Holds
<1>5. SentWasReceived'
  BY <1>1 DEF Inv, SentWasReceived
<1> QED BY <1>3, <1>4, <1>5 DEF Inv

LEMMA EventStep ==
  ASSUME Inv, NEW p \in Procs, Event(p)
  PROVE  Inv'
  BY IdleHolds, ProcStep DEF Event, tally, histories, Flushing, Idle, Inv, TypeOK, CountKeepsUp,
                             Failures, Number

LEMMA FailureCounts ==
  ASSUME Inv, NEW c \in Counts, Number(c) < MaxCount
  PROVE  /\ Number(c) \in Nat /\ Number(c) + 1 \in Counts
         /\ Number(Number(c) + 1) = Number(c) + 1
         /\ streak + 1 \in Nat
         /\ ~lost /\ count = c => streak + 1 <= Number(c) + 1
  BY OutboxAssumption DEF Inv, TypeOK, CountKeepsUp, Failures, Number, Counts, NoRow

LEMMA EngineStep ==
  ASSUME Inv, NEW p \in Procs, Engine(p)
  PROVE  Inv'
<1>0. /\ count \in Counts /\ streak \in Nat /\ lost \in BOOLEAN
      /\ crashes \in 0..MaxCrashes /\ proc \in [Procs -> State] /\ proc[p] \in State
      /\ proc[p].saw \in Counts
      /\ proc[p].at = "failure" => Number(proc[p].saw) < MaxCount
  BY DEF Inv, TypeOK, State
<1>1. Idle.at # "settle" /\ Flushing.at # "settle"
  BY DEF Flushing, Idle
<1>2. Room => Number(count) < MaxCount
  BY DEF Room, Failures
<1>4. CASE EngineFails(p)
  <2>1. /\ count' = Number(count) + 1 /\ streak' = streak + 1 /\ lost' = lost /\ Room
        /\ Record \/ UNCHANGED notes
        /\ proc' = [proc EXCEPT ![p] = Flushing] /\ UNCHANGED histories
    BY <1>4 DEF EngineFails, Failures
  <2>2. count' \in Counts /\ streak' \in Nat /\ CountKeepsUp'
    BY <1>0, <1>2, <2>1, FailureCounts DEF CountKeepsUp, Failures
  <2> QED BY <1>0, <1>1, <2>1, <2>2, IdleHolds, ProcStep DEF histories
<1>5. CASE DerivationFails(p)
  <2>1. /\ count' = Number(count) + 1 /\ streak' = streak + 1 /\ lost' = lost /\ Room
        /\ UNCHANGED <<notes, proc, received, crashes>>
    BY <1>5 DEF DerivationFails, Failures, histories
  <2>2. count' \in Counts /\ streak' \in Nat /\ CountKeepsUp'
    BY <1>0, <1>2, <2>1, FailureCounts DEF CountKeepsUp, Failures
  <2>3. TypeOK' /\ Posting' /\ SentWasReceived'
    BY <1>0, <2>1, <2>2 DEF Inv, TypeOK, Posting, SentWasReceived, Current
  <2> QED BY <2>2, <2>3 DEF Inv
<1>6. CASE EngineFailsLate(p) \/ DerivationFailsLate(p)
  <2>1. /\ proc[p].at = "failure" /\ count' = Number(proc[p].saw) + 1
        /\ streak' = streak + 1 /\ lost' = (lost \/ count # proc[p].saw)
        /\ Record \/ UNCHANGED notes
        /\ UNCHANGED histories
    BY <1>6 DEF EngineFailsLate, DerivationFailsLate, CountOver, histories
  <2>2. PICK s \in {Idle, Flushing} : proc' = [proc EXCEPT ![p] = s]
    BY <1>6 DEF EngineFailsLate, DerivationFailsLate
  <2>3. /\ count' \in Counts /\ streak' \in Nat /\ lost' \in BOOLEAN
        /\ UNCHANGED <<received, crashes>>
    <3>1. count' \in Counts /\ streak' \in Nat
      <4>1. proc[p].saw \in Counts /\ Number(proc[p].saw) < MaxCount
        BY <1>0, <2>1
      <4>2. Number(proc[p].saw) + 1 \in Counts /\ streak + 1 \in Nat
        BY <4>1, FailureCounts
      <4> QED BY <2>1, <4>2
    <3>2. lost' \in BOOLEAN
      BY <2>1, Zenon
    <3> QED BY <2>1, <3>1, <3>2 DEF histories
  <2>4. CountKeepsUp'
    BY <1>0, <2>1, FailureCounts DEF CountKeepsUp, Failures
  <2>5. Holds(s, notes') /\ s.at # "settle"
    BY <1>1, IdleHolds
  <2> QED BY <1>0, <2>1, <2>2, <2>3, <2>4, <2>5, ProcStep
<1>7. ASSUME NEW place \in {"success", "failure"}, Number(count) < MaxCount \/ place = "success",
             proc' = [proc EXCEPT ![p] = [Idle EXCEPT !.at = place, !.saw = count]],
             UNCHANGED <<notes, tally, histories>>
      PROVE  Inv'
  <2> DEFINE s == [Idle EXCEPT !.at = place, !.saw = count]
  <2>1. Idle \in State
    BY IdleHolds DEF Holds
  <2>2. s \in State /\ s.at = place /\ s.batch = {} /\ s.saw = count
    BY <1>0, <2>1 DEF Idle, State, Places
  <2>3. Holds(s, notes') /\ s.at # "settle"
    BY <1>7, <2>2 DEF Holds
  <2>4. CountKeepsUp'
    BY <1>7 DEF Inv, CountKeepsUp, Failures, Number, tally
  <2> QED BY <1>0, <1>7, <2>3, <2>4, ProcStep DEF tally, histories
<1>8. CASE ReadForSuccess(p) \/ ReadForFailure(p)
  BY <1>2, <1>7, <1>8 DEF ReadForSuccess, ReadForFailure
<1>9. CASE ScanSucceeds(p) \/ OtherSucceeds(p)
  <2>1. /\ streak' = 0 /\ lost' = FALSE /\ Reset(p)
        /\ Record \/ UNCHANGED notes
        /\ UNCHANGED <<received, crashes>>
    BY <1>9 DEF ScanSucceeds, OtherSucceeds, histories
  <2>2. PICK s \in {Idle, Flushing} : proc' = [proc EXCEPT ![p] = s]
    BY <1>9 DEF ScanSucceeds, OtherSucceeds
  <2>3. count' \in Counts
    BY <1>0, <2>1, OutboxAssumption DEF Reset, Counts
  <2>4. CountKeepsUp'
    BY <2>1, <2>3 DEF CountKeepsUp, Failures, Number, Counts, NoRow
  <2>5. Holds(s, notes') /\ s.at # "settle"
    BY <1>1, IdleHolds
  <2> QED BY <1>0, <2>1, <2>2, <2>3, <2>4, <2>5, ProcStep
<1>10. CASE CountRefused(p)
  <2>1. proc' = [proc EXCEPT ![p] = Idle] /\ UNCHANGED <<notes, tally, received, crashes>>
    BY <1>10 DEF CountRefused, histories
  <2>2. CountKeepsUp'
    BY <2>1 DEF Inv, CountKeepsUp, Failures, Number, tally
  <2> QED BY <1>0, <1>1, <2>1, <2>2, IdleHolds, ProcStep DEF tally
<1> QED BY <1>4, <1>5, <1>6, <1>8, <1>9, <1>10 DEF Engine

LEMMA FlushStep ==
  ASSUME Inv, NEW p \in Procs, Flush(p)
  PROVE  Inv'
<1>0. /\ count \in Counts /\ streak \in Nat /\ lost \in BOOLEAN
      /\ crashes \in 0..MaxCrashes /\ CountKeepsUp /\ proc \in [Procs -> State] /\ proc[p] \in State
  BY DEF Inv, TypeOK
<1>1. DOMAIN notes = 1..Len(notes) /\ Len(notes) \in Nat /\ DOMAIN notes \subseteq Ids
  BY OutboxAssumption DEF Inv, TypeOK, Ids
<1>2. CASE ReadPending(p)
  <2> DEFINE s == IF Pending = {} THEN Idle
                  ELSE [Idle EXCEPT !.at = "send", !.batch = Oldest(Pending)]
  <2>1. /\ proc' = [proc EXCEPT ![p] = s] /\ UNCHANGED <<notes, count, streak, lost, received, crashes>>
    BY <1>2 DEF ReadPending, tally, histories
  <2>2. CASE Pending = {}
    <3>1. Holds(s, notes') /\ s.at # "settle"
      <4>1. Holds(Idle, notes')
        BY IdleHolds
      <4> QED BY <2>2, <4>1 DEF Idle
    <3>2. CountKeepsUp'
      BY <1>0, <2>1 DEF CountKeepsUp, Failures, Number
    <3> QED BY <1>0, <2>1, <3>1, <3>2, ProcStep
  <2>3. CASE Pending # {}
    <3>1. Pending \subseteq DOMAIN notes
      BY DEF Pending
    <3>2. Oldest(Pending) \subseteq DOMAIN notes
      BY <3>1 DEF Oldest
    <3>3. Oldest(Pending) # {}
      <4>1. Pending \in SUBSET Nat
        BY <1>1, <3>1
      <4>2. PICK i \in Pending : \A j \in Pending : ~(j < i)
        BY <2>3, <4>1, SmallestIsLeast
      <4>3. {j \in Pending : j < i} = {}
        BY <4>2
      <4>4. Cardinality({j \in Pending : j < i}) = 0
        BY <4>3, FS_EmptySet
      <4> QED BY <4>4, OutboxAssumption DEF Oldest
    <3>4. /\ s \in State /\ s.at = "send" /\ s.batch = Oldest(Pending)
          /\ s.ok = FALSE /\ s.tries = 0
      <4>1. Idle \in State /\ Idle.ok = FALSE /\ Idle.tries = 0
        BY IdleHolds DEF Holds, Idle
      <4> QED BY <1>1, <2>3, <3>2, <4>1 DEF State, Places
    <3>5. Holds(s, notes')
      BY <2>1, <3>2, <3>3, <3>4, OutboxAssumption DEF Holds
    <3>6. CountKeepsUp'
      BY <1>0, <2>1 DEF CountKeepsUp, Failures, Number
    <3> QED BY <1>0, <2>1, <3>4, <3>5, <3>6, ProcStep
  <2> QED BY <2>2, <2>3
<1>3. ASSUME NEW accepted \in BOOLEAN, NEW answered \in BOOLEAN, Post(p, accepted, answered)
      PROVE  Inv'
  <2>1. PICK c \in Ids : c = Current(p)
    BY <1>3, CurrentIsHeld DEF Post, Inv, TypeOK
  <2>2. /\ received' = [received EXCEPT ![c] = @ + (IF accepted THEN 1 ELSE 0)]
        /\ UNCHANGED <<notes, count, streak, lost, crashes>>
        /\ proc' = [proc EXCEPT ![p] = Tried(p, accepted /\ answered)]
        /\ proc[p].at = "send"
    BY <1>3, <2>1 DEF Post, tally
  <2>3. /\ received' \in [Ids -> Nat] /\ \A i \in Ids : received[i] > 0 => received'[i] > 0
        /\ accepted => received'[c] > 0
    BY <2>2 DEF Inv, TypeOK
  <2>4. ~proc[p].ok /\ proc[p].tries < Attempts /\ proc[p].batch # {}
    BY <2>2 DEF Inv, Posting, TypeOK
  <2>5. /\ proc'[p] \in State /\ proc'[p].batch = proc[p].batch
        /\ proc'[p].at \in {"send", "settle"}
        /\ proc'[p].at = "send" => ~proc'[p].ok /\ proc'[p].tries < Attempts
        /\ proc'[p].ok => accepted
    <3>1. proc'[p] = Tried(p, accepted /\ answered)
      BY <1>0, <2>2
    <3>2. CASE accepted /\ answered
      <4>1. proc'[p] = [proc[p] EXCEPT !.at = "settle", !.ok = TRUE]
        BY <3>1, <3>2 DEF Tried
      <4> QED BY <1>0, <3>2, <4>1 DEF State, Places
    <3>3. CASE ~(accepted /\ answered)
      <4> DEFINE place == IF proc[p].tries + 1 = Attempts THEN "settle" ELSE "send"
      <4>1. proc'[p] = [proc[p] EXCEPT !.at = place, !.tries = proc[p].tries + 1]
        BY <3>1, <3>3 DEF Tried
      <4>2. proc[p].tries + 1 \in 0..Attempts /\ proc[p].tries \in Nat
        BY <1>0, <2>4, OutboxAssumption DEF State
      <4>3. /\ place \in Places /\ place \in {"send", "settle"}
            /\ place = "send" => proc[p].tries + 1 < Attempts
        BY <4>2, OutboxAssumption DEF Places
      <4> HIDE DEF place
      <4>4. /\ proc'[p].at = place /\ proc'[p].tries = proc[p].tries + 1
            /\ proc'[p].ok = proc[p].ok /\ proc'[p].batch = proc[p].batch
            /\ proc'[p] \in State
        BY <1>0, <4>1, <4>2, <4>3 DEF State
      <4> QED BY <2>4, <4>3, <4>4
    <3> QED BY <3>2, <3>3
  <2>6. \A q \in Procs \ {p} : proc'[q] = proc[q]
    BY <1>0, <2>2
  <2>7. TypeOK'
    <3>1. proc' \in [Procs -> State]
      BY <1>0, <2>2, <2>5, <2>6
    <3>2. \A q \in Procs : /\ proc'[q].batch \subseteq DOMAIN notes'
                           /\ proc'[q].at \in {"send", "settle"} => proc'[q].batch # {}
                           /\ proc'[q].at = "failure" => Number(proc'[q].saw) < MaxCount
      BY <2>2, <2>4, <2>5, <2>6 DEF Inv, TypeOK
    <3> QED BY <2>2, <2>3, <3>1, <3>2 DEF Inv, TypeOK
  <2>8. Posting'
    <3>1. /\ proc'[p].at = "send" => ~proc'[p].ok /\ proc'[p].tries < Attempts
          /\ proc'[p].at = "settle" /\ proc'[p].ok => received'[Current(p)'] > 0
      <4>1. Current(p)' = c
        BY <2>1, <2>5 DEF Current
      <4> QED BY <2>3, <2>5, <4>1
    <3>2. ASSUME NEW q \in Procs \ {p}
          PROVE  /\ proc'[q].at = "send" => ~proc'[q].ok /\ proc'[q].tries < Attempts
                 /\ proc'[q].at = "settle" /\ proc'[q].ok => received'[Current(q)'] > 0
      <4>1. Current(q)' = Current(q)
        BY <2>6 DEF Current
      <4>2. proc[q].at = "settle" => Current(q) \in Ids
        BY CurrentIsHeld DEF Inv, TypeOK
      <4> QED BY <2>3, <2>6, <4>1, <4>2 DEF Inv, Posting
    <3> QED BY <3>1, <3>2 DEF Posting
  <2>9. SentWasReceived' /\ CountKeepsUp'
    BY <1>1, <2>2, <2>3 DEF Inv, SentWasReceived, CountKeepsUp, Failures, Number
  <2> QED BY <2>7, <2>8, <2>9 DEF Inv
<1>4. CASE Settle(p)
  <2>1. PICK c \in DOMAIN notes : c = Current(p)
    BY <1>4, CurrentIsHeld DEF Settle, Inv, TypeOK
  <2> DEFINE s == IF Rest(p) = {} THEN Idle ELSE [Idle EXCEPT !.at = "send", !.batch = Rest(p)]
  <2>2. /\ notes' = [notes EXCEPT ![c] = Outcome(proc[p].ok)]
        /\ proc' = [proc EXCEPT ![p] = s]
        /\ UNCHANGED <<count, streak, lost, received, crashes>> /\ proc[p].at = "settle"
    BY <1>4, <2>1 DEF Settle, tally, histories
  <2>3. Outcome(proc[p].ok) \in {"pending", "sent", "failed"}
    BY DEF Outcome
  <2>4. /\ notes' \in Seq({"pending", "sent", "failed"}) /\ Len(notes') = Len(notes)
        /\ DOMAIN notes' = DOMAIN notes /\ notes'[c] = Outcome(proc[p].ok)
        /\ \A i \in DOMAIN notes \ {c} : notes'[i] = notes[i]
    BY <2>2, <2>3 DEF Inv, TypeOK
  <2>5. SentWasReceived'
    <3>1. notes'[c] = "sent" => received[c] > 0
      BY <2>1, <2>2, <2>4 DEF Outcome, Inv, Posting
    <3> QED BY <2>2, <2>4, <3>1 DEF Inv, SentWasReceived
  <2>6. Holds(s, notes') /\ s.at # "settle"
    <3>1. Holds(Idle, notes') /\ Idle.at = "idle" /\ Idle.ok = FALSE /\ Idle.tries = 0
      BY IdleHolds DEF Idle
    <3>2. CASE Rest(p) = {}
      BY <3>1, <3>2
    <3>3. CASE Rest(p) # {}
      <4>1. Rest(p) \subseteq DOMAIN notes'
        BY <2>4 DEF Rest, Inv, TypeOK
      <4>2. Idle \in State
        BY <3>1 DEF Holds
      <4>3. /\ s \in State /\ s.at = "send" /\ s.batch = Rest(p)
            /\ s.ok = FALSE /\ s.tries = 0
        BY <1>1, <2>4, <3>1, <3>3, <4>1, <4>2 DEF State, Places
      <4> QED BY <3>3, <4>1, <4>3, OutboxAssumption DEF Holds
    <3> QED BY <3>2, <3>3
  <2>7. /\ proc'[p] = s /\ \A q \in Procs \ {p} : proc'[q] = proc[q]
        /\ proc' \in [Procs -> State]
    BY <1>0, <2>2, <2>6 DEF Holds
  <2>8. TypeOK'
    BY <2>2, <2>4, <2>6, <2>7 DEF Inv, TypeOK, Holds
  <2>9. Posting'
    BY <2>2, <2>6, <2>7 DEF Inv, Posting, Current, Holds
  <2>10. CountKeepsUp'
    BY <2>2 DEF Inv, CountKeepsUp, Failures, Number
  <2> QED BY <2>5, <2>8, <2>9, <2>10 DEF Inv
<1> QED BY <1>2, <1>3, <1>4 DEF Flush

LEMMA CrashStep ==
  ASSUME Inv, NEW p \in Procs, Crash(p)
  PROVE  Inv'
<1>1. /\ proc' = [proc EXCEPT ![p] = Idle] /\ UNCHANGED <<notes, tally, received>>
      /\ crashes' \in 0..MaxCrashes
  BY OutboxAssumption DEF Crash, Inv, TypeOK
<1>2. Holds(Idle, notes') /\ Idle.at # "settle"
  <2>1. Holds(Idle, notes')
    BY IdleHolds
  <2> QED BY <2>1 DEF Idle
<1>3. count' \in Counts /\ streak' \in Nat /\ lost' \in BOOLEAN /\ CountKeepsUp'
  BY <1>1 DEF tally, Inv, TypeOK, CountKeepsUp, Failures, Number
<1> QED BY <1>1, <1>2, <1>3, ProcStep

LEMMA Invariance == Spec => []Inv
<1>1. Init => Inv
  <2>1. SUFFICES ASSUME Init PROVE Inv
    OBVIOUS
  <2>2. Holds(Idle, << >>) /\ Idle.at = "idle"
    BY IdleHolds DEF Idle
  <2>3. /\ notes = << >> /\ DOMAIN notes = {} /\ Len(notes) = 0
        /\ notes \in Seq({"pending", "sent", "failed"})
    BY <2>1 DEF Init
  <2>4. TypeOK
    <3>1. /\ proc \in [Procs -> State]
          /\ \A q \in Procs : proc[q].batch \subseteq DOMAIN notes /\ proc[q].at = "idle"
      BY <2>1, <2>2, <2>3 DEF Init, Holds
    <3>2. received \in [Ids -> Nat] /\ count \in Counts
      BY <2>1 DEF Init, Counts
    <3>3. streak \in Nat /\ crashes \in 0..MaxCrashes /\ Len(notes) <= MaxNotes
      BY <2>1, <2>3, OutboxAssumption DEF Init
    <3>4. lost \in BOOLEAN
      BY <2>1 DEF Init
    <3> QED BY <2>3, <3>1, <3>2, <3>3, <3>4 DEF TypeOK
  <2>5. Posting /\ SentWasReceived
    BY <2>1, <2>2, <2>3 DEF Init, Posting, SentWasReceived
  <2>6. CountKeepsUp
    BY <2>1 DEF Init, CountKeepsUp, Failures, Number
  <2> QED BY <2>4, <2>5, <2>6 DEF Inv
<1>2. Inv /\ [Next]_vars => Inv'
  <2>1. Inv /\ UNCHANGED vars => Inv'
    BY DEF vars, Inv, TypeOK, Posting, Current, SentWasReceived, CountKeepsUp, Failures,
           Number
  <2> QED BY <2>1, EventStep, EngineStep, FlushStep, CrashStep DEF Next
<1> QED BY <1>1, <1>2, PTL DEF Spec

\* Every variable holds a value of its type, in every state of the program.
THEOREM TypeCorrect == Spec => []TypeOK
<1>1. Inv => TypeOK
  BY DEF Inv
<1> QED BY <1>1, Invariance, PTL

\* A notification recorded as sent was accepted, however many flush at once.
THEOREM SentMeansReceived == Spec => []SentWasReceived
<1>1. Inv => SentWasReceived
  BY DEF Inv
<1> QED BY <1>1, Invariance, PTL

\* The failure that reaches the threshold is announced by its own transaction, as
\* long as no failure since the last success was counted over another.
THEOREM ThresholdIsAnnounced == Spec => FailuresAreAnnounced
<1> DEFINE Announces ==
      \A p \in Procs :
        (proc[p].at \in {"idle", "failure"} /\ proc'[p].at = "flush"
           /\ streak' > streak /\ streak' >= Threshold /\ ~lost')
          => Len(notes') > Len(notes)
<1>1. Inv /\ [Next]_vars => [Announces]_vars
  <2>1. SUFFICES ASSUME Inv, NEW q \in Procs,
                        Event(q) \/ Engine(q) \/ Flush(q) \/ Crash(q),
                        NEW p \in Procs, proc[p].at \in {"idle", "failure"},
                        proc'[p].at = "flush",
                        streak' > streak, streak' >= Threshold, ~lost'
                 PROVE  Len(notes') > Len(notes)
    BY DEF Next
  <2>2. /\ streak \in Nat /\ lost \in BOOLEAN /\ (~lost => streak <= Failures)
        /\ Failures \in Nat
        /\ proc \in [Procs -> State] /\ notes \in Seq({"pending", "sent", "failed"})
    BY <2>1, OutboxAssumption DEF Inv, TypeOK, CountKeepsUp, Failures, Number, Counts, NoRow
  \* Nothing else adds to the count and begins to flush.
  <2>3. EngineFails(q) \/ EngineFailsLate(q)
    <3>1. Event(q) \/ Flush(q) \/ Crash(q) => streak' = streak
      BY DEF Event, Flush, ReadPending, Settle, Post, Crash, tally
    <3>2. Engine(q) => \/ EngineFails(q) \/ EngineFailsLate(q)
                       \/ streak' = streak \/ streak' = 0 \/ proc' = proc
                       \/ DerivationFailsLate(q)
      BY DEF Engine, DerivationFails, ReadForSuccess, ReadForFailure, ScanSucceeds,
             OtherSucceeds, CountRefused, tally
    <3>3. DerivationFailsLate(q) => proc'[p].at # "flush"
      BY <2>1, <2>2 DEF DerivationFailsLate, Idle
    <3>4. streak' # streak /\ streak' # 0 /\ proc' # proc
      BY <2>1, <2>2
    <3>5. Engine(q)
      BY <2>1, <3>1, <3>4
    <3> QED BY <2>1, <3>2, <3>3, <3>4, <3>5
  <2>4. /\ count' = Failures + 1 /\ streak' = streak + 1 /\ ~lost
        /\ Announced(count') => Record
    <3>1. CASE EngineFails(q)
      BY <2>1, <3>1 DEF EngineFails
    <3>2. CASE EngineFailsLate(q)
      BY <2>1, <3>2 DEF EngineFailsLate, CountOver, Failures
    <3> QED BY <2>3, <3>1, <3>2
  <2>5. Announced(count')
    BY <2>1, <2>2, <2>4, OutboxAssumption DEF Announced
  <2>6. Record
    BY <2>4, <2>5
  <2> QED BY <2>2, <2>6 DEF Record
<1> QED BY <1>1, Invariance, PTL DEF Spec, FailuresAreAnnounced

-----------------------------------------------------------------------------
(* How often a notification is sent                                        *)

\* The posts of a notification are counted as pairs of a process and a number
\* up to Attempts: a process that holds the notification has used as many as it
\* has made, and one that does not hold a settled notification has used all,
\* for it never reads that notification again.
Slots == Procs \X (1..Attempts)
Made(p) == proc[p].tries + (IF proc[p].ok THEN 1 ELSE 0)
Used(i) ==
  {u \in Slots :
     \/ i \notin proc[u[1]].batch /\ notes[i] # "pending"
     \/ i \in proc[u[1]].batch /\ Current(u[1]) = i /\ u[2] <= Made(u[1])}

\* A process that ends has used the posts it had made, and may begin again.
Allowed(i) == IF i \in DOMAIN notes
              THEN Attempts * crashes + Cardinality(Used(i)) ELSE 0
PostsAreCounted == \A i \in Ids : received[i] <= Allowed(i)

\* Only a process that sends holds notifications.
HandsAreEmpty ==
  \A p \in Procs : proc[p].at \notin {"send", "settle"} => proc[p].batch = {}

Counted == Inv /\ HandsAreEmpty /\ PostsAreCounted

LEMMA SlotsAreFinite ==
  ASSUME NEW S \in SUBSET Slots
  PROVE  /\ IsFiniteSet(S) /\ Cardinality(S) \in Nat
         /\ Cardinality(S) <= Attempts * Cardinality(Procs)
<1>1. IsFiniteSet(1..Attempts) /\ Cardinality(1..Attempts) = Attempts
  BY FS_Interval, OutboxAssumption
<1>2. IsFiniteSet(Slots) /\ Cardinality(Slots) = Cardinality(Procs) * Attempts
  BY <1>1, FS_Product, OutboxAssumption DEF Slots
<1>3. IsFiniteSet(S) /\ Cardinality(S) <= Cardinality(Procs) * Attempts
  BY <1>2, FS_Subset
<1>4. Cardinality(Procs) \in Nat /\ Cardinality(S) \in Nat
  BY <1>3, FS_CardinalityType, OutboxAssumption
<1>5. Cardinality(Procs) * Attempts = Attempts * Cardinality(Procs)
  BY <1>4, OutboxAssumption
<1> QED BY <1>3, <1>4, <1>5

\* What the other processes have used stays used.
LEMMA OthersKeep ==
  ASSUME NEW p \in Procs, \A q \in Procs \ {p} : proc'[q] = proc[q],
         NEW i, notes[i] # "pending" => notes'[i] # "pending",
         NEW u \in Used(i), u[1] # p
  PROVE  u \in Used(i)'
<1>1. u[1] \in Procs \ {p} /\ u \in Slots
  BY DEF Used, Slots
<1>2. proc'[u[1]] = proc[u[1]]
  BY <1>1
<1>3. Current(u[1])' = Current(u[1]) /\ Made(u[1])' = Made(u[1])
  BY <1>2 DEF Current, Made
<1> QED BY <1>1, <1>2, <1>3 DEF Used

\* A notification that is not received in this step stays counted if nothing
\* of it is given back.
LEMMA StaysCounted ==
  ASSUME Counted, NEW i \in Ids, received'[i] = received[i], crashes' = crashes,
         i \in DOMAIN notes => i \in DOMAIN notes' /\ Used(i) \subseteq Used(i)'
  PROVE  received'[i] <= Allowed(i)'
<1>1. /\ received[i] \in Nat /\ Attempts \in Nat /\ crashes \in Nat
      /\ received[i] <= Allowed(i)
  BY OutboxAssumption DEF Counted, Inv, TypeOK, PostsAreCounted
<1>2. Used(i) \in SUBSET Slots /\ Used(i)' \in SUBSET Slots
  BY DEF Used
<1>3. /\ Cardinality(Used(i)) \in Nat /\ Cardinality(Used(i)') \in Nat
      /\ IsFiniteSet(Used(i)')
  BY <1>2, SlotsAreFinite
<1>4. Attempts * crashes \in Nat
  BY <1>1
<1>5. i \in DOMAIN notes => Cardinality(Used(i)) <= Cardinality(Used(i)')
  BY <1>3, FS_Subset
<1> QED BY <1>1, <1>3, <1>4, <1>5 DEF Allowed

\* A process that holds nothing takes up pending notifications, or nothing.
LEMMA TakingUpIsCounted ==
  ASSUME Counted, NEW p \in Procs, \A q \in Procs \ {p} : proc'[q] = proc[q],
         proc[p].batch = {}, proc'[p].batch \subseteq Pending,
         Record \/ UNCHANGED notes, UNCHANGED received, UNCHANGED crashes
  PROVE  PostsAreCounted'
<1>1. SUFFICES ASSUME NEW i \in Ids, i \in DOMAIN notes
               PROVE  i \in DOMAIN notes' /\ Used(i) \subseteq Used(i)'
  BY StaysCounted DEF PostsAreCounted
<1>2. i \in DOMAIN notes' /\ notes'[i] = notes[i]
  BY <1>1 DEF Record, Counted, Inv, TypeOK
<1>3. ASSUME NEW u \in Used(i), u[1] = p
      PROVE  u \in Used(i)'
  <2>1. notes[i] # "pending" /\ u \in Slots
    BY <1>3 DEF Used
  <2>2. i \notin proc'[p].batch
    BY <2>1 DEF Pending
  <2> QED BY <1>2, <1>3, <2>1, <2>2 DEF Used
<1> QED BY <1>2, <1>3, OthersKeep

\* A post uses one more, of the process that makes it.
LEMMA PostIsCounted ==
  ASSUME Counted, NEW p \in Procs,
         NEW accepted \in BOOLEAN, NEW answered \in BOOLEAN, Post(p, accepted, answered)
  PROVE  PostsAreCounted'
<1>1. PICK c \in DOMAIN notes : c = Current(p) /\ c \in Ids /\ c \in proc[p].batch
  BY CurrentIsHeld DEF Post, Counted, Inv, TypeOK
<1>2. /\ received' = [received EXCEPT ![c] = @ + (IF accepted THEN 1 ELSE 0)]
      /\ UNCHANGED <<notes, crashes>> /\ proc[p].at = "send"
      /\ proc' = [proc EXCEPT ![p] = Tried(p, accepted /\ answered)]
  BY <1>1 DEF Post
<1>3. /\ proc \in [Procs -> State] /\ ~proc[p].ok /\ proc[p].tries \in Nat
      /\ proc[p].tries + 1 \in 1..Attempts /\ received \in [Ids -> Nat]
  BY <1>2, OutboxAssumption DEF Counted, Inv, TypeOK, Posting, State
<1>4. \A q \in Procs \ {p} : proc'[q] = proc[q]
  BY <1>2, <1>3
<1>5. /\ proc'[p].batch = proc[p].batch
      /\ Made(p) = proc[p].tries /\ Made(p)' = proc[p].tries + 1
  <2>1. proc'[p] = Tried(p, accepted /\ answered) /\ proc[p] \in State
    BY <1>2, <1>3
  <2>2. /\ proc'[p].batch = proc[p].batch
        /\ \/ proc'[p].ok = TRUE /\ proc'[p].tries = proc[p].tries
           \/ proc'[p].ok = FALSE /\ proc'[p].tries = proc[p].tries + 1
    <3>1. CASE accepted /\ answered
      <4>1. proc'[p] = [proc[p] EXCEPT !.at = "settle", !.ok = TRUE]
        BY <2>1, <3>1 DEF Tried
      <4> QED BY <2>1, <4>1 DEF State
    <3>2. CASE ~(accepted /\ answered)
      <4> DEFINE place == IF proc[p].tries + 1 = Attempts THEN "settle" ELSE "send"
      <4>1. proc'[p] = [proc[p] EXCEPT !.at = place, !.tries = proc[p].tries + 1]
        BY <2>1, <3>2 DEF Tried
      <4> HIDE DEF place
      <4> QED BY <1>3, <2>1, <4>1 DEF State
    <3> QED BY <3>1, <3>2
  <2> QED BY <1>3, <2>2 DEF Made
<1>6. Current(p)' = Current(p)
  BY <1>5 DEF Current
<1>7. \A i \in Ids : Used(i) \subseteq Used(i)'
  <2> SUFFICES ASSUME NEW i \in Ids, NEW u \in Used(i), u[1] = p
               PROVE  u \in Used(i)'
    BY <1>2, <1>4, OthersKeep
  <2>1. u \in Slots /\ u[2] \in 1..Attempts
    BY DEF Used, Slots
  <2> QED BY <1>2, <1>3, <1>5, <1>6, <2>1 DEF Used
<1>8. \A i \in Ids \ {c} : received'[i] <= Allowed(i)'
  BY <1>2, <1>3, <1>7, StaysCounted
<1>9. received'[c] <= Allowed(c)'
  <2> DEFINE new == <<p, proc[p].tries + 1>>
  <2>1. new \in Slots /\ new[1] = p /\ new[2] = proc[p].tries + 1
    BY <1>3 DEF Slots
  <2>2. new \notin Used(c) /\ new \in Used(c)'
    BY <1>1, <1>3, <1>5, <1>6, <2>1 DEF Used
  <2>3. Used(c) \in SUBSET Slots /\ Used(c)' \in SUBSET Slots
    BY DEF Used
  <2>4. Used(c) \cup {new} \in SUBSET Used(c)'
    BY <1>7, <1>1, <2>2
  <2> HIDE DEF new
  <2>5. /\ IsFiniteSet(Used(c)) /\ IsFiniteSet(Used(c)')
        /\ Cardinality(Used(c)) \in Nat /\ Cardinality(Used(c)') \in Nat
    BY <2>3, SlotsAreFinite
  <2>6. Cardinality(Used(c) \cup {new}) = Cardinality(Used(c)) + 1
    BY <2>2, <2>5, FS_AddElement
  <2>7. Cardinality(Used(c)) + 1 <= Cardinality(Used(c)')
    BY <2>4, <2>5, <2>6, FS_Subset
  <2>8. /\ received[c] <= Attempts * crashes + Cardinality(Used(c))
        /\ received'[c] <= received[c] + 1 /\ received[c] \in Nat /\ received'[c] \in Nat
    BY <1>1, <1>2, <1>3 DEF Counted, PostsAreCounted, Allowed
  <2>9. Attempts * crashes \in Nat
    BY OutboxAssumption DEF Counted, Inv, TypeOK
  <2> QED BY <1>1, <1>2, <2>5, <2>7, <2>8, <2>9 DEF Allowed
<1> QED BY <1>8, <1>9 DEF PostsAreCounted

\* A process that settles a notification has used all of it, and so has every
\* other that does not hold it.
LEMMA SettlingIsCounted ==
  ASSUME Counted, NEW p \in Procs, Settle(p)
  PROVE  PostsAreCounted'
<1>1. PICK c \in DOMAIN notes : c = Current(p) /\ c \in proc[p].batch
  BY CurrentIsHeld DEF Settle, Counted, Inv, TypeOK
<1>2. /\ notes' = [notes EXCEPT ![c] = Outcome(proc[p].ok)]
      /\ UNCHANGED <<received, crashes>>
      /\ proc' = [proc EXCEPT ![p] =
           IF Rest(p) = {} THEN Idle ELSE [Idle EXCEPT !.at = "send", !.batch = Rest(p)]]
  BY <1>1 DEF Settle, histories
<1>3. proc \in [Procs -> State] /\ \A q \in Procs \ {p} : proc'[q] = proc[q]
  BY <1>2 DEF Counted, Inv, TypeOK
<1>4. proc'[p].batch = proc[p].batch \ {c}
  <2>1. Rest(p) = proc[p].batch \ {c}
    BY <1>1 DEF Rest
  <2> QED BY <1>2, <1>3, <2>1 DEF Idle
<1>5. /\ DOMAIN notes' = DOMAIN notes
      /\ notes'[c] # "pending" /\ \A i \in DOMAIN notes \ {c} : notes'[i] = notes[i]
  BY <1>1, <1>2 DEF Outcome, Counted, Inv, TypeOK
<1>6. ASSUME NEW i \in DOMAIN notes, NEW u \in Used(i), u[1] = p
      PROVE  u \in Used(i)'
  <2>1. u \in Slots
    BY DEF Used
  <2>2. CASE i = c
    BY <1>4, <1>5, <1>6, <2>1, <2>2 DEF Used
  <2>3. CASE i # c
    BY <1>1, <1>4, <1>5, <1>6, <2>1, <2>3 DEF Used
  <2> QED BY <2>2, <2>3
<1>7. \A i \in DOMAIN notes : Used(i) \subseteq Used(i)'
  BY <1>3, <1>5, <1>6, OthersKeep
<1> QED BY <1>2, <1>5, <1>7, StaysCounted DEF PostsAreCounted

\* A process that ends gives back no more than it may use once more.
LEMMA CrashIsCounted ==
  ASSUME Counted, NEW p \in Procs, Crash(p)
  PROVE  PostsAreCounted'
<1>1. /\ UNCHANGED <<notes, received>> /\ crashes' = crashes + 1
      /\ \A q \in Procs \ {p} : proc'[q] = proc[q]
  BY DEF Crash, Counted, Inv, TypeOK
<1> DEFINE mine == {p} \X (1..Attempts)
<1>2. IsFiniteSet(mine) /\ Cardinality(mine) = Attempts
  <2>1. IsFiniteSet({p}) /\ Cardinality({p}) = 1
    BY FS_Singleton
  <2>2. IsFiniteSet(1..Attempts) /\ Cardinality(1..Attempts) = Attempts
    BY FS_Interval, OutboxAssumption
  <2>3. IsFiniteSet(mine) /\ Cardinality(mine) = Cardinality({p}) * Cardinality(1..Attempts)
    BY <2>1, <2>2, FS_Product
  <2>4. 1 * Attempts = Attempts
    BY OutboxAssumption
  <2> QED BY <2>1, <2>2, <2>3, <2>4
<1>3. ASSUME NEW i \in DOMAIN notes
      PROVE  Cardinality(Used(i)) <= Cardinality(Used(i)') + Attempts
  <2>1. Used(i) \subseteq Used(i)' \cup mine
    <3> SUFFICES ASSUME NEW u \in Used(i), u[1] = p
                 PROVE  u \in mine
      BY <1>1, OthersKeep
    <3> QED BY DEF Used, Slots
  <2>2. Used(i) \in SUBSET Slots /\ Used(i)' \in SUBSET Slots
    BY DEF Used
  <2>3. /\ IsFiniteSet(Used(i)') /\ Cardinality(Used(i)') \in Nat
        /\ Cardinality(Used(i)) \in Nat
    BY <2>2, SlotsAreFinite
  <2> HIDE DEF mine
  <2>4. /\ IsFiniteSet(Used(i)' \cup mine)
        /\ Cardinality(Used(i)' \cup mine)
             = Cardinality(Used(i)') + Attempts - Cardinality(Used(i)' \cap mine)
    BY <1>2, <2>3, FS_Union
  <2>5. Cardinality(Used(i)' \cap mine) \in Nat
    BY <2>3, FS_Intersection, FS_CardinalityType
  <2>6. Cardinality(Used(i)) <= Cardinality(Used(i)' \cup mine)
    BY <2>1, <2>4, FS_Subset
  <2> QED BY <2>3, <2>4, <2>5, <2>6, OutboxAssumption
<1>4. SUFFICES ASSUME NEW i \in Ids
               PROVE  received'[i] <= Allowed(i)'
  BY DEF PostsAreCounted
<1>5. received[i] <= Allowed(i) /\ received[i] \in Nat /\ crashes \in Nat /\ Attempts \in Nat
  BY OutboxAssumption DEF Counted, PostsAreCounted, Inv, TypeOK
<1>6. CASE i \in DOMAIN notes
  <2>1. Used(i) \in SUBSET Slots /\ Used(i)' \in SUBSET Slots
    BY DEF Used
  <2>2. Cardinality(Used(i)) \in Nat /\ Cardinality(Used(i)') \in Nat
    BY <2>1, SlotsAreFinite
  <2>3. Attempts * (crashes + 1) = Attempts * crashes + Attempts
        /\ Attempts * crashes \in Nat
    BY <1>5
  <2>4. /\ Allowed(i) = Attempts * crashes + Cardinality(Used(i))
        /\ Allowed(i)' = Attempts * (crashes + 1) + Cardinality(Used(i)')
    BY <1>1, <1>6 DEF Allowed
  <2> QED BY <1>1, <1>3, <1>5, <1>6, <2>2, <2>3, <2>4
<1>7. CASE i \notin DOMAIN notes
  BY <1>1, <1>5, <1>7 DEF Allowed
<1> QED BY <1>6, <1>7

\* No step of the engine's count holds a notification.
LEMMA EngineHolds ==
  ASSUME NEW p \in Procs, Engine(p)
  PROVE  proc' = proc \/ \E s : proc' = [proc EXCEPT ![p] = s] /\ s.batch = {}
<1>1. Idle.batch = {} /\ Flushing.batch = {}
  BY DEF Flushing, Idle
<1>2. \A place, saw : [Idle EXCEPT !.at = place, !.saw = saw].batch = {}
  BY DEF Idle
<1>3. CASE EngineFails(p) \/ DerivationFails(p) \/ EngineFailsLate(p) \/ DerivationFailsLate(p)
  BY <1>1, <1>3 DEF EngineFails, DerivationFails, EngineFailsLate, DerivationFailsLate
<1>4. CASE ReadForFailure(p) \/ ReadForSuccess(p)
  BY <1>2, <1>4 DEF ReadForFailure, ReadForSuccess
<1>5. CASE ScanSucceeds(p) \/ OtherSucceeds(p) \/ CountRefused(p)
  BY <1>1, <1>5 DEF ScanSucceeds, OtherSucceeds, CountRefused
<1> QED BY <1>3, <1>4, <1>5 DEF Engine

\* What a process holds before and after each of its steps.
LEMMA HandsStep ==
  ASSUME Counted, NEW p \in Procs, Event(p) \/ Engine(p) \/ Flush(p) \/ Crash(p)
  PROVE  HandsAreEmpty'
<1>1. proc \in [Procs -> State] /\ proc[p] \in State
  BY DEF Counted, Inv, TypeOK
<1>2. /\ Idle.batch = {} /\ Idle.at = "idle" /\ Flushing.batch = {} /\ Flushing.at = "flush"
      /\ \A place, saw : [Idle EXCEPT !.at = place, !.saw = saw].batch = {}
      /\ \A S : [Idle EXCEPT !.at = "send", !.batch = S].at = "send"
  BY DEF Flushing, Idle
<1>3. CASE Event(p)
  BY <1>1, <1>2, <1>3 DEF Event, Counted, HandsAreEmpty
<1>4. CASE Engine(p)
  <2>1. proc' = proc \/ \E s : proc' = [proc EXCEPT ![p] = s] /\ s.batch = {}
    BY <1>2, <1>4, EngineHolds
  <2> QED BY <1>1, <2>1 DEF Counted, HandsAreEmpty
<1>5. CASE ReadPending(p) \/ Settle(p)
  <2>1. PICK s : /\ proc' = [proc EXCEPT ![p] = s]
                 /\ s = Idle \/ \E S : s = [Idle EXCEPT !.at = "send", !.batch = S]
    BY <1>5 DEF ReadPending, Settle
  <2>2. s.batch = {} \/ s.at = "send"
    BY <1>2, <2>1
  <2> QED BY <1>1, <2>1, <2>2 DEF Counted, HandsAreEmpty
<1>6. ASSUME NEW accepted \in BOOLEAN, NEW answered \in BOOLEAN, Post(p, accepted, answered)
      PROVE  HandsAreEmpty'
  <2>1. proc' = [proc EXCEPT ![p] = Tried(p, accepted /\ answered)]
    BY <1>6 DEF Post
  <2>2. Tried(p, accepted /\ answered).at \in {"send", "settle"}
    BY <1>1 DEF Tried, State
  <2> QED BY <1>1, <2>1, <2>2 DEF Counted, HandsAreEmpty
<1>7. CASE Crash(p)
  BY <1>1, <1>2, <1>7 DEF Crash, Counted, HandsAreEmpty
<1> QED BY <1>3, <1>4, <1>5, <1>6, <1>7 DEF Flush

LEMMA CountedStep ==
  ASSUME Counted, Inv', NEW p \in Procs, Event(p) \/ Engine(p) \/ Flush(p) \/ Crash(p)
  PROVE  Counted'
<1>1. proc \in [Procs -> State]
  BY DEF Counted, Inv, TypeOK
<1>2. Idle.batch = {} /\ Flushing.batch = {}
  BY DEF Flushing, Idle
<1>3. CASE Event(p) \/ Engine(p)
  <2>1. Record \/ UNCHANGED notes
    BY <1>3 DEF Event, Engine, EngineFails, DerivationFails, ReadForSuccess,
       ScanSucceeds, OtherSucceeds, CountRefused, ReadForFailure, EngineFailsLate,
       DerivationFailsLate
  <2>2. UNCHANGED received /\ UNCHANGED crashes /\ proc[p].batch = {}
    BY <1>3 DEF Event, Engine, EngineFails, DerivationFails, ReadForSuccess,
       ScanSucceeds, OtherSucceeds, CountRefused, ReadForFailure, EngineFailsLate,
       DerivationFailsLate, CountOver, histories, Counted, HandsAreEmpty
  <2>3. proc'[p].batch = {} /\ \A q \in Procs \ {p} : proc'[q] = proc[q]
    <3>1. \/ proc' = proc
          \/ \E s : proc' = [proc EXCEPT ![p] = s] /\ s.batch = {}
      BY <1>2, <1>3, EngineHolds DEF Event
    <3> QED BY <1>1, <2>2, <3>1
  <2> QED BY <2>1, <2>2, <2>3, TakingUpIsCounted, HandsStep DEF Counted
<1>4. CASE ReadPending(p)
  <2>1. /\ UNCHANGED notes /\ UNCHANGED received /\ UNCHANGED crashes
        /\ proc[p].batch = {}
    BY <1>4 DEF ReadPending, histories, Counted, HandsAreEmpty
  <2>2. proc'[p].batch \subseteq Pending /\ \A q \in Procs \ {p} : proc'[q] = proc[q]
    <3>1. Oldest(Pending) \subseteq Pending
      BY DEF Oldest
    <3>2. [Idle EXCEPT !.at = "send", !.batch = Oldest(Pending)].batch = Oldest(Pending)
      BY DEF Idle
    <3> QED BY <1>1, <1>2, <1>4, <3>1, <3>2 DEF ReadPending
  <2> QED BY <1>4, <2>1, <2>2, TakingUpIsCounted, HandsStep DEF Counted, Flush
<1> QED BY <1>3, <1>4, PostIsCounted, SettlingIsCounted, CrashIsCounted, HandsStep
        DEF Counted, Flush

\* However many processes flush at once, and however often one of them ends, no
\* notification is posted more often than each of them may post it.
THEOREM DuplicationIsBounded == Spec => []DuplicatesAreBounded
<1>1. Init => HandsAreEmpty /\ PostsAreCounted
  BY DEF Init, HandsAreEmpty, PostsAreCounted, Allowed, Idle
<1>2. Counted /\ Inv' /\ [Next]_vars => Counted'
  <2>1. CASE UNCHANGED vars
    BY <2>1 DEF vars, Counted, HandsAreEmpty, PostsAreCounted, Allowed, Used, Made, Current
  <2> QED BY <2>1, CountedStep DEF Next
<1>3. Counted => DuplicatesAreBounded
  <2>1. SUFFICES ASSUME Counted, NEW i \in Ids
                 PROVE  received[i] <= Attempts * (Cardinality(Procs) + crashes)
    BY DEF DuplicatesAreBounded
  <2>2. /\ received[i] \in Nat /\ received[i] <= Allowed(i)
        /\ crashes \in Nat /\ Attempts \in Nat
    BY <2>1, OutboxAssumption DEF Counted, PostsAreCounted, Inv, TypeOK
  <2>3. Used(i) \in SUBSET Slots
    BY DEF Used
  <2>4. Cardinality(Used(i)) \in Nat /\ Cardinality(Used(i)) <= Attempts * Cardinality(Procs)
    BY <2>3, SlotsAreFinite
  <2>5. Cardinality(Procs) \in Nat
    BY FS_CardinalityType, OutboxAssumption
  <2>6. /\ Attempts * (Cardinality(Procs) + crashes)
             = Attempts * Cardinality(Procs) + Attempts * crashes
        /\ Attempts * Cardinality(Procs) \in Nat /\ Attempts * crashes \in Nat
    BY <2>2, <2>5
  <2> QED BY <2>2, <2>4, <2>6 DEF Allowed
<1> QED BY <1>1, <1>2, <1>3, Invariance, PTL DEF Spec, Counted
=============================================================================
