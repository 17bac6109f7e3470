--------------------------- MODULE MigrationLock ----------------------------
(***************************************************************************)
(* The migration lock of docker/entrypoint.sh: containers that share a     *)
(* data volume run the migrations one at a time, behind a lock file that   *)
(* its holder touches every 60 seconds and that counts as stale after 30   *)
(* minutes.  A container runs two processes: the entrypoint, and from the  *)
(* moment it has the lock a refresher in the background.                   *)
(*                                                                         *)
(* The entrypoint is PID 1 of its container and sends its kill to $$, that *)
(* is, to itself, who ignores it; so the refresher ends only when it finds *)
(* no lock file, and it does not look whose file it finds.                 *)
(***************************************************************************)
CONSTANT Containers

VARIABLES
  lock,       \* the lock file and its age: "none", "fresh", "stale"
  at,         \* [Containers -> where the entrypoint is]
  refresher   \* [Containers -> where the refresher is, or "none"]

vars == <<lock, at, refresher>>

GoOn(c, place) == at' = [at EXCEPT ![c] = place]

\* The container is started, by its operator or by its restart policy.
Boot(c) ==
  /\ at[c] = "down"
  /\ GoOn(c, "look")
  /\ UNCHANGED <<lock, refresher>>

\* acquire_lock: [ -f "$LOCK_FILE" ].
Look(c) ==
  /\ at[c] = "look"
  /\ GoOn(c, IF lock = "none" THEN "create" ELSE "stat")
  /\ UNCHANGED <<lock, refresher>>

\* ... the age of the file, as stat finds it.  If the file has vanished since it
\* was looked at, the arithmetic expansion lacks an operand and the shell exits.
\* Mutant of IsStale: no lock is ever found stale.
NeverStale == FALSE

IsStale == lock = "stale"

Stat(c) ==
  /\ at[c] = "stat"
  /\ GoOn(c, IF lock = "none" THEN "down"
             ELSE IF IsStale THEN "remove" ELSE "look")
  /\ UNCHANGED <<lock, refresher>>

\* ... rm -f, of whatever file is there by now.
RemoveStale(c) ==
  /\ at[c] = "remove"
  /\ lock' = "none"
  /\ GoOn(c, "create")
  /\ UNCHANGED refresher

\* ... the redirection under noclobber fails when the file exists.
\* Mutant of Creatable: without noclobber the redirection always succeeds.
AlwaysCreatable == TRUE

Creatable == lock = "none"

Create(c) ==
  /\ at[c] = "create"
  /\ IF Creatable
       THEN /\ lock' = "fresh"
            /\ refresher' = [refresher EXCEPT ![c] = "look"]
            /\ GoOn(c, "migrating")
       ELSE GoOn(c, "look") /\ UNCHANGED <<lock, refresher>>

\* The migrations end, and release_lock removes whatever file is there.  The
\* container goes on to serve, or exits when they failed, and with it the
\* refresher.
Migrated(c) ==
  /\ at[c] = "migrating"
  /\ lock' = "none"
  /\ GoOn(c, "serving")
  /\ UNCHANGED refresher

MigrationFailed(c) ==
  /\ at[c] = "migrating"
  /\ lock' = "none"
  /\ GoOn(c, "down")
  /\ refresher' = [refresher EXCEPT ![c] = "none"]

\* refresh_lock: the loop looks for the file, then touches it, which creates it
\* when it has vanished in between; then it sleeps.
RefresherLooks(c) ==
  /\ refresher[c] = "look"
  /\ refresher' = [refresher EXCEPT ![c] = IF lock = "none" THEN "none" ELSE "touch"]
  /\ UNCHANGED <<lock, at>>

Touch(c) ==
  /\ refresher[c] = "touch"
  /\ lock' = "fresh"
  /\ refresher' = [refresher EXCEPT ![c] = "look"]
  /\ UNCHANGED at

\* 30 minutes pass in which nobody touches the file.
Age ==
  /\ lock = "fresh"
  /\ \A c \in Containers : refresher[c] = "none"
  /\ lock' = "stale"
  /\ UNCHANGED <<at, refresher>>

\* A container stops at any point, with all its processes.
Stop(c) ==
  /\ at[c] # "down"
  /\ GoOn(c, "down")
  /\ refresher' = [refresher EXCEPT ![c] = "none"]
  /\ UNCHANGED lock

Init ==
  /\ lock = "none"
  /\ at = [c \in Containers |-> "down"]
  /\ refresher = [c \in Containers |-> "none"]

Next ==
  \/ Age
  \/ \E c \in Containers :
       \/ Boot(c)
       \/ Look(c)
       \/ Stat(c)
       \/ RemoveStale(c)
       \/ Create(c)
       \/ Migrated(c)
       \/ MigrationFailed(c)
       \/ RefresherLooks(c)
       \/ Touch(c)
       \/ Stop(c)

Spec == Init /\ [][Next]_vars

\* Shells run, time passes, a container that exits is restarted, and the
\* migrations do not fail for ever.
Fairness ==
  /\ WF_vars(Age)
  /\ \A c \in Containers :
       /\ WF_vars(Boot(c))
       /\ WF_vars(Look(c))
       /\ WF_vars(Stat(c))
       /\ WF_vars(RemoveStale(c))
       /\ WF_vars(Create(c))
       /\ SF_vars(Migrated(c))
       /\ WF_vars(RefresherLooks(c))
       /\ WF_vars(Touch(c))

FairSpec == Spec /\ Fairness

-----------------------------------------------------------------------------
TypeOK ==
  /\ lock \in {"none", "fresh", "stale"}
  /\ at \in [Containers -> {"down", "look", "stat", "remove", "create",
                            "migrating", "serving"}]
  /\ refresher \in [Containers -> {"none", "look", "touch"}]

\* Two containers never migrate at once.
MutualExclusion ==
  \A b, c \in Containers : at[b] = "migrating" /\ at[c] = "migrating" => b = c

\* The migrations run behind a lock file, in one container at a time, as long as
\* no lock has become stale: a refresher that outlives its migration may put a file
\* in the way, but never takes one away (acquire_lock, release_lock, refresh_lock).
Guarded ==
  MutualExclusion /\ \A c \in Containers : at[c] = "migrating" => lock # "none"

ExclusiveUntilStale == [](lock # "stale") => []Guarded

\* A refresher without a migration to guard.
Stray(c) == refresher[c] # "none" /\ at[c] # "migrating"

\* A holder that died, and waiting for it, do not keep a container from serving,
\* provided containers stop being stopped and no stray refresher keeps a lock
\* alive for ever (acquire_lock's loop against the stale-lock limit).
Stopping == \E c \in Containers : Stop(c)
StopsEnd == <>[][~Stopping]_vars
NoStrays == <>[](\A c \in Containers : ~Stray(c))
Serves == \A c \in Containers : []<>(at[c] = "serving")

EveryContainerServes == StopsEnd /\ NoStrays => Serves
=============================================================================
