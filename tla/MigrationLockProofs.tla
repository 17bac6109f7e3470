------------------------ MODULE MigrationLockProofs -------------------------
(***************************************************************************)
(* Proofs about MigrationLock, for any set of containers.  While no lock   *)
(* is stale nobody comes to remove one, so only the container that         *)
(* migrates takes the file away, and the file keeps everybody else out.    *)
(***************************************************************************)
EXTENDS MigrationLock, TLAPS

\* Nobody is about to remove a lock.
NoRemover == \A c \in Containers : at[c] # "remove"

GuardInv == TypeOK /\ Guarded /\ NoRemover

NotStale == lock # "stale"

LEMMA TypeStep ==
  ASSUME TypeOK, [Next]_vars
  PROVE  TypeOK'
<1>1. CASE UNCHANGED vars
  BY <1>1 DEF vars, TypeOK
<1>2. CASE Age
  BY <1>2 DEF Age, TypeOK
<1>3. ASSUME NEW c \in Containers,
             \/ Boot(c) \/ Look(c) \/ Stat(c) \/ RemoveStale(c) \/ Create(c)
      PROVE  TypeOK'
  BY <1>3 DEF Boot, Look, Stat, RemoveStale, Create, GoOn, TypeOK
<1>4. ASSUME NEW c \in Containers,
             \/ Migrated(c) \/ MigrationFailed(c)
             \/ RefresherLooks(c) \/ Touch(c) \/ Stop(c)
      PROVE  TypeOK'
  BY <1>4 DEF Migrated, MigrationFailed, RefresherLooks, Touch, Stop, GoOn, TypeOK
<1> QED
  BY <1>1, <1>2, <1>3, <1>4 DEF Next

\* The lock and the two processes of each container are where the script can be.
THEOREM LockTypes == Spec => []TypeOK
<1>1. Init => TypeOK
  BY DEF Init, TypeOK
<1>2. TypeOK /\ [Next]_vars => TypeOK'
  BY TypeStep
<1> QED
  BY <1>1, <1>2, PTL DEF Spec

\* The steps that neither begin a migration nor remove a lock.
LEMMA Bystanders ==
  ASSUME GuardInv,
         \A c \in Containers : at'[c] = at[c] \/ at'[c] \notin {"migrating", "remove"},
         lock' = lock \/ lock' # "none"
  PROVE  Guarded' /\ NoRemover'
  BY DEF GuardInv, Guarded, MutualExclusion, NoRemover

LEMMA GuardStep ==
  ASSUME GuardInv, NotStale, [Next]_vars
  PROVE  GuardInv'
<1>0. TypeOK'
  BY TypeStep DEF GuardInv
<1>1. at \in [Containers -> {"down", "look", "stat", "remove", "create",
                             "migrating", "serving"}]
  BY DEF GuardInv, TypeOK
<1>2. CASE UNCHANGED vars
  BY <1>0, <1>2, Bystanders DEF vars, GuardInv
<1>3. CASE Age
  BY <1>0, <1>3, Bystanders DEF Age, GuardInv
<1>4. ASSUME NEW c \in Containers,
             \/ Boot(c) \/ Look(c) \/ Stat(c)
             \/ RefresherLooks(c) \/ Touch(c) \/ Stop(c)
      PROVE  GuardInv'
  <2>1. \A b \in Containers :
          at'[b] = at[b] \/ at'[b] \notin {"migrating", "remove"}
    BY <1>1, <1>4
       DEF Boot, Look, Stat, RefresherLooks, Touch, Stop, GoOn, NotStale, IsStale
  <2>2. lock' = lock \/ lock' # "none"
    BY <1>4 DEF Boot, Look, Stat, RefresherLooks, Touch, Stop
  <2> QED
    BY <1>0, <2>1, <2>2, Bystanders DEF GuardInv
<1>5. ASSUME NEW c \in Containers, RemoveStale(c) PROVE GuardInv'
  BY <1>5 DEF RemoveStale, GuardInv, NoRemover
<1>6. ASSUME NEW c \in Containers, Create(c) PROVE GuardInv'
  <2>1. CASE Creatable
    <3>1. \A b \in Containers : at[b] # "migrating"
      BY <2>1 DEF Creatable, GuardInv, Guarded
    <3>2. /\ lock' = "fresh" /\ at'[c] = "migrating"
          /\ \A b \in Containers \ {c} : at'[b] = at[b]
      BY <1>1, <1>6, <2>1 DEF Create, GoOn
    <3> QED
      BY <1>0, <3>1, <3>2 DEF GuardInv, Guarded, MutualExclusion, NoRemover
  <2>2. CASE ~Creatable
    <3>1. \A b \in Containers : at'[b] = at[b] \/ at'[b] = "look"
      BY <1>1, <1>6, <2>2 DEF Create, GoOn
    <3>2. lock' = lock
      BY <1>6, <2>2 DEF Create
    <3> QED
      BY <1>0, <3>1, <3>2, Bystanders DEF GuardInv
  <2> QED
    BY <2>1, <2>2
<1>7. ASSUME NEW c \in Containers, Migrated(c) \/ MigrationFailed(c)
      PROVE  GuardInv'
  <2>1. \A b \in Containers \ {c} : at'[b] = at[b] /\ at[b] # "migrating"
    BY <1>1, <1>7
       DEF Migrated, MigrationFailed, GoOn, GuardInv, Guarded, MutualExclusion
  <2>2. at'[c] \in {"serving", "down"}
    BY <1>1, <1>7 DEF Migrated, MigrationFailed, GoOn
  <2> QED
    BY <1>0, <2>1, <2>2 DEF GuardInv, Guarded, MutualExclusion, NoRemover
<1> QED
  BY <1>2, <1>3, <1>4, <1>5, <1>6, <1>7 DEF Next

\* For any number of containers: until a lock becomes stale, migrations run one at a
\* time and behind a lock file, whoever stops, waits or leaves a refresher behind.
THEOREM LockExcludes == Spec => ExclusiveUntilStale
<1>1. Init => GuardInv
  BY DEF Init, GuardInv, TypeOK, Guarded, MutualExclusion, NoRemover
<1>2. GuardInv /\ NotStale /\ [Next]_vars => GuardInv'
  BY GuardStep
<1>3. GuardInv => Guarded
  BY DEF GuardInv
<1>4. NotStale <=> lock # "stale"
  BY DEF NotStale
<1> QED
  BY <1>1, <1>2, <1>3, <1>4, PTL DEF Spec, ExclusiveUntilStale
=============================================================================
