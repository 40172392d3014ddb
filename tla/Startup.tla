-------------------------------- MODULE Startup --------------------------------
(***************************************************************************)
(* The web pods' start (deploy/start.py): each one takes a PostgreSQL      *)
(* advisory lock, applies the migrations (apps/authz/migrations) that its  *)
(* release has and the database does not, and becomes Gunicorn.  Pods of   *)
(* an older release go on serving while a newer one migrates.              *)
(*                                                                         *)
(* A migration and its backfill are one transaction.  Django writes the    *)
(* row of django_migrations in that transaction, or, if the migration has  *)
(* deferred SQL (indexes and foreign keys of new tables), after it.  The   *)
(* lock belongs to the session that migrates: whoever loses one loses the  *)
(* other.                                                                  *)
(***************************************************************************)
EXTENDS Naturals

CONSTANTS Pods,
          Releases,     \* how many migrations each release has
          Deferred,     \* migrations with deferred SQL
          Projects,     \* primary keys
          QuotaKeys,
          MaxExits,     \* bound on the pods that are killed
          NULL

Last == 9               \* 0009_remove_resources
AddsShortcut == 2       \* 0002_project_shortcut
AddsQuotaKey == 5       \* 0005_project_limit_classes

Orphan == "orphan"      \* a session whose client is gone

ASSUME StartupAssumption ==
    /\ Releases \subseteq 1..Last /\ Releases # {}
    /\ Deferred \subseteq 1..Last
    /\ MaxExits \in Nat
    /\ NULL \notin Pods \cup QuotaKeys /\ Orphan \notin Pods \cup {NULL}

\* What editors choose may look like what the migration fills in.
DefaultShortcut(p) == <<"project", p>>
Shortcuts == {DefaultShortcut(p) : p \in Projects}

Rows == [shortcut : Shortcuts \cup {NULL}, quota_key : QuotaKeys \cup {NULL}]

ASSUME StartupNullAssumption == NULL \notin Rows \cup Shortcuts

VARIABLES applied,      \* migrations whose transaction has committed
          recorded,     \* migrations in django_migrations
          lock,         \* the session that holds lock 73918421
          phase,        \* of each pod
          release,      \* the release of each pod's image
          rows,         \* the project table
          keys,         \* history: the first quota key of each project
          exits,        \* how many pods were killed
          torn          \* history: was one killed before it recorded a migration?

startupVars == <<applied, recorded, lock, phase, release, rows, keys, exits, torn>>

StartupInit ==
    /\ applied = 0 /\ recorded = 0
    /\ lock = NULL
    /\ phase = [p \in Pods |-> "down"]
    /\ release \in [Pods -> Releases]
    /\ rows = [j \in Projects |-> NULL]
    /\ keys = [j \in Projects |-> NULL]
    /\ exits = 0
    /\ torn = FALSE

Goto(p, label) == phase' = [phase EXCEPT ![p] = label]

\* Migrations without the operation that makes the filled column NOT NULL.
HasColumns_Nullable(row, n) == TRUE

\* Which columns a row must have after n migrations: NOT NULL since then.
HasColumns(row, n) ==
    /\ n >= AddsShortcut => row.shortcut # NULL
    /\ n >= AddsQuotaKey => row.quota_key # NULL

-----------------------------------------------------------------------------
(* main                                                                    *)

\* Kubernetes starts the container, with the image that is the latest by now.
StartPod(p, r) ==
    /\ phase[p] = "down"
    /\ r >= release[p]
    /\ release' = [release EXCEPT ![p] = r]
    /\ Goto(p, "waiting")
    /\ UNCHANGED <<applied, recorded, lock, rows, keys, exits, torn>>

\* pg_try_advisory_lock, with its answer ignored.
LockGranted_Always == TRUE

LockGranted == lock = NULL

\* pg_advisory_lock returns.
TakeLock(p) ==
    /\ phase[p] = "waiting"
    /\ LockGranted
    /\ lock' = p
    /\ Goto(p, "migrating")
    /\ UNCHANGED <<applied, recorded, release, rows, keys, exits, torn>>

\* A backfill of the quota key that was copied from the shortcut's.
Backfill_Copied(n, j, key) ==
    [shortcut |-> IF n = AddsShortcut THEN DefaultShortcut(j) ELSE rows[j].shortcut,
     quota_key |-> IF n = AddsQuotaKey THEN DefaultShortcut(j) ELSE rows[j].quota_key]

\* What RunPython fills in, and the keys that it may make up.
Backfill(n, j, key) ==
    [shortcut |-> IF n = AddsShortcut THEN DefaultShortcut(j) ELSE rows[j].shortcut,
     quota_key |-> IF n = AddsQuotaKey THEN key ELSE rows[j].quota_key]

FreshKeys(n) ==
    IF n = AddsQuotaKey
    THEN {fresh \in [Projects -> QuotaKeys] :
              \A i, j \in Projects : fresh[i] = fresh[j] => i = j}
    ELSE {keys}

\* migrate: the next migration commits.  It fails if an earlier start has committed
\* it and not recorded it (its table or column exists).  A row without a value in a
\* column that becomes NOT NULL would stop it as well; the backfill leaves none.
ApplyNext(p) ==
    /\ phase[p] = "migrating" /\ recorded < release[p]
    /\ applied = recorded
    /\ \E fresh \in FreshKeys(applied + 1) :
          rows' = [j \in Projects |-> IF rows[j] = NULL THEN NULL
                                      ELSE Backfill(applied + 1, j, fresh[j])]
    /\ \A j \in Projects : rows'[j] # NULL => HasColumns(rows'[j], applied + 1)
    /\ keys' = [j \in Projects |-> IF rows'[j] # NULL /\ keys[j] = NULL
                                   THEN rows'[j].quota_key ELSE keys[j]]
    /\ applied' = applied + 1
    /\ IF applied + 1 \in Deferred
       THEN Goto(p, "recording") /\ UNCHANGED recorded
       ELSE recorded' = applied + 1 /\ UNCHANGED phase
    /\ UNCHANGED <<lock, release, exits, torn>>

\* The row of django_migrations, after the transaction.
RecordNext(p) ==
    /\ phase[p] = "recording"
    /\ recorded' = applied
    /\ Goto(p, "migrating")
    /\ UNCHANGED <<applied, lock, release, rows, keys, exits, torn>>

\* A start that goes on when migrate raises.
AfterFailure_Serves == "serving"

AfterFailure == "down"

\* migrate raises: the lock is freed (finally) and the process ends.
FailMigration(p) ==
    /\ phase[p] = "migrating" /\ recorded < release[p]
    /\ applied # recorded
    /\ lock' = NULL
    /\ Goto(p, AfterFailure)
    /\ UNCHANGED <<applied, recorded, release, rows, keys, exits, torn>>

\* A start that leaves the lock to a session that Gunicorn keeps open.
LockAfterMigrate_Kept == lock

LockAfterMigrate == NULL

\* Nothing is left to migrate: pg_advisory_unlock, and execvp of Gunicorn.
Serve(p) ==
    /\ phase[p] = "migrating" /\ recorded >= release[p]
    /\ lock' = LockAfterMigrate
    /\ Goto(p, "serving")
    /\ UNCHANGED <<applied, recorded, release, rows, keys, exits, torn>>

\* PostgreSQL may notice later that the client is gone, and then ends the session.
LockAfterExit(p) == IF lock = p THEN Orphan ELSE lock

\* The pod is killed (by its startup probe, a roll-out, a node that fails), wherever it
\* is, or loses its database connection while it migrates.
Exit(p) ==
    /\ phase[p] # "down" /\ exits < MaxExits
    /\ exits' = exits + 1
    /\ Goto(p, "down")
    /\ torn' = (torn \/ phase[p] = "recording")
    /\ lock' = LockAfterExit(p)
    /\ UNCHANGED <<applied, recorded, release, rows, keys>>

EndSession ==
    /\ lock = Orphan
    /\ lock' = NULL
    /\ UNCHANGED <<applied, recorded, phase, release, rows, keys, exits, torn>>

\* A superuser adds a project through a pod, whose release knows the columns it
\* writes; the database refuses a row without a value that it must have.
InsertProject(p, j, shortcut, key) ==
    /\ phase[p] = "serving" /\ keys[j] = NULL /\ rows[j] = NULL
    /\ \A i \in Projects : key # keys[i] /\ (rows[i] # NULL => rows[i].shortcut # shortcut)
    /\ rows' = [rows EXCEPT ![j] =
                  [shortcut |-> IF release[p] >= AddsShortcut THEN shortcut ELSE NULL,
                   quota_key |-> IF release[p] >= AddsQuotaKey THEN key ELSE NULL]]
    /\ HasColumns(rows'[j], applied)
    /\ keys' = [keys EXCEPT ![j] = rows'[j].quota_key]
    /\ UNCHANGED <<applied, recorded, lock, phase, release, exits, torn>>

-----------------------------------------------------------------------------

Migrating(p) ==
    TakeLock(p) \/ ApplyNext(p) \/ RecordNext(p) \/ FailMigration(p) \/ Serve(p)

StartupStep(p) ==
    \/ \E r \in Releases : StartPod(p, r)
    \/ Migrating(p)

StartupNext ==
    \/ \E p \in Pods :
          \/ StartupStep(p) \/ Exit(p)
          \/ \E j \in Projects, s \in Shortcuts, k \in QuotaKeys : InsertProject(p, j, s, k)
    \/ EndSession

StartupSpec == StartupInit /\ [][StartupNext]_startupVars

-----------------------------------------------------------------------------
(* Properties                                                              *)

InMigration(p) == phase[p] \in {"migrating", "recording"}

StartupTypeOK ==
    /\ applied \in 0..Last /\ recorded \in 0..Last
    /\ lock \in Pods \cup {NULL, Orphan}
    /\ phase \in [Pods -> {"down", "waiting", "migrating", "recording", "serving"}]
    /\ release \in [Pods -> Releases]
    /\ rows \in [Projects -> Rows \cup {NULL}]
    /\ keys \in [Projects -> QuotaKeys \cup {NULL}]
    /\ exits \in 0..MaxExits
    /\ torn \in BOOLEAN

\* README.md:117 "Startup migrations are serialized with a PostgreSQL advisory lock":
\* two pods never migrate at once, also when one of them lost its connection while
\* it held the lock, and the next one finds nothing half done, unless a pod was killed
\* between a migration's commit and its record.
MigrationsSerialized ==
    /\ \A p, q \in Pods : InMigration(p) /\ InMigration(q) => p = q
    /\ recorded # applied => torn \/ \E p \in Pods : phase[p] = "recording"

\* A pod answers requests only on a database that has every migration of its release,
\* whatever failed before (start.py:20-26).
ServesOnItsSchema == \A p \in Pods : phase[p] = "serving" => recorded >= release[p]

\* Migrations 0002 and 0005: once they are in, every project has a shortcut and a quota
\* key of its own, also the projects that pods of an older release add meanwhile, and
\* a project keeps its first key through every later start.
RowsComplete ==
    \A j \in Projects : rows[j] # NULL =>
        /\ applied >= AddsShortcut =>
              /\ rows[j].shortcut # NULL
              /\ \A i \in Projects \ {j} : rows[i] # NULL => rows[i].shortcut # rows[j].shortcut
        /\ applied >= AddsQuotaKey =>
              /\ rows[j].quota_key # NULL
              /\ \A i \in Projects \ {j} : rows[i] # NULL => rows[i].quota_key # rows[j].quota_key
        /\ rows[j].quota_key = keys[j]

\* Every pod comes to serve in the end, however often pods were killed before, unless
\* a migration was committed and not recorded: then every later start fails.
EveryPodServes == <>torn \/ \A p \in Pods : <>[](phase[p] = "serving")
==============================================================================
