--------------------------- MODULE JoinLimiterProofs ---------------------------
(***************************************************************************)
(* Startup for every number of pods, releases and projects, and the limit  *)
(* on project codes for every number of users and processes: migrations    *)
(* are serialized, pods serve on their schema, projects keep their keys,   *)
(* and a process looks up at most the allowed number of wrong codes.       *)
(***************************************************************************)
EXTENDS JoinLimiter, TLAPS

-----------------------------------------------------------------------------
(* Type correctness of the start                                           *)

LEMMA StartupInitTyped == StartupInit => StartupTypeOK
<1> SUFFICES ASSUME StartupInit PROVE StartupTypeOK
  OBVIOUS
<1>1. applied \in 0..Last /\ recorded \in 0..Last /\ exits \in 0..MaxExits
  BY StartupAssumption DEF StartupInit, StartupAssumption, Last
<1>2. /\ lock \in Pods \cup {NULL, Orphan} /\ torn \in BOOLEAN
      /\ phase \in [Pods -> {"down", "waiting", "migrating", "recording", "serving"}]
      /\ release \in [Pods -> Releases]
      /\ rows \in [Projects -> Rows \cup {NULL}]
      /\ keys \in [Projects -> QuotaKeys \cup {NULL}]
  BY DEF StartupInit
<1> QED
  BY <1>1, <1>2 DEF StartupTypeOK

LEMMA ReleaseIsNat == ASSUME NEW r \in Releases PROVE r \in Nat
<1>1. r \in 1..Last
  BY StartupAssumption DEF StartupAssumption
<1> QED
  BY <1>1 DEF Last

\* A backfilled row is a row.
LEMMA BackfillTyped ==
    ASSUME StartupTypeOK, NEW n \in 1..Last, NEW j \in Projects, rows[j] # NULL,
           NEW fresh \in FreshKeys(n)
    PROVE  Backfill(n, j, fresh[j]) \in Rows
<1>1. rows[j] \in Rows
  BY DEF StartupTypeOK
<1>2. n = AddsQuotaKey => fresh[j] \in QuotaKeys
  BY DEF FreshKeys
<1>3. DefaultShortcut(j) \in Shortcuts
  BY DEF Shortcuts
<1> QED
  BY <1>1, <1>2, <1>3 DEF Backfill, Rows

LEMMA ApplyTyped ==
    ASSUME StartupTypeOK, NEW p \in Pods, ApplyNext(p)
    PROVE  StartupTypeOK'
<1> USE DEF StartupTypeOK
<1>1. release[p] \in Releases /\ recorded \in 0..Last /\ recorded < release[p]
  BY DEF ApplyNext
<1>1a. release[p] \in 1..Last
  BY <1>1, StartupAssumption DEF StartupAssumption
<1>2. applied + 1 \in 1..Last /\ applied + 1 \in 0..Last
  BY <1>1, <1>1a DEF ApplyNext, Last
<1>3. PICK fresh \in FreshKeys(applied + 1) :
          rows' = [j \in Projects |-> IF rows[j] = NULL THEN NULL
                                      ELSE Backfill(applied + 1, j, fresh[j])]
  BY DEF ApplyNext
<1>4. \A j \in Projects : rows[j] # NULL => Backfill(applied + 1, j, fresh[j]) \in Rows
  BY <1>2, BackfillTyped
<1>5. rows' \in [Projects -> Rows \cup {NULL}]
  BY <1>3, <1>4
<1>6. \A j \in Projects : rows'[j] # NULL => rows'[j].quota_key \in QuotaKeys \cup {NULL}
  BY <1>5 DEF Rows
<1>7. keys' \in [Projects -> QuotaKeys \cup {NULL}]
  BY <1>6 DEF ApplyNext
<1> QED
  BY <1>2, <1>5, <1>7 DEF ApplyNext, Goto

LEMMA InsertTyped ==
    ASSUME StartupTypeOK, NEW p \in Pods, NEW j \in Projects, NEW s \in Shortcuts,
           NEW k \in QuotaKeys, InsertProject(p, j, s, k)
    PROVE  StartupTypeOK'
<1> DEFINE row == [shortcut |-> IF release[p] >= AddsShortcut THEN s ELSE NULL,
                   quota_key |-> IF release[p] >= AddsQuotaKey THEN k ELSE NULL]
<1>1. row \in Rows /\ row.quota_key \in QuotaKeys \cup {NULL}
  BY DEF Rows
<1>2. rows' = [rows EXCEPT ![j] = row] /\ rows'[j] = row
  BY DEF InsertProject, StartupTypeOK
<1>3. keys' = [keys EXCEPT ![j] = row.quota_key]
  BY <1>2 DEF InsertProject
<1> HIDE DEF row
<1> QED
  BY <1>1, <1>2, <1>3 DEF InsertProject, StartupTypeOK

LEMMA StartupStepTyped == StartupTypeOK /\ [StartupNext]_startupVars => StartupTypeOK'
<1> SUFFICES ASSUME StartupTypeOK, [StartupNext]_startupVars PROVE StartupTypeOK'
  OBVIOUS
<1>1. ASSUME NEW p \in Pods, NEW r \in Releases, StartPod(p, r) PROVE StartupTypeOK'
  BY <1>1 DEF StartPod, Goto, StartupTypeOK
<1>2. ASSUME NEW p \in Pods, TakeLock(p) PROVE StartupTypeOK'
  BY <1>2 DEF TakeLock, Goto, StartupTypeOK
<1>3. ASSUME NEW p \in Pods, ApplyNext(p) PROVE StartupTypeOK'
  BY <1>3, ApplyTyped
<1>4. ASSUME NEW p \in Pods, RecordNext(p) PROVE StartupTypeOK'
  BY <1>4 DEF RecordNext, Goto, StartupTypeOK
<1>5. ASSUME NEW p \in Pods, FailMigration(p) PROVE StartupTypeOK'
  BY <1>5 DEF FailMigration, AfterFailure, Goto, StartupTypeOK
<1>6. ASSUME NEW p \in Pods, Serve(p) PROVE StartupTypeOK'
  BY <1>6 DEF Serve, LockAfterMigrate, Goto, StartupTypeOK
<1>7. ASSUME NEW p \in Pods, Exit(p) PROVE StartupTypeOK'
  <2>1. exits + 1 \in 0..MaxExits
    BY <1>7, StartupAssumption DEF Exit, StartupTypeOK, StartupAssumption
  <2> QED BY <1>7, <2>1 DEF Exit, LockAfterExit, Goto, StartupTypeOK
<1>8. ASSUME NEW p \in Pods, NEW j \in Projects, NEW s \in Shortcuts, NEW k \in QuotaKeys,
             InsertProject(p, j, s, k)
      PROVE  StartupTypeOK'
  BY <1>8, InsertTyped
<1>9. CASE EndSession
  BY <1>9 DEF EndSession, StartupTypeOK
<1>10. CASE UNCHANGED startupVars
  BY <1>10 DEF startupVars, StartupTypeOK
<1> QED
  BY <1>1, <1>2, <1>3, <1>4, <1>5, <1>6, <1>7, <1>8, <1>9, <1>10
     DEF StartupNext, StartupStep, Migrating

\* The schema, the lock, the pods and the project rows are always well typed.
THEOREM StartupTypeCorrect == StartupSpec => []StartupTypeOK
  BY StartupInitTyped, StartupStepTyped, PTL DEF StartupSpec

-----------------------------------------------------------------------------
(* Serialization and the schema                                            *)

\* The lock is with the one that migrates, and what is not recorded is accounted for.
SerialInvariant ==
    /\ MigrationsSerialized
    /\ \A p \in Pods : InMigration(p) => lock = p
    /\ recorded <= applied
    /\ \A p \in Pods : phase[p] = "recording" => recorded < applied

LEMMA StepKeepsSerial ==
    StartupTypeOK /\ SerialInvariant /\ [StartupNext]_startupVars => SerialInvariant'
<1> SUFFICES ASSUME StartupTypeOK, SerialInvariant, [StartupNext]_startupVars
             PROVE  SerialInvariant'
  OBVIOUS
<1> USE DEF SerialInvariant, MigrationsSerialized, InMigration, StartupTypeOK, Goto
<1>0. \A p \in Pods : p # NULL /\ p # Orphan
  BY StartupAssumption DEF StartupAssumption
<1>1. ASSUME NEW p \in Pods, NEW r \in Releases, StartPod(p, r) PROVE SerialInvariant'
  BY <1>1 DEF StartPod
<1>2. ASSUME NEW p \in Pods, TakeLock(p) PROVE SerialInvariant'
  BY <1>0, <1>2 DEF TakeLock, LockGranted
<1>3. ASSUME NEW p \in Pods, ApplyNext(p) PROVE SerialInvariant'
  BY <1>0, <1>3 DEF ApplyNext
<1>4. ASSUME NEW p \in Pods, RecordNext(p) PROVE SerialInvariant'
  BY <1>4 DEF RecordNext
<1>5. ASSUME NEW p \in Pods, FailMigration(p) PROVE SerialInvariant'
  BY <1>0, <1>5 DEF FailMigration, AfterFailure
<1>6. ASSUME NEW p \in Pods, Serve(p) PROVE SerialInvariant'
  BY <1>0, <1>6 DEF Serve, LockAfterMigrate
<1>7. ASSUME NEW p \in Pods, Exit(p) PROVE SerialInvariant'
  BY <1>0, <1>7 DEF Exit, LockAfterExit
<1>8. ASSUME NEW p \in Pods, NEW j \in Projects, NEW s \in Shortcuts, NEW k \in QuotaKeys,
             InsertProject(p, j, s, k)
      PROVE  SerialInvariant'
  BY <1>8 DEF InsertProject
<1>9. CASE EndSession
  BY <1>0, <1>9 DEF EndSession
<1>10. CASE UNCHANGED startupVars
  BY <1>10 DEF startupVars
<1> QED
  BY <1>1, <1>2, <1>3, <1>4, <1>5, <1>6, <1>7, <1>8, <1>9, <1>10
     DEF StartupNext, StartupStep, Migrating

LEMMA SerialHolds == StartupSpec => []SerialInvariant
<1>1. StartupInit => SerialInvariant
  BY DEF StartupInit, SerialInvariant, MigrationsSerialized, InMigration
<1> QED
  BY <1>1, StartupTypeCorrect, StepKeepsSerial, PTL DEF StartupSpec

\* README.md:117: pods never migrate at once, and nothing is left half done but by a pod
\* that was killed before it recorded a migration.
THEOREM StartsSerialize == StartupSpec => []MigrationsSerialized
<1>1. SerialInvariant => MigrationsSerialized
  BY DEF SerialInvariant
<1> QED
  BY <1>1, SerialHolds, PTL

LEMMA StepKeepsSchema ==
    StartupTypeOK /\ SerialInvariant /\ ServesOnItsSchema /\ [StartupNext]_startupVars
        => ServesOnItsSchema'
<1> SUFFICES ASSUME StartupTypeOK, SerialInvariant, ServesOnItsSchema,
                    [StartupNext]_startupVars
             PROVE  ServesOnItsSchema'
  OBVIOUS
<1>1. recorded' >= recorded
  BY DEF SerialInvariant, StartupTypeOK, StartupNext, StartupStep, Migrating, StartPod,
         TakeLock, ApplyNext, RecordNext, FailMigration, Serve, Exit, EndSession,
         InsertProject, startupVars
<1>2. ASSUME NEW q \in Pods, phase'[q] = "serving" PROVE recorded >= release'[q]
  <2>1. ASSUME NEW p \in Pods, Serve(p) PROVE recorded >= release'[q]
    BY <1>2, <2>1 DEF Serve, Goto, ServesOnItsSchema, StartupTypeOK
  <2>2. CASE ~ \E p \in Pods : Serve(p)
    BY <1>2, <2>2 DEF StartupNext, StartupStep, Migrating, StartPod, TakeLock, ApplyNext,
         RecordNext, FailMigration, AfterFailure, Exit, EndSession, InsertProject,
         startupVars, Goto, ServesOnItsSchema, StartupTypeOK
  <2> QED BY <2>1, <2>2
<1>3. recorded \in Nat /\ recorded' \in Nat /\ \A q \in Pods : release'[q] \in Nat
  <2>1. \A r \in Releases : r \in Nat
    BY ReleaseIsNat
  <2>2. StartupTypeOK'
    BY StartupStepTyped
  <2> QED BY <2>1, <2>2 DEF StartupTypeOK, Last
<1> QED
  BY <1>1, <1>2, <1>3 DEF ServesOnItsSchema

\* start.py:20-26: a pod serves on a database that has every migration of its release.
THEOREM PodsServeOnTheirSchema == StartupSpec => []ServesOnItsSchema
<1>1. StartupInit => ServesOnItsSchema
  BY DEF StartupInit, ServesOnItsSchema
<1> QED
  BY <1>1, StartupTypeCorrect, SerialHolds, StepKeepsSchema, PTL DEF StartupSpec

-----------------------------------------------------------------------------
(* The backfilled columns                                                  *)

\* Before its migration nobody writes the quota key: a pod that knows the column serves
\* only once the column is there.
RowsInvariant ==
    /\ RowsComplete
    /\ applied < AddsQuotaKey =>
           \A j \in Projects : rows[j] # NULL => rows[j].quota_key = NULL

\* One migration and its backfill.
LEMMA BackfillKeepsRows ==
    ASSUME StartupTypeOK, RowsInvariant, NEW p \in Pods, ApplyNext(p)
    PROVE  RowsInvariant'
<1>1. PICK fresh \in FreshKeys(applied + 1) :
          rows' = [j \in Projects |-> IF rows[j] = NULL THEN NULL
                                      ELSE Backfill(applied + 1, j, fresh[j])]
  BY DEF ApplyNext
<1>2. applied \in Nat /\ applied' = applied + 1
  BY DEF ApplyNext, StartupTypeOK, Last
<1>3. ASSUME NEW j \in Projects, rows'[j] # NULL
      PROVE  /\ rows[j] # NULL
             /\ rows'[j].shortcut = IF applied + 1 = AddsShortcut THEN DefaultShortcut(j)
                                    ELSE rows[j].shortcut
             /\ rows'[j].quota_key = IF applied + 1 = AddsQuotaKey THEN fresh[j]
                                     ELSE rows[j].quota_key
  BY <1>1, <1>3 DEF Backfill
<1>4. \A i, j \in Projects : DefaultShortcut(i) = DefaultShortcut(j) => i = j
  BY DEF DefaultShortcut
<1>5. applied + 1 = AddsQuotaKey => /\ \A j \in Projects : fresh[j] \in QuotaKeys
                                    /\ \A i, j \in Projects : fresh[i] = fresh[j] => i = j
  BY DEF FreshKeys
<1>6. \A j \in Projects : rows'[j] # NULL => HasColumns(rows'[j], applied + 1)
  BY DEF ApplyNext
<1>7. ASSUME NEW j \in Projects, rows'[j] # NULL, applied' >= AddsShortcut
      PROVE  /\ rows'[j].shortcut # NULL
             /\ \A i \in Projects \ {j} :
                    rows'[i] # NULL => rows'[i].shortcut # rows'[j].shortcut
  <2>1. rows'[j].shortcut # NULL
    BY <1>2, <1>6, <1>7 DEF HasColumns
  <2>2. CASE applied + 1 = AddsShortcut
    BY <1>3, <1>4, <1>7, <2>1, <2>2
  <2>3. CASE applied + 1 # AddsShortcut
    <3>1. applied >= AddsShortcut
      BY <1>2, <1>7, <2>3 DEF AddsShortcut
    <3> QED BY <1>3, <1>7, <2>1, <2>3, <3>1 DEF RowsInvariant, RowsComplete
  <2> QED BY <2>2, <2>3
<1>8. ASSUME NEW j \in Projects, rows'[j] # NULL, applied' >= AddsQuotaKey
      PROVE  /\ rows'[j].quota_key # NULL
             /\ \A i \in Projects \ {j} :
                    rows'[i] # NULL => rows'[i].quota_key # rows'[j].quota_key
  <2>1. rows'[j].quota_key # NULL
    <3>1. applied + 1 >= AddsQuotaKey
      BY <1>2, <1>8
    <3> QED BY <1>6, <1>8, <3>1 DEF HasColumns
  <2>2. CASE applied + 1 = AddsQuotaKey
    BY <1>3, <1>5, <1>8, <2>1, <2>2
  <2>3. CASE applied + 1 # AddsQuotaKey
    <3>1. applied >= AddsQuotaKey
      BY <1>2, <1>8, <2>3 DEF AddsQuotaKey
    <3> QED BY <1>3, <1>8, <2>1, <2>3, <3>1 DEF RowsInvariant, RowsComplete
  <2> QED BY <2>2, <2>3
<1>9. ASSUME NEW j \in Projects, rows'[j] # NULL PROVE rows'[j].quota_key = keys'[j]
  <2>1. keys'[j] = IF keys[j] = NULL THEN rows'[j].quota_key ELSE keys[j]
    BY <1>9 DEF ApplyNext
  <2>2. rows[j] # NULL /\ keys[j] = rows[j].quota_key
    BY <1>3, <1>9 DEF RowsInvariant, RowsComplete
  <2>3. CASE applied + 1 = AddsQuotaKey
    BY <1>2, <2>1, <2>2, <2>3 DEF RowsInvariant, AddsQuotaKey
  <2>4. CASE applied + 1 # AddsQuotaKey
    BY <1>3, <1>9, <2>1, <2>2, <2>4
  <2> QED BY <2>3, <2>4
<1>10. ASSUME applied' < AddsQuotaKey, NEW j \in Projects, rows'[j] # NULL
       PROVE  rows'[j].quota_key = NULL
  BY <1>2, <1>3, <1>10 DEF RowsInvariant, AddsQuotaKey
<1> QED
  BY <1>7, <1>8, <1>9, <1>10 DEF RowsInvariant, RowsComplete

\* A new project, from a pod of any release.
LEMMA InsertKeepsRows ==
    ASSUME StartupTypeOK, SerialInvariant, ServesOnItsSchema, RowsInvariant,
           NEW p \in Pods, NEW j \in Projects, NEW s \in Shortcuts, NEW k \in QuotaKeys,
           InsertProject(p, j, s, k)
    PROVE  RowsInvariant'
<1> DEFINE row == [shortcut |-> IF release[p] >= AddsShortcut THEN s ELSE NULL,
                   quota_key |-> IF release[p] >= AddsQuotaKey THEN k ELSE NULL]
<1>1. /\ rows' = [rows EXCEPT ![j] = row] /\ rows'[j] = row
      /\ applied' = applied /\ keys' = [keys EXCEPT ![j] = row.quota_key]
      /\ HasColumns(row, applied)
  BY DEF InsertProject, StartupTypeOK
<1>2. /\ row.shortcut \in {s, NULL} /\ row.quota_key \in {k, NULL}
      /\ \A i \in Projects : k # keys[i] /\ (rows[i] # NULL => rows[i].shortcut # s)
  BY DEF InsertProject
<1>3. ASSUME applied < AddsQuotaKey PROVE row.quota_key = NULL
  <2>1. /\ recorded >= release[p] /\ recorded <= applied /\ applied \in Nat
        /\ recorded \in Nat /\ release[p] \in Releases
    BY DEF InsertProject, ServesOnItsSchema, SerialInvariant, StartupTypeOK, Last
  <2>2. release[p] \in Nat
    BY <2>1, ReleaseIsNat
  <2>3. ~ (release[p] >= AddsQuotaKey)
    BY <1>3, <2>1, <2>2 DEF AddsQuotaKey
  <2> QED BY <2>3
<1> HIDE DEF row
<1>4. applied >= AddsShortcut => row.shortcut = s /\ row.shortcut # NULL
  BY <1>1, <1>2 DEF HasColumns
<1>5. applied >= AddsQuotaKey => row.quota_key = k /\ row.quota_key # NULL
  BY <1>1, <1>2 DEF HasColumns
<1>6. \A i \in Projects \ {j} : rows'[i] = rows[i] /\ keys'[i] = keys[i]
  BY <1>1 DEF StartupTypeOK
<1>7. keys'[j] = row.quota_key
  BY <1>1 DEF StartupTypeOK
<1>8. ASSUME NEW i \in Projects, rows'[i] # NULL, applied' >= AddsShortcut
      PROVE  /\ rows'[i].shortcut # NULL
             /\ \A h \in Projects \ {i} :
                    rows'[h] # NULL => rows'[h].shortcut # rows'[i].shortcut
  BY <1>1, <1>2, <1>4, <1>6, <1>8 DEF RowsInvariant, RowsComplete
<1>9. ASSUME NEW i \in Projects, rows'[i] # NULL, applied' >= AddsQuotaKey
      PROVE  /\ rows'[i].quota_key # NULL
             /\ \A h \in Projects \ {i} :
                    rows'[h] # NULL => rows'[h].quota_key # rows'[i].quota_key
  <2>1. \A h \in Projects : rows[h] # NULL => rows[h].quota_key # k
    BY <1>2 DEF RowsInvariant, RowsComplete
  <2> QED BY <1>1, <1>5, <1>6, <1>9, <2>1 DEF RowsInvariant, RowsComplete
<1>10. \A i \in Projects : rows'[i] # NULL => rows'[i].quota_key = keys'[i]
  BY <1>1, <1>6, <1>7 DEF RowsInvariant, RowsComplete
<1>11. applied' < AddsQuotaKey =>
           \A i \in Projects : rows'[i] # NULL => rows'[i].quota_key = NULL
  BY <1>1, <1>3, <1>6 DEF RowsInvariant
<1> QED
  BY <1>8, <1>9, <1>10, <1>11 DEF RowsInvariant, RowsComplete

LEMMA StepKeepsRows ==
    StartupTypeOK /\ SerialInvariant /\ ServesOnItsSchema /\ RowsInvariant
        /\ [StartupNext]_startupVars => RowsInvariant'
<1> SUFFICES ASSUME StartupTypeOK, SerialInvariant, ServesOnItsSchema, RowsInvariant,
                    [StartupNext]_startupVars
             PROVE  RowsInvariant'
  OBVIOUS
<1>1. ASSUME NEW p \in Pods, ApplyNext(p) PROVE RowsInvariant'
  BY <1>1, BackfillKeepsRows
<1>2. ASSUME NEW p \in Pods, NEW j \in Projects, NEW s \in Shortcuts, NEW k \in QuotaKeys,
             InsertProject(p, j, s, k)
      PROVE  RowsInvariant'
  BY <1>2, InsertKeepsRows
<1>3. CASE UNCHANGED <<applied, rows, keys>>
  BY <1>3 DEF RowsInvariant, RowsComplete
<1> QED
  BY <1>1, <1>2, <1>3 DEF StartupNext, StartupStep, Migrating, StartPod, TakeLock, RecordNext,
                          FailMigration, Serve, Exit, EndSession, startupVars

\* Migrations 0002 and 0005: every project has a shortcut and a quota key of its own once
\* they are in, and keeps its key, with pods of every release adding projects.
THEOREM ProjectsKeepTheirKeys == StartupSpec => []RowsComplete
<1>1. StartupInit => RowsInvariant
  BY DEF StartupInit, RowsInvariant, RowsComplete
<1>2. RowsInvariant => RowsComplete
  BY DEF RowsInvariant
<1> QED
  BY <1>1, <1>2, StartupTypeCorrect, SerialHolds, PodsServeOnTheirSchema, StepKeepsRows, PTL
     DEF StartupSpec

-----------------------------------------------------------------------------
(* The limit on project codes                                              *)

\* The counters leave the start alone.
LEMMA LimiterStartupStep == [Next]_vars => [StartupNext]_startupVars
BY DEF Next, Process, Try, Refuse, WrongCode, RightCode, Evict, Tick, vars

\* Everything that is proved of the start holds beside the counters.
THEOREM LimiterKeepsStartup == Spec => StartupSpec
<1>1. Init => StartupInit
  BY DEF Init
<1> QED
  BY <1>1, LimiterStartupStep, PTL DEF Spec, StartupSpec

Counts == [count : 0..(Limit + 1), left : 0..Window]

LimiterInvariant ==
    /\ attempts \in [Pods -> [Users -> Counts]]
    /\ trying \in [Pods -> Users \cup {NULL}]
    /\ lookups \in [Pods -> [Users -> Nat]]
    /\ LookupsBounded

LEMMA NoneIsCount == None \in Counts
BY LimiterAssumption DEF None, Counts, LimiterAssumption

LEMMA CountedIsCount ==
    ASSUME LimiterInvariant, NEW p \in Pods, NEW u \in Users
    PROVE  /\ Counted(p, u) \in Counts
           /\ Counted(p, u).count >= attempts[p][u].count
           /\ Passes(p, u) => /\ attempts[p][u] # None /\ Counted(p, u).count <= Limit
                              /\ Counted(p, u).count = attempts[p][u].count + 1
<1>1. attempts[p][u] \in Counts
  BY DEF LimiterInvariant
<1> QED
  BY <1>1, LimiterAssumption DEF Counted, Passes, Counts, LimiterAssumption

\* One user's counter and its lookups get new values.
LEMMA OneCounterKeeps ==
    ASSUME LimiterInvariant, NEW p \in Pods, NEW u \in Users, NEW c \in Counts, NEW n \in Nat,
           n <= Limit, n <= c.count,
           attempts' = [attempts EXCEPT ![p][u] = c],
           lookups' = [lookups EXCEPT ![p][u] = n],
           trying' \in [Pods -> Users \cup {NULL}]
    PROVE  LimiterInvariant'
<1>1. attempts' \in [Pods -> [Users -> Counts]] /\ lookups' \in [Pods -> [Users -> Nat]]
  BY DEF LimiterInvariant
<1>2. ASSUME NEW q \in Pods, NEW v \in Users
      PROVE  lookups'[q][v] <= Limit /\ lookups'[q][v] <= attempts'[q][v].count
  <2>1. CASE q = p /\ v = u
    BY <2>1 DEF LimiterInvariant
  <2>2. CASE ~ (q = p /\ v = u)
    BY <2>2 DEF LimiterInvariant, LookupsBounded
  <2> QED BY <2>1, <2>2
<1> QED
  BY <1>1, <1>2 DEF LimiterInvariant, LookupsBounded

LEMMA ForgetKeeps ==
    ASSUME LimiterInvariant, NEW p \in Pods, NEW u \in Users, Forget(p, u),
           trying' \in [Pods -> Users \cup {NULL}]
    PROVE  LimiterInvariant'
<1>1. 0 \in Nat /\ 0 <= Limit /\ 0 <= None.count
  BY LimiterAssumption DEF None, LimiterAssumption
<1>2. attempts' = [attempts EXCEPT ![p][u] = None] /\ lookups' = [lookups EXCEPT ![p][u] = 0]
  BY DEF Forget
<1> QED
  BY <1>1, <1>2, NoneIsCount, OneCounterKeeps

LEMMA StepKeepsLimit == LimiterInvariant /\ [Next]_vars => LimiterInvariant'
<1> SUFFICES ASSUME LimiterInvariant, [Next]_vars PROVE LimiterInvariant'
  OBVIOUS
<1>0. Limit \in Nat
  BY LimiterAssumption DEF LimiterAssumption
<1>1. ASSUME NEW p \in Pods, NEW u \in Users, Try(p, u) PROVE LimiterInvariant'
  <2>1. trying' \in [Pods -> Users \cup {NULL}] /\ lookups' = lookups
    BY <1>1 DEF Try, LimiterInvariant
  <2>2. CASE attempts' = attempts
    BY <2>1, <2>2 DEF LimiterInvariant, LookupsBounded
  <2>3. CASE attempts' # attempts
    <3>1. PICK c : c = [count |-> 0, left |-> Window]
      OBVIOUS
    <3>2. c \in Counts /\ c.count = 0
      BY <3>1, LimiterAssumption DEF Counts, LimiterAssumption
    <3>3. attempts' = [attempts EXCEPT ![p][u] = c] /\ attempts[p][u] = None
      BY <1>1, <2>3, <3>1 DEF Try
    <3>4. lookups[p][u] = 0
      BY <1>0, <3>3 DEF LimiterInvariant, LookupsBounded, None
    <3>5. lookups' = [lookups EXCEPT ![p][u] = 0]
      BY <2>1, <3>4 DEF LimiterInvariant
    <3>6. 0 \in Nat /\ 0 <= Limit /\ 0 <= c.count
      BY <1>0, <3>2
    <3> QED BY <2>1, <3>2, <3>3, <3>5, <3>6, OneCounterKeeps
  <2> QED BY <2>2, <2>3
<1>2. ASSUME NEW p \in Pods, NEW u \in Users, Refuse(p, u) PROVE LimiterInvariant'
  <2>1. trying' \in [Pods -> Users \cup {NULL}] /\ lookups' = lookups
    BY <1>2 DEF Refuse, Handling, LimiterInvariant
  <2>2. CASE attempts[p][u] = None
    BY <1>2, <2>1, <2>2 DEF Refuse, Count, LimiterInvariant, LookupsBounded
  <2>3. CASE attempts[p][u] # None
    <3>1. lookups[p][u] \in Nat /\ lookups[p][u] <= Limit
          /\ lookups[p][u] <= attempts[p][u].count /\ attempts[p][u].count \in Nat
      BY <1>0 DEF LimiterInvariant, LookupsBounded, Counts
    <3>2. Counted(p, u).count \in Nat
      BY <1>0, CountedIsCount DEF Counts
    <3>3. lookups[p][u] <= Counted(p, u).count
      BY <3>1, <3>2, CountedIsCount
    <3>4. lookups' = [lookups EXCEPT ![p][u] = lookups[p][u]]
      BY <2>1 DEF LimiterInvariant
    <3>5. attempts' = [attempts EXCEPT ![p][u] = Counted(p, u)]
      BY <1>2, <2>3 DEF Refuse, Count
    <3> QED BY <2>1, <3>1, <3>3, <3>4, <3>5, CountedIsCount, OneCounterKeeps
  <2> QED BY <2>2, <2>3
<1>3. ASSUME NEW p \in Pods, NEW u \in Users, WrongCode(p, u) PROVE LimiterInvariant'
  <2>1. trying' \in [Pods -> Users \cup {NULL}]
    BY <1>3 DEF WrongCode, Handling, LimiterInvariant
  <2>2. lookups[p][u] \in Nat /\ lookups[p][u] <= attempts[p][u].count
        /\ attempts[p][u].count \in Nat
    BY <1>0 DEF LimiterInvariant, LookupsBounded, Counts
  <2>3. /\ Counted(p, u).count = attempts[p][u].count + 1 /\ Counted(p, u).count <= Limit
        /\ attempts[p][u] # None
    BY <1>3, CountedIsCount DEF WrongCode
  <2>4. lookups[p][u] + 1 \in Nat /\ lookups[p][u] + 1 <= Limit
        /\ lookups[p][u] + 1 <= Counted(p, u).count
    BY <1>0, <2>2, <2>3
  <2>5. /\ lookups' = [lookups EXCEPT ![p][u] = lookups[p][u] + 1]
        /\ attempts' = [attempts EXCEPT ![p][u] = Counted(p, u)]
    BY <1>3, <2>3 DEF WrongCode, Count
  <2> QED BY <2>1, <2>4, <2>5, CountedIsCount, OneCounterKeeps
<1>4. ASSUME NEW p \in Pods, NEW u \in Users, RightCode(p, u) \/ Evict(p, u)
      PROVE  LimiterInvariant'
  <2>1. trying' \in [Pods -> Users \cup {NULL}] /\ Forget(p, u)
    BY <1>4 DEF RightCode, Evict, Handling, LimiterInvariant
  <2> QED BY <2>1, ForgetKeeps
<1>5. ASSUME \A p \in Pods, u \in Users :
                 \/ attempts'[p][u] = None /\ lookups'[p][u] = 0
                 \/ /\ attempts'[p][u] \in Counts /\ lookups'[p][u] = lookups[p][u]
                    /\ attempts'[p][u].count = attempts[p][u].count,
             attempts' \in [Pods -> [Users -> Counts]], lookups' \in [Pods -> [Users -> Nat]],
             trying' \in [Pods -> Users \cup {NULL}]
      PROVE  LimiterInvariant'
  <2>1. ASSUME NEW p \in Pods, NEW u \in Users
        PROVE  lookups'[p][u] <= Limit /\ lookups'[p][u] <= attempts'[p][u].count
    <3>1. lookups[p][u] <= Limit /\ lookups[p][u] <= attempts[p][u].count
      BY DEF LimiterInvariant, LookupsBounded
    <3> QED BY <1>0, <1>5, <3>1 DEF None
  <2> QED BY <1>5, <2>1 DEF LimiterInvariant, LookupsBounded
<1>6. CASE Tick
  <2>1. ASSUME NEW p \in Pods, NEW u \in Users, ~ (attempts[p][u].left <= 1)
        PROVE  /\ [attempts[p][u] EXCEPT !.left = @ - 1] \in Counts
               /\ [attempts[p][u] EXCEPT !.left = @ - 1].count = attempts[p][u].count
    <3>1. attempts[p][u] \in Counts
      BY DEF LimiterInvariant
    <3> QED BY <2>1, <3>1, LimiterAssumption DEF Counts, LimiterAssumption
  <2>2. attempts' \in [Pods -> [Users -> Counts]] /\ lookups' \in [Pods -> [Users -> Nat]]
    BY <1>6, <2>1, NoneIsCount DEF Tick, LimiterInvariant
  <2>3. trying' \in [Pods -> Users \cup {NULL}]
    BY <1>6 DEF Tick, LimiterInvariant
  <2>4. ASSUME NEW p \in Pods, NEW u \in Users
        PROVE  \/ attempts'[p][u] = None /\ lookups'[p][u] = 0
               \/ /\ attempts'[p][u] \in Counts /\ lookups'[p][u] = lookups[p][u]
                  /\ attempts'[p][u].count = attempts[p][u].count
    BY <1>6, <2>1 DEF Tick
  <2> QED BY <1>5, <2>2, <2>3, <2>4
<1>7. CASE Process
  <2>1. attempts' \in [Pods -> [Users -> Counts]] /\ lookups' \in [Pods -> [Users -> Nat]]
    BY <1>7, NoneIsCount DEF Process, LimiterInvariant
  <2>2. \A p \in Pods, u \in Users : attempts[p][u] \in Counts
    BY DEF LimiterInvariant
  <2>3. trying' \in [Pods -> Users \cup {NULL}]
    BY <1>7 DEF Process, LimiterInvariant
  <2> QED BY <1>5, <1>7, <2>1, <2>2, <2>3 DEF Process
<1>8. CASE UNCHANGED vars
  BY <1>8 DEF vars, limiterVars, LimiterInvariant, LookupsBounded
<1> QED
  BY <1>1, <1>2, <1>3, <1>4, <1>6, <1>7, <1>8 DEF Next

LEMMA LimitHolds == Spec => []LimiterInvariant
<1>1. Init => LimiterInvariant
  BY NoneIsCount, LimiterAssumption
     DEF Init, LimiterInvariant, LookupsBounded, None, LimiterAssumption
<1> QED
  BY <1>1, StepKeepsLimit, PTL DEF Spec

\* Starts, pods, rows and counters are always well typed; no count passes Limit + 1.
THEOREM LimiterTypeCorrect == Spec => []TypeOK
<1>1. StartupTypeOK /\ LimiterInvariant => TypeOK
  BY DEF LimiterInvariant, Counts, TypeOK
<1> QED
  BY <1>1, LimiterKeepsStartup, StartupTypeCorrect, LimitHolds, PTL

\* views.py:35-38: between two resets of its counter a process looks up at most Limit
\* wrong codes of a user, each of them counted, through evictions, expiries and restarts.
THEOREM LookupsStayBounded == Spec => []LookupsBounded
<1>1. LimiterInvariant => LookupsBounded
  BY DEF LimiterInvariant
<1> QED
  BY <1>1, LimitHolds, PTL

-----------------------------------------------------------------------------
(* What LockoutEnds and EveryPodServes rest on                             *)

\* Nobody renews an entry, and time shortens it: what a user tries while it is there
\* brings its end no further away.
EntriesRunOut ==
    [][\A p \in Pods, u \in Users : attempts[p][u] # None =>
          \/ attempts'[p][u] = None
          \/ /\ attempts'[p][u].left <= attempts[p][u].left
             /\ Tick => attempts'[p][u].left < attempts[p][u].left]_vars

\* views.py:35-38: a lockout lasts at most a window, since incr leaves the expiry alone,
\* for any number of users, processes and attempts.
THEOREM LockoutsRunOut == Spec => EntriesRunOut
<1>1. LimiterInvariant /\ [Next]_vars =>
        [\A p \in Pods, u \in Users : attempts[p][u] # None =>
            \/ attempts'[p][u] = None
            \/ /\ attempts'[p][u].left <= attempts[p][u].left
               /\ Tick => attempts'[p][u].left < attempts[p][u].left]_vars
  <2> SUFFICES ASSUME LimiterInvariant, [Next]_vars, NEW p \in Pods, NEW u \in Users,
                      attempts[p][u] # None, attempts'[p][u] # None
               PROVE  /\ attempts'[p][u].left <= attempts[p][u].left
                      /\ Tick => attempts'[p][u].left < attempts[p][u].left
    OBVIOUS
  <2>0. attempts[p][u] \in Counts /\ attempts[p][u].left \in Nat
    BY LimiterAssumption DEF LimiterInvariant, Counts, LimiterAssumption
  <2>1. CASE Tick
    <3>1. attempts'[p][u] = [attempts[p][u] EXCEPT !.left = @ - 1]
      BY <2>1 DEF Tick
    <3>2. attempts'[p][u].left = attempts[p][u].left - 1
      BY <2>0, <3>1 DEF Counts
    <3> QED BY <2>0, <3>2
  <2>2. ASSUME attempts'[p][u].left = attempts[p][u].left, ~ Tick
        PROVE  /\ attempts'[p][u].left <= attempts[p][u].left
               /\ Tick => attempts'[p][u].left < attempts[p][u].left
    BY <2>0, <2>2
  <2>3. Counted(p, u).left = attempts[p][u].left
    BY DEF Counted
  <2>4. ASSUME NEW q \in Pods, NEW v \in Users,
               \/ Try(q, v) \/ Refuse(q, v) \/ WrongCode(q, v)
               \/ RightCode(q, v) \/ Evict(q, v)
        PROVE  attempts'[p][u].left = attempts[p][u].left
    <3>1. \/ attempts' = [attempts EXCEPT ![q][v] = Counted(q, v)]
          \/ attempts' = [attempts EXCEPT ![q][v] = None]
          \/ attempts' = attempts
          \/ /\ attempts[q][v] = None
             /\ attempts' = [attempts EXCEPT ![q][v] = [count |-> 0, left |-> Window]]
      BY <2>4 DEF Try, Refuse, WrongCode, Count, RightCode, Evict, Forget
    <3>2. CASE q = p /\ v = u
      BY <2>3, <3>1, <3>2 DEF LimiterInvariant
    <3>3. CASE ~ (q = p /\ v = u)
      BY <3>1, <3>3 DEF LimiterInvariant
    <3> QED BY <3>2, <3>3
  <2>5. Process => attempts'[p][u] = attempts[p][u]
    BY DEF Process
  <2>6. UNCHANGED vars => attempts'[p][u] = attempts[p][u]
    BY DEF vars, limiterVars
  <2> QED BY <2>1, <2>2, <2>4, <2>5, <2>6 DEF Next
<1> QED BY <1>1, LimitHolds, PTL DEF Spec, EntriesRunOut

\* The advisory lock is held by a pod that migrates, or by a session that PostgreSQL ends.
LockIsUsed == lock # NULL => lock = Orphan \/ (lock \in Pods /\ InMigration(lock))

\* start.py:20-26: no start leaves the lock behind, whatever fails or is killed; a pod
\* that waits for it waits for a migration or for the end of a dead session.
THEOREM LockIsFreed == StartupSpec => []LockIsUsed
<1>1. StartupInit => LockIsUsed
  BY DEF StartupInit, LockIsUsed
<1>2. StartupTypeOK /\ SerialInvariant /\ LockIsUsed /\ [StartupNext]_startupVars => LockIsUsed'
  <2> SUFFICES ASSUME StartupTypeOK, SerialInvariant, LockIsUsed, [StartupNext]_startupVars
               PROVE  LockIsUsed'
    OBVIOUS
  <2> USE DEF LockIsUsed, InMigration, StartupTypeOK, Goto
  <2>1. ASSUME NEW p \in Pods, NEW r \in Releases, StartPod(p, r) PROVE LockIsUsed'
    BY <2>1 DEF StartPod
  <2>2. ASSUME NEW p \in Pods, TakeLock(p) PROVE LockIsUsed'
    BY <2>2 DEF TakeLock
  <2>3. ASSUME NEW p \in Pods, ApplyNext(p) PROVE LockIsUsed'
    <3>1. UNCHANGED lock /\ (phase' = [phase EXCEPT ![p] = "recording"] \/ UNCHANGED phase)
      BY <2>3 DEF ApplyNext
    <3> QED BY <3>1
  <2>4. ASSUME NEW p \in Pods, RecordNext(p) PROVE LockIsUsed'
    BY <2>4 DEF RecordNext
  <2>5. ASSUME NEW p \in Pods, FailMigration(p) \/ Serve(p) PROVE LockIsUsed'
    BY <2>5 DEF FailMigration, Serve, LockAfterMigrate
  <2>6. ASSUME NEW p \in Pods, Exit(p) PROVE LockIsUsed'
    BY <2>6 DEF Exit, LockAfterExit
  <2>7. CASE EndSession
    BY <2>7 DEF EndSession
  <2>8. ASSUME NEW p \in Pods, NEW j \in Projects, NEW s \in Shortcuts, NEW k \in QuotaKeys,
               InsertProject(p, j, s, k)
        PROVE  LockIsUsed'
    BY <2>8 DEF InsertProject
  <2>9. CASE UNCHANGED startupVars
    BY <2>9 DEF startupVars
  <2> QED BY <2>1, <2>2, <2>3, <2>4, <2>5, <2>6, <2>7, <2>8, <2>9
          DEF StartupNext, StartupStep, Migrating
<1> QED BY <1>1, <1>2, StartupTypeCorrect, SerialHolds, PTL DEF StartupSpec

\* A pod in its migration leaves it or brings the schema or its record one step on.
StartsAdvance ==
    [][\A p \in Pods : InMigration(p) =>
          \/ ~ InMigration(p)'
          \/ UNCHANGED <<phase[p], applied, recorded>>
          \/ applied' + recorded' > applied + recorded]_startupVars

\* start.py:20-26: migrations are never undone or repeated, so that a start ends after at
\* most two steps per migration of its release.
THEOREM MigrationsTerminate == StartupSpec => StartsAdvance
<1>1. StartupTypeOK /\ SerialInvariant /\ [StartupNext]_startupVars =>
        [\A p \in Pods : InMigration(p) =>
            \/ ~ InMigration(p)'
            \/ UNCHANGED <<phase[p], applied, recorded>>
            \/ applied' + recorded' > applied + recorded]_startupVars
  <2> SUFFICES ASSUME StartupTypeOK, SerialInvariant, [StartupNext]_startupVars,
                      NEW p \in Pods, InMigration(p)
               PROVE  \/ ~ InMigration(p)'
                      \/ UNCHANGED <<phase[p], applied, recorded>>
                      \/ applied' + recorded' > applied + recorded
    OBVIOUS
  <2> USE DEF InMigration, StartupTypeOK, Goto
  <2>0. applied \in Nat /\ recorded \in Nat /\ recorded <= applied
    BY DEF SerialInvariant, Last
  <2>1. ASSUME NEW q \in Pods, ApplyNext(q)
        PROVE  applied' + recorded' > applied + recorded
    <3>1. applied' = applied + 1 /\ (recorded' = recorded \/ recorded' = applied + 1)
      BY <2>1 DEF ApplyNext
    <3> QED BY <2>0, <3>1
  <2>2. ASSUME NEW q \in Pods, RecordNext(q)
        PROVE  q = p /\ recorded' = applied /\ applied' = applied /\ phase[q] = "recording"
    BY <2>2 DEF RecordNext, SerialInvariant, MigrationsSerialized
  <2>3. ASSUME NEW q \in Pods, RecordNext(q)
        PROVE  applied' + recorded' > applied + recorded
    BY <2>0, <2>2, <2>3 DEF SerialInvariant
  <2>4. ASSUME NEW q \in Pods,
               \/ \E r \in Releases : StartPod(q, r)
               \/ TakeLock(q) \/ FailMigration(q) \/ Serve(q) \/ Exit(q)
        PROVE  \/ ~ InMigration(p)'
               \/ UNCHANGED <<phase[p], applied, recorded>>
    BY <2>4 DEF StartPod, TakeLock, FailMigration, AfterFailure, Serve, Exit
  <2>5. ASSUME NEW q \in Pods, NEW j \in Projects, NEW s \in Shortcuts, NEW k \in QuotaKeys,
               InsertProject(q, j, s, k)
        PROVE  UNCHANGED <<phase[p], applied, recorded>>
    BY <2>5 DEF InsertProject
  <2>6. EndSession \/ UNCHANGED startupVars => UNCHANGED <<phase[p], applied, recorded>>
    BY DEF EndSession, startupVars
  <2> QED BY <2>1, <2>3, <2>4, <2>5, <2>6 DEF StartupNext, StartupStep, Migrating
<1> QED BY <1>1, StartupTypeCorrect, SerialHolds, PTL DEF StartupSpec, StartsAdvance

==============================================================================
