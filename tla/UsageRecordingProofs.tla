------------------------- MODULE UsageRecordingProofs -------------------------
(***************************************************************************)
(* UsageRecording for every set of workers, records, identities and        *)
(* messages: its state is well typed, its locks do what LockInvariant      *)
(* says, the daily aggregate is the aggregate of the event table, a        *)
(* request has at most one event row, and every behaviour is a behaviour   *)
(* of UsageLedger.                                                         *)
(***************************************************************************)
EXTENDS UsageRecording, TLAPS

USE RecordsAssumption, WorkloadAssumption

\* A row charged with one more record is still a row.
LEMMA ChargeType ==
    ASSUME NEW row \in [Records -> Nat], NEW r \in Records
    PROVE  Charge(row, r) \in [Records -> Nat]
BY DEF Charge

\* Charging a record adds one to its own count and leaves the others alone.
LEMMA ChargeValue ==
    ASSUME NEW row \in [Records -> Nat], NEW q \in Records, NEW r \in Records
    PROVE  Charge(row, q)[r] = IF r = q THEN row[r] + 1 ELSE row[r]
BY DEF Charge

\* The row of an identity that was never charged.
LEMMA NoUseType == NoUse \in [Records -> Nat]
BY DEF NoUse

\* A worker inside record_usage has a record.
LEMMA RecordOfWorker ==
    ASSUME TypeOK, NEW w \in Workers, pc[w] \notin {"stream", "entry"}
    PROVE  /\ record[w] \in Records
           /\ record[w].request_id \in RequestIds
           /\ record[w].identity \in Identities
BY DEF TypeOK, Entries

\* Every state of the receiver is well typed: the worker's program counter, the
\* entries it has left and the rows it holds are what als.py and service.py work on.
THEOREM TypeCorrect == Spec => []TypeOK
<1>1. Init => TypeOK
  BY NoUseType DEF Init, LedgerInit, TypeOK, PC, Entries
<1>2. TypeOK /\ [Next]_vars => TypeOK'
  <2> SUFFICES ASSUME TypeOK, [Next]_vars PROVE TypeOK'
    OBVIOUS
  <2> USE NoUseType
  <2>1. ASSUME NEW w \in Workers, NEW m \in Messages, Receive(w, m) PROVE TypeOK'
    <3>1. m \in Seq(Entries)
      OBVIOUS
    <3> QED
      BY <2>1, <3>1 DEF Receive, Goto, TypeOK, PC
  <2>2. ASSUME NEW w \in Workers, MessageDone(w) PROVE TypeOK'
    BY <2>2 DEF MessageDone, Goto, TypeOK, PC
  <2>3. ASSUME NEW w \in Workers, SkipEntry(w) PROVE TypeOK'
    BY <2>3 DEF SkipEntry, Goto, TypeOK, PC
  <2>4. ASSUME NEW w \in Workers, TakeEntry(w) PROVE TypeOK'
    BY <2>4 DEF TakeEntry, Goto, TypeOK, PC
  <2>5. ASSUME NEW w \in Workers, RejectEvent(w) PROVE TypeOK'
    BY <2>5 DEF RejectEvent, Return, Refused, Goto, Forget, TypeOK, PC, Entries
  <2>6. ASSUME NEW w \in Workers, InsertEvent(w) PROVE TypeOK'
    BY <2>6 DEF InsertEvent, Refused, Goto, TypeOK, PC
  <2>7. ASSUME NEW w \in Workers, GetDaily(w) PROVE TypeOK'
    <3>1. record[w] \in Records /\ record[w].identity \in Identities
      BY <2>7, RecordOfWorker DEF GetDaily
    <3> QED
      BY <2>7, <3>1 DEF GetDaily, Goto, TypeOK, PC
  <2>8. ASSUME NEW w \in Workers, CreateDaily(w) PROVE TypeOK'
    <3>1. record[w] \in Records
      BY <2>8, RecordOfWorker DEF CreateDaily
    <3>2. Charge(NoUse, record[w]) \in [Records -> Nat]
      BY <3>1, ChargeType
    <3> QED
      BY <2>8, <3>2 DEF CreateDaily, Goto, TypeOK, PC
  <2>9. ASSUME NEW w \in Workers, RegetDaily(w) PROVE TypeOK'
    <3>1. record[w] \in Records /\ record[w].identity \in Identities
      BY <2>9, RecordOfWorker DEF RegetDaily
    <3> QED
      BY <2>9, <3>1 DEF RegetDaily, Goto, TypeOK, PC
  <2>10. ASSUME NEW w \in Workers, UpdateDaily(w) PROVE TypeOK'
    <3>1. record[w] \in Records /\ record[w].identity \in Identities
      BY <2>10, RecordOfWorker DEF UpdateDaily, Incremented
    <3>2. Charge(daily[record[w].identity], record[w]) \in [Records -> Nat]
      BY <3>1, ChargeType DEF TypeOK
    <3> QED
      BY <2>10, <3>2 DEF UpdateDaily, Incremented, Goto, TypeOK, PC
  <2>11. ASSUME NEW w \in Workers, Commit(w) PROVE TypeOK'
    <3>1. record[w] \in Records /\ record[w].identity \in Identities
      BY <2>11, RecordOfWorker DEF Commit
    <3> QED
      BY <2>11, <3>1 DEF Commit, Return, Goto, Forget, TypeOK, PC, Entries
  <2>12. ASSUME NEW w \in Workers, Fail(w) PROVE TypeOK'
    BY <2>12 DEF Fail, RolledBack, dbVars, Goto, Forget, TypeOK, PC, Entries
  <2>13. CASE UNCHANGED vars
    BY <2>13 DEF vars, TypeOK
  <2> QED
    BY <2>1, <2>2, <2>3, <2>4, <2>5, <2>6, <2>7, <2>8, <2>9, <2>10, <2>11,
       <2>12, <2>13 DEF Next, Step
<1> QED
  BY <1>1, <1>2, PTL DEF Spec

-----------------------------------------------------------------------------

\* The inductive invariant: AggregateMatchesEvents is not inductive by itself, for
\* Commit preserves it only if the version it writes is the current one plus one
\* record, and that needs to know whom the locks keep out.
IInv == TypeOK /\ LockInvariant /\ AggregateMatchesEvents

\* An identity without a row has never been charged.
LEMMA NoRowNoUse ==
    ASSUME TypeOK, AggregateMatchesEvents, NEW k \in Identities, k \notin rows
    PROVE  daily[k] = NoUse
<1>1. daily[k] \in [Records -> Nat] /\ NoUse \in [Records -> Nat]
  BY NoUseType DEF TypeOK
<1>2. ASSUME NEW r \in Records PROVE daily[k][r] = NoUse[r]
  BY DEF AggregateMatchesEvents, NoUse
<1> QED
  BY <1>1, <1>2

\* Charging a new event to its own identity keeps the aggregate.
LEMMA BookingKeepsAggregate ==
    ASSUME TypeOK, AggregateMatchesEvents, NEW e \in Records, e \notin events,
           events' = events \cup {e}, rows' = rows \cup {e.identity},
           daily' = [daily EXCEPT ![e.identity] = Charge(daily[e.identity], e)]
    PROVE  AggregateMatchesEvents'
<1> DEFINE k == e.identity
<1>1. k \in Identities /\ daily[k] \in [Records -> Nat]
  BY DEF TypeOK
<1>2. ASSUME NEW i \in Identities, NEW r \in Records
      PROVE  daily'[i][r] = IF r \in events' /\ r.identity = i THEN 1 ELSE 0
  <2>1. CASE i = k
    <3>1. daily'[i] = Charge(daily[k], e)
      BY <1>1, <2>1 DEF TypeOK
    <3>2. daily'[i][r] = IF r = e THEN daily[k][r] + 1 ELSE daily[k][r]
      BY <1>1, <3>1, ChargeValue
    <3> QED
      BY <1>1, <2>1, <3>2 DEF AggregateMatchesEvents
  <2>2. CASE i # k
    BY <2>2 DEF TypeOK, AggregateMatchesEvents
  <2> QED
    BY <2>1, <2>2
<1>3. rows' = {d.identity : d \in events'}
  BY DEF AggregateMatchesEvents
<1> QED
  BY <1>2, <1>3 DEF AggregateMatchesEvents

\* A step that writes nothing to the database, and in which no worker acquires a
\* lock or changes what it holds, keeps the invariant.
LEMMA QuietStep ==
    ASSUME IInv, TypeOK', UNCHANGED dbVars,
           \A v \in Workers :
               /\ HasInserted(v)' => HasInserted(v)
               /\ created'[v] => created[v] /\ (pc'[v] = pc[v] \/ ~ HasInserted(v))
               /\ HasInserted(v)' =>
                     /\ pc'[v] = pc[v] /\ record'[v] = record[v]
                     /\ held'[v] = held[v] /\ created'[v] = created[v]
    PROVE  IInv'
<1> USE DEF IInv, LockInvariant, dbVars
<1>1. AggregateMatchesEvents'
  BY DEF AggregateMatchesEvents
<1>2. NoSharedKeys'
  BY DEF NoSharedKeys, HasInserted
<1>3. NoSharedRows'
  BY DEF NoSharedRows, HasInserted
<1>4. OpenEventIsNew'
  BY DEF OpenEventIsNew, HasInserted, IsRecorded
<1>5. HeldVersionIsCurrent'
  BY DEF HeldVersionIsCurrent, HasInserted
<1> QED
  BY <1>1, <1>2, <1>3, <1>4, <1>5

\* record_usage keeps the inductive invariant, one action at a time.
LEMMA StepKeepsInvariant == IInv /\ TypeOK' /\ [Next]_vars => IInv'
<1> SUFFICES ASSUME IInv, TypeOK', [Next]_vars PROVE IInv'
  OBVIOUS
<1> USE DEF IInv, LockInvariant
<1>1. ASSUME NEW w \in Workers, NEW m \in Messages, Receive(w, m) PROVE IInv'
  BY <1>1, QuietStep DEF Receive, Goto, TypeOK, HasInserted, dbVars
<1>2. ASSUME NEW w \in Workers, MessageDone(w) PROVE IInv'
  BY <1>2, QuietStep DEF MessageDone, Goto, TypeOK, HasInserted, dbVars
<1>3. ASSUME NEW w \in Workers, SkipEntry(w) PROVE IInv'
  BY <1>3, QuietStep DEF SkipEntry, Goto, TypeOK, HasInserted, dbVars
<1>4. ASSUME NEW w \in Workers, TakeEntry(w) PROVE IInv'
  BY <1>4, QuietStep DEF TakeEntry, Goto, TypeOK, HasInserted, dbVars
<1>5. ASSUME NEW w \in Workers, RejectEvent(w) PROVE IInv'
  BY <1>5, QuietStep DEF RejectEvent, Return, Refused, Goto, Forget, TypeOK, HasInserted, dbVars
<1>6. ASSUME NEW w \in Workers, Fail(w) PROVE IInv'
  BY <1>6, QuietStep DEF Fail, RolledBack, Goto, Forget, TypeOK, HasInserted, dbVars
<1>7. ASSUME NEW w \in Workers, InsertEvent(w) PROVE IInv'
  <2> USE <1>7 DEF InsertEvent, Refused, Goto, TypeOK
  <2>1. AggregateMatchesEvents'
    BY DEF AggregateMatchesEvents
  <2>2. NoSharedKeys'
    BY DEF NoSharedKeys, HasInserted, EventLocked
  <2>3. NoSharedRows'
    BY DEF NoSharedRows
  <2>4. OpenEventIsNew'
    BY DEF OpenEventIsNew, HasInserted, IsRecorded
  <2>5. HeldVersionIsCurrent'
    BY DEF HeldVersionIsCurrent
  <2> QED
    BY <2>1, <2>2, <2>3, <2>4, <2>5
<1>8. ASSUME NEW w \in Workers, GetDaily(w) PROVE IInv'
  <2>0. /\ record' = record
        /\ \A v \in Workers : HasInserted(v)' <=> HasInserted(v)
        /\ \A v \in Workers : pc'[v] = "commit" <=> pc[v] = "commit"
    BY <1>8 DEF GetDaily, Goto, TypeOK, HasInserted
  <2>1. AggregateMatchesEvents'
    BY <1>8 DEF GetDaily, AggregateMatchesEvents
  <2>2. NoSharedKeys'
    BY <2>0 DEF NoSharedKeys
  <2>3. NoSharedRows'
    BY <2>0 DEF NoSharedRows
  <2> USE <1>8 DEF GetDaily, Goto, TypeOK
  <2>4. OpenEventIsNew'
    BY DEF OpenEventIsNew, HasInserted, IsRecorded
  <2>5. HeldVersionIsCurrent'
    BY DEF HeldVersionIsCurrent
  <2> QED
    BY <2>1, <2>2, <2>3, <2>4, <2>5
<1>9. ASSUME NEW w \in Workers, CreateDaily(w) PROVE IInv'
  <2> DEFINE k == record[w].identity
  <2>0. /\ record' = record
        /\ \A v \in Workers : HasInserted(v)' <=> HasInserted(v)
        /\ \A v \in Workers \ {w} : pc'[v] = pc[v]
        /\ pc'[w] = "commit" => k \notin rows
    BY <1>9 DEF CreateDaily, Goto, TypeOK, HasInserted
  <2>1. AggregateMatchesEvents'
    BY <1>9 DEF CreateDaily, AggregateMatchesEvents
  <2>2. NoSharedKeys'
    BY <2>0 DEF NoSharedKeys
  <2>3. NoSharedRows'
    \* Whoever is about to commit this identity has created its row or updated
    \* an existing one.
    <3>1. ASSUME NEW v \in Workers \ {w}, pc'[v] = "commit", pc'[w] = "commit"
          PROVE  record[v].identity # k
      BY <1>9, <2>0, <3>1
         DEF CreateDaily, RowBeingCreated, HasCreated, HeldVersionIsCurrent
    <3> QED
      BY <2>0, <3>1 DEF NoSharedRows
  <2> USE <1>9 DEF CreateDaily, Goto, TypeOK
  <2>4. OpenEventIsNew'
    BY DEF OpenEventIsNew, HasInserted, IsRecorded
  <2>5. HeldVersionIsCurrent'
    <3>1. k \in Identities
      BY RecordOfWorker
    <3>2. k \notin rows => daily[k] = NoUse
      BY <3>1, NoRowNoUse
    <3> QED
      BY <3>2 DEF HeldVersionIsCurrent
  <2> QED
    BY <2>1, <2>2, <2>3, <2>4, <2>5
<1>10. ASSUME NEW w \in Workers, RegetDaily(w) PROVE IInv'
  <2> USE <1>10 DEF RegetDaily, Goto, TypeOK
  <2>1. AggregateMatchesEvents'
    BY DEF AggregateMatchesEvents
  <2>2. NoSharedKeys'
    BY DEF NoSharedKeys, HasInserted
  <2>3. NoSharedRows'
    BY DEF NoSharedRows
  <2>4. OpenEventIsNew'
    BY DEF OpenEventIsNew, HasInserted, IsRecorded
  <2>5. HeldVersionIsCurrent'
    BY DEF HeldVersionIsCurrent
  <2> QED
    BY <2>1, <2>2, <2>3, <2>4, <2>5
<1>11. ASSUME NEW w \in Workers, UpdateDaily(w) PROVE IInv'
  <2> USE <1>11 DEF UpdateDaily, Incremented, Goto, TypeOK
  <2>0. record[w].identity \in rows /\ ~ created[w]
    BY DEF HeldVersionIsCurrent
  <2>1. AggregateMatchesEvents'
    BY DEF AggregateMatchesEvents
  <2>2. NoSharedKeys'
    BY DEF NoSharedKeys, HasInserted
  <2>3. NoSharedRows'
    <3>1. ASSUME NEW v \in Workers \ {w}, pc'[v] = "commit"
          PROVE  record[v].identity # record[w].identity
      <4>1. pc[v] = "commit" /\ ~ HasUpdated(v) => record[v].identity \notin rows
        BY DEF HasUpdated, HeldVersionIsCurrent
      <4> QED
        BY <2>0, <3>1, <4>1 DEF RowLocked, HasUpdated
    <3> QED
      BY <3>1 DEF NoSharedRows
  <2>4. OpenEventIsNew'
    BY DEF OpenEventIsNew, HasInserted, IsRecorded
  <2>5. HeldVersionIsCurrent'
    BY <2>0 DEF HeldVersionIsCurrent
  <2> QED
    BY <2>1, <2>2, <2>3, <2>4, <2>5
<1>12. ASSUME NEW w \in Workers, Commit(w) PROVE IInv'
  <2> DEFINE k == record[w].identity
  <2> USE <1>12 DEF Commit, Return, Goto, Forget, TypeOK
  <2>0. /\ record[w] \in Records /\ k \in Identities
        /\ record[w] \notin events
        /\ held[w] = Charge(daily[k], record[w])
    BY RecordOfWorker DEF OpenEventIsNew, HasInserted, IsRecorded, HeldVersionIsCurrent
  <2>1. AggregateMatchesEvents'
    BY <2>0, BookingKeepsAggregate
  <2>2. NoSharedKeys'
    BY DEF NoSharedKeys, HasInserted
  <2>3. NoSharedRows'
    BY DEF NoSharedRows
  <2>4. OpenEventIsNew'
    BY DEF OpenEventIsNew, HasInserted, IsRecorded, NoSharedKeys
  <2>5. HeldVersionIsCurrent'
    BY <2>0 DEF HeldVersionIsCurrent, NoSharedRows
  <2> QED
    BY <2>1, <2>2, <2>3, <2>4, <2>5
<1>13. CASE UNCHANGED vars
  BY <1>13, QuietStep DEF vars, dbVars, HasInserted
<1> QED
  BY <1>1, <1>2, <1>3, <1>4, <1>5, <1>6, <1>7, <1>8, <1>9, <1>10, <1>11,
     <1>12, <1>13 DEF Next, Step

-----------------------------------------------------------------------------

\* The locks of record_usage do their work in every state.
THEOREM InvariantHolds == Spec => []IInv
<1>1. Init => IInv
  <2>1. ASSUME Init PROVE AggregateMatchesEvents
    BY <2>1 DEF Init, LedgerInit, AggregateMatchesEvents, NoUse
  <2>2. ASSUME Init PROVE LockInvariant
    BY <2>2 DEF Init, LockInvariant, NoSharedKeys, NoSharedRows, OpenEventIsNew,
                HeldVersionIsCurrent, HasInserted
  <2>3. ASSUME Init PROVE TypeOK
    BY <2>3, NoUseType DEF Init, LedgerInit, TypeOK, PC, Entries
  <2> QED
    BY <2>1, <2>2, <2>3 DEF IInv
<1>2. TypeOK' /\ IInv /\ [Next]_vars => IInv'
  BY StepKeepsInvariant
<1> QED
  BY <1>1, <1>2, TypeCorrect, PTL DEF Spec

\* The daily aggregate charges every committed event once and nothing else,
\* whatever the workers, the failures and the duplicates.
THEOREM AggregateCorrect == Spec => []AggregateMatchesEvents
BY InvariantHolds, PTL DEF IInv

\* No two open transactions hold the same key or row, and the version a worker
\* commits is the current one charged with its record.
THEOREM LocksCorrect == Spec => []LockInvariant
BY InvariantHolds, PTL DEF IInv

\* A request id never gets a second event row.
THEOREM RequestsBookedOnce == Spec => []OneEventPerRequest
<1>1. Init => OneEventPerRequest
  BY DEF Init, LedgerInit, OneEventPerRequest
<1>2. OneEventPerRequest /\ IInv /\ [Next]_vars => OneEventPerRequest'
  <2> SUFFICES ASSUME OneEventPerRequest, IInv, [Next]_vars
               PROVE  OneEventPerRequest'
    OBVIOUS
  <2>1. ASSUME NEW w \in Workers, Commit(w) PROVE OneEventPerRequest'
    BY <2>1 DEF Commit, OneEventPerRequest, IInv, LockInvariant, OpenEventIsNew,
                HasInserted, IsRecorded
  <2>2. CASE UNCHANGED events
    BY <2>2 DEF OneEventPerRequest
  <2> QED
    BY <2>1, <2>2 DEF Next, Step, vars, Receive, MessageDone, SkipEntry, TakeEntry,
       RejectEvent, Return, RolledBack, InsertEvent, GetDaily, CreateDaily, RegetDaily, UpdateDaily,
       Fail, dbVars
<1> QED
  BY <1>1, <1>2, InvariantHolds, PTL DEF Spec

\* record_usage returns to the loop only when the request is in the ledger or
\* the table cannot store it.
THEOREM ReturnsBooked == Spec => ReturnsOnlyWhenBooked
<1>1. IInv /\ [Next]_vars =>
        [\A w \in Workers :
           pc[w] \notin {"stream", "entry"} /\ pc'[w] = "entry"
             => \/ record[w] \in Unstorable
                \/ \E e \in events' : e.request_id = record[w].request_id]_vars
  <2> SUFFICES ASSUME IInv, [Next]_vars, NEW w \in Workers,
                      pc[w] \notin {"stream", "entry"}, pc'[w] = "entry"
               PROVE  \/ record[w] \in Unstorable
                      \/ \E e \in events' : e.request_id = record[w].request_id
    OBVIOUS
  <2>1. RejectEvent(w) \/ Commit(w)
    BY DEF IInv, TypeOK, Next, Step, vars, Receive, MessageDone, SkipEntry,
       TakeEntry, RejectEvent, Return, InsertEvent, GetDaily, CreateDaily, RegetDaily,
       UpdateDaily, Commit, Fail, Goto
  <2>2. CASE RejectEvent(w)
    BY <2>2 DEF RejectEvent, Return, Refused, IsRecorded
  <2>3. CASE Commit(w)
    BY <2>3 DEF Commit
  <2> QED
    BY <2>1, <2>2, <2>3
<1> QED
  BY <1>1, InvariantHolds, PTL DEF Spec, ReturnsOnlyWhenBooked

\* The receiver implements the ledger: a commit is the booking of one request, and
\* every other step is invisible to the readers of the two tables.
THEOREM ImplementsLedger == Spec => LedgerImplemented
<1>1. Init => LedgerInit
  BY DEF Init
<1>2. IInv /\ [Next]_vars => [LedgerNext]_ledgerVars
  <2> SUFFICES ASSUME IInv, [Next]_vars PROVE [LedgerNext]_ledgerVars
    OBVIOUS
  <2>1. ASSUME NEW w \in Workers, Commit(w) PROVE LedgerNext
    <3>1. record[w] \in Records /\ ~ IsRecorded(record[w])
      BY <2>1, RecordOfWorker
         DEF Commit, IInv, LockInvariant, OpenEventIsNew, HasInserted
    <3>2. held[w] = Charge(daily[record[w].identity], record[w])
      BY <2>1 DEF Commit, IInv, LockInvariant, HeldVersionIsCurrent
    <3>3. Book(record[w])
      BY <2>1, <3>1, <3>2 DEF Commit, Book
    <3> QED
      BY <3>1, <3>3 DEF LedgerNext
  <2>2. CASE UNCHANGED ledgerVars
    BY <2>2
  <2> QED
    BY <2>1, <2>2 DEF Next, Step, vars, Receive, MessageDone, SkipEntry, TakeEntry,
       RejectEvent, Return, RolledBack, InsertEvent, GetDaily, CreateDaily, RegetDaily, UpdateDaily,
       Fail, dbVars, ledgerVars
<1> QED
  BY <1>1, <1>2, InvariantHolds, PTL DEF Spec, LedgerImplemented, LedgerSpec

-----------------------------------------------------------------------------
(* What EveryMessageEnds rests on, for any number of workers: waiting for  *)
(* locks is never circular, and every statement comes nearer to the end    *)
(* of the message.                                                         *)

\* The guards of a worker's next statement hold.
MayGoOn(w) ==
    \/ pc[w] \in {"entry", "get", "commit"}
    \/ pc[w] = "insert" /\ (Refused(w) \/ ~ EventLocked(w))
    \/ pc[w] = "create" /\ ~ RowBeingCreated(w)
    \/ pc[w] = "reget" /\ record[w].identity \in rows
    \/ pc[w] = "update" /\ ~ RowLocked(w)

\* The next statement of w needs a lock that v's transaction holds.
WaitsFor(w, v) ==
    /\ v # w
    /\ \/ pc[w] = "insert" /\ HasInserted(v) /\ record[v].request_id = record[w].request_id
       \/ pc[w] = "create" /\ HasCreated(v) /\ record[v].identity = record[w].identity
       \/ pc[w] = "update" /\ HasUpdated(v) /\ record[v].identity = record[w].identity

\* Who waits, waits for a worker that can go on, or for one that waits for such a
\* worker: PostgreSQL never finds a deadlock in record_usage.
WaitsAreShort ==
    \A w \in Workers : pc[w] # "stream" =>
        \/ MayGoOn(w)
        \/ \E v \in Workers :
              /\ WaitsFor(w, v)
              /\ MayGoOn(v) \/ \E u \in Workers : WaitsFor(v, u) /\ MayGoOn(u)

\* A worker that waits for a daily row waits for a transaction that only has to commit.
LEMMA RowWaitsForCommit ==
    ASSUME IInv, NEW w \in Workers, pc[w] \in {"create", "reget", "update"}, ~ MayGoOn(w)
    PROVE  \E u \in Workers : WaitsFor(w, u) /\ MayGoOn(u)
<1>1. pc[w] # "reget"
  BY DEF MayGoOn, IInv, LockInvariant, HeldVersionIsCurrent
<1>2. CASE pc[w] = "create"
  <2>1. PICK u \in Workers \ {w} : HasCreated(u) /\ record[u].identity = record[w].identity
    BY <1>2 DEF MayGoOn, RowBeingCreated
  <2> QED BY <1>2, <2>1 DEF WaitsFor, MayGoOn, HasCreated
<1>3. CASE pc[w] = "update"
  <2>1. PICK u \in Workers \ {w} : HasUpdated(u) /\ record[u].identity = record[w].identity
    BY <1>3 DEF MayGoOn, RowLocked
  <2> QED BY <1>3, <2>1 DEF WaitsFor, MayGoOn, HasUpdated
<1> QED BY <1>1, <1>2, <1>3

\* service.py:28-63 with any number of receivers: in every state in which a message is
\* being handled, the waits for locks end after at most two at a worker that can go on.
THEOREM LocksNeverDeadlock == Spec => []WaitsAreShort
<1>1. IInv => WaitsAreShort
  <2> SUFFICES ASSUME IInv, NEW w \in Workers, pc[w] # "stream", ~ MayGoOn(w)
               PROVE  \E v \in Workers :
                         /\ WaitsFor(w, v)
                         /\ MayGoOn(v) \/ \E u \in Workers : WaitsFor(v, u) /\ MayGoOn(u)
    BY DEF WaitsAreShort
  <2>1. CASE pc[w] = "insert"
    <3>1. PICK v \in Workers \ {w} :
              HasInserted(v) /\ record[v].request_id = record[w].request_id
      BY <2>1 DEF MayGoOn, EventLocked
    <3>2. WaitsFor(w, v)
      BY <2>1, <3>1 DEF WaitsFor
    <3>3. MayGoOn(v) \/ pc[v] \in {"create", "reget", "update"}
      BY <3>1 DEF HasInserted, MayGoOn
    <3> QED BY <3>2, <3>3, RowWaitsForCommit
  <2>2. CASE pc[w] \in {"create", "reget", "update"}
    BY <2>2, RowWaitsForCommit
  <2>3. pc[w] \in PC
    BY DEF IInv, TypeOK
  <2> QED BY <2>1, <2>2, <2>3 DEF MayGoOn, PC
<1> QED BY <1>1, InvariantHolds, PTL

\* How many statements are left at most, within an entry and with those to come.
LeftOf(label) ==
    CASE label = "stream" -> 0 [] label = "entry" -> 1
      [] label = "commit" -> 2 [] label = "update" -> 3
      [] label = "reget" -> 4  [] label = "create" -> 5
      [] label = "get" -> 6    [] label = "insert" -> 7
Remaining(w) == 8 * Len(todo[w]) + LeftOf(pc[w])

\* No statement is repeated: each one that a worker executes leaves it with fewer, and
\* no other worker gives it more or takes its place in the message away.
StatementsRunOut ==
    [][\A w \in Workers : pc[w] # "stream" =>
          \/ UNCHANGED <<pc[w], todo[w], record[w], held[w], created[w]>>
          \/ Remaining(w)' < Remaining(w)]_vars

LEMMA LeftOfType == ASSUME NEW label \in PC PROVE LeftOf(label) \in 0..7
<1>1. /\ LeftOf("stream") = 0 /\ LeftOf("entry") = 1 /\ LeftOf("commit") = 2
      /\ LeftOf("update") = 3 /\ LeftOf("reget") = 4 /\ LeftOf("create") = 5
      /\ LeftOf("get") = 6 /\ LeftOf("insert") = 7
  BY DEF LeftOf
<1> QED BY <1>1 DEF PC

\* One worker moves; the message does not grow.
LEMMA FewerLeft ==
    ASSUME TypeOK, TypeOK', NEW w \in Workers,
           \/ Len(todo[w])' = Len(todo[w]) /\ LeftOf(pc'[w]) < LeftOf(pc[w])
           \/ Len(todo[w])' < Len(todo[w]) /\ LeftOf(pc'[w]) <= LeftOf(pc[w]) + 7
    PROVE  Remaining(w)' < Remaining(w)
<1>1. Len(todo[w]) \in Nat /\ Len(todo[w])' \in Nat
  <2>1. todo[w] \in Seq(Entries) /\ todo'[w] \in Seq(Entries)
    BY DEF TypeOK
  <2> QED BY <2>1
<1>2. LeftOf(pc[w]) \in 0..7 /\ LeftOf(pc'[w]) \in 0..7
  <2>1. pc[w] \in PC /\ pc'[w] \in PC
    BY DEF TypeOK
  <2> QED BY <2>1, LeftOfType
<1>3. PICK a, b, m, n : /\ a = LeftOf(pc[w]) /\ b = LeftOf(pc'[w])
                        /\ m = Len(todo[w]) /\ n = Len(todo[w])'
  OBVIOUS
<1>4. 8 * n + b < 8 * m + a
  <2>1. a \in 0..7 /\ b \in 0..7 /\ m \in Nat /\ n \in Nat
    BY <1>1, <1>2, <1>3
  <2>2. (n = m /\ b < a) \/ (n < m /\ b <= a + 7)
    BY <1>3
  <2>3. ASSUME NEW A \in Nat, NEW B \in Nat, NEW M \in Nat, NEW N \in Nat,
               (N = M /\ B < A) \/ (N < M /\ B <= A + 7)
        PROVE  8 * N + B < 8 * M + A
    BY <2>3
  <2> QED BY <2>1, <2>2, <2>3
<1> QED BY <1>3, <1>4 DEF Remaining

\* als.py:85-98 and service.py:28-63: a message of n entries takes a worker at most
\* 8 * n + 1 statements, whatever the others do.
THEOREM MessagesTakeBoundedSteps == Spec => StatementsRunOut
<1>1. TypeOK /\ TypeOK' /\ [Next]_vars =>
          [\A w \in Workers : pc[w] # "stream" =>
              \/ UNCHANGED <<pc[w], todo[w], record[w], held[w], created[w]>>
              \/ Remaining(w)' < Remaining(w)]_vars
  <2> SUFFICES ASSUME TypeOK, TypeOK', [Next]_vars, NEW w \in Workers, pc[w] # "stream"
               PROVE  \/ UNCHANGED <<pc[w], todo[w], record[w], held[w], created[w]>>
                      \/ Remaining(w)' < Remaining(w)
    OBVIOUS
  <2>0. pc[w] \in PC /\ todo[w] \in Seq(Entries)
    BY DEF TypeOK
  <2> USE DEF Goto, Return, Forget, TypeOK
  <2>1. ASSUME NEW v \in Workers, v # w,
               (\E m \in Messages : Receive(v, m)) \/ Step(v) \/ Fail(v)
        PROVE  UNCHANGED <<pc[w], todo[w], record[w], held[w], created[w]>>
    BY <2>1 DEF Receive, Step, Fail, MessageDone, SkipEntry, TakeEntry, RejectEvent,
                InsertEvent, GetDaily, CreateDaily, RegetDaily, UpdateDaily, Commit
  <2>2. CASE UNCHANGED vars
    BY <2>2 DEF vars
  <2>3. CASE SkipEntry(w) \/ TakeEntry(w)
    <3>1. todo[w] # << >> /\ todo'[w] = Tail(todo[w])
      BY <2>3 DEF SkipEntry, TakeEntry
    <3>2. Len(Tail(todo[w])) < Len(todo[w])
      BY <2>0, <3>1
    <3>3. LeftOf(pc[w]) = 1 /\ LeftOf(pc'[w]) \in 0..7
      <4>1. pc[w] = "entry" /\ pc'[w] \in PC
        BY <2>3 DEF SkipEntry, TakeEntry
      <4> QED BY <4>1, LeftOfType DEF LeftOf
    <3>4. LeftOf(pc'[w]) <= LeftOf(pc[w]) + 7
      BY <3>3
    <3> QED BY <3>1, <3>2, <3>4, FewerLeft
  <2>4. CASE MessageDone(w)
    <3>1. pc[w] = "entry" /\ pc'[w] = "stream" /\ UNCHANGED todo
      BY <2>4 DEF MessageDone
    <3>2. LeftOf("stream") < LeftOf("entry")
      BY DEF LeftOf
    <3> QED BY <3>1, <3>2, FewerLeft
  <2>5. CASE Fail(w)
    <3>1. pc'[w] = "stream" /\ todo'[w] = << >>
      BY <2>5 DEF Fail
    <3>2. LeftOf("stream") = 0 /\ LeftOf(pc[w]) \in 1..7
      BY <2>0 DEF LeftOf, PC
    <3>3. Len(todo[w])' = 0 /\ Len(todo[w]) \in Nat
      BY <2>0, <3>1
    <3>4. \/ Len(todo[w])' = Len(todo[w]) /\ LeftOf(pc'[w]) < LeftOf(pc[w])
          \/ Len(todo[w])' < Len(todo[w]) /\ LeftOf(pc'[w]) <= LeftOf(pc[w]) + 7
      BY <3>1, <3>2, <3>3
    <3> QED BY <3>4, FewerLeft
  <2>6. CASE \/ RejectEvent(w) \/ InsertEvent(w) \/ GetDaily(w) \/ CreateDaily(w)
             \/ RegetDaily(w) \/ UpdateDaily(w) \/ Commit(w)
    <3>1. /\ UNCHANGED todo
          /\ \/ pc[w] = "insert" /\ pc'[w] \in {"entry", "get"}
             \/ pc[w] = "get" /\ pc'[w] \in {"create", "update"}
             \/ pc[w] = "create" /\ pc'[w] \in {"reget", "commit"}
             \/ pc[w] = "reget" /\ pc'[w] = "update"
             \/ pc[w] = "update" /\ pc'[w] = "commit"
             \/ pc[w] = "commit" /\ pc'[w] = "entry"
      BY <2>6 DEF RejectEvent, InsertEvent, GetDaily, CreateDaily, RegetDaily,
                  UpdateDaily, Commit
    <3>2. LeftOf(pc'[w]) < LeftOf(pc[w])
      BY <3>1 DEF LeftOf
    <3> QED BY <3>1, <3>2, FewerLeft
  <2>7. ~ \E m \in Messages : Receive(w, m)
    BY DEF Receive
  <2> QED BY <2>1, <2>2, <2>3, <2>4, <2>5, <2>6, <2>7 DEF Next, Step
<1> QED BY <1>1, TypeCorrect, PTL DEF Spec, StatementsRunOut
==============================================================================
