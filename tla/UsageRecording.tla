--------------------------- MODULE UsageRecording ---------------------------
(***************************************************************************)
(* The usage receiver: worker threads of AccessLogService.StreamAccessLogs *)
(* (apps/usage/als.py) that call record_usage (apps/usage/service.py) once *)
(* per log entry, all against one PostgreSQL database at READ COMMITTED.   *)
(* Several receiver pods run at once, and Envoy may deliver a request more *)
(* than once, on the same stream or on another, so two workers can be in   *)
(* record_usage with the same request id or with the same daily row.       *)
(*                                                                         *)
(* The statements of record_usage are separate steps.  What a transaction  *)
(* wrote and has not committed is visible to nobody, but it blocks: a      *)
(* second INSERT of the same unique key and a second UPDATE of the same    *)
(* row wait until the first transaction has committed or rolled back.      *)
(***************************************************************************)
EXTENDS UsageLedger, Sequences

CONSTANTS Workers,      \* worker threads of every receiver pod
          Messages,     \* StreamAccessLogsMessages: sequences of entries
          Unstorable,   \* records that break a CHECK constraint of UsageEvent
          None          \* what parse_entry returns for an incomplete entry

Entries == Records \cup {None}

ASSUME WorkloadAssumption ==
    /\ None \notin Records
    /\ Unstorable \subseteq Records
    /\ Messages \subseteq Seq(Entries)

VARIABLES rows,         \* the identities that have a DailyUsage row
          pc,           \* where each worker is
          todo,         \* the entries left of the message it is handling
          record,       \* the record it is booking, or None
          held,         \* the version of the daily row it read or wrote
          created       \* get_or_create's second result

dbVars == <<events, daily, rows>>
vars == <<events, daily, rows, pc, todo, record, held, created>>

\* "stream": waiting for a message; "entry": in the loop over its entries; the
\* other values are the statements of record_usage.
PC == {"stream", "entry", "insert", "get", "create", "reget", "update", "commit"}

TypeOK ==
    /\ events \in SUBSET Records
    /\ daily \in [Identities -> [Records -> Nat]]
    /\ rows \in SUBSET Identities
    /\ pc \in [Workers -> PC]
    /\ todo \in [Workers -> Seq(Entries)]
    /\ record \in [Workers -> Entries]
    /\ held \in [Workers -> [Records -> Nat]]
    /\ created \in [Workers -> BOOLEAN]
    /\ \A w \in Workers : record[w] = None <=> pc[w] \in {"stream", "entry"}

Init ==
    /\ LedgerInit
    /\ rows = {}
    /\ pc = [w \in Workers |-> "stream"]
    /\ todo = [w \in Workers |-> << >>]
    /\ record = [w \in Workers |-> None]
    /\ held = [w \in Workers |-> NoUse]
    /\ created = [w \in Workers |-> FALSE]

-----------------------------------------------------------------------------
(* Locks: what a worker's open transaction has written and not committed.  *)

HasInserted(w) == pc[w] \in {"get", "create", "reget", "update", "commit"}
HasCreated(w) == pc[w] = "commit" /\ created[w]
HasUpdated(w) == pc[w] = "commit" /\ ~ created[w]

\* Transactions that do not wait for each other.
EventLocked_Never(w) == FALSE

\* Another open transaction holds the unique index entry of this request id.
EventLocked(w) ==
    \E v \in Workers \ {w} :
        HasInserted(v) /\ record[v].request_id = record[w].request_id

\* Another open transaction has inserted the daily row of this identity.
RowBeingCreated(w) ==
    \E v \in Workers \ {w} :
        HasCreated(v) /\ record[v].identity = record[w].identity

\* Another open transaction has updated the daily row of this identity.
RowLocked(w) ==
    \E v \in Workers \ {w} :
        HasUpdated(v) /\ record[v].identity = record[w].identity

Goto(w, label) == pc' = [pc EXCEPT ![w] = label]

\* record_usage ends: its local variables and its transaction are gone.
Forget(w) ==
    /\ record' = [record EXCEPT ![w] = None]
    /\ held' = [held EXCEPT ![w] = NoUse]
    /\ created' = [created EXCEPT ![w] = FALSE]

\* A loop that tries again whatever record_usage answers.
Return_Retries(w) == UNCHANGED <<pc, record, held, created>>

\* record_usage returns to the loop over the entries.
Return(w) == Goto(w, "entry") /\ Forget(w)

-----------------------------------------------------------------------------
(* StreamAccessLogs                                                        *)

\* The next message of the stream arrives.
Receive(w, m) ==
    /\ pc[w] = "stream"
    /\ Goto(w, "entry")
    /\ todo' = [todo EXCEPT ![w] = m]
    /\ UNCHANGED <<events, daily, rows, record, held, created>>

\* The loop over log_entry is done.
MessageDone(w) ==
    /\ pc[w] = "entry" /\ todo[w] = << >>
    /\ Goto(w, "stream")
    /\ UNCHANGED <<events, daily, rows, todo, record, held, created>>

\* parse_entry returned None: a warning, and on to the next entry.
SkipEntry(w) ==
    /\ pc[w] = "entry" /\ todo[w] # << >> /\ Head(todo[w]) = None
    /\ todo' = [todo EXCEPT ![w] = Tail(@)]
    /\ UNCHANGED <<events, daily, rows, pc, record, held, created>>

\* parse_entry returned a record: record_usage(record) begins.
TakeEntry(w) ==
    /\ pc[w] = "entry" /\ todo[w] # << >> /\ Head(todo[w]) # None
    /\ Goto(w, "insert")
    /\ todo' = [todo EXCEPT ![w] = Tail(@)]
    /\ record' = [record EXCEPT ![w] = Head(todo[w])]
    /\ UNCHANGED <<events, daily, rows, held, created>>

-----------------------------------------------------------------------------
(* record_usage                                                            *)

\* A duplicate check that does not wait for an open transaction.
Refused_WhenLocked(w) == IsRecorded(record[w]) \/ record[w] \in Unstorable \/ EventLocked(w)

\* The INSERT breaks a constraint: the request id already has a row, or a CHECK
\* constraint refuses the record.
Refused(w) == IsRecorded(record[w]) \/ record[w] \in Unstorable

\* UsageEvent.objects.create raises IntegrityError, the savepoint is rolled back and
\* record_usage returns False.
RejectEvent(w) ==
    /\ pc[w] = "insert"
    /\ Refused(w)
    /\ Return(w)
    /\ UNCHANGED <<events, daily, rows, todo>>

\* UsageEvent.objects.create succeeds inside its savepoint.
InsertEvent(w) ==
    /\ pc[w] = "insert"
    /\ ~ Refused(w) /\ ~ EventLocked(w)
    /\ Goto(w, "get")
    /\ UNCHANGED <<events, daily, rows, todo, record, held, created>>

\* get_or_create first tries to get the row; a row somebody else has not
\* committed yet is not there.
GetDaily(w) ==
    /\ pc[w] = "get"
    /\ IF record[w].identity \in rows
       THEN /\ Goto(w, "update")
            /\ held' = [held EXCEPT ![w] = daily[record[w].identity]]
       ELSE /\ Goto(w, "create")
            /\ UNCHANGED held
    /\ UNCHANGED <<events, daily, rows, todo, record, created>>

\* get_or_create inserts the row with the defaults, or meets the row another
\* transaction committed since GetDaily.
CreateDaily(w) ==
    /\ pc[w] = "create"
    /\ ~ RowBeingCreated(w)
    /\ IF record[w].identity \in rows
       THEN /\ Goto(w, "reget")
            /\ UNCHANGED <<held, created>>
       ELSE /\ Goto(w, "commit")
            /\ held' = [held EXCEPT ![w] = Charge(NoUse, record[w])]
            /\ created' = [created EXCEPT ![w] = TRUE]
    /\ UNCHANGED <<events, daily, rows, todo, record>>

\* After the IntegrityError of its INSERT get_or_create gets the row again; it
\* raises if the row is not there (then Fail is the step).
RegetDaily(w) ==
    /\ pc[w] = "reget"
    /\ record[w].identity \in rows
    /\ Goto(w, "update")
    /\ held' = [held EXCEPT ![w] = daily[record[w].identity]]
    /\ UNCHANGED <<events, daily, rows, todo, record, created>>

\* A read-modify-write: daily.token_count += record.token_count; daily.save().
Incremented_InPython(w) == Charge(held[w], record[w])

\* UPDATE ... SET token_count = token_count + n: computed by the database from the row's
\* last committed version.
Incremented(w) == Charge(daily[record[w].identity], record[w])

\* The UPDATE, once it has the row lock.
UpdateDaily(w) ==
    /\ pc[w] = "update"
    /\ ~ RowLocked(w)
    /\ Goto(w, "commit")
    /\ held' = [held EXCEPT ![w] = Incremented(w)]
    /\ UNCHANGED <<events, daily, rows, todo, record, created>>

\* The outer atomic block commits; record_usage returns True.
Commit(w) ==
    /\ pc[w] = "commit"
    /\ events' = events \cup {record[w]}
    /\ rows' = rows \cup {record[w].identity}
    /\ daily' = [daily EXCEPT ![record[w].identity] = held[w]]
    /\ Return(w)
    /\ UNCHANGED todo

\* An event that is committed by itself, before the daily row.
RolledBack_Daily(w) ==
    events' = events \cup (IF HasInserted(w) THEN {record[w]} ELSE {}) /\ UNCHANGED <<daily, rows>>

\* The end of an open transaction's connection.
RolledBack(w) == UNCHANGED dbVars

\* Anything else ends the stream, wherever the worker is: an exception that is not
\* an IntegrityError (a lost connection, a value the column cannot hold), or the
\* death of the thread's process.  The open transaction is rolled back and the
\* rest of the message is lost; the worker then serves the stream Envoy reopens.
Fail(w) ==
    /\ pc[w] # "stream"
    /\ Goto(w, "stream")
    /\ todo' = [todo EXCEPT ![w] = << >>]
    /\ Forget(w)
    /\ RolledBack(w)

-----------------------------------------------------------------------------

Step(w) ==
    \/ MessageDone(w) \/ SkipEntry(w) \/ TakeEntry(w)
    \/ RejectEvent(w) \/ InsertEvent(w)
    \/ GetDaily(w) \/ CreateDaily(w) \/ RegetDaily(w) \/ UpdateDaily(w)
    \/ Commit(w)

Next ==
    \E w \in Workers :
        \/ \E m \in Messages : Receive(w, m)
        \/ Step(w)
        \/ Fail(w)

\* A thread goes on with the message it has.  The three statements that may wait
\* for another transaction get strong fairness: PostgreSQL grants a lock to its
\* waiters in the order of arrival, so a waiter is not overtaken for ever.
\* Nothing makes a message arrive or a failure happen.
Fairness ==
    \A w \in Workers :
        /\ WF_vars(Step(w))
        /\ SF_vars(InsertEvent(w))
        /\ SF_vars(CreateDaily(w))
        /\ SF_vars(UpdateDaily(w))

Spec == Init /\ [][Next]_vars
FairSpec == Spec /\ Fairness

-----------------------------------------------------------------------------
(* Properties                                                              *)

\* The daily aggregate of service.py:46-61 is the aggregate of the event table:
\* every committed event is charged once, to the row of its identity, and no row
\* is charged with anything else or exists without a charge.
AggregateMatchesEvents ==
    /\ \A k \in Identities, r \in Records :
           daily[k][r] = IF r \in events /\ r.identity = k THEN 1 ELSE 0
    /\ rows = {e.identity : e \in events}

\* "exactly once": a request id never has two event rows, however often and on
\* however many streams it is delivered (service.py:29-44).
OneEventPerRequest ==
    \A d, e \in events : d.request_id = e.request_id => d = e

\* What the locks of the open transactions guarantee, and what makes the two
\* properties above inductive: no two open transactions hold the same event key or
\* the same daily row, no open event is committed already, and what Commit will
\* write is the row's committed version charged with this one record.
NoSharedKeys ==
    \A v, w \in Workers :
        v # w /\ HasInserted(v) /\ HasInserted(w)
            => record[v].request_id # record[w].request_id

NoSharedRows ==
    \A v, w \in Workers :
        v # w /\ pc[v] = "commit" /\ pc[w] = "commit"
            => record[v].identity # record[w].identity

OpenEventIsNew == \A w \in Workers : HasInserted(w) => ~ IsRecorded(record[w])

HeldVersionIsCurrent ==
    \A w \in Workers :
        LET k == record[w].identity
        IN  /\ pc[w] \in {"reget", "update"} => k \in rows
            /\ pc[w] = "commit" => held[w] = Charge(daily[k], record[w])
            /\ pc[w] = "commit" => (created[w] <=> k \notin rows)
            /\ created[w] => pc[w] = "commit"

LockInvariant ==
    NoSharedKeys /\ NoSharedRows /\ OpenEventIsNew /\ HeldVersionIsCurrent

\* record_usage returns to the loop only when the request is in the ledger: a
\* duplicate is refused only if the first delivery is committed, never because
\* of one that is still open and may roll back (the one exception is a record
\* the table cannot store).
ReturnsOnlyWhenBooked ==
    [][\A w \in Workers :
          pc[w] \notin {"stream", "entry"} /\ pc'[w] = "entry"
              => \/ record[w] \in Unstorable
                 \/ \E e \in events' : e.request_id = record[w].request_id]_vars

\* No worker waits for ever on the locks of record_usage: every message a
\* receiver has begun ends.
EveryMessageEnds ==
    \A w \in Workers : pc[w] # "stream" ~> pc[w] = "stream"

\* The receiver implements the ledger.
LedgerImplemented == LedgerSpec
==============================================================================
