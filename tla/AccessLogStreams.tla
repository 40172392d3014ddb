--------------------------- MODULE AccessLogStreams ---------------------------
(***************************************************************************)
(* One receiver process (apps/usage/receiver.py): Envoy's access log       *)
(* streams compete for the threads of its pool, and AccessLogService       *)
(* (apps/usage/als.py) parses the entries of their messages and books      *)
(* them.  A thread serves one stream until that stream ends.               *)
(*                                                                         *)
(* record_usage is one step here, with the numbers and the columns of its  *)
(* two tables; UsageRecording has its statements, its locks and its other  *)
(* processes.  Texts are model values after strip(); a number_value is     *)
(* counted in halves, so that fractions exist.                             *)
(***************************************************************************)
EXTENDS Integers, FiniteSets, SequencesExt

CONSTANTS Streams,      \* connections that Envoy may open
          MaxWorkers,   \* max_workers()
          Messages,     \* the log entries of the messages; << >> without http_logs
          Texts,        \* contents of headers and fields
          TooLong,      \* those that no column holds
          Blank,        \* an absent or empty text
          NaN,          \* text that int() refuses; an infinite or NaN double
          MaxBigInt,    \* the largest value of a bigint column
          LastDay,      \* bound on the calendar
          NULL

TokenValues == [kind : {"absent", "number", "string", "other"}, value : Int \cup {NaN}]

Days == 0..LastDay

Entries == [request_id : Texts \cup {Blank}, user : Texts \cup {Blank},
            project : Texts \cup {Blank}, project_id : Int \cup {NaN},
            model : Texts \cup {Blank}, route : Texts \cup {Blank},
            tokens : TokenValues, start_time : Days \cup {NULL}]

\* UsageRecord.
Records == [request_id : Texts, user : Texts, project_identifier : Int,
            shortcut : Texts, model : Texts, route : Texts \cup {Blank},
            token_count : Nat, day : Days]

ASSUME StreamsAssumption ==
    /\ Messages \subseteq Seq(Entries)
    /\ MaxWorkers \in Nat \ {0}         \* max_workers() raises otherwise
    /\ MaxBigInt \in Nat /\ LastDay \in Nat
    /\ TooLong \subseteq Texts /\ Blank \notin Texts /\ NaN \notin Int
    /\ NULL \notin Int \cup Records

VARIABLES phase,        \* of each stream
          queue,        \* streams that wait for a thread, in order
          idle,         \* threads without a stream
          message,      \* the message each stream is in
          at,           \* the position of the entry it handles next
          events,       \* rows of UsageEvent
          daily,        \* rows of DailyUsage: identity -> counters
          tables,       \* has the usage app been migrated?
          today         \* the UTC day

vars == <<phase, queue, idle, message, at, events, daily, tables, today>>

Init ==
    /\ phase = [s \in Streams |-> "closed"]
    /\ queue = << >>
    /\ idle = MaxWorkers
    /\ message = [s \in Streams |-> << >>]
    /\ at = [s \in Streams |-> 1]
    /\ events = {}
    /\ daily = << >>
    /\ tables \in BOOLEAN
    /\ today = 0

-----------------------------------------------------------------------------
(* parse_entry                                                             *)

\* int() of a fraction, which drops it.
_token_count_Truncates(t) ==
    IF t.value = NaN \/ t.kind \in {"absent", "other"} \/ t.value < 0 THEN NULL
    ELSE IF t.kind = "string" THEN t.value ELSE t.value \div 2

_token_count(t) ==
    IF t.value = NaN \/ t.kind \in {"absent", "other"} \/ t.value < 0 THEN NULL
    ELSE IF t.kind = "string" THEN t.value
    ELSE IF t.value % 2 = 0 THEN t.value \div 2
    ELSE NULL

Model(e) == IF e.model # Blank THEN e.model ELSE e.route

Incomplete(e) ==
    \/ Blank \in {e.request_id, e.user, e.project, Model(e)}
    \/ _token_count(e.tokens) = NULL
    \/ e.project_id = NaN

\* The record of an entry that arrives on a day, or NULL.
parse_entry(e, now) ==
    IF Incomplete(e) THEN NULL
    ELSE [request_id |-> e.request_id, user |-> e.user,
          project_identifier |-> e.project_id, shortcut |-> e.project,
          model |-> Model(e), route |-> e.route,
          token_count |-> _token_count(e.tokens),
          day |-> IF e.start_time # NULL THEN e.start_time ELSE now]

-----------------------------------------------------------------------------
(* record_usage and its tables                                             *)

IdentityOf(r) ==
    <<r.day, r.user, r.project_identifier, r.shortcut, r.model>>

\* Counters that start again with every record.
Counters_Defaults(k) == [token_count |-> 0, request_count |-> 0]

Counters(k) ==
    IF k \in DOMAIN daily THEN daily[k] ELSE [token_count |-> 0, request_count |-> 0]

\* The columns of UsageEvent hold the record; otherwise PostgreSQL raises a DataError,
\* which is not an IntegrityError.
Storable(r) ==
    /\ {r.request_id, r.user, r.shortcut, r.model, r.route} \cap TooLong = {}
    /\ r.project_identifier \in (-MaxBigInt - 1)..MaxBigInt
    /\ r.token_count <= MaxBigInt

\* A daily row without the bound of its column.
TotalFits_Unbounded(r) == TRUE

\* The column of DailyUsage holds the new total; otherwise a DataError as well.
TotalFits(r) == Counters(IdentityOf(r)).token_count + r.token_count <= MaxBigInt

IsRecorded(id) == \E e \in events : e.request_id = id

\* The unique request id, or the CHECK of a positive integer column.
BreaksConstraint(r) == IsRecorded(r.request_id) \/ r.project_identifier < 0

Charge(r) ==
    LET k == IdentityOf(r)
        row == [token_count |-> Counters(k).token_count + r.token_count,
                request_count |-> Counters(k).request_count + 1]
    IN  daily' = [i \in DOMAIN daily \cup {k} |-> IF i = k THEN row ELSE daily[i]]

-----------------------------------------------------------------------------
(* The pool and the streams                                                *)

Goto(s, label) == phase' = [phase EXCEPT ![s] = label]

\* The entry that a stream's thread handles now.
Handling(s) == phase[s] = "message" /\ at[s] <= Len(message[s])
Entry(s) == message[s][at[s]]

\* Envoy opens a stream: its handler is submitted to the pool.
OpenStream(s) ==
    /\ phase[s] = "closed"
    /\ Goto(s, "queued")
    /\ queue' = Append(queue, s)
    /\ UNCHANGED <<idle, message, at, events, daily, tables, today>>

\* A free thread takes the first handler.
ServeStream ==
    /\ queue # << >> /\ idle > 0
    /\ Goto(Head(queue), "open")
    /\ queue' = Tail(queue)
    /\ idle' = idle - 1
    /\ UNCHANGED <<message, at, events, daily, tables, today>>

\* Envoy ends a stream: StreamAccessLogs returns.  If no thread has it yet, its
\* handler will find nothing to read; it is taken out of the queue.
CloseStream(s) ==
    /\ phase[s] \in {"queued", "open"}
    /\ Goto(s, "closed")
    /\ queue' = RemoveFirst(queue, s)
    /\ idle' = IF phase[s] = "open" THEN idle + 1 ELSE idle
    /\ UNCHANGED <<message, at, events, daily, tables, today>>

ReceiveMessage(s, m) ==
    /\ phase[s] = "open"
    /\ Goto(s, "message")
    /\ message' = [message EXCEPT ![s] = m]
    /\ at' = [at EXCEPT ![s] = 1]
    /\ UNCHANGED <<queue, idle, events, daily, tables, today>>

MessageDone(s) ==
    /\ phase[s] = "message" /\ at[s] > Len(message[s])
    /\ Goto(s, "open")
    /\ message' = [message EXCEPT ![s] = << >>]
    /\ at' = [at EXCEPT ![s] = 1]
    /\ UNCHANGED <<queue, idle, events, daily, tables, today>>

\* A return where the loop has a continue.
Continue_Returns(s) == at' = [at EXCEPT ![s] = Len(message[s]) + 1]

Continue(s) == at' = [at EXCEPT ![s] = @ + 1]

SkipEntry(s) ==
    /\ Handling(s) /\ parse_entry(Entry(s), today) = NULL
    /\ Continue(s)
    /\ UNCHANGED <<phase, queue, idle, message, events, daily, tables, today>>

BookEntry(s) ==
    /\ Handling(s) /\ tables
    /\ LET r == parse_entry(Entry(s), today)
       IN  /\ r # NULL
           /\ Storable(r) /\ ~ BreaksConstraint(r) /\ TotalFits(r)
           /\ events' = events \cup {r}
           /\ Charge(r)
    /\ Continue(s)
    /\ UNCHANGED <<phase, queue, idle, message, tables, today>>

\* An IntegrityError: record_usage returns False.
RefuseEntry(s) ==
    /\ Handling(s) /\ tables
    /\ LET r == parse_entry(Entry(s), today)
       IN  r # NULL /\ Storable(r) /\ BreaksConstraint(r)
    /\ Continue(s)
    /\ UNCHANGED <<phase, queue, idle, message, events, daily, tables, today>>

\* A thread that does not return from a stream that fails.
FreeThread_Never == UNCHANGED idle

FreeThread == idle' = idle + 1

\* Any other exception, anywhere in a message, ends its stream: a DataError, missing
\* tables, a lost connection.  What is left of the message is lost.
AbortStream(s) ==
    /\ phase[s] = "message"
    /\ Goto(s, "closed")
    /\ message' = [message EXCEPT ![s] = << >>]
    /\ at' = [at EXCEPT ![s] = 1]
    /\ FreeThread
    /\ UNCHANGED <<queue, events, daily, tables, today>>

\* The receiver's container is killed and starts again.
Restart ==
    /\ phase' = [s \in Streams |-> "closed"]
    /\ queue' = << >>
    /\ idle' = MaxWorkers
    /\ message' = [s \in Streams |-> << >>]
    /\ at' = [s \in Streams |-> 1]
    /\ UNCHANGED <<events, daily, tables, today>>

\* The web container of some pod migrates the database; the receiver does not wait.
Migrate ==
    /\ ~ tables /\ tables' = TRUE
    /\ UNCHANGED <<phase, queue, idle, message, at, events, daily, today>>

Midnight ==
    /\ today < LastDay
    /\ today' = today + 1
    /\ UNCHANGED <<phase, queue, idle, message, at, events, daily, tables>>

-----------------------------------------------------------------------------

HandleEntry(s) == SkipEntry(s) \/ BookEntry(s) \/ RefuseEntry(s)

Next ==
    \/ \E s \in Streams :
          \/ OpenStream(s) \/ CloseStream(s)
          \/ \E m \in Messages : ReceiveMessage(s, m)
          \/ MessageDone(s) \/ HandleEntry(s) \/ AbortStream(s)
    \/ ServeStream \/ Restart \/ Migrate \/ Midnight

Spec == Init /\ [][Next]_vars

\* A free thread takes what the pool's queue holds.
FairSpec == Spec /\ WF_vars(ServeStream)

-----------------------------------------------------------------------------
(* Properties                                                              *)

\* Every thread is either idle or has one of the streams that are not waiting.
Served == {s \in Streams : phase[s] \in {"open", "message"}}

TypeOK ==
    /\ phase \in [Streams -> {"closed", "queued", "open", "message"}]
    /\ \A i \in 1..Len(queue) : phase[queue[i]] = "queued"
    /\ idle \in 0..MaxWorkers
    /\ message \in [Streams -> Messages \cup {<< >>}]
    /\ \A s \in Streams : at[s] \in 1..(Len(message[s]) + 1)
    /\ events \subseteq Records
    /\ \A k \in DOMAIN daily : daily[k].token_count <= MaxBigInt
    /\ tables \in BOOLEAN /\ today \in Days

\* als.py:90-95: a stream that has gone past an entry has not lost it: its request is
\* booked, unless the entry is incomplete or its project id negative.  Incomplete or
\* duplicate entries before it, missing tables and full columns never make the loop
\* go on without it.
HandledEntriesBooked ==
    \A s \in Streams : phase[s] = "message" =>
        \A i \in 1..(at[s] - 1) :
            LET e == message[s][i]
            IN  Incomplete(e) \/ e.project_id < 0 \/ IsRecorded(e.request_id)

\* What Envoy says of a request that used n tokens.
ReportsTokens(t, n) ==
    t \in {[kind |-> "number", value |-> 2 * n], [kind |-> "string", value |-> n]}

\* als.py:24-81: a booked request is one that Envoy reported with all its fields, and
\* its tokens are the whole number that Envoy reported, neither rounded nor wrapped.
BookedAsReported ==
    \A r \in events : \E m \in Messages : \E i \in 1..Len(m) :
        /\ m[i].request_id = r.request_id /\ r.request_id # Blank
        /\ m[i].user = r.user /\ r.user # Blank
        /\ m[i].project = r.shortcut /\ m[i].project_id = r.project_identifier
        /\ r.model \in {m[i].model, m[i].route} \ {Blank}
        /\ ReportsTokens(m[i].tokens, r.token_count)

\* service.py:45-61: the counters that the reports read are the sums of the events, up
\* to the largest value their columns hold, whatever ends a stream in between.
CountersAddUp ==
    /\ DOMAIN daily = {IdentityOf(r) : r \in events}
    /\ \A k \in DOMAIN daily :
          LET charged == {r \in events : IdentityOf(r) = k}
          IN  /\ daily[k].request_count = Cardinality(charged)
              /\ daily[k].token_count = SumFunction([r \in charged |-> r.token_count])

\* README.md:68 "Concurrent ALS streams per receiver": as long as fewer than that many
\* streams are served again and again, none waits for ever.  Streams that end with an
\* exception give their thread back.
StreamsServed ==
    ([]<>(Cardinality(Served) < MaxWorkers))
        => \A s \in Streams : phase[s] = "queued" ~> phase[s] # "queued"
==============================================================================
