------------------------- MODULE AccessLogStreamsProofs -------------------------
(***************************************************************************)
(* One receiver process for every number of streams and threads and every  *)
(* set of messages: a stream that goes on has lost no complete entry, what *)
(* is booked is what Envoy reported, the pool loses no thread, and the     *)
(* stored counters of the daily rows are the sums of the events.           *)
(***************************************************************************)
EXTENDS AccessLogStreams, Sums, SequenceTheorems, TLAPS

\* The part of the types that concerns messages and tables.
StreamTypes ==
    /\ phase \in [Streams -> {"closed", "queued", "open", "message"}]
    /\ message \in [Streams -> Messages \cup {<< >>}]
    /\ at \in [Streams -> Nat \ {0}]
    /\ events \subseteq Records
    /\ today \in Days

\* Where the stream is in its message, an entry of one of the messages.
LEMMA EntryTyped ==
    ASSUME StreamTypes, NEW s \in Streams, Handling(s)
    PROVE  /\ message[s] \in Messages /\ Entry(s) \in Entries
           /\ at[s] \in 1..Len(message[s])
<1>1. message[s] \in Messages \cup {<< >>} /\ at[s] \in Nat \ {0} /\ at[s] <= Len(message[s])
  BY DEF StreamTypes, Handling
<1>2. message[s] # << >>
  BY <1>1
<1>3. message[s] \in Seq(Entries)
  BY <1>1, <1>2, StreamsAssumption DEF StreamsAssumption
<1> QED
  BY <1>1, <1>2, <1>3 DEF Entry

\* als.py:24-40: a count is a natural number, or the entry is incomplete.
LEMMA TokenCountTyped ==
    ASSUME NEW t \in TokenValues, _token_count(t) # NULL
    PROVE  /\ _token_count(t) \in Nat
           /\ ReportsTokens(t, _token_count(t))
<1>1. /\ t.value # NaN /\ t.kind \in {"number", "string"} /\ ~ (t.value < 0)
      /\ t.value \in Int
  BY DEF _token_count, TokenValues
<1>2. CASE t.kind = "string"
  <2>1. _token_count(t) = t.value
    BY <1>1, <1>2 DEF _token_count
  <2>2. t = [kind |-> "string", value |-> t.value]
    BY <1>2 DEF TokenValues
  <2> QED BY <1>1, <2>1, <2>2 DEF ReportsTokens
<1>3. CASE t.kind = "number"
  <2>1. t.value % 2 = 0 /\ _token_count(t) = t.value \div 2
    BY <1>1, <1>3 DEF _token_count
  <2>2. t.value \div 2 \in Nat /\ 2 * (t.value \div 2) = t.value
    BY <1>1, <2>1
  <2>3. t = [kind |-> "number", value |-> t.value]
    BY <1>3 DEF TokenValues
  <2> QED BY <2>1, <2>2, <2>3 DEF ReportsTokens
<1> QED BY <1>1, <1>2, <1>3

\* als.py:43-81: what a record of an entry holds.
LEMMA ParsedEntry ==
    ASSUME NEW e \in Entries, NEW now \in Days, ~ Incomplete(e)
    PROVE  /\ parse_entry(e, now) \in Records /\ parse_entry(e, now) # NULL
           /\ parse_entry(e, now).request_id = e.request_id
           /\ parse_entry(e, now).user = e.user /\ parse_entry(e, now).shortcut = e.project
           /\ parse_entry(e, now).project_identifier = e.project_id
           /\ parse_entry(e, now).model \in {e.model, e.route} \ {Blank}
           /\ ReportsTokens(e.tokens, parse_entry(e, now).token_count)
<1>1. /\ e.request_id \in Texts /\ e.user \in Texts /\ e.project \in Texts
      /\ e.project_id \in Int /\ e.route \in Texts \cup {Blank} /\ e.tokens \in TokenValues
      /\ e.start_time \in Days \cup {NULL}
  BY DEF Incomplete, Entries
<1>2. Model(e) \in Texts /\ Model(e) \in {e.model, e.route} \ {Blank}
  BY DEF Incomplete, Entries, Model
<1>3. _token_count(e.tokens) # NULL
  BY DEF Incomplete
<1>4. _token_count(e.tokens) \in Nat /\ ReportsTokens(e.tokens, _token_count(e.tokens))
  BY <1>1, <1>3, TokenCountTyped
<1>5. (IF e.start_time # NULL THEN e.start_time ELSE now) \in Days
  BY <1>1
<1> DEFINE r == [request_id |-> e.request_id, user |-> e.user,
                 project_identifier |-> e.project_id, shortcut |-> e.project,
                 model |-> Model(e), route |-> e.route,
                 token_count |-> _token_count(e.tokens),
                 day |-> IF e.start_time # NULL THEN e.start_time ELSE now]
<1>6. parse_entry(e, now) = r
  BY DEF parse_entry
<1>7. r \in Records
  BY <1>1, <1>2, <1>4, <1>5 DEF Records
<1>8. r # NULL
  BY <1>7, StreamsAssumption DEF StreamsAssumption
<1> QED
  BY <1>2, <1>4, <1>6, <1>7, <1>8

\* An entry without a record is incomplete.
LEMMA NoRecord ==
    ASSUME NEW e \in Entries, NEW now \in Days, parse_entry(e, now) = NULL
    PROVE  Incomplete(e)
BY ParsedEntry

LEMMA StreamsInitTyped == Init => StreamTypes
BY StreamsAssumption DEF Init, StreamTypes, StreamsAssumption, Days

LEMMA StreamsStepTyped == StreamTypes /\ [Next]_vars => StreamTypes'
<1> SUFFICES ASSUME StreamTypes, [Next]_vars PROVE StreamTypes'
  OBVIOUS
<1> USE DEF StreamTypes, Goto
<1>1. ASSUME NEW s \in Streams, OpenStream(s) \/ CloseStream(s) PROVE StreamTypes'
  BY <1>1 DEF OpenStream, CloseStream
<1>2. ASSUME NEW s \in Streams, NEW m \in Messages, ReceiveMessage(s, m)
      PROVE  StreamTypes'
  BY <1>2 DEF ReceiveMessage
<1>3. ASSUME NEW s \in Streams, MessageDone(s) \/ AbortStream(s) PROVE StreamTypes'
  <2>1. message' = [message EXCEPT ![s] = << >>] /\ at' = [at EXCEPT ![s] = 1]
    BY <1>3 DEF MessageDone, AbortStream
  <2>2. phase' \in [Streams -> {"closed", "queued", "open", "message"}]
    BY <1>3 DEF MessageDone, AbortStream
  <2>3. UNCHANGED <<events, today>>
    BY <1>3 DEF MessageDone, AbortStream
  <2>4. message' \in [Streams -> Messages \cup {<< >>}]
    BY <2>1
  <2>5. at' \in [Streams -> Nat \ {0}]
    BY <2>1
  <2> QED BY <2>2, <2>3, <2>4, <2>5
<1>4. ASSUME NEW s \in Streams, SkipEntry(s) \/ RefuseEntry(s) PROVE StreamTypes'
  BY <1>4 DEF SkipEntry, RefuseEntry, Continue
<1>5. ASSUME NEW s \in Streams, BookEntry(s) PROVE StreamTypes'
  <2>1. Entry(s) \in Entries
    BY <1>5, EntryTyped DEF BookEntry
  <2>2. ~ Incomplete(Entry(s))
    BY <1>5 DEF BookEntry, parse_entry
  <2>3. parse_entry(Entry(s), today) \in Records
    BY <2>1, <2>2, ParsedEntry
  <2> QED BY <1>5, <2>3 DEF BookEntry, Continue
<1>6. CASE ServeStream
  BY <1>6 DEF ServeStream
<1>7. CASE Restart
  BY <1>7 DEF Restart
<1>8. CASE Migrate
  BY <1>8 DEF Migrate
<1>9. CASE Midnight
  <2>1. today + 1 \in Days
    BY <1>9, StreamsAssumption DEF Midnight, StreamsAssumption, Days
  <2> QED BY <1>9, <2>1 DEF Midnight
<1>10. CASE UNCHANGED vars
  BY <1>10 DEF vars
<1> QED
  BY <1>1, <1>2, <1>3, <1>4, <1>5, <1>6, <1>7, <1>8, <1>9, <1>10 DEF Next, HandleEntry

LEMMA StreamTypesHold == Spec => []StreamTypes
  BY StreamsInitTyped, StreamsStepTyped, PTL DEF Spec

-----------------------------------------------------------------------------
(* Nothing is passed over                                                  *)

\* als.py:90-95 for one entry that a stream has gone past.
HandledWell(e) == Incomplete(e) \/ e.project_id < 0 \/ IsRecorded(e.request_id)

\* What is recorded stays recorded.
LEMMA RecordedStays ==
    ASSUME events \subseteq events', NEW e, HandledWell(e)
    PROVE  HandledWell(e)'
BY DEF HandledWell, IsRecorded

\* A stream goes past its entry for one of the three reasons.
LEMMA EntryHandled ==
    ASSUME StreamTypes, NEW s \in Streams, HandleEntry(s), NEW e, e = Entry(s)
    PROVE  HandledWell(e)'
<1>0. Handling(s) /\ e \in Entries /\ today \in Days
  BY EntryTyped DEF HandleEntry, SkipEntry, BookEntry, RefuseEntry, StreamTypes
<1>1. CASE SkipEntry(s)
  BY <1>0, <1>1, NoRecord DEF SkipEntry, HandledWell
<1>2. CASE ~ SkipEntry(s)
  <2>1. parse_entry(e, today) # NULL
    BY <1>2 DEF HandleEntry, BookEntry, RefuseEntry
  <2>2. ~ Incomplete(e)
    BY <2>1 DEF parse_entry
  <2>3. /\ parse_entry(e, today).request_id = e.request_id
        /\ parse_entry(e, today).project_identifier = e.project_id
    BY <1>0, <2>2, ParsedEntry
  <2>4. CASE BookEntry(s)
    BY <2>3, <2>4 DEF BookEntry, HandledWell, IsRecorded
  <2>5. CASE RefuseEntry(s)
    BY <2>3, <2>5 DEF RefuseEntry, BreaksConstraint, HandledWell, IsRecorded
  <2> QED BY <1>2, <2>4, <2>5 DEF HandleEntry
<1> QED BY <1>1, <1>2

\* A step of the receiver that is not the handling of an entry leaves every stream where
\* it is in its message, at the beginning of one, or outside.
LEMMA OtherSteps ==
    ASSUME StreamTypes, [Next]_vars, NEW s \in Streams, ~ HandleEntry(s),
           phase'[s] = "message"
    PROVE  \/ phase[s] = "message" /\ at'[s] = at[s] /\ message'[s] = message[s]
           \/ at'[s] = 1
BY DEF StreamTypes, Next, OpenStream, CloseStream, ReceiveMessage, MessageDone, HandleEntry,
       SkipEntry, BookEntry, RefuseEntry, Continue, AbortStream, ServeStream, Restart,
       Migrate, Midnight, Goto, vars

LEMMA EventsGrow == [Next]_vars => events \subseteq events'
BY DEF Next, OpenStream, CloseStream, ReceiveMessage, MessageDone, HandleEntry, SkipEntry,
       BookEntry, RefuseEntry, AbortStream, ServeStream, Restart, Migrate, Midnight, vars

LEMMA StepKeepsHandled ==
    StreamTypes /\ HandledEntriesBooked /\ [Next]_vars => HandledEntriesBooked'
<1> SUFFICES ASSUME StreamTypes, HandledEntriesBooked, [Next]_vars,
                    NEW s \in Streams, phase'[s] = "message",
                    NEW i \in 1..(at'[s] - 1),
                    NEW e, e = message'[s][i]
             PROVE  HandledWell(e)'
  BY DEF HandledEntriesBooked, HandledWell, IsRecorded
<1>0. events \subseteq events' /\ at[s] \in Nat \ {0} /\ i \in Nat \ {0}
  <2>1. at'[s] \in Nat \ {0}
    BY StreamsStepTyped DEF StreamTypes
  <2> QED BY <2>1, EventsGrow DEF StreamTypes
<1>1. ASSUME phase[s] = "message", message'[s] = message[s], i \in 1..(at[s] - 1)
      PROVE  HandledWell(e)'
  <2>1. HandledWell(e)
    BY <1>1 DEF HandledEntriesBooked, HandledWell
  <2> QED BY <1>0, <2>1, RecordedStays
<1>2. CASE HandleEntry(s)
  <2>1. Handling(s) /\ message'[s] = message[s] /\ at'[s] = at[s] + 1
    BY <1>2 DEF HandleEntry, SkipEntry, BookEntry, RefuseEntry, Continue, StreamTypes
  <2>2. CASE i = at[s]
    <3>1. e = Entry(s)
      BY <2>1, <2>2 DEF Entry
    <3> QED BY <1>2, <3>1, EntryHandled
  <2>3. CASE i # at[s]
    <3>1. i \in 1..(at[s] - 1)
      BY <1>0, <2>1, <2>3
    <3> QED BY <1>1, <2>1, <3>1 DEF Handling
  <2> QED BY <2>2, <2>3
<1>3. CASE ~ HandleEntry(s)
  <2>1. at'[s] # 1
    BY <1>0
  <2>2. phase[s] = "message" /\ at'[s] = at[s] /\ message'[s] = message[s]
    BY <1>3, <2>1, OtherSteps
  <2> QED BY <1>1, <2>2
<1> QED BY <1>2, <1>3

\* als.py:90-95: whatever else is in a message, and whatever happens to other streams, to
\* the tables or to the process, a stream goes past a complete entry only when its
\* request is booked.
THEOREM NoEntryPassedOver == Spec => []HandledEntriesBooked
<1>1. Init => HandledEntriesBooked
  BY DEF Init, HandledEntriesBooked
<1> QED
  BY <1>1, StreamTypesHold, StepKeepsHandled, PTL DEF Spec

-----------------------------------------------------------------------------
(* What is booked                                                          *)

\* A step books the record of an entry of some message, or nothing.
LEMMA BookingStep ==
    ASSUME StreamTypes, [Next]_vars, events' # events
    PROVE  \E m \in Messages : \E i \in 1..Len(m) :
               /\ m[i] \in Entries /\ ~ Incomplete(m[i])
               /\ events' = events \cup {parse_entry(m[i], today)}
<1>1. PICK s \in Streams : BookEntry(s)
  BY DEF Next, OpenStream, CloseStream, ReceiveMessage, MessageDone, HandleEntry, SkipEntry,
         RefuseEntry, AbortStream, ServeStream, Restart, Migrate, Midnight, vars
<1>2. /\ message[s] \in Messages /\ at[s] \in 1..Len(message[s])
      /\ message[s][at[s]] \in Entries
  BY <1>1, EntryTyped DEF BookEntry, Entry
<1>3. ~ Incomplete(Entry(s))
  BY <1>1 DEF BookEntry, parse_entry
<1> QED
  BY <1>1, <1>2, <1>3 DEF BookEntry, Entry

LEMMA StepKeepsReported ==
    StreamTypes /\ BookedAsReported /\ [Next]_vars => BookedAsReported'
<1> SUFFICES ASSUME StreamTypes, BookedAsReported, [Next]_vars PROVE BookedAsReported'
  OBVIOUS
<1>1. CASE events' = events
  BY <1>1 DEF BookedAsReported
<1>2. CASE events' # events
  <2>1. PICK m \in Messages : \E i \in 1..Len(m) :
               /\ m[i] \in Entries /\ ~ Incomplete(m[i])
               /\ events' = events \cup {parse_entry(m[i], today)}
    BY <1>2, BookingStep
  <2>2. PICK i \in 1..Len(m) :
               /\ m[i] \in Entries /\ ~ Incomplete(m[i])
               /\ events' = events \cup {parse_entry(m[i], today)}
    BY <2>1
  <2> DEFINE r == parse_entry(m[i], today)
  <2>3. /\ r \in Records /\ r.request_id = m[i].request_id /\ r.user = m[i].user
        /\ r.shortcut = m[i].project /\ r.project_identifier = m[i].project_id
        /\ r.model \in {m[i].model, m[i].route} \ {Blank}
        /\ ReportsTokens(m[i].tokens, r.token_count)
    BY <2>2, ParsedEntry DEF StreamTypes
  <2>4. r.request_id # Blank /\ r.user # Blank
    BY <2>3, StreamsAssumption DEF Records, StreamsAssumption
  <2>5. events' = events \cup {r}
    BY <2>2
  <2> HIDE DEF r
  <2>6. \A q \in events' : q \in events \/ q = r
    BY <2>5
  <2> QED BY <2>3, <2>4, <2>6 DEF BookedAsReported
<1> QED BY <1>1, <1>2

\* als.py:24-81: every booked request was reported by Envoy with these fields and this
\* whole number of tokens, for any numbers and texts.
THEOREM BookingsAreReports == Spec => []BookedAsReported
<1>1. Init => BookedAsReported
  BY DEF Init, BookedAsReported
<1> QED
  BY <1>1, StreamTypesHold, StepKeepsReported, PTL DEF Spec

-----------------------------------------------------------------------------
(* The pool                                                                *)

\* No element is in the sequence twice.
Distinct(q) == \A i, j \in 1..Len(q) : q[i] = q[j] => i = j

\* A sequence without its element at place i.
LEMMA RemoveFirstAt ==
    ASSUME NEW S, NEW q \in Seq(S), Distinct(q), NEW e, NEW p, p = RemoveFirst(q, e),
           NEW i \in 1..Len(q), q[i] = e
    PROVE  /\ p \in Seq(S) /\ Len(p) = Len(q) - 1
           /\ \A n \in 1..Len(p) : p[n] = IF n < i THEN q[n] ELSE q[n + 1]
<1>1. {j \in 1..Len(q) : q[j] = e} = {i}
  BY DEF Distinct
<1>2. Min({i}) = i
  BY DEF Min
<1>3. SelectInSeq(q, LAMBDA v : v = e) = i
  BY <1>1, <1>2 DEF SelectInSeq
<1>4. p = SubSeq(q, 1, i - 1) \o SubSeq(q, i + 1, Len(q))
  BY <1>3 DEF RemoveFirst, RemoveAt
<1>5. PICK u, v : u = SubSeq(q, 1, i - 1) /\ v = SubSeq(q, i + 1, Len(q))
  OBVIOUS
<1>6. u \in Seq(S) /\ Len(u) = i - 1 /\ \A n \in 1..(i - 1) : u[n] = q[n]
  BY <1>5
<1>7. v \in Seq(S) /\ Len(v) = Len(q) - i /\ \A n \in 1..(Len(q) - i) : v[n] = q[i + n]
  BY <1>5
<1>8. /\ p \in Seq(S) /\ Len(p) = Len(q) - 1
      /\ \A n \in 1..Len(p) : p[n] = IF n <= i - 1 THEN u[n] ELSE v[n - (i - 1)]
  <2>1. p = u \o v
    BY <1>4, <1>5
  <2>2. u \o v \in Seq(S) /\ Len(u \o v) = Len(u) + Len(v)
    BY <1>6, <1>7, ConcatProperties
  <2>3. \A n \in 1..(Len(u) + Len(v)) :
           (u \o v)[n] = IF n <= Len(u) THEN u[n] ELSE v[n - Len(u)]
    BY <1>6, <1>7, ConcatProperties
  <2>4. Len(u) + Len(v) = Len(q) - 1 /\ Len(u) = i - 1
    BY <1>6, <1>7, LenProperties
  <2> QED BY <2>1, <2>2, <2>3, <2>4
<1>9. ASSUME NEW n \in 1..Len(p) PROVE p[n] = IF n < i THEN q[n] ELSE q[n + 1]
  <2>1. CASE n < i
    <3>1. n <= i - 1 /\ n \in 1..(i - 1)
      BY <2>1
    <3> QED BY <1>6, <1>8, <2>1, <3>1
  <2>2. CASE ~ (n < i)
    <3>1. ~ (n <= i - 1) /\ n - (i - 1) \in 1..(Len(q) - i) /\ i + (n - (i - 1)) = n + 1
      BY <1>8, <2>2
    <3> QED BY <1>7, <1>8, <2>2, <3>1
  <2> QED BY <2>1, <2>2
<1> QED BY <1>8, <1>9

\* What is left of a sequence when one of its elements is taken out.
LEMMA RemoveFirstOf ==
    ASSUME NEW S, NEW q \in Seq(S), Distinct(q), NEW e, NEW p, p = RemoveFirst(q, e)
    PROVE  /\ p \in Seq(S) /\ Distinct(p)
           /\ \A i \in 1..Len(p) : p[i] # e /\ \E j \in 1..Len(q) : q[j] = p[i]
           /\ \A j \in 1..Len(q) : q[j] # e => \E i \in 1..Len(p) : p[i] = q[j]
<1>1. CASE \A i \in 1..Len(q) : q[i] # e
  BY <1>1 DEF RemoveFirst
<1>2. ASSUME NEW i \in 1..Len(q), q[i] = e
      PROVE  /\ p \in Seq(S) /\ Len(p) = Len(q) - 1
             /\ \A n \in 1..Len(p) : p[n] = IF n < i THEN q[n] ELSE q[n + 1]
  BY <1>2, RemoveFirstAt
<1>3. ASSUME NEW i \in 1..Len(q), q[i] = e
      PROVE  /\ Distinct(p)
             /\ \A n \in 1..Len(p) : p[n] # e /\ \E j \in 1..Len(q) : q[j] = p[n]
             /\ \A j \in 1..Len(q) : q[j] # e => \E n \in 1..Len(p) : p[n] = q[j]
  <2>1. /\ Len(q) \in Nat /\ Len(p) = Len(q) - 1
        /\ \A n \in 1..Len(p) : p[n] = IF n < i THEN q[n] ELSE q[n + 1]
    BY <1>2, <1>3
  <2>2. \A n \in 1..Len(p) : p[n] # e /\ \E j \in 1..Len(q) : q[j] = p[n]
    BY <1>3, <2>1 DEF Distinct
  <2>3. Distinct(p)
    BY <2>1 DEF Distinct
  <2>4. ASSUME NEW j \in 1..Len(q), q[j] # e PROVE \E n \in 1..Len(p) : p[n] = q[j]
    <3>1. CASE j < i
      BY <2>1, <3>1
    <3>2. CASE j > i
      <4>1. j - 1 \in 1..Len(p) /\ p[j - 1] = q[j]
        BY <2>1, <3>2
      <4> QED BY <4>1
    <3> QED BY <1>3, <2>4, <3>1, <3>2
  <2> QED BY <2>2, <2>3, <2>4
<1> QED BY <1>1, <1>2, <1>3

\* The queue holds the streams that wait, each once; a thread is idle or has one of the
\* streams that are served.
PoolInvariant ==
    /\ queue \in Seq(Streams) /\ Distinct(queue)
    /\ \A i \in 1..Len(queue) : phase[queue[i]] = "queued"
    /\ \A s \in Streams : phase[s] = "queued" => \E i \in 1..Len(queue) : queue[i] = s
    /\ IsFiniteSet(Served) /\ idle \in Nat
    /\ idle + Cardinality(Served) = MaxWorkers

LEMMA PoolInit == Init => PoolInvariant
<1> SUFFICES ASSUME Init PROVE PoolInvariant
  OBVIOUS
<1>1. queue = << >> /\ Served = {}
  BY DEF Init, Served
<1>2. Len(queue) = 0 /\ queue \in Seq(Streams)
  BY <1>1
<1>3. IsFiniteSet(Served) /\ Cardinality(Served) = 0
  BY <1>1, FS_EmptySet
<1> QED
  BY <1>2, <1>3, StreamsAssumption
     DEF Init, PoolInvariant, Distinct, StreamsAssumption

\* How the number of served streams changes with the phase of one stream.
LEMMA ServedGrows ==
    ASSUME StreamTypes, IsFiniteSet(Served), NEW s \in Streams, s \notin Served,
           phase' = [phase EXCEPT ![s] = "open"]
    PROVE  IsFiniteSet(Served') /\ Cardinality(Served') = Cardinality(Served) + 1
<1>1. Served' = Served \cup {s}
  BY DEF Served, StreamTypes
<1> HIDE DEF Served
<1> QED BY <1>1, FS_AddElement

LEMMA ServedShrinks ==
    ASSUME StreamTypes, IsFiniteSet(Served), NEW s \in Streams, s \in Served,
           phase' = [phase EXCEPT ![s] = "closed"]
    PROVE  IsFiniteSet(Served') /\ Cardinality(Served') = Cardinality(Served) - 1
<1>1. Served' = Served \ {s}
  BY DEF Served, StreamTypes
<1> HIDE DEF Served
<1> QED BY <1>1, FS_RemoveElement

LEMMA ServedStays ==
    ASSUME StreamTypes, NEW s \in Streams, NEW label,
           \/ s \in Served /\ label \in {"open", "message"}
           \/ s \notin Served /\ label \in {"closed", "queued"},
           phase' = [phase EXCEPT ![s] = label]
    PROVE  Served' = Served
BY DEF Served, StreamTypes

\* The two counts stay together when one goes up and the other down.
LEMMA StepKeepsPool == StreamTypes /\ PoolInvariant /\ [Next]_vars => PoolInvariant'
<1> SUFFICES ASSUME StreamTypes, PoolInvariant, [Next]_vars PROVE PoolInvariant'
  OBVIOUS
<1>0. /\ queue \in Seq(Streams) /\ Len(queue) \in Nat /\ IsFiniteSet(Served)
      /\ idle \in Nat /\ Cardinality(Served) \in Nat
      /\ idle + Cardinality(Served) = MaxWorkers
      /\ MaxWorkers \in Nat
  BY FS_CardinalityType, StreamsAssumption DEF PoolInvariant, StreamsAssumption
<1>1. ASSUME NEW s \in Streams, OpenStream(s) PROVE PoolInvariant'
  <2>1. /\ phase[s] = "closed" /\ phase' = [phase EXCEPT ![s] = "queued"]
        /\ queue' = Append(queue, s) /\ idle' = idle /\ s \notin Served
    BY <1>1 DEF OpenStream, Goto, Served
  <2>2. Served' = Served
    BY <2>1, ServedStays
  <2>3. /\ queue' \in Seq(Streams) /\ Len(queue') = Len(queue) + 1
        /\ queue'[Len(queue) + 1] = s /\ \A i \in 1..Len(queue) : queue'[i] = queue[i]
    BY <1>0, <2>1
  <2>4. \A i \in 1..Len(queue) : queue[i] \in Streams /\ queue[i] # s
    BY <1>0, <2>1 DEF PoolInvariant
  <2>5. Distinct(queue')
    BY <1>0, <2>3, <2>4 DEF PoolInvariant, Distinct
  <2>6. \A i \in 1..Len(queue') : phase'[queue'[i]] = "queued"
    BY <1>0, <2>1, <2>3, <2>4 DEF PoolInvariant, StreamTypes
  <2>7. ASSUME NEW t \in Streams, phase'[t] = "queued"
        PROVE  \E i \in 1..Len(queue') : queue'[i] = t
    <3>1. CASE t = s
      BY <1>0, <2>3, <3>1
    <3>2. CASE t # s
      BY <1>0, <2>1, <2>3, <2>7, <3>2 DEF PoolInvariant, StreamTypes
    <3> QED BY <3>1, <3>2
  <2> QED BY <1>0, <2>1, <2>2, <2>3, <2>5, <2>6, <2>7 DEF PoolInvariant
<1>2. ASSUME NEW s \in Streams, CloseStream(s) PROVE PoolInvariant'
  <2>1. /\ phase[s] \in {"queued", "open"} /\ phase' = [phase EXCEPT ![s] = "closed"]
        /\ queue' = RemoveFirst(queue, s)
        /\ idle' = IF phase[s] = "open" THEN idle + 1 ELSE idle
    BY <1>2 DEF CloseStream, Goto
  <2>2. /\ queue' \in Seq(Streams) /\ Distinct(queue')
        /\ \A i \in 1..Len(queue') : queue'[i] # s /\ \E j \in 1..Len(queue) : queue[j] = queue'[i]
        /\ \A j \in 1..Len(queue) : queue[j] # s => \E i \in 1..Len(queue') : queue'[i] = queue[j]
    BY <2>1, RemoveFirstOf DEF PoolInvariant
  <2>3. \A i \in 1..Len(queue') : phase'[queue'[i]] = "queued"
    <3> SUFFICES ASSUME NEW i \in 1..Len(queue') PROVE phase'[queue'[i]] = "queued"
      OBVIOUS
    <3>1. PICK j \in 1..Len(queue) : queue[j] = queue'[i] /\ queue[j] # s
      BY <2>2
    <3>2. queue[j] \in Streams /\ phase[queue[j]] = "queued"
      BY <1>0 DEF PoolInvariant
    <3> QED BY <2>1, <3>1, <3>2 DEF StreamTypes
  <2>4. ASSUME NEW t \in Streams, phase'[t] = "queued"
        PROVE  \E i \in 1..Len(queue') : queue'[i] = t
    <3>1. t # s /\ phase[t] = "queued"
      BY <2>1, <2>4 DEF StreamTypes
    <3>2. PICK j \in 1..Len(queue) : queue[j] = t
      BY <3>1 DEF PoolInvariant
    <3> QED BY <2>2, <3>1, <3>2
  <2>5. IsFiniteSet(Served') /\ idle' \in Nat /\ idle' + Cardinality(Served') = MaxWorkers
    <3>1. CASE phase[s] = "open"
      <4>1. s \in Served
        BY <3>1 DEF Served
      <4>2. IsFiniteSet(Served') /\ Cardinality(Served') = Cardinality(Served) - 1
        BY <1>0, <2>1, <4>1, ServedShrinks
      <4> QED BY <1>0, <2>1, <3>1, <4>2
    <3>2. CASE phase[s] # "open"
      <4>1. s \notin Served
        BY <2>1, <3>2 DEF Served
      <4>2. Served' = Served
        BY <2>1, <4>1, ServedStays
      <4> QED BY <1>0, <2>1, <3>2, <4>2
    <3> QED BY <3>1, <3>2
  <2> QED BY <2>2, <2>3, <2>4, <2>5 DEF PoolInvariant
<1>3. CASE ServeStream
  <2>0. PICK s : s = Head(queue)
    OBVIOUS
  <2>1. /\ queue # << >> /\ idle > 0 /\ phase' = [phase EXCEPT ![s] = "open"]
        /\ queue' = Tail(queue) /\ idle' = idle - 1
    BY <1>3, <2>0 DEF ServeStream, Goto
  <2>2. /\ Len(queue) >= 1 /\ s = queue[1] /\ s \in Streams
        /\ queue' \in Seq(Streams) /\ Len(queue') = Len(queue) - 1
        /\ \A i \in 1..Len(queue') : queue'[i] = queue[i + 1]
    BY <1>0, <2>0, <2>1, HeadTailProperties, LenProperties
  <2>3. phase[s] = "queued" /\ s \notin Served
    BY <1>0, <2>2 DEF PoolInvariant, Served
  <2>4. \A i \in 1..Len(queue') : i + 1 \in 1..Len(queue) /\ queue'[i] # s /\ queue'[i] \in Streams
    BY <1>0, <2>2 DEF PoolInvariant, Distinct
  <2>5. Distinct(queue')
    BY <1>0, <2>2, <2>4 DEF PoolInvariant, Distinct
  <2>6. \A i \in 1..Len(queue') : phase'[queue'[i]] = "queued"
    BY <2>1, <2>2, <2>4 DEF PoolInvariant, StreamTypes
  <2>7. ASSUME NEW t \in Streams, phase'[t] = "queued"
        PROVE  \E i \in 1..Len(queue') : queue'[i] = t
    <3>1. t # s /\ phase[t] = "queued"
      BY <2>1, <2>2, <2>7 DEF StreamTypes
    <3>2. PICK j \in 1..Len(queue) : queue[j] = t
      BY <3>1 DEF PoolInvariant
    <3>3. j - 1 \in 1..Len(queue') /\ queue'[j - 1] = t
      BY <1>0, <2>2, <3>1, <3>2
    <3> QED BY <3>3
  <2>8. IsFiniteSet(Served') /\ Cardinality(Served') = Cardinality(Served) + 1
    <3>1. s \in Streams /\ s \notin Served
      BY <2>2, <2>3
    <3>2. phase' = [phase EXCEPT ![s] = "open"]
      BY <2>1
    <3> QED BY <1>0, <3>1, <3>2, ServedGrows
  <2>9. idle' \in Nat /\ idle' + Cardinality(Served') = MaxWorkers
    BY <1>0, <2>1, <2>8
  <2> QED BY <2>2, <2>5, <2>6, <2>7, <2>8, <2>9 DEF PoolInvariant
<1>4. ASSUME NEW s \in Streams, NEW label \in {"open", "message"}, s \in Served,
             phase' = [phase EXCEPT ![s] = label], UNCHANGED <<queue, idle>>
      PROVE  PoolInvariant'
  <2>1. Served' = Served
    BY <1>4 DEF Served, StreamTypes
  <2>2. \A t \in Streams : phase'[t] = "queued" <=> phase[t] = "queued"
    BY <1>4 DEF Served, StreamTypes
  <2>3. \A i \in 1..Len(queue) : queue[i] \in Streams
    BY <1>0
  <2> QED BY <1>0, <1>4, <2>1, <2>2, <2>3 DEF PoolInvariant
<1>5. ASSUME NEW s \in Streams, (\E m \in Messages : ReceiveMessage(s, m)) \/ MessageDone(s)
      PROVE  PoolInvariant'
  <2>1. CASE \E m \in Messages : ReceiveMessage(s, m)
    BY <1>4, <2>1 DEF ReceiveMessage, Goto, Served
  <2>2. CASE MessageDone(s)
    BY <1>4, <2>2 DEF MessageDone, Goto, Served
  <2> QED BY <1>5, <2>1, <2>2
<1>6. ASSUME NEW s \in Streams, AbortStream(s) PROVE PoolInvariant'
  <2>1. /\ s \in Served /\ phase[s] = "message" /\ phase' = [phase EXCEPT ![s] = "closed"]
        /\ queue' = queue /\ idle' = idle + 1
    BY <1>6 DEF AbortStream, FreeThread, Goto, Served
  <2>2. IsFiniteSet(Served') /\ Cardinality(Served') = Cardinality(Served) - 1
    BY <1>0, <2>1, ServedShrinks
  <2>3. \A t \in Streams : phase'[t] = "queued" <=> phase[t] = "queued"
    BY <2>1 DEF StreamTypes
  <2>4. \A i \in 1..Len(queue) : queue[i] \in Streams
    BY <1>0
  <2> QED BY <1>0, <2>1, <2>2, <2>3, <2>4 DEF PoolInvariant
<1>7. CASE Restart
  <2>1. queue' = << >> /\ Served' = {} /\ idle' = MaxWorkers
    BY <1>7 DEF Restart, Served
  <2>2. Len(queue') = 0 /\ queue' \in Seq(Streams) /\ \A t \in Streams : phase'[t] = "closed"
    BY <1>7, <2>1 DEF Restart
  <2>3. IsFiniteSet(Served') /\ Cardinality(Served') = 0
    BY <2>1, FS_EmptySet
  <2> QED BY <1>0, <2>1, <2>2, <2>3 DEF PoolInvariant, Distinct
<1>8. CASE UNCHANGED <<phase, queue, idle>>
  <2>1. Served' = Served
    BY <1>8 DEF Served
  <2> QED BY <1>8, <2>1 DEF PoolInvariant
<1>9. ASSUME NEW s \in Streams, HandleEntry(s) PROVE UNCHANGED <<phase, queue, idle>>
  BY <1>9 DEF HandleEntry, SkipEntry, BookEntry, RefuseEntry
<1>10. Migrate \/ Midnight \/ UNCHANGED vars => UNCHANGED <<phase, queue, idle>>
  BY DEF Migrate, Midnight, vars
<1> QED
  BY <1>1, <1>2, <1>3, <1>5, <1>6, <1>7, <1>8, <1>9, <1>10 DEF Next


LEMMA PoolHolds == Spec => []PoolInvariant
  BY PoolInit, StepKeepsPool, StreamTypesHold, PTL DEF Spec

\* A stream is never past the end of its message.
InPlace == \A s \in Streams : at[s] <= Len(message[s]) + 1

LEMMA StepKeepsPlace == StreamTypes /\ InPlace /\ [Next]_vars => InPlace'
<1> SUFFICES ASSUME StreamTypes, InPlace, [Next]_vars, NEW s \in Streams
             PROVE  at'[s] <= Len(message'[s]) + 1
  BY DEF InPlace
<1>0. StreamTypes' /\ at[s] \in Nat /\ at[s] <= Len(message[s]) + 1
  BY StreamsStepTyped DEF StreamTypes, InPlace
<1>1. Len(message'[s]) \in Nat
  <2>1. message'[s] \in Messages \/ message'[s] = << >>
    BY <1>0 DEF StreamTypes
  <2> QED BY <2>1, StreamsAssumption DEF StreamsAssumption
<1>2. CASE at'[s] = 1
  BY <1>1, <1>2
<1>3. CASE at'[s] = at[s] /\ message'[s] = message[s]
  BY <1>0, <1>3
<1>4. CASE HandleEntry(s)
  <2>1. at[s] <= Len(message[s]) /\ message' = message /\ at'[s] = at[s] + 1
    BY <1>4 DEF HandleEntry, SkipEntry, BookEntry, RefuseEntry, Handling, Continue, StreamTypes
  <2> QED BY <1>0, <1>1, <2>1
<1>5. at'[s] = 1 \/ (at'[s] = at[s] /\ message'[s] = message[s]) \/ HandleEntry(s)
  BY DEF StreamTypes, Next, OpenStream, CloseStream, ReceiveMessage, MessageDone, HandleEntry,
         SkipEntry, BookEntry, RefuseEntry, Continue, AbortStream, ServeStream, Restart,
         Migrate, Midnight, vars
<1> QED BY <1>2, <1>3, <1>4, <1>5

\* No column of DailyUsage holds more than it can.
ColumnsHold == \A k \in DOMAIN daily : daily[k].token_count <= MaxBigInt

LEMMA StepKeepsColumns == ColumnsHold /\ [Next]_vars => ColumnsHold'
<1> SUFFICES ASSUME ColumnsHold, [Next]_vars PROVE ColumnsHold'
  OBVIOUS
<1>1. CASE daily' = daily
  BY <1>1 DEF ColumnsHold
<1>2. ASSUME NEW s \in Streams, BookEntry(s) PROVE ColumnsHold'
  <2>1. PICK r : r = parse_entry(Entry(s), today)
    OBVIOUS
  <2>2. TotalFits(r) /\ Charge(r)
    BY <1>2, <2>1 DEF BookEntry
  <2> DEFINE k == IdentityOf(r)
             n == Counters(k).token_count + r.token_count
             row == [token_count |-> n, request_count |-> Counters(k).request_count + 1]
  <2>3. n <= MaxBigInt /\ row.token_count = n
    BY <2>2 DEF TotalFits
  <2>4. daily' = [i \in DOMAIN daily \cup {k} |-> IF i = k THEN row ELSE daily[i]]
    BY <2>2 DEF Charge
  <2> HIDE DEF k, n, row
  <2> QED BY <2>3, <2>4 DEF ColumnsHold
<1>3. daily' = daily \/ \E s \in Streams : BookEntry(s)
  BY DEF Next, OpenStream, CloseStream, ReceiveMessage, MessageDone, HandleEntry, SkipEntry,
         RefuseEntry, AbortStream, ServeStream, Restart, Migrate, Midnight, vars
<1> QED BY <1>1, <1>2, <1>3

TablesTyped == tables \in BOOLEAN

\* receiver.py:30, als.py:84-98: the pool never has more or fewer threads than it was
\* made with, what it queues is what waits, and every value stays in its type, for any
\* number of streams and threads and however streams end.
THEOREM PoolTypeCorrect == Spec => [](TypeOK /\ PoolInvariant)
<1>1. Init => InPlace /\ ColumnsHold /\ TablesTyped
  <2> SUFFICES ASSUME Init PROVE InPlace /\ ColumnsHold /\ TablesTyped
    OBVIOUS
  <2>1. InPlace /\ TablesTyped
    BY DEF Init, InPlace, TablesTyped
  <2>2. DOMAIN daily = {}
    BY DEF Init
  <2> QED BY <2>1, <2>2 DEF ColumnsHold
<1>2. TablesTyped /\ [Next]_vars => TablesTyped'
  BY DEF TablesTyped, Next, OpenStream, CloseStream, ReceiveMessage, MessageDone, HandleEntry, SkipEntry,
         BookEntry, RefuseEntry, AbortStream, ServeStream, Restart, Migrate, Midnight, vars
<1>3. StreamTypes /\ PoolInvariant /\ InPlace /\ ColumnsHold /\ TablesTyped => TypeOK
  <2> SUFFICES ASSUME StreamTypes, PoolInvariant, InPlace, ColumnsHold, TablesTyped
               PROVE  TypeOK
    OBVIOUS
  <2>1. idle \in 0..MaxWorkers
    BY FS_CardinalityType, StreamsAssumption DEF PoolInvariant, StreamsAssumption
  <2>2. ASSUME NEW s \in Streams PROVE at[s] \in 1..(Len(message[s]) + 1)
    <3>1. message[s] \in Messages \/ message[s] = << >>
      BY DEF StreamTypes
    <3>2. Len(message[s]) \in Nat
      BY <3>1, StreamsAssumption DEF StreamsAssumption
    <3> QED BY <3>2 DEF StreamTypes, InPlace
  <2> QED BY <2>1, <2>2 DEF TypeOK, StreamTypes, PoolInvariant, ColumnsHold, TablesTyped
<1> QED
  BY <1>1, <1>2, <1>3, StreamTypesHold, PoolHolds, StepKeepsPlace, StepKeepsColumns, PTL
     DEF Spec

-----------------------------------------------------------------------------
(* The counters                                                            *)

\* The events that are charged to a row, and what they have used.
EventsOf(k, rows) == {r \in rows : IdentityOf(r) = k}
TokensOf(rows) == SumFunction([r \in rows |-> r.token_count])

CountersInvariant == IsFiniteSet(events) /\ CountersAddUp

\* Counters that are the sums of their events, for every identity.
LEMMA CountersOf ==
    ASSUME CountersInvariant, NEW k
    PROVE  /\ Counters(k).request_count = Cardinality(EventsOf(k, events))
           /\ Counters(k).token_count = TokensOf(EventsOf(k, events))
<1>1. CASE k \in DOMAIN daily
  BY <1>1 DEF CountersInvariant, CountersAddUp, Counters, EventsOf, TokensOf
<1>2. CASE k \notin DOMAIN daily
  <2>1. EventsOf(k, events) = {}
    BY <1>2 DEF CountersInvariant, CountersAddUp, EventsOf
  <2>2. DOMAIN [r \in {} |-> r.token_count] = {}
    OBVIOUS
  <2>3. TokensOf({}) = 0
    BY <2>2, SumEmpty DEF TokensOf
  <2> QED BY <1>2, <2>1, <2>3, FS_EmptySet DEF Counters
<1> QED BY <1>1, <1>2

\* One more event counts once, with its tokens.
LEMMA OneMoreEvent ==
    ASSUME NEW rows \in SUBSET Records, IsFiniteSet(rows), NEW r \in Records, r \notin rows
    PROVE  /\ Cardinality(rows \cup {r}) = Cardinality(rows) + 1
           /\ TokensOf(rows \cup {r}) = TokensOf(rows) + r.token_count
<1>1. \A q \in rows \cup {r} : q.token_count \in Nat
  BY DEF Records
<1> DEFINE f == [q \in rows |-> q.token_count]
           g == [q \in rows \cup {r} |-> q.token_count]
<1>2. f \in [rows -> Nat] /\ g \in [rows \cup {r} -> Nat]
  BY <1>1
<1>3. (\A q \in rows : g[q] = f[q]) /\ g[r] = r.token_count
  OBVIOUS
<1> HIDE DEF f, g
<1>4. SumFunction(g) = SumFunction(f) + g[r]
  BY <1>2, <1>3, SumExtended
<1> QED BY <1>3, <1>4, FS_AddElement DEF f, g, TokensOf

LEMMA StepKeepsCounters ==
    StreamTypes /\ CountersInvariant /\ [Next]_vars => CountersInvariant'
<1> SUFFICES ASSUME StreamTypes, CountersInvariant, [Next]_vars PROVE CountersInvariant'
  OBVIOUS
<1>1. CASE UNCHANGED <<events, daily>>
  BY <1>1 DEF CountersInvariant, CountersAddUp, IdentityOf
<1>2. ASSUME NEW s \in Streams, BookEntry(s) PROVE CountersInvariant'
  <2>1. PICK r : r = parse_entry(Entry(s), today)
    OBVIOUS
  <2>2. /\ events' = events \cup {r} /\ Charge(r) /\ ~ IsRecorded(r.request_id)
        /\ r # NULL
    BY <1>2, <2>1 DEF BookEntry, BreaksConstraint
  <2>3. events \subseteq Records /\ r \in Records /\ r \notin events
    <3>1. Entry(s) \in Entries /\ ~ Incomplete(Entry(s))
      BY <1>2, <2>1, <2>2, EntryTyped DEF BookEntry, parse_entry
    <3>2. r \in Records
      BY <2>1, <3>1, ParsedEntry DEF StreamTypes
    <3> QED BY <2>2, <3>2 DEF IsRecorded, StreamTypes
  <2>4. PICK k : k = IdentityOf(r)
    OBVIOUS
  <2> DEFINE old == EventsOf(k, events)
             row == [token_count |-> Counters(k).token_count + r.token_count,
                     request_count |-> Counters(k).request_count + 1]
  <2>5. daily' = [i \in DOMAIN daily \cup {k} |-> IF i = k THEN row ELSE daily[i]]
    BY <2>2, <2>4 DEF Charge
  <2>6. EventsOf(k, events') = old \cup {r}
    BY <2>2, <2>4 DEF EventsOf
  <2>7. \A i : i # k => EventsOf(i, events') = EventsOf(i, events)
    BY <2>2, <2>4 DEF EventsOf
  <2>8. IsFiniteSet(old) /\ old \in SUBSET Records /\ r \notin old
    BY <2>3, FS_Subset DEF CountersInvariant, EventsOf
  <2>9. IsFiniteSet(events')
    BY <2>2, FS_AddElement DEF CountersInvariant
  <2>10. /\ row.request_count = Cardinality(old) + 1
         /\ row.token_count = TokensOf(old) + r.token_count
    BY CountersOf
  <2>11. DOMAIN daily = {IdentityOf(q) : q \in events}
    BY DEF CountersInvariant, CountersAddUp
  <2>12. DOMAIN daily' = {IdentityOf(q) : q \in events'}
    BY <2>2, <2>4, <2>5, <2>11
  <2> HIDE DEF row, old
  <2>13. /\ daily'[k].request_count = Cardinality(EventsOf(k, events'))
         /\ daily'[k].token_count = TokensOf(EventsOf(k, events'))
    <3>1. /\ Cardinality(old \cup {r}) = Cardinality(old) + 1
          /\ TokensOf(old \cup {r}) = TokensOf(old) + r.token_count
      BY <2>3, <2>8, OneMoreEvent
    <3> QED BY <2>5, <2>6, <2>10, <3>1
  <2>14. ASSUME NEW i \in DOMAIN daily', i # k
         PROVE  /\ daily'[i].request_count = Cardinality(EventsOf(i, events'))
                /\ daily'[i].token_count = TokensOf(EventsOf(i, events'))
    <3>1. i \in DOMAIN daily /\ daily'[i] = daily[i]
      BY <2>5, <2>14
    <3>2. /\ daily[i].request_count = Cardinality(EventsOf(i, events))
          /\ daily[i].token_count = TokensOf(EventsOf(i, events))
      BY <3>1 DEF CountersInvariant, CountersAddUp, EventsOf, TokensOf
    <3> QED BY <2>7, <2>14, <3>1, <3>2
  <2>15. \A i \in DOMAIN daily' :
            /\ daily'[i].request_count = Cardinality(EventsOf(i, events'))
            /\ daily'[i].token_count = TokensOf(EventsOf(i, events'))
    BY <2>13, <2>14
  <2> QED BY <2>9, <2>12, <2>15
          DEF CountersInvariant, CountersAddUp, EventsOf, TokensOf, IdentityOf
<1>3. UNCHANGED <<events, daily>> \/ \E s \in Streams : BookEntry(s)
  BY DEF Next, OpenStream, CloseStream, ReceiveMessage, MessageDone, HandleEntry, SkipEntry,
         RefuseEntry, AbortStream, ServeStream, Restart, Migrate, Midnight, vars
<1> QED BY <1>1, <1>2, <1>3

\* service.py:45-61: for any number of entries, streams and tokens, request_count and
\* token_count of a daily row are the number and the sum of the events that have its
\* identity, and there is a row for nothing else.
THEOREM CountersExact == Spec => []CountersAddUp
<1>1. Init => CountersInvariant
  <2> SUFFICES ASSUME Init PROVE CountersInvariant
    OBVIOUS
  <2>1. events = {} /\ DOMAIN daily = {}
    BY DEF Init
  <2> QED BY <2>1, FS_EmptySet DEF CountersInvariant, CountersAddUp
<1>2. CountersInvariant => CountersAddUp
  BY DEF CountersInvariant
<1> QED
  BY <1>1, <1>2, StreamTypesHold, StepKeepsCounters, PTL DEF Spec

-----------------------------------------------------------------------------
(* What StreamsServed rests on                                             *)

\* A stream that goes on waiting is never overtaken, and comes nearer to the head of the
\* queue whenever a thread takes a stream.
QueueMovesUp ==
    [][\A i \in 1..Len(queue) : phase'[queue[i]] = "queued" =>
          \E j \in 1..Len(queue') :
             queue'[j] = queue[i] /\ j <= i /\ (idle' < idle => j < i)]_vars

\* Taking an element out of a queue moves nobody back.
LEMMA RemoveFirstMovesUp ==
    ASSUME NEW S, NEW q \in Seq(S), Distinct(q), NEW e, NEW p, p = RemoveFirst(q, e)
    PROVE  \A k \in 1..Len(q) : q[k] # e => \E j \in 1..Len(p) : p[j] = q[k] /\ j <= k
<1>0. Len(q) \in Nat
  OBVIOUS
<1>1. CASE \A i \in 1..Len(q) : q[i] # e
  <2>1. p = q
    BY <1>1 DEF RemoveFirst
  <2> QED BY <1>0, <2>1
<1>2. ASSUME NEW i \in 1..Len(q), q[i] = e
      PROVE  /\ p \in Seq(S) /\ Len(p) = Len(q) - 1
             /\ \A n \in 1..Len(p) : p[n] = IF n < i THEN q[n] ELSE q[n + 1]
  BY <1>2, RemoveFirstAt
<1>3. ASSUME NEW i \in 1..Len(q), q[i] = e, NEW k \in 1..Len(q), q[k] # e
      PROVE  \E j \in 1..Len(p) : p[j] = q[k] /\ j <= k
  <2>1. /\ Len(p) = Len(q) - 1
        /\ \A n \in 1..Len(p) : p[n] = IF n < i THEN q[n] ELSE q[n + 1]
    BY <1>2, <1>3
  <2>2. CASE k < i
    <3>1. k \in 1..Len(p) /\ p[k] = q[k]
      BY <1>0, <2>1, <2>2
    <3> QED BY <3>1
  <2>3. CASE k > i
    <3>1. k - 1 \in 1..Len(p) /\ p[k - 1] = q[k] /\ k - 1 <= k
      BY <1>0, <2>1, <2>3
    <3> QED BY <3>1
  <2> QED BY <1>3, <2>2, <2>3
<1> QED BY <1>1, <1>3

\* receiver.py:29-35: the pool serves streams in the order in which they were opened,
\* however many wait, end or fail; with PoolTypeCorrect, a thread that is not idle has a
\* stream, so that a waiting stream waits for threads only.
THEOREM StreamsNeverOvertaken == Spec => QueueMovesUp
<1>1. StreamTypes /\ PoolInvariant /\ [Next]_vars =>
          [\A i \in 1..Len(queue) : phase'[queue[i]] = "queued" =>
              \E j \in 1..Len(queue') :
             queue'[j] = queue[i] /\ j <= i /\ (idle' < idle => j < i)]_vars
  <2> SUFFICES ASSUME StreamTypes, PoolInvariant, [Next]_vars,
                      NEW i \in 1..Len(queue), phase'[queue[i]] = "queued"
               PROVE  \E j \in 1..Len(queue') :
                         queue'[j] = queue[i] /\ j <= i /\ (idle' < idle => j < i)
    OBVIOUS
  <2> DEFINE Moved == \E j \in 1..Len(queue') :
                         queue'[j] = queue[i] /\ j <= i /\ (idle' < idle => j < i)
  <2>0. /\ queue \in Seq(Streams) /\ Len(queue) \in Nat /\ queue[i] \in Streams
        /\ i \in Nat /\ i <= i /\ Distinct(queue) /\ idle \in Nat
    BY DEF PoolInvariant
  <2>1. ASSUME NEW s \in Streams, OpenStream(s) PROVE Moved
    <3>1. queue' = Append(queue, s) /\ idle' = idle
      BY <2>1 DEF OpenStream
    <3>2. i \in 1..Len(queue') /\ queue'[i] = queue[i]
      BY <2>0, <3>1
    <3>3. ~ (idle' < idle)
      BY <2>0, <3>1
    <3> QED BY <2>0, <3>2, <3>3
  <2>2. ASSUME NEW s \in Streams, CloseStream(s) PROVE Moved
    <3>1. /\ queue' = RemoveFirst(queue, s) /\ idle' \in {idle, idle + 1}
          /\ phase'[s] = "closed"
      BY <2>2 DEF CloseStream, Goto, StreamTypes
    <3>2. queue[i] # s
      BY <3>1
    <3>3. \E j \in 1..Len(queue') : queue'[j] = queue[i] /\ j <= i
      BY <2>0, <3>1, <3>2, RemoveFirstMovesUp
    <3>4. ~ (idle' < idle)
      BY <2>0, <3>1
    <3> QED BY <3>3, <3>4
  <2>3. ASSUME ServeStream PROVE Moved
    <3>1. /\ queue # << >> /\ queue' = Tail(queue)
          /\ phase' = [phase EXCEPT ![Head(queue)] = "open"]
      BY <2>3 DEF ServeStream, Goto
    <3>2. /\ Len(queue) >= 1 /\ Head(queue) = queue[1] /\ Len(queue') = Len(queue) - 1
          /\ \A n \in 1..Len(queue') : queue'[n] = queue[n + 1]
      BY <2>0, <3>1, HeadTailProperties, LenProperties
    <3>3. queue[i] # queue[1]
      BY <2>0, <3>1, <3>2 DEF StreamTypes
    <3>4. i - 1 \in 1..Len(queue') /\ i - 1 <= i /\ i - 1 < i /\ (i - 1) + 1 = i
      BY <2>0, <3>2, <3>3
    <3>5. queue'[i - 1] = queue[i]
      BY <3>2, <3>4
    <3> QED BY <3>4, <3>5
  <2>4. ASSUME Restart PROVE Moved
    BY <2>0, <2>4 DEF Restart
  <2>5. ASSUME UNCHANGED queue, idle' = idle \/ idle' = idle + 1 PROVE Moved
    <3>1. ~ (idle' < idle)
      BY <2>0, <2>5
    <3>2. i \in 1..Len(queue') /\ queue'[i] = queue[i]
      BY <2>5
    <3> QED BY <2>0, <3>1, <3>2
  <2>6. ASSUME NEW s \in Streams, AbortStream(s)
        PROVE  UNCHANGED queue /\ idle' = idle + 1
    BY <2>6 DEF AbortStream, FreeThread
  <2>7. ASSUME NEW s \in Streams,
               (\E m \in Messages : ReceiveMessage(s, m)) \/ MessageDone(s) \/ HandleEntry(s)
        PROVE  UNCHANGED <<queue, idle>>
    BY <2>7 DEF ReceiveMessage, MessageDone, HandleEntry, SkipEntry, BookEntry, RefuseEntry
  <2>8. Migrate \/ Midnight \/ UNCHANGED vars => UNCHANGED <<queue, idle>>
    BY DEF Migrate, Midnight, vars
  <2> HIDE DEF Moved
  <2>9. Moved
    BY <2>1, <2>2, <2>3, <2>4, <2>5, <2>6, <2>7, <2>8 DEF Next
  <2> QED BY <2>9 DEF Moved
<1> QED BY <1>1, StreamTypesHold, PoolHolds, PTL DEF Spec, QueueMovesUp

==============================================================================
