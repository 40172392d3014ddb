-------------------------- MODULE UsageReportsProofs --------------------------
(***************************************************************************)
(* The reports for every number of requests, users, projects, models and   *)
(* days: they are exact unless an edit of a shortcut came between requests *)
(* that are shown together, never say too much, and the rows lose nothing  *)
(* of what a project has used.                                             *)
(***************************************************************************)
EXTENDS UsageReports, Sums

\* A request has a start before it is checked, and its headers carry a shortcut.
ReportTypes ==
    /\ shortcut \in [Projects -> Shortcuts] /\ IsInjective(shortcut)
    /\ started \in [RequestIds -> Days \cup {NULL}]
    /\ header \in [RequestIds -> Shortcuts \cup {NULL}]
    /\ \A r \in RequestIds : header[r] # NULL => started[r] # NULL
    /\ today \in Days /\ renames \in Nat

LEMMA ReportsInitTyped == Init => ReportTypes
BY ReportAssumption DEF Init, ReportTypes, ReportAssumption, Days

LEMMA ReportsStepTyped == ReportTypes /\ [Next]_vars => ReportTypes'
<1> SUFFICES ASSUME ReportTypes, [Next]_vars PROVE ReportTypes'
  OBVIOUS
<1>0. Call \in [RequestIds -> [user : Users, project : Projects, model : Models, tokens : Nat]]
      /\ NULL \notin Shortcuts \cup Days
  BY ReportAssumption DEF ReportAssumption
<1>1. ASSUME NEW r \in RequestIds, Receive(r) PROVE ReportTypes'
  <2>1. today # NULL
    BY <1>0 DEF ReportTypes
  <2> QED BY <1>1, <2>1 DEF Receive, ReportTypes
<1>2. ASSUME NEW r \in RequestIds, Authorize(r) PROVE ReportTypes'
  <2>1. shortcut[Call[r].project] \in Shortcuts
    BY <1>0 DEF ReportTypes
  <2> QED BY <1>2, <2>1 DEF Authorize, ReportTypes
<1>3. ASSUME NEW r \in RequestIds, Record(r) PROVE ReportTypes'
  BY <1>3 DEF Record, ReportTypes
<1>4. ASSUME NEW p \in Projects, NEW s \in Shortcuts, Rename(p, s) PROVE ReportTypes'
  <2>1. /\ shortcut' = [shortcut EXCEPT ![p] = s] /\ \A q \in Projects : shortcut[q] # s
        /\ renames' = renames + 1 /\ UNCHANGED <<started, header, today>>
    BY <1>4 DEF Rename
  <2>2. IsInjective(shortcut')
    BY <2>1 DEF ReportTypes, IsInjective
  <2> QED BY <2>1, <2>2 DEF ReportTypes
<1>5. CASE Midnight
  <2>1. today + 1 \in Days
    BY <1>5, ReportAssumption DEF Midnight, ReportAssumption, ReportTypes, Days
  <2> QED BY <1>5, <2>1 DEF Midnight, ReportTypes
<1>6. CASE UNCHANGED vars
  BY <1>6 DEF vars, ReportTypes
<1> QED BY <1>1, <1>2, <1>3, <1>4, <1>5, <1>6 DEF Next

LEMMA ReportTypesHold == Spec => []ReportTypes
  BY ReportsInitTyped, ReportsStepTyped, PTL DEF Spec

-----------------------------------------------------------------------------
(* The ledger                                                              *)

\* An event repeats what the headers of its request said, and the day of its start.
Faithful(e) ==
    LET r == e.request_id
    IN  /\ header[r] # NULL /\ e.identity.shortcut = header[r]
        /\ e.identity.user = Call[r].user /\ e.identity.project = Call[r].project
        /\ e.identity.model = Call[r].model
        /\ r \in Stamped => e.identity.day = started[r]

\* Each request has one event, and each event is charged once, to its own row.
LedgerInvariant ==
    /\ IsFiniteSet(events) /\ events \subseteq Records
    /\ \A e \in events : Faithful(e)
    /\ \A e, f \in events : e.request_id = f.request_id => e = f
    /\ daily = [k \in Identities |->
                   [e \in Records |-> IF e \in events /\ e.identity = k THEN 1 ELSE 0]]

LEMMA LedgerInitHolds == Init => LedgerInvariant
<1> SUFFICES ASSUME Init PROVE LedgerInvariant
  OBVIOUS
<1>1. events = {} /\ daily = [k \in Identities |-> [e \in Records |-> 0]]
  BY DEF Init, LedgerInit, NoUse
<1> QED BY <1>1, FS_EmptySet DEF LedgerInvariant

\* What parse_entry makes of a request that was checked.
LEMMA ParsedRecord ==
    ASSUME ReportTypes, NEW r \in RequestIds, header[r] # NULL
    PROVE  ParseEntry(r) \in Records /\ Faithful(ParseEntry(r))
<1>1. /\ Call[r].user \in Users /\ Call[r].project \in Projects /\ Call[r].model \in Models
      /\ header[r] \in Shortcuts /\ DayOf(r) \in Days
  BY ReportAssumption DEF ReportAssumption, ReportTypes, DayOf
<1>2. r \in Stamped => DayOf(r) = started[r]
  BY DEF DayOf
<1> QED BY <1>1, <1>2 DEF ParseEntry, Records, Identities, Faithful, ProjectOf

LEMMA StepKeepsLedger == ReportTypes /\ LedgerInvariant /\ [Next]_vars => LedgerInvariant'
<1> SUFFICES ASSUME ReportTypes, LedgerInvariant, [Next]_vars PROVE LedgerInvariant'
  OBVIOUS
<1>1. ASSUME UNCHANGED <<events, daily>>,
             \A r \in RequestIds : header[r] # NULL =>
                 header'[r] = header[r] /\ started'[r] = started[r]
      PROVE  LedgerInvariant'
  <2>1. ASSUME NEW e \in events PROVE Faithful(e)'
    <3>1. e.request_id \in RequestIds /\ Faithful(e)
      BY DEF LedgerInvariant, Records
    <3> QED BY <1>1, <3>1 DEF Faithful
  <2> QED BY <1>1, <2>1 DEF LedgerInvariant
<1>2. ASSUME NEW r \in RequestIds, Record(r) PROVE LedgerInvariant'
  <2>1. PICK e : e = ParseEntry(r)
    OBVIOUS
  <2>2. /\ ~ IsRecorded(e) /\ events' = events \cup {e}
        /\ daily' = [daily EXCEPT ![e.identity] = Charge(@, e)]
        /\ UNCHANGED <<header, started>>
    BY <1>2, <2>1 DEF Record, Book
  <2>3. e \in Records /\ Faithful(e)
    BY <1>2, <2>1, ParsedRecord DEF Record
  <2>4. IsFiniteSet(events') /\ events' \subseteq Records
    BY <2>2, <2>3, FS_AddElement DEF LedgerInvariant
  <2>5. \A f \in events : f.request_id # e.request_id
    BY <2>2 DEF IsRecorded
  <2>6. \A f, g \in events' : f.request_id = g.request_id => f = g
    BY <2>2, <2>5 DEF LedgerInvariant
  <2>7. \A f \in events' : Faithful(f)'
    BY <2>2, <2>3 DEF LedgerInvariant, Faithful
  <2>8. e.identity \in Identities /\ e \notin events
    BY <2>3, <2>5 DEF Records
  <2> DEFINE Row(k, rows) == [f \in Records |-> IF f \in rows /\ f.identity = k THEN 1 ELSE 0]
  <2>9. daily = [k \in Identities |-> Row(k, events)]
    BY DEF LedgerInvariant
  <2>10. ASSUME NEW k \in Identities, k # e.identity PROVE Row(k, events') = Row(k, events)
    BY <2>2, <2>10
  <2>11. Charge(Row(e.identity, events), e) = Row(e.identity, events')
    <3>1. Row(e.identity, events)[e] + 1 = 1
      BY <2>3, <2>8
    <3>2. Charge(Row(e.identity, events), e) =
             [f \in Records |-> IF f = e THEN 1 ELSE Row(e.identity, events)[f]]
      BY <2>3, <3>1 DEF Charge
    <3>3. \A f \in Records : Row(e.identity, events')[f] =
             IF f = e THEN 1 ELSE Row(e.identity, events)[f]
      BY <2>2
    <3> QED BY <3>2, <3>3
  <2> HIDE DEF Row
  <2>12. daily' = [k \in Identities |-> Row(k, events')]
    <3>1. daily[e.identity] = Row(e.identity, events)
      BY <2>8, <2>9
    <3>2. daily' = [k \in Identities |->
                       IF k = e.identity THEN Charge(daily[e.identity], e) ELSE daily[k]]
      BY <2>2, <2>9
    <3>3. \A k \in Identities : daily'[k] = Row(k, events')
      BY <2>8, <2>9, <2>10, <2>11, <3>1, <3>2
    <3> QED BY <3>2, <3>3
  <2> QED BY <2>4, <2>6, <2>7, <2>12 DEF LedgerInvariant, Row
<1>3. ASSUME NEW r \in RequestIds, Receive(r) \/ Authorize(r) PROVE LedgerInvariant'
  <2>1. UNCHANGED <<events, daily>>
    BY <1>3 DEF Receive, Authorize
  <2>2. \A q \in RequestIds : header[q] # NULL =>
            header'[q] = header[q] /\ started'[q] = started[q]
    BY <1>3 DEF Receive, Authorize, ReportTypes
  <2> QED BY <1>1, <2>1, <2>2
<1>4. ASSUME NEW p \in Projects, NEW s \in Shortcuts, Rename(p, s) PROVE LedgerInvariant'
  BY <1>1, <1>4 DEF Rename
<1>5. CASE Midnight
  BY <1>1, <1>5 DEF Midnight
<1>6. CASE UNCHANGED vars
  BY <1>1, <1>6 DEF vars
<1> QED BY <1>2, <1>3, <1>4, <1>5, <1>6 DEF Next

LEMMA LedgerHolds == Spec => []LedgerInvariant
  BY LedgerInitHolds, StepKeepsLedger, ReportTypesHold, PTL DEF Spec

\* Requests are booked by the ledger's step and by nothing else, so what is proved here
\* holds beside every receiver that implements UsageLedger, as UsageRecording does.
THEOREM ReportsKeepLedger == Spec => LedgerSpec
<1>1. Init => LedgerInit
  BY DEF Init
<1>2. ReportTypes /\ [Next]_vars => [LedgerNext]_ledgerVars
  <2> SUFFICES ASSUME ReportTypes, [Next]_vars PROVE [LedgerNext]_ledgerVars
    OBVIOUS
  <2>1. ASSUME NEW r \in RequestIds, Record(r) PROVE LedgerNext
    BY <2>1, ParsedRecord DEF Record, LedgerNext
  <2>2. UNCHANGED <<events, daily>> => UNCHANGED ledgerVars
    BY DEF ledgerVars
  <2> QED BY <2>1, <2>2 DEF Next, Receive, Authorize, Rename, Midnight, vars
<1> QED BY <1>1, <1>2, ReportTypesHold, PTL DEF Spec, LedgerSpec

-----------------------------------------------------------------------------
(* What the rows say of the events                                         *)

EventsIn(k) == {e \in events : e.identity = k}
IdsOf(E) == {e.request_id : e \in E}

LEMMA TokensNat ==
    ASSUME NEW A \in SUBSET RequestIds, IsFiniteSet(A)
    PROVE  TokensOf(A) \in Nat
<1>1. PICK f : f = [r \in A |-> Call[r].tokens]
  OBVIOUS
<1>2. f \in [A -> Nat]
  BY <1>1, ReportAssumption DEF ReportAssumption
<1>3. SumFunction(f) \in Nat
  BY <1>2, SumNat
<1> QED BY <1>1, <1>3 DEF TokensOf

LEMMA TokensOfFewer ==
    ASSUME NEW A \in SUBSET RequestIds, IsFiniteSet(A), NEW B \in SUBSET A
    PROVE  TokensOf(B) <= TokensOf(A)
<1>1. PICK f, g : f = [r \in B |-> Call[r].tokens] /\ g = [r \in A |-> Call[r].tokens]
  OBVIOUS
<1>2. f \in [B -> Nat] /\ g \in [A -> Nat] /\ \A r \in B : g[r] = f[r]
  BY <1>1, ReportAssumption DEF ReportAssumption
<1>3. SumFunction(f) <= SumFunction(g)
  BY <1>2, SumOfFewer
<1> QED BY <1>1, <1>3 DEF TokensOf

\* Sums over events are sums over their requests: each has one event.
LEMMA TokensOfEvents ==
    ASSUME LedgerInvariant, NEW E \in SUBSET events
    PROVE  /\ IdsOf(E) \in SUBSET RequestIds /\ IsFiniteSet(IdsOf(E)) /\ IsFiniteSet(E)
           /\ [e \in E |-> Call[e.request_id].tokens] \in [E -> Nat]
           /\ TokensOf(IdsOf(E)) = SumFunction([e \in E |-> Call[e.request_id].tokens])
<1>0. Call \in [RequestIds -> [user : Users, project : Projects, model : Models, tokens : Nat]]
  BY ReportAssumption DEF ReportAssumption
<1>1. PICK h, w, v : /\ h = [e \in E |-> e.request_id]
                     /\ w = [e \in E |-> Call[e.request_id].tokens]
                     /\ v = [r \in IdsOf(E) |-> Call[r].tokens]
  OBVIOUS
<1>2. IsFiniteSet(E)
  BY FS_Subset DEF LedgerInvariant
<1>3. \A e \in E : e.request_id \in RequestIds /\ Call[e.request_id].tokens \in Nat
  BY <1>0 DEF LedgerInvariant, Records
<1>4. IdsOf(E) = {h[e] : e \in E}
  BY <1>1 DEF IdsOf
<1>5. IsFiniteSet(IdsOf(E))
  BY <1>2, <1>4, ImageFinite
<1>6. \A e, f \in E : h[e] = h[f] => e = f
  BY <1>1 DEF LedgerInvariant
<1>7. w \in [E -> Nat]
  BY <1>1, <1>3
<1>8. v \in [{h[e] : e \in E} -> Nat]
  BY <1>0, <1>1, <1>3, <1>4 DEF IdsOf
<1>9. \A e \in E : v[h[e]] = w[e]
  BY <1>1 DEF IdsOf
<1>10. SumFunction(v) = SumFunction(w)
  BY <1>2, <1>6, <1>7, <1>8, <1>9, SumReindexed
<1>11. IdsOf(E) \in SUBSET RequestIds
  BY <1>3 DEF IdsOf
<1> QED BY <1>1, <1>2, <1>5, <1>7, <1>10, <1>11 DEF TokensOf

\* A row has the tokens of the events that were charged to it.
LEMMA RowHasItsEvents ==
    ASSUME LedgerInvariant, NEW k \in Identities
    PROVE  /\ Charged(k) = EventsIn(k)
           /\ TokenCount(k) = SumFunction([e \in EventsIn(k) |-> Call[e.request_id].tokens])
           /\ TokenCount(k) = TokensOf(IdsOf(EventsIn(k)))
<1>1. daily[k] = [e \in Records |-> IF e \in events /\ e.identity = k THEN 1 ELSE 0]
      /\ events \subseteq Records
  BY DEF LedgerInvariant
<1>2. Charged(k) = EventsIn(k)
  BY <1>1 DEF Charged, EventsIn
<1>3. EventsIn(k) \in SUBSET events
  BY DEF EventsIn
<1>4. \A e \in EventsIn(k) : Call[e.request_id].tokens \in Nat /\ daily[k][e] = 1
  BY <1>1, ReportAssumption DEF EventsIn, ReportAssumption, Records
<1>5. [e \in EventsIn(k) |-> daily[k][e] * Call[e.request_id].tokens]
         = [e \in EventsIn(k) |-> Call[e.request_id].tokens]
  BY <1>4
<1>6. TokenCount(k) = SumFunction([e \in EventsIn(k) |-> Call[e.request_id].tokens])
  BY <1>2, <1>5 DEF TokenCount
<1> QED BY <1>2, <1>3, <1>6, TokensOfEvents

LEMMA RowsOfEvents ==
    ASSUME LedgerInvariant
    PROVE  Rows = {e.identity : e \in events} /\ IsFiniteSet(Rows)
<1>1. \A e \in events : e.identity \in Identities
  BY DEF LedgerInvariant, Records
<1>2. Rows = {e.identity : e \in events}
  <2>1. \A k \in Identities : Charged(k) # {} <=> \E e \in events : e.identity = k
    BY RowHasItsEvents DEF EventsIn
  <2> QED BY <1>1, <2>1 DEF Rows
<1>3. PICK h : h = [e \in events |-> e.identity]
  OBVIOUS
<1>4. Rows = {h[e] : e \in events}
  BY <1>2, <1>3
<1>5. IsFiniteSet({h[e] : e \in events})
  BY ImageFinite DEF LedgerInvariant
<1> QED BY <1>2, <1>4, <1>5

-----------------------------------------------------------------------------
(* Nothing is lost                                                         *)

LEMMA LedgerBooksToProject == LedgerInvariant => BookedToItsProject
<1> SUFFICES ASSUME LedgerInvariant, NEW p \in Projects
             PROVE  SumFunction([k \in {l \in Rows : l.project = p} |-> TokenCount(k)])
                      = TokensOf({r \in Recorded : Call[r].project = p})
  BY DEF BookedToItsProject
<1>1. PICK E : E = {e \in events : e.identity.project = p}
  OBVIOUS
<1>2. PICK w, h : /\ w = [e \in E |-> Call[e.request_id].tokens]
                  /\ h = [e \in E |-> e.identity]
  OBVIOUS
<1>3. E \in SUBSET events
  BY <1>1
<1>4. IsFiniteSet(E) /\ w \in [E -> Nat] /\ TokensOf(IdsOf(E)) = SumFunction(w)
  BY <1>2, <1>3, TokensOfEvents
<1>5. {r \in Recorded : Call[r].project = p} = IdsOf(E)
  <2>1. \A e \in events : e.identity.project = Call[e.request_id].project
    BY DEF LedgerInvariant, Faithful
  <2> QED BY <1>1, <2>1 DEF Recorded, IdsOf
<1>6. {l \in Rows : l.project = p} = {h[e] : e \in E}
  BY <1>1, <1>2, RowsOfEvents
<1>7. ASSUME NEW k \in {h[e] : e \in E} PROVE TokenCount(k) = SumOfGroup(w, h, E, k)
  <2>1. PICK e \in E : k = e.identity
    BY <1>2
  <2>2. k \in Identities /\ k.project = p
    BY <1>1, <2>1 DEF LedgerInvariant, Records
  <2>3. {f \in E : h[f] = k} = EventsIn(k)
    BY <1>1, <1>2, <2>2 DEF EventsIn
  <2>4. [f \in EventsIn(k) |-> w[f]] = [f \in EventsIn(k) |-> Call[f.request_id].tokens]
    BY <1>2, <2>3
  <2>5. SumOfGroup(w, h, E, k) = SumFunction([f \in EventsIn(k) |-> w[f]])
    BY <2>3 DEF SumOfGroup
  <2> QED BY <2>2, <2>4, <2>5, RowHasItsEvents
<1>8. SumOfGroups(w, h, E) = SumFunction(w)
  BY <1>4, SumByGroups
<1>9. [k \in {l \in Rows : l.project = p} |-> TokenCount(k)]
         = [k \in {h[e] : e \in E} |-> SumOfGroup(w, h, E, k)]
  BY <1>6, <1>7
<1> QED BY <1>4, <1>5, <1>8, <1>9 DEF SumOfGroups

\* Whatever is renamed and however late entries come, the rows of a project have the
\* use of all its recorded requests (record_usage adds to the row of the headers).
THEOREM ProjectUseBooked == Spec => []BookedToItsProject
  BY LedgerHolds, LedgerBooksToProject, PTL

-----------------------------------------------------------------------------
(* The reports                                                             *)

\* Rows that differ in their shortcut have a last one in the order of Meta.ordering.
LEMMA LastRow ==
    ASSUME NEW R, IsFiniteSet(R), R # {}, \A k \in R : k.shortcut \in Nat
    PROVE  \E k \in R : \A l \in R : l.shortcut <= k.shortcut
<1> DEFINE Bad == {T \in SUBSET R : T # {} /\ ~ \E k \in T : \A l \in T : l.shortcut <= k.shortcut}
<1>1. ASSUME Bad # {} PROVE FALSE
  <2>1. Bad \subseteq SUBSET R
    OBVIOUS
  <2>2. \A T : T \in Bad <=> /\ T \subseteq R /\ T # {}
                             /\ ~ \E k \in T : \A l \in T : l.shortcut <= k.shortcut
    OBVIOUS
  <2> HIDE DEF Bad
  <2>3. PICK T \in Bad : \A U \in Bad : U \subseteq T => U = T
    BY <1>1, <2>1, SmallestSet
  <2>4. PICK x \in T : TRUE
    BY <2>2
  <2>5. T \ {x} \notin Bad /\ T \subseteq R
    BY <2>2, <2>3, <2>4
  <2>6. T # {x}
    BY <2>2, <2>5
  <2>7. PICK k \in T \ {x} : \A l \in T \ {x} : l.shortcut <= k.shortcut
    BY <2>2, <2>4, <2>5, <2>6
  <2>8. x.shortcut <= k.shortcut \/ k.shortcut <= x.shortcut
    BY <2>4, <2>5, <2>7
  <2>9. CASE x.shortcut <= k.shortcut
    BY <2>2, <2>7, <2>9
  <2>10. CASE k.shortcut <= x.shortcut
    <3>1. \A l \in T : l.shortcut <= x.shortcut
      BY <2>4, <2>5, <2>7, <2>10
    <3> QED BY <2>2, <2>4, <3>1
  <2> QED BY <2>8, <2>9, <2>10
<1> QED BY <1>1

\* The day of a row is the day that its requests belong to.
LEMMA EventOfItsDay ==
    ASSUME LedgerInvariant, NEW e \in events
    PROVE  /\ DayOfEvent(e) = e.identity.day
           /\ e.identity.user = Call[e.request_id].user
           /\ e.identity.project = Call[e.request_id].project
           /\ e.identity.model = Call[e.request_id].model
           /\ e.identity.shortcut = header[e.request_id] /\ header[e.request_id] # NULL
           /\ e.identity \in Identities /\ e.request_id \in RequestIds
BY DEF LedgerInvariant, Faithful, DayOfEvent, Records

TodaysEvents(u, m) ==
    {e \in events : /\ e.identity.day = today /\ e.identity.user = u
                    /\ e.identity.model = m}
EventsOf(u, p, m) == {e \in TodaysEvents(u, m) : e.identity.project = p}
EventsAs(u, s, m) == {e \in TodaysEvents(u, m) : e.identity.shortcut = s}

LEMMA CallsOfEvents ==
    ASSUME LedgerInvariant, NEW u, NEW m, NEW p, NEW s
    PROVE  /\ CallsOf(u, p, m) = IdsOf(EventsOf(u, p, m))
           /\ CallsAs(u, s, m) = IdsOf(EventsAs(u, s, m))
<1>1. CallsOf(u, p, m) = IdsOf(EventsOf(u, p, m))
  BY EventOfItsDay DEF CallsOf, UsedToday, IdsOf, TodaysEvents, EventsOf
<1>2. CallsAs(u, s, m) = IdsOf(EventsAs(u, s, m))
  BY EventOfItsDay DEF CallsAs, UsedToday, IdsOf, TodaysEvents, EventsAs
<1> QED BY <1>1, <1>2

LEMMA UsedByEvents ==
    ASSUME LedgerInvariant, NEW u, NEW m, NEW p, NEW s
    PROVE  /\ Used(u, p, m) = TokensOf(IdsOf(EventsOf(u, p, m)))
           /\ UsedAs(u, s, m) = TokensOf(IdsOf(EventsAs(u, s, m)))
BY CallsOfEvents DEF Used, UsedAs

\* The dashboard shows one of the rows, or that there is none.
LEMMA DashboardShowsRow ==
    ASSUME LedgerInvariant, NEW u, NEW p, NEW m
    PROVE  \/ DashboardRows(u, p, m) = {} /\ Dashboard(u, p, m) = 0
           \/ \E k \in DashboardRows(u, p, m) : Dashboard(u, p, m) = TokenCount(k)
<1>1. PICK R : R = DashboardRows(u, p, m)
  OBVIOUS
<1>2. R \subseteq Rows /\ \A k \in Rows : k.shortcut \in Nat
  <2>1. \A k \in Identities : k.shortcut \in Nat
    BY ReportAssumption DEF ReportAssumption, Identities
  <2> QED BY <1>1, <2>1 DEF DashboardRows, Rows
<1>3. IsFiniteSet(R)
  BY <1>2, RowsOfEvents, FS_Subset
<1>4. R # {} => \E k \in R : \A l \in R : l.shortcut <= k.shortcut
  BY <1>2, <1>3, LastRow
<1>5. Dashboard(u, p, m) =
         IF R = {} THEN 0
         ELSE TokenCount(CHOOSE k \in R : \A l \in R : l.shortcut <= k.shortcut)
  BY <1>1 DEF Dashboard
<1>6. PICK c : c = CHOOSE k \in R : \A l \in R : l.shortcut <= k.shortcut
  OBVIOUS
<1>7. R # {} => c \in R
  BY <1>4, <1>6
<1> QED BY <1>1, <1>5, <1>6, <1>7

\* What one row says is part of the use with its labels.
LEMMA RowWithinUse ==
    ASSUME LedgerInvariant, NEW u, NEW m, NEW k \in Rows,
           k.day = today, k.user = u, k.model = m
    PROVE  /\ TokenCount(k) <= Used(u, k.project, m)
           /\ TokenCount(k) <= UsedAs(u, k.shortcut, m)
<1>1. k \in Identities
  BY DEF Rows
<1>2. TokenCount(k) = TokensOf(IdsOf(EventsIn(k)))
  BY <1>1, RowHasItsEvents
<1>3. PICK D, M : /\ D = EventsOf(u, k.project, m)
                  /\ M = EventsAs(u, k.shortcut, m)
  OBVIOUS
<1>4. D \in SUBSET events /\ M \in SUBSET events
  BY <1>3 DEF TodaysEvents, EventsOf, EventsAs
<1>5. EventsIn(k) \subseteq D /\ EventsIn(k) \subseteq M
  BY <1>3 DEF EventsIn, TodaysEvents, EventsOf, EventsAs
<1>6. IdsOf(EventsIn(k)) \in SUBSET IdsOf(D) /\ IdsOf(EventsIn(k)) \in SUBSET IdsOf(M)
  BY <1>5 DEF IdsOf
<1>7. /\ IdsOf(D) \in SUBSET RequestIds /\ IsFiniteSet(IdsOf(D))
      /\ IdsOf(M) \in SUBSET RequestIds /\ IsFiniteSet(IdsOf(M))
  BY <1>4, TokensOfEvents
<1>8. /\ TokensOf(IdsOf(EventsIn(k))) <= TokensOf(IdsOf(D))
      /\ TokensOf(IdsOf(EventsIn(k))) <= TokensOf(IdsOf(M))
  BY <1>6, <1>7, TokensOfFewer
<1>9. Used(u, k.project, m) = TokensOf(IdsOf(D)) /\ UsedAs(u, k.shortcut, m) = TokensOf(IdsOf(M))
  BY <1>3, UsedByEvents
<1> QED BY <1>2, <1>8, <1>9

LEMMA LedgerNeverOver == LedgerInvariant => ReportsNeverOver
<1> SUFFICES ASSUME LedgerInvariant, NEW u \in Users, NEW m \in Models
             PROVE  /\ \A p \in Projects : Dashboard(u, p, m) <= Used(u, p, m)
                    /\ \A s \in Shortcuts : \A n \in Metric(u, s, m) : n <= UsedAs(u, s, m)
  BY DEF ReportsNeverOver
<1>1. ASSUME NEW p \in Projects PROVE Dashboard(u, p, m) <= Used(u, p, m)
  <2>1. CASE \E k \in DashboardRows(u, p, m) : Dashboard(u, p, m) = TokenCount(k)
    <3>1. PICK k \in DashboardRows(u, p, m) : Dashboard(u, p, m) = TokenCount(k)
      BY <2>1
    <3>2. k \in Rows /\ k.day = today /\ k.user = u /\ k.project = p /\ k.model = m
      BY DEF DashboardRows
    <3> QED BY <3>1, <3>2, RowWithinUse
  <2>2. CASE Dashboard(u, p, m) = 0
    <3>1. PICK D : D = EventsOf(u, p, m)
      OBVIOUS
    <3>2. D \in SUBSET events
      BY <3>1 DEF TodaysEvents, EventsOf, EventsAs
    <3>3. TokensOf(IdsOf(D)) \in Nat
      BY <3>2, TokensOfEvents, TokensNat
    <3>4. Used(u, p, m) = TokensOf(IdsOf(D))
      BY <3>1, UsedByEvents
    <3> QED BY <2>2, <3>3, <3>4
  <2> QED BY <2>1, <2>2, DashboardShowsRow
<1>2. ASSUME NEW s \in Shortcuts, NEW n \in Metric(u, s, m) PROVE n <= UsedAs(u, s, m)
  <2>1. PICK k \in MetricRows(u, s, m) : n = TokenCount(k)
    BY DEF Metric
  <2>2. k \in Rows /\ k.day = today /\ k.user = u /\ k.shortcut = s /\ k.model = m
    BY DEF MetricRows
  <2> QED BY <2>1, <2>2, RowWithinUse
<1> QED BY <1>1, <1>2

\* No edit of a shortcut and no late entry makes the dashboard or the exporter show
\* more than the user's requests of this day have used, with these labels.
THEOREM ReportsHonest == Spec => []ReportsNeverOver
  BY LedgerHolds, LedgerNeverOver, PTL

\* A row in a series is all of the series, if its requests are of one project.
LEMMA RowIsSeries ==
    ASSUME LedgerInvariant, NEW u, NEW m, NEW k \in Rows,
           k.day = today, k.user = u, k.model = m, OneProject(CallsAs(u, k.shortcut, m))
    PROVE  TokenCount(k) = UsedAs(u, k.shortcut, m)
<1>1. k \in Identities
  BY DEF Rows
<1>2. PICK f \in events : k = f.identity
  BY RowsOfEvents
<1>3. PICK E : E = EventsAs(u, k.shortcut, m)
  OBVIOUS
<1>4. f \in E /\ CallsAs(u, k.shortcut, m) = {e.request_id : e \in E}
  BY <1>2, <1>3, CallsOfEvents DEF EventsAs, TodaysEvents, IdsOf
<1>5. \A e \in E : e.identity.project = k.project
  <2>1. \A e \in E : Call[e.request_id].project = Call[f.request_id].project
    BY <1>4 DEF OneProject
  <2>2. \A e \in events : e.identity.project = Call[e.request_id].project
    BY EventOfItsDay
  <2> QED BY <1>2, <1>3, <2>1, <2>2 DEF EventsAs, TodaysEvents
<1>6. \A e \in events : e.identity \in Identities
  BY EventOfItsDay
<1>7. E = EventsIn(k)
  <2>1. \A e \in E : e.identity = k
    BY <1>1, <1>3, <1>5, <1>6 DEF EventsAs, TodaysEvents, Identities
  <2> QED BY <1>3, <2>1 DEF EventsAs, TodaysEvents, EventsIn
<1>8. TokenCount(k) = TokensOf(IdsOf(EventsIn(k)))
  BY <1>1, RowHasItsEvents
<1> QED BY <1>3, <1>7, <1>8, UsedByEvents

\* A row of the dashboard is all that it shows, if its requests had one shortcut.
LEMMA RowIsDashboards ==
    ASSUME LedgerInvariant, NEW u, NEW m, NEW k \in Rows,
           k.day = today, k.user = u, k.model = m, OneShortcut(CallsOf(u, k.project, m))
    PROVE  TokenCount(k) = Used(u, k.project, m)
<1>1. k \in Identities
  BY DEF Rows
<1>2. PICK f \in events : k = f.identity
  BY RowsOfEvents
<1>3. PICK E : E = EventsOf(u, k.project, m)
  OBVIOUS
<1>4. f \in E /\ CallsOf(u, k.project, m) = {e.request_id : e \in E}
  BY <1>2, <1>3, CallsOfEvents DEF EventsOf, TodaysEvents, IdsOf
<1>5. \A e \in E : e.identity.shortcut = k.shortcut
  <2>1. \A e \in E : header[e.request_id] = header[f.request_id]
    BY <1>4 DEF OneShortcut
  <2>2. \A e \in events : e.identity.shortcut = header[e.request_id]
    BY EventOfItsDay
  <2> QED BY <1>2, <1>3, <2>1, <2>2 DEF EventsOf, TodaysEvents
<1>6. \A e \in events : e.identity \in Identities
  BY EventOfItsDay
<1>7. E = EventsIn(k)
  <2>1. \A e \in E : e.identity = k
    BY <1>1, <1>3, <1>5, <1>6 DEF EventsOf, TodaysEvents, Identities
  <2> QED BY <1>3, <2>1 DEF EventsOf, TodaysEvents, EventsIn
<1>8. TokenCount(k) = TokensOf(IdsOf(EventsIn(k)))
  BY <1>1, RowHasItsEvents
<1> QED BY <1>3, <1>7, <1>8, UsedByEvents

LEMMA ExactFromLedger == LedgerInvariant => ExactUnlessSplit
<1> SUFFICES ASSUME LedgerInvariant, NEW u \in Users, NEW m \in Models
             PROVE  /\ \A p \in Projects : OneShortcut(CallsOf(u, p, m)) =>
                           Dashboard(u, p, m) = Used(u, p, m)
                    /\ \A s \in Shortcuts : OneProject(CallsAs(u, s, m)) =>
                           Metric(u, s, m) = {UsedAs(u, s, m) : r \in CallsAs(u, s, m)}
  BY DEF ExactUnlessSplit
<1>1. ASSUME NEW p \in Projects, OneShortcut(CallsOf(u, p, m))
      PROVE  Dashboard(u, p, m) = Used(u, p, m)
  <2>1. CASE \E k \in DashboardRows(u, p, m) : Dashboard(u, p, m) = TokenCount(k)
    <3>1. PICK k \in DashboardRows(u, p, m) : Dashboard(u, p, m) = TokenCount(k)
      BY <2>1
    <3>2. k \in Rows /\ k.day = today /\ k.user = u /\ k.project = p /\ k.model = m
      BY DEF DashboardRows
    <3> QED BY <1>1, <3>1, <3>2, RowIsDashboards
  <2>2. CASE DashboardRows(u, p, m) = {} /\ Dashboard(u, p, m) = 0
    <3>1. IdsOf(EventsOf(u, p, m)) = {}
      BY <2>2, RowsOfEvents DEF DashboardRows, TodaysEvents, EventsOf, IdsOf
    <3>2. Used(u, p, m) = TokensOf({})
      BY <3>1, UsedByEvents
    <3>3. TokensOf({}) = 0
      <4>1. PICK f : f = [r \in {} |-> Call[r].tokens]
        OBVIOUS
      <4>2. DOMAIN f = {}
        BY <4>1
      <4> QED BY <4>1, <4>2, SumEmpty DEF TokensOf
    <3> QED BY <2>2, <3>2, <3>3
  <2> QED BY <2>1, <2>2, DashboardShowsRow
<1>2. ASSUME NEW s \in Shortcuts, OneProject(CallsAs(u, s, m))
      PROVE  Metric(u, s, m) = {UsedAs(u, s, m) : r \in CallsAs(u, s, m)}
  <2>1. ASSUME NEW k \in MetricRows(u, s, m)
        PROVE  TokenCount(k) = UsedAs(u, s, m)
    <3>1. k \in Rows /\ k.day = today /\ k.user = u /\ k.shortcut = s /\ k.model = m
      BY DEF MetricRows
    <3> QED BY <1>2, <3>1, RowIsSeries
  <2>2. MetricRows(u, s, m) = {e.identity : e \in EventsAs(u, s, m)}
    BY RowsOfEvents DEF MetricRows, EventsAs, TodaysEvents
  <2>3. CallsAs(u, s, m) = {e.request_id : e \in EventsAs(u, s, m)}
    BY CallsOfEvents DEF IdsOf
  <2>4. MetricRows(u, s, m) = {} <=> CallsAs(u, s, m) = {}
    BY <2>2, <2>3
  <2> QED BY <2>1, <2>4 DEF Metric
<1> QED BY <1>1, <1>2

\* README.md:12 and metrics.py:24, for any edits of shortcuts, late entries and midnights:
\* the dashboard and every series show exactly what was used today under their labels,
\* if the requests they show together ran under one shortcut, or for one project.
THEOREM ReportsExact == Spec => []ExactUnlessSplit
  BY LedgerHolds, ExactFromLedger, PTL
==============================================================================
