---------------------------- MODULE UsageReports ----------------------------
(***************************************************************************)
(* From the authorization of a request to the numbers that are shown for   *)
(* it: the headers that envoy_authz_check returns (apps/authz/views.py)    *)
(* travel with the request, come back in Envoy's access log, are booked by *)
(* the receiver, and are read by the dashboard (apps/usage/dashboard.py)   *)
(* and by the Prometheus exporter (apps/usage/metrics.py).                 *)
(*                                                                         *)
(* Booking is one step, the Book of module UsageLedger: module             *)
(* UsageRecording shows that the receiver implements it.  A project's      *)
(* shortcut may be edited at any time, also while its requests run.        *)
(***************************************************************************)
EXTENDS Integers, FiniteSets, Functions

CONSTANTS RequestIds,   \* the requests, by Envoy's request id
          Users, Projects, Models,
          Shortcuts,    \* numbers, in their alphabetical order
          Call,         \* who sends a request, for what, and its total tokens
          Stamped,      \* the requests whose log entry has a start time
          LastDay,      \* bound on the calendar
          MaxRenames,   \* bound on the edits of shortcuts
          NULL

Days == 0..LastDay

ASSUME ReportAssumption ==
    /\ Shortcuts \subseteq Nat /\ Cardinality(Shortcuts) >= Cardinality(Projects)
    /\ Call \in [RequestIds -> [user : Users, project : Projects, model : Models, tokens : Nat]]
    /\ Stamped \subseteq RequestIds
    /\ LastDay \in Nat /\ MaxRenames \in Nat
    /\ NULL \notin Shortcuts \cup Days

\* The unique key of DailyUsage.
Identities == [day : Days, user : Users, project : Projects,
               shortcut : Shortcuts, model : Models]
Records == [request_id : RequestIds, identity : Identities]

VARIABLES shortcut,     \* Project.shortcut
          started,      \* the day on which Envoy received a request, or NULL
          header,       \* the shortcut in a request's headers, NULL before the check
          events, daily,
          today,        \* the UTC day
          renames

INSTANCE UsageLedger

vars == <<shortcut, started, header, events, daily, today, renames>>

Init ==
    /\ shortcut \in {f \in [Projects -> Shortcuts] : IsInjective(f)}
    /\ started = [r \in RequestIds |-> NULL]
    /\ header = [r \in RequestIds |-> NULL]
    /\ LedgerInit
    /\ today = 0
    /\ renames = 0

-----------------------------------------------------------------------------
(* A request                                                               *)

\* Envoy receives a request (external).
Receive(r) ==
    /\ started[r] = NULL
    /\ started' = [started EXCEPT ![r] = today]
    /\ UNCHANGED <<shortcut, header, events, daily, today, renames>>

\* envoy_authz_check answers 200 with the project's shortcut of this moment.
Authorize(r) ==
    /\ started[r] # NULL /\ header[r] = NULL
    /\ header' = [header EXCEPT ![r] = shortcut[Call[r].project]]
    /\ UNCHANGED <<shortcut, started, events, daily, today, renames>>

\* The day on which the entry arrives.
DayOf_Arrival(r) == today

\* UsageRecord.day, with the fallback of parse_entry to the time of arrival.
DayOf(r) == IF r \in Stamped THEN started[r] ELSE today

\* The project that has the shortcut when the entry arrives.
ProjectOf_Shortcut(r) == CHOOSE p \in Projects : shortcut[p] = header[r] \/ p = Call[r].project

\* The project's id in the headers.
ProjectOf(r) == Call[r].project

\* parse_entry: the project's id and its shortcut come from the headers.
ParseEntry(r) ==
    [request_id |-> r,
     identity |-> [day |-> DayOf(r), user |-> Call[r].user, project |-> ProjectOf(r),
                   shortcut |-> header[r], model |-> Call[r].model]]

\* record_usage.  An entry may come late, or never; a second one changes nothing.
Record(r) ==
    /\ header[r] # NULL
    /\ Book(ParseEntry(r))
    /\ UNCHANGED <<shortcut, started, header, today, renames>>

-----------------------------------------------------------------------------

\* An administrator edits the shortcut, which is unique.
Rename(p, s) ==
    /\ renames < MaxRenames
    /\ \A q \in Projects : shortcut[q] # s
    /\ shortcut' = [shortcut EXCEPT ![p] = s]
    /\ renames' = renames + 1
    /\ UNCHANGED <<started, header, events, daily, today>>

Midnight ==
    /\ today < LastDay
    /\ today' = today + 1
    /\ UNCHANGED <<shortcut, started, header, events, daily, renames>>

Next ==
    \/ \E r \in RequestIds : Receive(r) \/ Authorize(r) \/ Record(r)
    \/ \E p \in Projects, s \in Shortcuts : Rename(p, s)
    \/ Midnight

Spec == Init /\ [][Next]_vars

-----------------------------------------------------------------------------
(* The reports                                                             *)

TokensOf(ids) == SumFunction([r \in ids |-> Call[r].tokens])

\* DailyUsage.token_count; there is a row once something has been charged to it.
Charged(k) == {r \in Records : daily[k][r] > 0}
TokenCount(k) ==
    SumFunction([r \in Charged(k) |-> daily[k][r] * Call[r.request_id].tokens])
Rows == {k \in Identities : Charged(k) # {}}

\* usage_rows_for_projects: the rows that have the dictionary's key (u, p, m).
DashboardRows(u, p, m) ==
    {k \in Rows : k.day = today /\ k.user = u /\ k.project = p /\ k.model = m}

\* The comprehension keeps the last of them in the order of Meta.ordering.
Dashboard(u, p, m) ==
    LET rows == DashboardRows(u, p, m)
    IN  IF rows = {} THEN 0
        ELSE TokenCount(CHOOSE k \in rows : \A l \in rows : l.shortcut <= k.shortcut)

\* A label that is read from the project, and not from the row.
MetricRows_Current(u, s, m) ==
    {k \in Rows : k.day = today /\ k.user = u /\ shortcut[k.project] = s /\ k.model = m}

\* metrics_response: the rows that set the gauge with the labels (u, s, m).
MetricRows(u, s, m) ==
    {k \in Rows : k.day = today /\ k.user = u /\ k.shortcut = s /\ k.model = m}

\* Each set() replaces the value before; the order of such rows is unspecified.
Metric(u, s, m) == {TokenCount(k) : k \in MetricRows(u, s, m)}

-----------------------------------------------------------------------------
(* Properties                                                              *)

\* The requests with a usage event, and the day each of them belongs to.
Recorded == {e.request_id : e \in events}
DayOfEvent(e) == IF e.request_id \in Stamped THEN started[e.request_id] ELSE e.identity.day

UsedToday == {e.request_id : e \in {f \in events : DayOfEvent(f) = today}}

\* The requests of this UTC day with the labels of the dashboard, and of the exporter.
CallsOf(u, p, m) ==
    {r \in UsedToday : Call[r].user = u /\ Call[r].project = p /\ Call[r].model = m}
CallsAs(u, s, m) ==
    {r \in UsedToday : Call[r].user = u /\ header[r] = s /\ Call[r].model = m}

Used(u, p, m) == TokensOf(CallsOf(u, p, m))
UsedAs(u, s, m) == TokensOf(CallsAs(u, s, m))

\* README.md:12 "Envoy ALS records provide daily token usage by user, project, and
\* model for the UI": the dashboard shows what the user's recorded requests of this
\* UTC day have used in this project, with late entries and midnights in between.
DashboardShowsUsage ==
    \A u \in Users, p \in Projects, m \in Models : Dashboard(u, p, m) = Used(u, p, m)

\* Did no edit of a shortcut come between these requests?
OneShortcut(ids) == \A r, q \in ids : header[r] = header[q]
OneProject(ids) == \A r, q \in ids : Call[r].project = Call[q].project

\* README.md:12, and metrics.py:24 "Tokens consumed by API users during the current UTC
\* day.": what is shown under some labels is the use of all requests with these labels,
\* before and after any edits of shortcuts, as long as the requests shown together ran
\* under one shortcut (for the dashboard) or for one project (for the exporter, which
\* has no series without a request).  No request of another day, late or not, and no
\* edit outside these requests makes a difference.
ExactUnlessSplit ==
    \A u \in Users, m \in Models :
        /\ \A p \in Projects : OneShortcut(CallsOf(u, p, m)) =>
               Dashboard(u, p, m) = Used(u, p, m)
        /\ \A s \in Shortcuts : OneProject(CallsAs(u, s, m)) =>
               Metric(u, s, m) = {UsedAs(u, s, m) : r \in CallsAs(u, s, m)}

\* Whatever is renamed, reused or late, neither the dashboard (dashboard.py:26-29) nor
\* the exporter (metrics.py:28-29) shows more than was used: nothing of another project
\* or shortcut, and nothing of another day.
ReportsNeverOver ==
    \A u \in Users, m \in Models :
        /\ \A p \in Projects : Dashboard(u, p, m) <= Used(u, p, m)
        /\ \A s \in Shortcuts : \A n \in Metric(u, s, m) : n <= UsedAs(u, s, m)

\* The aggregates lose nothing: over its shortcuts, the rows of a project have the
\* use of all its recorded requests, also of those that ran while it was renamed.
BookedToItsProject ==
    \A p \in Projects :
        SumFunction([k \in {l \in Rows : l.project = p} |-> TokenCount(k)])
            = TokensOf({r \in Recorded : Call[r].project = p})
==============================================================================
