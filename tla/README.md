# A TLA+ verification of GrantDeck

GrantDeck issues bearer tokens for a protected AI API, answers Envoy's authorization
requests, turns the limits configured in its database into Envoy resources, and counts
the tokens that API users consume. This directory holds TLA+ models of its state
machines, the TLC configurations that check them on small instances, and proofs of
main properties for every instance. Paths below are relative to the repository root;
every definition that models code names its lines in `PROJECT.json` (`map`).

Parts 1 and 2 are the inventory and the plan, 3 the modules, 4 the runs, 5 the proofs,
6 what the runs found, 7 what is left out.

## 1. Inventory

### 1.1 Components

| Component | State it keeps | Operations | Interacts with |
| --- | --- | --- | --- |
| Usage receiver (`apps/usage/als.py`, `service.py`, `receiver.py`) | tables `UsageEvent`, `DailyUsage`; one thread per stream | `StreamAccessLogs`, `parse_entry`, `record_usage` | Envoy ALS (messages, possibly repeated or late), PostgreSQL |
| Policy deployment (`apps/authz/kubernetes.py`, `policies.py`, `quota_keys.py`, `admin.py`) | `Project.limit_class`, `ProjectModelLimit`, an advisory lock, the namespace's Envoy resources | administrators' edits, `build_policy_documents`, `deploy_all_policies` (`_apply`, `_prune`) | PostgreSQL, Kubernetes API server |
| Project administration (`apps/authz/models.py`, `admin.py`) | rows of `Project` | add, change, delete in the Django admin, with a form per role | the database only; read by everything else |
| Memberships and joining (`models.py`, `apps/frontend/views.py`, `admin.py`) | rows of `ProjectMembership` | `join_project` / `join_user`, the membership admin, the cascade of a project's deletion | project rows |
| Bearer tokens and authorization (`models.py`, `apps/authz/views.py`, `apps/frontend/views.py`) | rows of `StaticToken` with two counters | `create_token`, `delete_token`, the token admin, `envoy_authz_check` | project and membership rows; Envoy ext_authz |
| Usage reports (`apps/usage/dashboard.py`, `metrics.py`) | none; they read `DailyUsage` | dashboard rows, Prometheus gauge | the receiver through the table; project shortcuts through the headers |
| Roles (`apps/authz/apps.py`, `apps/frontend/pipeline.py`) | `is_staff`, `is_superuser`, `Project.administrators` | `m2m_changed` signal, OIDC promotion at login | project administration |
| Join-attempt limiter (`apps/frontend/views.py:35-42`) | a cache counter per user, in each process | `project_join_limited`, `reset_project_join_limit` | joining |
| Startup (`deploy/start.py`) | the schema, an advisory lock | migrate, then Gunicorn | both pods |
| Receiver process (`apps/usage/receiver.py`) | a thread pool | one thread per stream | the usage receiver |
| Portal pages, settings, health views, migrations, generated gRPC code, manifests | none of their own | rendering and configuration | - |

### 1.2 How they interact

Two pods each run a web container (Gunicorn) and a receiver container on one PostgreSQL
database. All communication between components is through that database, except for two
paths. The headers of an authorization response travel with the request through Envoy
and come back in the access log, so that they are booked when the database may look
different. And a deployment copies the configuration into the Kubernetes API, where it
stays until the next deployment.

No code takes row locks or opens transactions beyond `record_usage` (`service.py:29-31`),
the `get_or_create` calls and Django's own change views. So concurrency is
interleaved SQL statements, and the properties are about what may come between them.

### 1.3 What is hard, and the properties that make each component right

The list with source lines is `hazards` in `PROJECT.json`; in short:

- **Receiver.** Duplicates on two streams at once, an aggregate row that two
  transactions create or update together, failures between the event and the
  aggregate. Right means: event table and aggregate agree in every committed state, one
  event per request, a worker is only done with a record when it is booked, no worker
  waits for ever.
- **Deployment.** Two administrators deploy at once, one deployment fails half-way,
  edits fall between its two queries, the connection that owns the advisory lock
  breaks. Right means: deployments exclude each other, references between documents
  always resolve, an undisturbed success leaves exactly the configured documents,
  every deployment ends and frees the lock.
- **Project rows.** A change view loads a row and later saves all of it. Right means:
  unique codes, quota keys that never change, and nothing decided by a superuser
  is undone by somebody who may not decide it.
- **Joining.** Three statements without a transaction, against administrators who
  approve, move and delete. Right means: one membership per user and project, the
  promise of the form kept, nobody's change undone.
- **Authorization.** A check reads once, counts later, answers last. Right means: an
  accepted request was eligible at one instant, headers describe that instant,
  counters lack only what a superuser's late save has overwritten.
- **Rights.** A request is checked when it begins and commits later; user rows are saved
  whole by forms and logins while a signal raises a flag in them. Right means: who
  administers a project can enter the admin site, and nobody becomes a superuser except by
  a superuser's hand or by configuration.
- **Startup.** Two pods of different releases start, migrate, serve and are killed at any
  step. Right means: migrations exclude each other, a pod serves only on its own schema, rows
  that an older release adds meanwhile are complete, every pod serves in the end.
- **Join limiter.** A counter that expires, is evicted or dies with its process. Right
  means: the number of wrong codes per window is bounded, and a lockout ends.
- **Receiver process.** Streams that keep a thread, fail, or deliver entries that are
  incomplete, huge or fractional, before the tables exist. Right means: no complete entry is
  passed over, what is booked is what was reported, no thread is lost.
- **Reports.** Keys differ along the path (the row's key has the shortcut *and* the
  project, the dashboard's only the project, the exporter's only the shortcut). Right
  means: the reports show what was used, on the day on which it was used.

## 2. Plan

Order of work: what loses or double-counts usage first, what breaks the data path
second, the rows people edit third, the reports that tie them together, then the
processes around them.

| Module | Builds on | State |
| --- | --- | --- |
| `UsageLedger` | - (the abstract specification of the receiver) | done |
| `UsageRecording` | `UsageLedger`; implements it | done, proved |
| `AccessLogStreams` | - (`record_usage` is one step, as `UsageRecording` shows) | done, proved but for liveness |
| `PolicyDeployment` | - | done, proved but for liveness |
| `ProjectAdmin` | - (also the abstract specification of the next three) | done, proved |
| `Memberships` | `Accounts`, `ProjectAdmin`; implements the latter | done, proved |
| `TokenChecks` | `Accounts`, `ProjectAdmin`; implements the latter | done, proved |
| `Rights` | `Accounts`, `ProjectAdmin`; implements the latter | done, proved |
| `UsageReports` | `UsageLedger`, which it keeps to | done, proved |
| `Startup` | - | done, proved but for liveness |
| `JoinLimiter` | extends and implements `Startup` | done, proved but for liveness |
| `Gateway` | `TokenChecks`, `PolicyDeployment` and `UsageReports` composed: from a limit class to the quota that a request is counted against | left |

Every safety invariant and action property that a passing run checks is a theorem too. What only
the runs show is liveness (see 5).

## 3. Modules

### 3.1 UsageLedger, UsageRecording

`UsageLedger` says what readers of the tables are promised: one step, `Book(r)`, that
adds a request's event and charges its daily row together, and only if the request
has no event yet. A daily row is the multiset of the records charged to it, so
that `token_count` and `request_count` are both functions of it and a wrong sum cannot
hide.

`UsageRecording` is the receiver, one step per SQL statement of `record_usage`
(`service.py:28-63`) with PostgreSQL's READ COMMITTED semantics. The variables `events`,
`daily` and `rows` are committed state. The uncommitted part of a worker's transaction
is a function of its program counter and `held`, the row version it has written; the
locks (`EventLocked`, `RowBeingCreated`, `RowLocked`) are derived from the open
transactions, so a lock lasts to commit or rollback. `get_or_create` is `GetDaily`,
`CreateDaily` and, after an IntegrityError, `RegetDaily`. `RejectEvent` is the
`except IntegrityError` path; it also takes records that a CHECK constraint refuses
(`Unstorable`). `Fail` is any other exception or the death of the process: a rollback,
and the rest of the message lost. `Receive` lets the same record arrive on any stream
any number of times.

### 3.2 AccessLogStreams

The process around `record_usage`: `receiver.py`'s pool of `MaxWorkers` threads with its queue
(`OpenStream`, `ServeStream`, `CloseStream`), and the two loops of `StreamAccessLogs`
(`ReceiveMessage`, one of `SkipEntry`, `BookEntry` and `RefuseEntry` per entry, `MessageDone`).
`AbortStream` is any exception that is not an IntegrityError: it ends the stream, loses the rest
of the message and gives the thread back. `Restart` kills the container. `tables` says whether
the web container has migrated, for which the receiver does not wait.

`parse_entry` and `_token_count` are operators with their conversions: a number is an integral
double or refused (values are counted in halves), a string is what `int()` makes of it, negative
counts and NaN are refused, the model falls back to the route and the day to the day of arrival.
The columns have their ranges (`Storable`, `TotalFits`) and constraints
(`BreaksConstraint`), because which exception a value raises decides whether the entry is skipped
or the stream ends. Booking is one step; `UsageRecording` has its statements.

### 3.3 PolicyDeployment

Administrators' edits (`AssignClass`, `SetLimit`, `DeleteClass`) and any number of deployers, each
running `deploy_all_policies`: `Start` or `Refuse` (`pg_try_advisory_lock`),
`ReadProjects` and `ReadLimits` (the two queries of `build_policy_documents`),
`ApplyNext` per document in `APPLY_ORDER`, `ListKind`, `DeleteNext` and `KindPruned` per
kind in `PRUNE_ORDER`, `Finish`, and `Fail` anywhere. A document keeps its kind, its name,
the routes it targets and its quota; manifests' other fields do not change what a step does.

A request to the API server that failed was executed before the failure (an `ApplyNext` or
`DeleteNext` and then `Fail`), never (`Fail`), or is executed later: `TimeOut` ends the
deployment and leaves its request in `late`, where `ExecuteLate` or `DropLate` finds it at
any later time, also in the middle of the next deployment. `LoseLock` is the loss of the database
connection while the deployer talks to Kubernetes. Both are switched by constants
(`LateRequests`, `LockCanBeLost`), since some properties hold only without them. `ComesTooLate`
says when a late request does what the running deployment no longer overwrites or prunes; only
then does it count among what `disturbed` remembers.

`disturbed` and `wanted` are history variables: has anyone else written since this
deployment started, and which routes were configured at every instant since.

### 3.4 ProjectAdmin

A row of `project` has the columns that rules are about (join code, approval, end date,
limit class, quota key). `OpenProject` loads a row in a change view and picks a form
result; `FormResults` gives each role the fields of its form (`admin.py:156-162`); what is
not in the form stays as loaded. `SaveProject` is the later full-row save: it updates, or
inserts if the row is gone (Django's `save()` tries an UPDATE and then an INSERT). The
uniqueness of join codes is tested in `clean_join_code`, and again by the constraint when the
row is saved. `DayPasses` advances the calendar, on which end dates depend.

### 3.5 Memberships

Extends `ProjectAdmin`, so that projects are edited and deleted meanwhile, and `Accounts`, the
user table that this module shares with the next two.
A join is `FindProject` (lookup by code), `GetMembership` and `CreateMembership`
(`get_or_create`; a refused INSERT goes back to a second get that may fail), and `Join`,
which activates the membership by an UPDATE of the one column `status`. `FailJoin` may
come anywhere. Administrators add, change (load, then full-row save) and delete
memberships. `touched` is a history variable: did an administrator interfere with
this join since it looked the project up?

### 3.6 TokenChecks

Extends `ProjectAdmin`, too. `FindValid` is the one SELECT of `find_valid` (token, user,
project and class), `Allow` or `Deny` the later UPDATE with `F()` and the response,
`FailCheck` an exception between them. A check holds what it has read, in particular the
headers. `OpenForm` and `CreateToken` are the validation and the insert of `create_token`;
`OpenToken` and `SaveToken` the superusers' change view, which also writes the two counters
it shows read-only. Whether the URL is below the endpoint is a free choice per check.

`counted` (decisions per token), `eligible` (the headers that were right at some instant since
the check's read), `unseen` (the decisions that the row of a change view lacks, which grow while
it is open) and `missed` (those that a token's row lacks since such a row was saved) are history
variables.

### 3.7 Rights

Extends `ProjectAdmin` by who may do what: `staff` and `superusers` (the flags of the user table)
and `administrators` (the relation). Every project action gets its permission check at its
beginning (`MayEdit`, `IsSuperuser`), not at its commit. `SetAdministrators` is the part of a
superuser's form before the commit: the relation's difference to the posted list, and the users
that the `m2m_changed` signal raises, whose rows stay locked (`Locked`) until `CommitProject`.
`OpenUser` and `SaveUser` are the user admin. A login is `BeginLogin` (the row is loaded),
`UserDetails` (a save of the whole loaded row, when names differ) and `EndLogin`
(`promote_oidc_admin`). `lowered` and `granted` are history variables: whose staff flag was
taken by a whole-row save, and who was made a superuser by a superuser's form.

### 3.8 UsageReports

The path of a request: `Receive` (Envoy notes the start time), `Authorize` (the headers
get the shortcut of that moment), `Record` (the ledger's `Book`; late, or never),
with `Rename` and `Midnight` anywhere. `Dashboard` and `Metric` are the read side:
the dictionary comprehension that keeps the last row of a key in the order of
`Meta.ordering`, and the gauge whose `set()` replaces the value before. Where that
order leaves two rows tied, `Metric` is the set of possible values. Booking is atomic
here because `UsageRecording` implements the ledger.

### 3.9 Startup and JoinLimiter

`Startup` is `deploy/start.py` in every pod: `StartPod` (with the image that is the latest by
now), `TakeLock` (`pg_advisory_lock` waits), `ApplyNext` per migration, `FailMigration`, and
`Serve` (unlock, then Gunicorn). A migration is one transaction with its backfill; for
those with deferred SQL Django writes the row of `django_migrations` afterwards (`RecordNext`), and
a pod that is killed in between leaves a migration that no later start can repeat (`torn`).
`Exit` kills a pod anywhere; its session may outlive it for a while (`Orphan`, `EndSession`).
`InsertProject` adds rows through pods of any release, while another pod migrates. The backfills
are those of `0002` (shortcuts) and `0005` (quota keys).

`JoinLimiter` adds the counters of `views.py:35-42`, one cache per process: `Try` is the `add` of
an attempt, and `Refuse`, `WrongCode` and `RightCode` its `incr` with the outcome of
`join_project`, after which `trying` is free again. `Evict` and `Tick` are what the cache does by
itself; a `Tick` between the two may take the entry, and the attempt is refused. `Process` is a
step of `Startup` that empties the cache of a process that ends.
`lookups` is a history variable: wrong codes looked up since the entry was added.

### 3.10 Refinements

| Detailed | Abstract | How it is stated |
| --- | --- | --- |
| `UsageRecording` | `UsageLedger!LedgerSpec` | property `LedgerImplemented`; theorem `ImplementsLedger` |
| `UsageReports` | `UsageLedger!LedgerSpec` | the variables are shared; theorem `ReportsKeepLedger` |
| `Memberships`, `TokenChecks`, `Rights` | `ProjectAdmin!Spec` | the variables are shared; theorems `MembershipsKeepProjects`, `TokensKeepProjects`, `RightsKeepProjects` |
| `JoinLimiter` | `Startup!StartupSpec` | likewise; theorem `LimiterKeepsStartup` |

## 4. Runs

Every run finishes within five minutes on two cores. A "violation" run checks one
statement that a document, a message or a test of the repository makes; see 6.

| Run (`PROJECT.json`) | Instance | Shows |
| --- | --- | --- |
| `usage_recording` | 2 workers, 4 request ids, 2 daily rows; the same requests in opposite orders on two streams, one request under two days, an entry that is None, a record that cannot be stored | aggregate = event table; one event per request; a worker returns only when booked; the ledger is implemented; every message begun ends |
| `access_log` | 3 streams on 2 threads, 8 messages with complete, duplicate, undated, fractional, negative, huge, unreadable, blank and too long entries; a bigint of 3; 2 days; with and without tables | types, with the column's range; no complete entry is passed over; what is booked was reported; counters are sums; no stream waits for a thread for ever |
| `policy_safety` | 2 projects, 1 model, 2 classes, 2 deployers, 2 edits; connections stay up, no late request | mutual exclusion; references resolve; an undisturbed success takes effect |
| `policy_lost_connection` | 1 project, 2 models (one without a backend), 2 limits, 2 deployers, 1 edit; the lock may be lost, requests may execute late | a success that nobody disturbed takes effect, also when a late request reaches it in time to be repaired; a deployer unlocks only its own lock; every deployment ends |
| `policy_torn_read` | 1 project, 1 model, 1 deployer, 2 edits | violation |
| `project_edits` | 2 projects, 2 editors, 2 roles | unique codes; immutable quota keys; classes only from superusers |
| `membership_joins` | 2 joins, 2 users, 1 editor of memberships and of projects | types; one membership; kept promise; nothing undone |
| `token_checks` | 2 concurrent checks of a token, 1 editor of projects and tokens, 2 days | types; counters lack only what a change view has overwritten; accepted requests were eligible |
| `admin_rights` | 1 project, 2 requests at once, a superuser and another user, 2 logins | types; administrators are staff; superusers were made |
| `web_processes` | 2 pods, releases with 1 and with all 9 migrations, 2 projects, 2 kills; 1 user, a limit of 2 in a window of 2 | types; migrations serialized; a pod serves on its schema; rows complete; lookups bounded, also when an entry expires between `add` and `incr`; a lockout ends; every pod serves |
| `usage_reports` | 3 requests of one user and model in 2 projects, 3 shortcuts, 2 renames, 2 days, one entry without a start time | both reports are exact but for a key that a rename has split or shared; never too much; a project's rows hold all of its use |
| `reports_dashboard` | the same on one day, 1 rename | violation |

**Why these bounds.** A race between statements needs two actors and one shared row. Two
workers reach every branch of `get_or_create` (the row is there, is created, is met by the
INSERT and read again) and every lock wait; more of them are covered by the
proofs. Two daily rows let a lock on the wrong row show. In `PolicyDeployment` two
projects in different classes make documents stale and fresh at once, and two edits
are what the torn read needs (both between its queries); all kinds of documents and
both orders are always there. Two projects are needed for a uniqueness race, two checks for
a lost count, two renames for a shortcut that changes hands, two requests of administrators for
a right that is withdrawn in mid-flight, three streams on two threads for a wait, releases
before and after both backfills for a row of an old release that a migration must complete.
Different token amounts (1, 2 and 4) keep a wrong sum from being right by chance, and a bigint
of 3 makes both the single count and the daily total overflow. Counters and
keys are bounded by guards (`MaxEdits`, `MaxRenames`, `MaxLogins`, `MaxExits`, `LastDay`,
`LastToken`, `LastRow`, `LastCheck` and the set of quota keys): each bound is a constant of its
module and stops new work only. At the bound of `LastCheck` a check can only end without a count.

**Deadlock.** `CHECK_DEADLOCK FALSE` is used in the modules whose primary keys, days or
requests are used up at the bounds: the model may then stop with all work done. The
receiver, the deployers and the pods never stop, and there deadlock is checked.

**Symmetry.** Deployers, editors, joins and checks are interchangeable in the safety runs; the
runs with a liveness property use no symmetry.

**Fairness.**
- `UsageRecording`: weak fairness of a worker's step, since a thread goes on with the message
  it has. The three statements that can wait for another transaction get strong
  fairness, because PostgreSQL hands a lock to its waiters in the order of arrival, so that
  none is overtaken for ever. Messages and failures are not fair.
- `AccessLogStreams`: weak fairness of `ServeStream` only: an idle thread takes what the pool's
  queue holds. `StreamsServed` has the premise that fewer streams than threads are served
  again and again; Envoy may otherwise keep every thread for ever.
- `PolicyDeployment`: weak fairness of a deployer's step: requests to the API server have a
  timeout (`kubernetes.py`, `REQUEST_TIMEOUT`), so each ends, well or badly.
- `JoinLimiter`: Kubernetes restarts containers (`StartPod`), `start.py` goes on
  (`Migrating`), PostgreSQL grants the lock in the order of arrival (strong fairness of
  `TakeLock`) and ends dead sessions (`EndSession`), time passes (`Tick`). Users, editors,
  kills and evictions are not fair.

**Mutants.** Each property has a form of the code, named in `mutants` of `PROJECT.json`
and kept beside the definition it would replace, that breaks it: an increment in Python
instead of `F()`, a lock not awaited, documents applied in the wrong order, an unlock of
somebody else's lock, a save of all columns, a signal that is not connected, a fraction
rounded to a count, an expiry that every attempt renews, and so on.

## 5. Proofs

Checked by TLAPS for every value of the constants that satisfies the named assumptions
(which TLC evaluates in every run).

**`UsageRecordingProofs`** (from `RecordsAssumption` and the assumptions of
`UsageRecording`):

- `TypeCorrect`: `Spec => []TypeOK`.
- The inductive invariant is `IInv == TypeOK /\ LockInvariant /\ AggregateMatchesEvents`.
  `AggregateMatchesEvents` alone is not inductive: `Commit` writes the row version in
  `held`, which was computed at an earlier step. It stays right because nobody commits the
  same row or the same request in between, and this is what `LockInvariant` states
  (`NoSharedKeys`, `NoSharedRows`, `OpenEventIsNew`, `HeldVersionIsCurrent`). From it follow
  the theorems for `LockInvariant` itself, `AggregateMatchesEvents`, `OneEventPerRequest`,
  the action property `ReturnsOnlyWhenBooked`, and that `Spec` implements
  `UsageLedger`: `Commit` maps to `Book`, every other step to a stutter.
- `LocksNeverDeadlock`: a worker waits for the transaction that holds its key or its row. Who
  holds a row only has to commit (`RowWaitsForCommit`), and a record is inserted before its row
  is touched, so a wait passes through at most one other waiting worker.
- `MessagesTakeBoundedSteps`: `Remaining` counts the statements that are left and falls with each.

**`AccessLogStreamsProofs`** (from `StreamsAssumption`):

- `NoEntryPassedOver`. `HandledEntriesBooked` is inductive with the types of messages and
  positions: what was passed stays recorded (`RecordedStays`), and the entry that is passed now is
  incomplete, booked, or refused because it is booked already or negative (`EntryHandled`).
- `BookingsAreReports`, from `ParsedEntry` and `TokenCountTyped`, which say what a record keeps
  of its entry, for any numbers, and from `BookingStep`: the only step that changes the events
  books one such record.
- `PoolTypeCorrect` (`TypeOK`), from `PoolInvariant`: the queue holds the waiting streams, each
  once, and idle threads and served streams add up to `MaxWorkers`. `RemoveFirstAt` says what is
  left of a queue when a waiting stream is closed.
- `CountersExact` (`CountersAddUp`): an update with `F()` adds one record to the sum of its row
  (`SumExtended`, from `Sums`) and leaves the records of other rows alone.
- `StreamsNeverOvertaken`: no step moves a waiting stream back (`RemoveFirstMovesUp`), and each
  stream that gets a thread moves the ones behind it up.

**`PolicyDeploymentProofs`** (from `DeploymentAssumption`):

- `TypeCorrect`.
- `DeploymentsExclusive`: `~ LockCanBeLost /\ Spec => []MutualExclusion`, however late requests
  are executed. `LocksAreOwn`: `UnlocksOwnLock` without any hypothesis, from the types.
- `DependencyHolds`, and from it `ReferencesAlwaysResolve`, with the further hypothesis
  `~ LateRequests`. The conclusion about references
  is not inductive: a deletion of a route is safe only since the policies that target
  it were deleted or replaced before. `DependencyInvariant` says how far the one
  running deployer is: applied documents refer to routes in the cluster or in
  its own document set, kinds already pruned hold only wanted documents.
- `DeploymentsTakeEffect` needs neither hypothesis. Its `EffectInvariant` follows each deployment
  that nobody has disturbed (`OnTrack`): what it has read and built is the configuration of now,
  and it is as far as `Progress` says. Whatever another deployer or an editor writes disturbs it
  (`NotItsStep`); a late request disturbs it or leaves what it has done (`LateStep`); its own
  steps keep it on track (`OwnStep`); and when all kinds are pruned, the cluster holds what was
  built (`PrunedIsBuilt`).
- `DeploymentsTerminate`: `Phase` never falls, and within a phase documents get fewer.
- For references both hypotheses are needed: after a lost connection two deployments run
  side by side, and a policy of one may outlive a route that the other deletes; a
  policy that is applied after its timeout may refer to a route that the next deployment has
  pruned meanwhile.

**`ProjectAdminProofs`** (from `NullAssumption` and the assumptions of `ProjectAdmin`):

- `TypeCorrect`.
- `CodesStayUnique`: the code is compared with the table again when the row is saved
  (`SaveKeepsUnique`), which is all that the unique constraint contributes.
- `KeysNeverChange` and `ClassesChosenBySuperusers` are not inductive as they stand,
  because a late save writes what a change view loaded long ago. `KeyInvariant` and
  `ClassInvariant` say the same of the pending saves: they hold the key the project has
  always had and, if a project administrator saves, a class that a superuser once chose.

**`AccessProofs`**, about `Memberships` (from the above and `MembershipNullAssumption`):

- `MembershipsKeepProjects`, `MembershipsTypeCorrect`.
- `MembershipsStayOne`, with `KeysGivenOut`: a new row has a key that no other has, so that the
  comparison by key in the unique constraint compares rows.
- `JoinsKeepTheirPromise`, from `PromiseInvariant`: the row that a join holds is still there and
  no lower (`Kept`), unless an administrator touched the table since; another join can only raise
  it (`ActivationRaises`).
- `JoinsUndoNothing`: the UPDATE of the one column neither adds a row nor lowers one.

About `TokenChecks` (from `TokenAssumption` and `TokenNullAssumption`, too):

- `TokensKeepProjects`: `TokenSpec => Spec`, every step is one of `ProjectAdmin` or leaves
  its variables alone, so the theorems about projects hold here as well.
- `TokensTypeCorrect`.
- `ChecksAcceptTheEligible`. The invariant `ReadWasEligible` says that what a check under
  way holds was right at some instant since its read: right when it reads (`ReadIsRight`),
  and kept as it is until the answer (`UnderWayKeeps`).
- `CountersAreAccounted`, from `CounterInvariant`, and from it `CountersStayBehind`. The
  accounting of the rows alone is not inductive. A save of old counters needs that rows waiting
  to be saved lack what `unseen` says (`FormsAccountedFor`); a new token needs that nothing was
  decided for its key yet (`KeysInUse`). `CountsTogether` is the step that matters: the UPDATE
  with `F()` and the decision advance together, whatever the check read before.

About `Rights` (from `RightsAssumption` and `RightsNullAssumption`, too):

- `RightsKeepProjects`, `RightsTypeCorrect`.
- `AdministratorsStayStaff`. `StaffInvariant` says of the users that an open transaction will
  add that each has been staff before (`Known`: the flag goes only by a save that `lowered`
  remembers) or is raised by that transaction, at its commit.
- `SuperusersMade`. `SuperuserInvariant` says of the rows that logins hold, too, that
  they make nobody a superuser who was not entitled (`Entitled`) when they were read; being
  entitled lasts.

**`JoinLimiterProofs`** (from `StartupAssumption`, `StartupNullAssumption` and
`LimiterAssumption`):

- `StartupTypeCorrect`; `StartsSerialize`, from `SerialInvariant`: who is in a migration holds
  the lock, and what is applied and not recorded is what the holder is recording now, unless a
  pod was killed there.
- `PodsServeOnTheirSchema`: the schema only grows, and a pod serves after it has found nothing left.
- `ProjectsKeepTheirKeys`, from `RowsInvariant`: before its migration nobody has written a quota
  key, since a pod that knows the column serves only once the column is there; so the backfill
  overwrites none.
- `LimiterKeepsStartup`: `Spec => StartupSpec`, which carries all of these to the composition.
- `LimiterTypeCorrect`; `LookupsStayBounded`, from `LimiterInvariant`: no entry means no lookup
  since, and every lookup was counted before.
- `LockoutsRunOut`: `incr` leaves the expiry alone, so that an entry's time only gets shorter.
- `LockIsFreed`: who holds the lock is in its migration, or is a dead session that PostgreSQL will
  end. `MigrationsTerminate`: a pod's steps in its migration bring the schema or its record on.

**`Sums`** (no assumption): `SumFunction` of a function with a finite domain. `SumAdded`: any
element may be the first of the fold. From it `SumExtended` and `SumChanged` (one more value, one
other value), `SumOfFewer`, `SumByGroups` (a sum can be taken group by group) and `SumReindexed`.
The library's induction over finite sets takes a predicate as a parameter; here its place is taken
by a smallest set for which a statement fails (`SmallestSet`, from the well-foundedness of
inclusion), since a set of counterexamples can be named in a proof.

**`UsageReportsProofs`** (from `ReportAssumption`):

- `ReportsKeepLedger`: `Record` is the ledger's `Book`, everything else leaves its tables alone.
- `LedgerInvariant` relates the three places in which a request leaves a trace: it has one event,
  the event repeats its headers and the day of its start, and is charged once, to its own row.
  A row's `token_count` is then the sum over the events of its identity (`RowHasItsEvents`).
- `ProjectUseBooked`: the rows of a project group its events (`RowsOfEvents`, `SumByGroups`), and
  a sum over events is a sum over their requests (`TokensOfEvents`, `SumReindexed`).
- `ReportsHonest`: either report shows one row (`LastRow`, `DashboardShowsRow`), which holds some of
  the requests that have its labels (`RowWithinUse`, `SumOfFewer`).
- `ReportsExact`: if the calls of a user, project and model on a day all carry one shortcut, or
  those of a user, shortcut and model all belong to one project, there is one row with the labels
  and it holds them all (`RowIsDashboards`, `RowIsSeries`). No rename is excluded.

**Only model-checked.** The five liveness properties (`EveryMessageEnds`, `StreamsServed`,
`DeploymentEnds`, `LockoutEnds`, `EveryPodServes`): the provers have no rules for fairness and
ENABLED. What each of them rests on is proved, for every instance, as far as it is about states
and steps:

| Property | Proved | Left to the run |
| --- | --- | --- |
| `EveryMessageEnds` | no cycle of waits (`LocksNeverDeadlock`), finitely many statements (`MessagesTakeBoundedSteps`) | a fair lock queue and fair threads make every step happen |
| `StreamsServed` | first come, first served (`StreamsNeverOvertaken`), no thread is lost (`PoolTypeCorrect`) | threads that are idle again and again take the queue |
| `DeploymentEnds` | no step is repeated (`DeploymentsTerminate`) | requests end, so every step happens |
| `LockoutEnds` | nothing renews an entry (`LockoutsRunOut`) | time passes |
| `EveryPodServes` | only a migration or a dead session has the lock (`LockIsFreed`), migrations come to an end (`MigrationsTerminate`) | pods restart, the lock is granted in turn, sessions end |

No module uses a RECURSIVE operator; sums are folds.

## 6. What the runs found

Each finding, with the quoted statement, is in `PROJECT.json` (`findings`).

1. `policy_torn_read`: the two queries of `build_policy_documents` run outside a
   transaction; with two edits between them a deployment builds the documents of a
   configuration that never existed and prunes a route that was configured all the
   time.
2. `reports_dashboard`: after a project's shortcut is edited, the dashboard shows one of
   the day's two rows instead of their sum.

Modelling met further behaviours that no document denies. They are in the modules, and they
are the conditions under which the properties are stated:

- A project administrator's late save writes the whole row as loaded: it may bring back an earlier
  limit class or a deleted project. `ClassFromSuperuser` therefore says that a superuser chose
  the class once, not that he chose it last.
- A superuser's save of a token writes the counters it has loaded. `CountersAccountedFor` says
  exactly which decisions are lost so.
- A request to the API server that is executed when the next deployment has passed its document,
  or has ended, stays in the cluster until a further deployment: `DeployTakesEffect` promises
  nothing for it.
- When another project takes over a shortcut the same day, the exporter's series has the row of
  one of the two. `ReportsNeverOver` still holds, and `ExactUnlessSplit` claims exactness for every
  series and every line of the dashboard that no rename has shared or split so.
- A user form, or a login whose names have changed, saves a whole user row and may take the staff
  flag that the signal has just given, or give back one that was taken.
  `AdministratorsAreStaff` excludes users whose flag was last taken so.
- A pod that is killed after a migration with deferred SQL commits and before it is recorded
  leaves a state in which every later start fails until somebody repairs it by hand.
  `EveryPodServes` and the second part of `MigrationsSerialized` exclude it.
- The limit on project codes counts per process, so that two pods allow twice as many
  attempts as configured.

Reading the code showed one more, for which no model is needed: `README.md:104` promises
circuit breakers with `maxPendingRequests: 0`, but `quota_document` sets it to the concurrency
limit, and the comment at `policies.py:113-115` says why zero would be wrong. The document
is out of date; the model follows the code.

## 7. What is not modelled, and why

- **References after a lost lock or a late request**: they may break for a while, as 5 says. Then
  only `UnlocksOwnLock`, `DeployTakesEffect` and `DeploymentEnds` are claimed (and, with late
  requests but no lost lock, mutual exclusion). At most one late request is under way at a time.
- **Deletion of users**: users are a fixed set in every module; their cascade to tokens and
  memberships is that of projects, which is modelled.
- **Comparison of URLs and headers** (`_matches_api_endpoint`, the bearer prefix): string handling
  without state, abstracted to its outcomes.
- **Columns that no rule depends on**: names, descriptions, dates of creation, and the initial
  concurrency limits that migration `0006` fills in. `Startup` has the number and order of the
  migrations and the backfills of the project table.
- **Display of a new token** in the session, membership form details, the administrators'
  page that lists users with an active token (`UsageReports` looks given identities up instead),
  the limits shown beside the numbers, the metrics token.
- **One calendar per module.** End dates use the local date and usage the UTC day; no
  property relates the two.
- **More than one Gunicorn worker per pod**: the image starts one synchronous worker; with more,
  each has its own cache and the bound of `LookupsBounded` holds for each.
- **Pages, templates, settings, health views, generated gRPC code, manifests**: presentation,
  configuration or generated.
