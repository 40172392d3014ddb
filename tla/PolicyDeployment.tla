--------------------------- MODULE PolicyDeployment ---------------------------
(***************************************************************************)
(* "Deploy all Envoy policies": the limit classes administrators edit in   *)
(* the database (apps/authz/models.py), the Kubernetes documents that are  *)
(* built from them (apps/authz/policies.py), and deploy_all_policies       *)
(* (apps/authz/kubernetes.py), which any web worker of any pod may run.    *)
(*                                                                         *)
(* A deployment takes an advisory lock, reads projects and model limits in *)
(* two queries, applies the documents kind by kind, lists and deletes what *)
(* is no longer wanted in the reverse order of kinds, and unlocks.  Every  *)
(* request to the API server is a step; edits and failures may come        *)
(* between any two of them.                                                *)
(***************************************************************************)
EXTENDS Naturals, Sequences

CONSTANTS Projects, Models, Classes,
          Limits,          \* [daily_token_limit, max_parallel_requests] values
          Backends,        \* models in settings.AIGATEWAY_MODEL_BACKENDS
          Deployers,       \* web workers that may run a deployment
          ClassAuth,       \* the one SecurityPolicy's name
          NULL,            \* no limit class, no limit, no value
          NoOne,           \* nobody holds the advisory lock
          LockCanBeLost,   \* may a database connection break under a deployment?
          LateRequests,    \* may the API server execute a request after its timeout?
          MaxEdits         \* bound on the number of edits

RouteNames == Projects \X Models

\* A quota's rate limit and circuit breaker.
Quotas == [requests : Nat, maxParallel : Nat \cup {NULL}, maxPending : Nat \cup {NULL}]

Kinds == {"AIGatewayRoute", "BackendTrafficPolicy", "SecurityPolicy"}

ASSUME DeploymentAssumption ==
    /\ Limits \subseteq [daily_token_limit : Nat,
                         max_parallel_requests : Nat \cup {NULL}]
    /\ Backends \subseteq Models
    /\ NoOne \notin Deployers
    /\ NULL \notin Classes \cup Limits \cup Quotas
    /\ ClassAuth \notin RouteNames
    /\ LockCanBeLost \in BOOLEAN /\ LateRequests \in BOOLEAN
    /\ MaxEdits \in Nat

VARIABLES limit_class,   \* Project.limit_class
          model_limits,  \* the rows of ProjectModelLimit
          cluster,       \* GrantDeck's documents in the Kubernetes namespace
          late,          \* a request that its client gave up, not executed yet, or NULL
          lock,          \* holder of pg_advisory_lock(LOCK_ID)
          pc,            \* where each deployer is
          projects,      \* its first query: the projects and their classes
          desired,       \* the documents it has built
          pending,       \* the documents it has still to apply
          listed,        \* how many kinds it has listed for pruning
          doomed,        \* the listed names it has still to delete
          result,        \* what the administrator was told
          disturbed,     \* history: has another write disturbed it since?
          wanted,        \* history: the routes configured ever since it started
          edits          \* how many edits there were (at most MaxEdits)

outside == <<limit_class, model_limits, edits, late>>
local == <<projects, desired, pending, listed, doomed>>
history == <<disturbed, wanted>>
vars == <<limit_class, model_limits, cluster, late, lock, pc, projects, desired,
          pending, listed, doomed, result, disturbed, wanted, edits>>

-----------------------------------------------------------------------------
(* policies.py                                                             *)

route_document(r) ==
    [kind |-> "AIGatewayRoute", name |-> r, targetRefs |-> {}, quota |-> NULL]

quota_document(r, limit) ==
    [kind |-> "BackendTrafficPolicy", name |-> r, targetRefs |-> {r},
     quota |-> [requests |-> limit.daily_token_limit,
                maxParallel |-> limit.max_parallel_requests,
                maxPending |-> limit.max_parallel_requests]]

security_policy_document(routes) ==
    [kind |-> "SecurityPolicy", name |-> ClassAuth, targetRefs |-> routes,
     quota |-> NULL]

Documents ==
    [kind : Kinds, name : RouteNames \cup {ClassAuth},
     targetRefs : SUBSET RouteNames, quota : Quotas \cup {NULL}]

\* A PATCH or a DELETE.
Requests == [verb : {"apply", "delete"}, doc : Documents]

\* The project/model pairs that a configuration gives a limit.
Wanted(class, limits) ==
    {r \in RouteNames : class[r[1]] # NULL /\ limits[class[r[1]]][r[2]] # NULL}

\* build_policy_documents, given its two query results.
build_policy_documents(class, limits) ==
    LET routes == Wanted(class, limits)
    IN  {route_document(r) : r \in routes}
          \cup {quota_document(r, limits[class[r[1]]][r[2]]) : r \in routes}
          \cup {security_policy_document(s) : s \in {routes} \ {{}}}

\* route_document raises CommandError for a model without a backend.
Buildable(class, limits) == \A r \in Wanted(class, limits) : r[2] \in Backends

-----------------------------------------------------------------------------
(* kubernetes.py: constants and the API server                             *)

APPLY_ORDER ==
    [k \in Kinds |-> CASE k = "AIGatewayRoute" -> 0
                       [] k = "BackendTrafficPolicy" -> 1
                       [] k = "SecurityPolicy" -> 2]

PRUNE_ORDER_Forward == <<"AIGatewayRoute", "BackendTrafficPolicy", "SecurityPolicy">>

\* Routes are applied and never pruned.
PRUNE_ORDER_NoRoutes == <<"SecurityPolicy", "BackendTrafficPolicy">>

PRUNE_ORDER == <<"SecurityPolicy", "BackendTrafficPolicy", "AIGatewayRoute">>

Same(d, e) == d.kind = e.kind /\ d.name = e.name

\* An apply that leaves an existing document as it is.
Applied_CreateOnly(documents, doc) ==
    documents \cup {d \in {doc} : \A e \in documents : ~ Same(d, e)}

\* Server-side apply with force: the document replaces the one of its name.
Applied(documents, doc) == {d \in documents : ~ Same(d, doc)} \cup {doc}

-----------------------------------------------------------------------------

TypeOK ==
    /\ limit_class \in [Projects -> Classes \cup {NULL}]
    /\ model_limits \in [Classes -> [Models -> Limits \cup {NULL}]]
    /\ cluster \in SUBSET Documents
    /\ late \in Requests \cup {NULL}
    /\ lock \in Deployers \cup {NoOne}
    /\ pc \in [Deployers -> {"idle", "projects", "limits", "apply", "list", "delete"}]
    /\ projects \in [Deployers -> [Projects -> Classes \cup {NULL}]]
    /\ desired \in [Deployers -> SUBSET Documents]
    /\ pending \in [Deployers -> SUBSET Documents]
    /\ listed \in [Deployers -> 0..Len(PRUNE_ORDER)]
    /\ doomed \in [Deployers -> SUBSET Documents]
    /\ result \in [Deployers -> {"none", "deployed", "refused", "failed"}]
    /\ disturbed \in [Deployers -> BOOLEAN]
    /\ wanted \in [Deployers -> SUBSET RouteNames]
    /\ edits \in 0..MaxEdits

NoProjects == [p \in Projects |-> NULL]

Init ==
    /\ limit_class \in [Projects -> Classes \cup {NULL}]
    /\ model_limits \in [Classes -> [Models -> Limits \cup {NULL}]]
    /\ cluster = {}
    /\ late = NULL
    /\ lock = NoOne
    /\ pc = [d \in Deployers |-> "idle"]
    /\ projects = [d \in Deployers |-> NoProjects]
    /\ desired = [d \in Deployers |-> {}]
    /\ pending = [d \in Deployers |-> {}]
    /\ listed = [d \in Deployers |-> 0]
    /\ doomed = [d \in Deployers |-> {}]
    /\ result = [d \in Deployers |-> "none"]
    /\ disturbed = [d \in Deployers |-> FALSE]
    /\ wanted = [d \in Deployers |-> {}]
    /\ edits = 0

Goto(d, label) == pc' = [pc EXCEPT ![d] = label]

\* History: a write that these deployments, if they run, did not see coming.
Disturb(others) ==
    disturbed' = [d \in Deployers |-> disturbed[d] \/ (d \in others /\ pc[d] # "idle")]

-----------------------------------------------------------------------------
(* The administrators (apps/authz/admin.py)                                *)

\* An edit of the configuration is committed.
Edited ==
    /\ edits < MaxEdits
    /\ edits' = edits + 1
    /\ Disturb(Deployers)
    /\ wanted' = [d \in Deployers |-> wanted[d] \cap Wanted(limit_class', model_limits')]
    /\ UNCHANGED <<cluster, late, lock, pc, local, result>>

\* A superuser gives a project another limit class or none, or deletes it.
AssignClass(p, c) ==
    /\ limit_class[p] # c
    /\ limit_class' = [limit_class EXCEPT ![p] = c]
    /\ UNCHANGED model_limits
    /\ Edited

\* A superuser adds, changes or (NULL) deletes a model limit.
SetLimit(c, m, l) ==
    /\ model_limits[c][m] # l
    /\ model_limits' = [model_limits EXCEPT ![c][m] = l]
    /\ UNCHANGED limit_class
    /\ Edited

\* A superuser deletes a class, which projects protect, and with it all its limits.
DeleteClass(c) ==
    /\ \A p \in Projects : limit_class[p] # c
    /\ \E m \in Models : model_limits[c][m] # NULL
    /\ model_limits' = [model_limits EXCEPT ![c] = [m \in Models |-> NULL]]
    /\ UNCHANGED limit_class
    /\ Edited

-----------------------------------------------------------------------------
(* deploy_all_policies                                                     *)

Forget(d) ==
    /\ projects' = [projects EXCEPT ![d] = NoProjects]
    /\ desired' = [desired EXCEPT ![d] = {}]
    /\ pending' = [pending EXCEPT ![d] = {}]
    /\ listed' = [listed EXCEPT ![d] = 0]
    /\ doomed' = [doomed EXCEPT ![d] = {}]
    /\ disturbed' = [disturbed EXCEPT ![d] = FALSE]
    /\ wanted' = [wanted EXCEPT ![d] = {}]

Report(d, r) == result' = [result EXCEPT ![d] = r]

\* A lock that is granted whether or not it is held.
LockGranted_Always == TRUE

\* pg_try_advisory_lock: the answer at this moment.
LockGranted == lock = NoOne

\* pg_try_advisory_lock returned true.
Start(d) ==
    /\ pc[d] = "idle"
    /\ LockGranted
    /\ lock' = d
    /\ Goto(d, "projects")
    /\ Report(d, "none")
    /\ wanted' = [wanted EXCEPT ![d] = Wanted(limit_class, model_limits)]
    /\ UNCHANGED <<outside, cluster, local, disturbed>>

\* It returned false: PolicyDeploymentInProgress.
Refuse(d) ==
    /\ pc[d] = "idle"
    /\ ~ LockGranted
    /\ Report(d, "refused")
    /\ UNCHANGED <<outside, cluster, lock, pc, local, history>>

\* First query of build_policy_documents; it needs the database connection.
ReadProjects(d) ==
    /\ pc[d] = "projects" /\ lock = d
    /\ projects' = [projects EXCEPT ![d] = limit_class]
    /\ Goto(d, "limits")
    /\ UNCHANGED <<outside, cluster, lock, desired, pending, listed, doomed,
                   result, history>>

\* Its second query (the prefetch), and the documents, if they can be built.
ReadLimits(d) ==
    /\ pc[d] = "limits" /\ lock = d
    /\ Buildable(projects[d], model_limits)
    /\ LET docs == build_policy_documents(projects[d], model_limits)
       IN  /\ desired' = [desired EXCEPT ![d] = docs]
           /\ pending' = [pending EXCEPT ![d] = docs]
    /\ Goto(d, "apply")
    /\ UNCHANGED <<outside, cluster, lock, projects, listed, doomed, result,
                   history>>

\* The documents of the first kind that has some left.
NextDocuments(d) ==
    {doc \in pending[d] :
        \A other \in pending[d] : APPLY_ORDER[doc.kind] <= APPLY_ORDER[other.kind]}

\* _apply of the next document.
ApplyNext(d) ==
    /\ pc[d] = "apply"
    /\ \E doc \in NextDocuments(d) :
          /\ cluster' = Applied(cluster, doc)
          /\ pending' = [pending EXCEPT ![d] = @ \ {doc}]
    /\ Disturb(Deployers \ {d})
    /\ UNCHANGED <<outside, lock, pc, projects, desired, listed, doomed, result, wanted>>

\* Everything is applied: _prune begins.
BeginPrune(d) ==
    /\ pc[d] = "apply" /\ pending[d] = {}
    /\ Goto(d, "list")
    /\ UNCHANGED <<outside, cluster, lock, local, result, history>>

\* list_namespaced_custom_object of the next kind, and the names to delete.
ListKind(d) ==
    /\ pc[d] = "list" /\ listed[d] < Len(PRUNE_ORDER)
    /\ doomed' = [doomed EXCEPT ![d] =
                     {doc \in cluster : /\ doc.kind = PRUNE_ORDER[listed[d] + 1]
                                        /\ \A e \in desired[d] : ~ Same(doc, e)}]
    /\ listed' = [listed EXCEPT ![d] = @ + 1]
    /\ Goto(d, "delete")
    /\ UNCHANGED <<outside, cluster, lock, projects, desired, pending, result,
                   history>>

\* delete_namespaced_custom_object; an object that is already gone is a 404 and
\* ends the deployment (Fail).
DeleteNext(d) ==
    /\ pc[d] = "delete"
    /\ \E doc \in doomed[d] :
          /\ \E e \in cluster : Same(doc, e)
          /\ cluster' = {e \in cluster : ~ Same(doc, e)}
          /\ doomed' = [doomed EXCEPT ![d] = @ \ {doc}]
    /\ Disturb(Deployers \ {d})
    /\ UNCHANGED <<outside, lock, pc, projects, desired, pending, listed, result, wanted>>

\* This kind is pruned.
KindPruned(d) ==
    /\ pc[d] = "delete" /\ doomed[d] = {}
    /\ Goto(d, "list")
    /\ UNCHANGED <<outside, cluster, lock, local, result, history>>

\* A deployment that ends and keeps the lock.
Unlock_Never(d) == UNCHANGED lock

\* Unlocks whoever holds the lock.
Unlock_Any(d) == lock' = NoOne

\* pg_advisory_unlock releases only the session's own lock; on a connection that
\* was lost, the lock is gone already and may be somebody else's by now.
Unlock(d) == lock' = IF lock = d THEN NoOne ELSE lock

\* All kinds are pruned; the finally clause unlocks, or raises if the connection
\* was lost.
Finish(d) ==
    /\ pc[d] = "list" /\ listed[d] = Len(PRUNE_ORDER)
    /\ Unlock(d)
    /\ Report(d, IF lock = d THEN "deployed" ELSE "failed")
    /\ Goto(d, "idle")
    /\ Forget(d)
    /\ UNCHANGED <<outside, cluster>>

\* An exception anywhere (CommandError, no credentials, the API server refuses or
\* times out, 404), or the death of the process, whose session then ends.  The
\* request under way was executed (an ApplyNext or DeleteNext came before this
\* step) or was not.  What was applied so far stays.
Fail(d) ==
    /\ pc[d] # "idle"
    /\ Unlock(d)
    /\ Report(d, "failed")
    /\ Goto(d, "idle")
    /\ Forget(d)
    /\ UNCHANGED <<outside, cluster>>

\* The same, but the request under way is executed later, or never: the client has
\* given it up (REQUEST_TIMEOUT), or died.
TimeOut(d) ==
    /\ LateRequests /\ late = NULL
    /\ \/ pc[d] = "apply" /\ \E doc \in NextDocuments(d) :
              late' = [verb |-> "apply", doc |-> doc]
       \/ pc[d] = "delete" /\ \E doc \in doomed[d] :
              late' = [verb |-> "delete", doc |-> doc]
    /\ Unlock(d)
    /\ Report(d, "failed")
    /\ Goto(d, "idle")
    /\ Forget(d)
    /\ UNCHANGED <<limit_class, model_limits, edits, cluster>>

\* History: the late request changes a document that this deployment has applied, or
\* adds one of a kind that it has listed already.  Whatever else a late request does,
\* the deployment still overwrites or prunes.
ComesTooLate(d) ==
    \/ \E doc \in desired[d] \ pending[d] :
          Same(late.doc, doc) /\ ~ (late.verb = "apply" /\ late.doc = doc)
    \/ /\ late.verb = "apply" /\ late.doc \notin desired[d]
       /\ \E i \in 1..listed[d] : PRUNE_ORDER[i] = late.doc.kind

\* The API server comes to that request.
ExecuteLate ==
    /\ late # NULL
    /\ cluster' = IF late.verb = "apply" THEN Applied(cluster, late.doc)
                  ELSE {e \in cluster : ~ Same(late.doc, e)}
    /\ late' = NULL
    /\ Disturb({d \in Deployers : ComesTooLate(d)})
    /\ UNCHANGED <<limit_class, model_limits, edits, lock, pc, local, result, wanted>>

DropLate ==
    /\ late # NULL
    /\ late' = NULL
    /\ UNCHANGED <<limit_class, model_limits, edits, cluster, lock, pc, local, result, history>>

\* The database connection breaks while the deployment talks to Kubernetes: the
\* server frees the session's lock, the deployment goes on.
LoseLock(d) ==
    /\ LockCanBeLost
    /\ lock = d
    /\ lock' = NoOne
    /\ UNCHANGED <<outside, cluster, pc, local, result, history>>

-----------------------------------------------------------------------------

Step(d) ==
    \/ ReadProjects(d) \/ ReadLimits(d) \/ ApplyNext(d) \/ BeginPrune(d)
    \/ ListKind(d) \/ DeleteNext(d) \/ KindPruned(d) \/ Finish(d) \/ Fail(d)

Edit ==
    \/ \E p \in Projects, c \in Classes \cup {NULL} : AssignClass(p, c)
    \/ \E c \in Classes, m \in Models, l \in Limits \cup {NULL} : SetLimit(c, m, l)
    \/ \E c \in Classes : DeleteClass(c)

Next ==
    \/ Edit
    \/ \E d \in Deployers : Start(d) \/ Refuse(d) \/ Step(d) \/ TimeOut(d) \/ LoseLock(d)
    \/ ExecuteLate \/ DropLate

Spec == Init /\ [][Next]_vars

\* Every request has a timeout (REQUEST_TIMEOUT), so a deployment goes on until it
\* ends; nobody is obliged to start one, and no failure is obliged to happen.
FairSpec == Spec /\ \A d \in Deployers : WF_vars(Step(d))

-----------------------------------------------------------------------------
(* Properties                                                              *)

\* deployment_lock: two deployments never run at once.
MutualExclusion ==
    \A d, e \in Deployers : pc[d] # "idle" /\ pc[e] # "idle" => d = e

\* Every route that a document targets is among the documents.
Closed(documents) ==
    \A doc \in documents, r \in RouteNames :
        r \in doc.targetRefs => route_document(r) \in documents

\* The dependency order of APPLY_ORDER and PRUNE_ORDER: no quota or security policy
\* in the cluster ever targets a route that is not there, wherever deployments
\* failed, died, or were repeated with another configuration.
ReferencesResolve == Closed(cluster)

\* Why the references resolve: the documents of a deployment are well formed, closed
\* under their references and applied routes first; what it has applied stays; and
\* when it comes to the routes, every policy that is left is one of its own.
WellFormed(doc) ==
    /\ doc.kind \in Kinds
    /\ doc.kind = "AIGatewayRoute" =>
          doc.name \in RouteNames /\ doc = route_document(doc.name)
    /\ doc.kind = "BackendTrafficPolicy" => doc.targetRefs = {doc.name}
    /\ doc.kind = "SecurityPolicy" => doc.name = ClassAuth

NamesUnique(documents) == \A x, y \in documents : Same(x, y) => x = y

ClusterConsistent ==
    /\ \A doc \in cluster : WellFormed(doc)
    /\ NamesUnique(cluster)
    /\ ReferencesResolve

DesiredConsistent ==
    \A d \in Deployers :
        /\ \A doc \in desired[d] : WellFormed(doc)
        /\ NamesUnique(desired[d])
        /\ Closed(desired[d])

\* All documents of the i-th kind that is pruned are desired ones.
KindClean(d, i) == \A doc \in cluster : doc.kind = PRUNE_ORDER[i] => doc \in desired[d]

Progress(d) ==
    /\ pc[d] = "apply" => pending[d] \subseteq desired[d]
                         /\ desired[d] \ pending[d] \subseteq cluster
                         /\ listed[d] = 0
    /\ pc[d] \in {"list", "delete"} =>
          /\ pending[d] = {}
          /\ desired[d] \subseteq cluster
          /\ \A i \in 1..3 : i < listed[d] => KindClean(d, i)
    /\ pc[d] = "list" /\ listed[d] > 0 => KindClean(d, listed[d])
    /\ pc[d] = "delete" =>
          /\ listed[d] > 0
          /\ \A doc \in doomed[d] : /\ doc.kind = PRUNE_ORDER[listed[d]]
                                     /\ \A e \in desired[d] : ~ Same(doc, e)
          /\ \A doc \in cluster : doc.kind = PRUNE_ORDER[listed[d]] =>
                                    doc \in desired[d] \cup doomed[d]

DependencyInvariant ==
    /\ \A d \in Deployers : pc[d] # "idle" => lock = d /\ Progress(d)
    /\ \A d \in Deployers : listed[d] > 0 => pc[d] \in {"list", "delete"}
    /\ ClusterConsistent
    /\ DesiredConsistent

\* README.md:104 "Policy changes take effect after a superuser selects Deploy all
\* Envoy policies": when a deployment reports success and nobody else wrote to the
\* database or the cluster since it started, the cluster holds exactly the documents
\* of the configuration, whatever earlier failed deployments had left in it.  A request
\* of an earlier deployment that is executed meanwhile, after its timeout
\* (kubernetes.py:104), does no harm unless it ComesTooLate to be repaired.
DeployTakesEffect ==
    [][\A d \in Deployers :
          result[d] # "deployed" /\ result'[d] = "deployed" /\ ~ disturbed[d]
              => cluster' = build_policy_documents(limit_class', model_limits')]_vars

\* A deployment whose connection broke does not release its successor's lock
\* (kubernetes.py:75-77): a lock is given up by the deployment that took it.
UnlocksOwnLock ==
    [][\A d \in Deployers :
          lock = d /\ lock' # d
              => lock' = NoOne /\ (pc'[d] = "idle" \/ pc' = pc)]_vars

\* A deployment ends and frees the lock, so that the next one is not refused.
DeploymentEnds == \A d \in Deployers : lock = d ~> lock # d

\* admin.py:293-294 "pruned ... stale resources": a route that a deployment deletes
\* was out of the configuration at some moment since that deployment started.
PrunesOnlyStale ==
    [][\A r \in RouteNames :
          route_document(r) \in cluster /\ route_document(r) \notin cluster'
              => \E d \in Deployers : pc[d] = "delete" /\ r \notin wanted[d]]_vars
==============================================================================
