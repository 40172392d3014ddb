------------------------ MODULE PolicyDeploymentProofs ------------------------
(***************************************************************************)
(* PolicyDeployment for every set of projects, models, classes, limits and *)
(* deployers.  Its state is well typed, a deployment releases no lock but  *)
(* its own, and one that succeeds undisturbed has taken effect.  While     *)
(* connections stay up deployments exclude each other, and while requests  *)
(* are not late either, no policy ever targets a route that is not there.  *)
(***************************************************************************)
EXTENDS PolicyDeployment, TLAPS

\* What build_policy_documents returns.
LEMMA BuiltDocuments ==
    ASSUME DeploymentAssumption,
           NEW class \in [Projects -> Classes \cup {NULL}],
           NEW limits \in [Classes -> [Models -> Limits \cup {NULL}]]
    PROVE  LET docs == build_policy_documents(class, limits)
           IN  /\ docs \in SUBSET Documents
               /\ \A doc \in docs : WellFormed(doc)
               /\ NamesUnique(docs)
               /\ Closed(docs)
<1> DEFINE routes == Wanted(class, limits)
           L(r) == limits[class[r[1]]][r[2]]
           docs == build_policy_documents(class, limits)
<1>1. routes \subseteq RouteNames
  BY DEF Wanted
<1>2. ASSUME NEW r \in routes PROVE L(r) \in Limits
  BY <1>2 DEF Wanted, RouteNames
<1>3. ASSUME NEW doc \in docs
      PROVE  \/ \E r \in routes : doc = route_document(r)
             \/ \E r \in routes : doc = quota_document(r, L(r))
             \/ doc = security_policy_document(routes)
  BY <1>3 DEF build_policy_documents
<1>4. \A r \in routes : route_document(r) \in docs
  BY DEF build_policy_documents
<1>5. ASSUME NEW r \in routes PROVE quota_document(r, L(r)) \in Documents
  BY <1>1, <1>2, <1>5
     DEF quota_document, Documents, Quotas, Kinds, DeploymentAssumption
<1>6. docs \in SUBSET Documents
  BY <1>1, <1>3, <1>5
     DEF route_document, security_policy_document, Documents, Kinds
<1>7. \A doc \in docs : WellFormed(doc)
  BY <1>1, <1>3
     DEF WellFormed, route_document, quota_document, security_policy_document, Kinds
<1>8. NamesUnique(docs)
  <2> SUFFICES ASSUME NEW x \in docs, NEW y \in docs, Same(x, y) PROVE x = y
    BY DEF NamesUnique
  <2>1. CASE \E r \in routes : x = route_document(r)
    BY <1>3, <2>1 DEF Same, route_document, quota_document, security_policy_document
  <2>2. CASE \E r \in routes : x = quota_document(r, L(r))
    <3>1. PICK r \in routes : x = quota_document(r, L(r))
      BY <2>2
    <3>2. PICK s \in routes : y = quota_document(s, L(s))
      <4>1. y.kind = "BackendTrafficPolicy"
        BY <3>1 DEF Same, quota_document
      <4>2. y # security_policy_document(routes)
        BY <4>1 DEF security_policy_document
      <4>3. \A s \in routes : y # route_document(s)
        BY <4>1 DEF route_document
      <4> HIDE DEF docs
      <4> QED
        BY <1>3, <4>2, <4>3
    <3>3. r = s
      BY <3>1, <3>2 DEF Same, quota_document
    <3> QED
      BY <3>1, <3>2, <3>3
  <2>3. CASE x = security_policy_document(routes)
    BY <1>3, <2>3 DEF Same, route_document, quota_document, security_policy_document
  <2> QED
    BY <1>3, <2>1, <2>2, <2>3
<1>9. Closed(docs)
  BY <1>3, <1>4 DEF Closed, route_document, quota_document, security_policy_document
<1> QED
  BY <1>6, <1>7, <1>8, <1>9

-----------------------------------------------------------------------------

LEMMA InitTyped == DeploymentAssumption /\ Init => TypeOK
BY DEF Init, TypeOK, NoProjects, PRUNE_ORDER, DeploymentAssumption

LEMMA StepTyped == DeploymentAssumption /\ TypeOK /\ [Next]_vars => TypeOK'
<1> SUFFICES ASSUME DeploymentAssumption, TypeOK, [Next]_vars PROVE TypeOK'
  OBVIOUS
<1>0. Len(PRUNE_ORDER) = 3
  BY DEF PRUNE_ORDER
<1> USE DEF DeploymentAssumption
<1>1. ASSUME NEW p \in Projects, NEW c \in Classes \cup {NULL}, AssignClass(p, c)
      PROVE  TypeOK'
  BY <1>1 DEF AssignClass, Edited, Disturb, local, TypeOK
<1>2. ASSUME NEW c \in Classes, NEW m \in Models, NEW l \in Limits \cup {NULL},
             SetLimit(c, m, l)
      PROVE  TypeOK'
  BY <1>2 DEF SetLimit, Edited, Disturb, local, TypeOK
<1>3. ASSUME NEW d \in Deployers, Start(d) PROVE TypeOK'
  BY <1>3 DEF Start, Goto, Report, Wanted, outside, local, TypeOK
<1>4. ASSUME NEW d \in Deployers, Refuse(d) PROVE TypeOK'
  BY <1>4 DEF Refuse, Report, outside, local, history, TypeOK
<1>5. ASSUME NEW d \in Deployers, ReadProjects(d) PROVE TypeOK'
  BY <1>5 DEF ReadProjects, Goto, outside, history, TypeOK
<1>6. ASSUME NEW d \in Deployers, ReadLimits(d) PROVE TypeOK'
  <2>1. build_policy_documents(projects[d], model_limits) \in SUBSET Documents
    BY BuiltDocuments DEF TypeOK
  <2> QED
    BY <1>6, <2>1 DEF ReadLimits, Goto, outside, history, TypeOK
<1>7. ASSUME NEW d \in Deployers, ApplyNext(d) PROVE TypeOK'
  <2>1. PICK doc \in pending[d] :
            /\ cluster' = Applied(cluster, doc)
            /\ pending' = [pending EXCEPT ![d] = @ \ {doc}]
    BY <1>7 DEF ApplyNext, NextDocuments
  <2>2. cluster' \in SUBSET Documents
    BY <2>1 DEF Applied, TypeOK
  <2> QED
    BY <1>7, <2>1, <2>2 DEF ApplyNext, Disturb, outside, TypeOK
<1>8. ASSUME NEW d \in Deployers, BeginPrune(d) PROVE TypeOK'
  BY <1>8 DEF BeginPrune, Goto, outside, local, history, TypeOK
<1>9. ASSUME NEW d \in Deployers, ListKind(d) PROVE TypeOK'
  <2>1. listed[d] \in 0..3 /\ listed[d] < 3
    BY <1>0, <1>9 DEF ListKind, TypeOK
  <2>2. listed' \in [Deployers -> 0..Len(PRUNE_ORDER)]
    BY <1>0, <1>9, <2>1 DEF ListKind, TypeOK
  <2>3. doomed' \in [Deployers -> SUBSET Documents]
    BY <1>9 DEF ListKind, TypeOK
  <2> QED
    BY <1>9, <2>2, <2>3 DEF ListKind, Goto, outside, history, TypeOK
<1>10. ASSUME NEW d \in Deployers, DeleteNext(d) PROVE TypeOK'
  <2>1. PICK doc \in doomed[d] :
            /\ cluster' = {e \in cluster : ~ Same(doc, e)}
            /\ doomed' = [doomed EXCEPT ![d] = @ \ {doc}]
    BY <1>10 DEF DeleteNext
  <2> QED
    BY <1>10, <2>1 DEF DeleteNext, Disturb, outside, TypeOK
<1>11. ASSUME NEW d \in Deployers, KindPruned(d) PROVE TypeOK'
  BY <1>11 DEF KindPruned, Goto, outside, local, history, TypeOK
<1>12. ASSUME NEW d \in Deployers, Finish(d) PROVE TypeOK'
  BY <1>0, <1>12 DEF Finish, Unlock, Report, Goto, Forget, NoProjects, outside, TypeOK
<1>13. ASSUME NEW d \in Deployers, Fail(d) PROVE TypeOK'
  BY <1>0, <1>13 DEF Fail, Unlock, Report, Goto, Forget, NoProjects, outside, TypeOK
<1>14. ASSUME NEW d \in Deployers, LoseLock(d) PROVE TypeOK'
  BY <1>14 DEF LoseLock, outside, local, history, TypeOK
<1>15. CASE UNCHANGED vars
  BY <1>15 DEF vars, TypeOK
<1>16. ASSUME NEW c \in Classes, DeleteClass(c) PROVE TypeOK'
  BY <1>16 DEF DeleteClass, Edited, Disturb, local, TypeOK
<1>17. ASSUME NEW d \in Deployers, TimeOut(d) PROVE TypeOK'
  <2>1. late' \in Requests
    BY <1>17 DEF TimeOut, NextDocuments, Requests, TypeOK
  <2> QED
    BY <1>0, <1>17, <2>1 DEF TimeOut, Unlock, Report, Goto, Forget, NoProjects, TypeOK
<1>18. CASE ExecuteLate
  <2>1. cluster' \in SUBSET Documents
    BY <1>18 DEF ExecuteLate, Applied, Requests, TypeOK
  <2> QED
    BY <1>18, <2>1 DEF ExecuteLate, Disturb, local, TypeOK
<1>19. CASE DropLate
  BY <1>19 DEF DropLate, local, history, TypeOK
<1> QED
  BY <1>1, <1>2, <1>3, <1>4, <1>5, <1>6, <1>7, <1>8, <1>9, <1>10, <1>11, <1>12,
     <1>13, <1>14, <1>15, <1>16, <1>17, <1>18, <1>19 DEF Next, Edit, Step

\* Every state of a deployment is well typed.
THEOREM TypeCorrect == Spec => []TypeOK
<1>1. Init => TypeOK
  BY InitTyped, DeploymentAssumption
<1>2. TypeOK /\ [Next]_vars => TypeOK'
  BY StepTyped, DeploymentAssumption
<1> QED
  BY <1>1, <1>2, PTL DEF Spec

-----------------------------------------------------------------------------

\* Steps that write neither to the cluster nor to a deployment's variables.
LEMMA OutsideStep ==
    ASSUME DependencyInvariant, UNCHANGED <<cluster, lock, pc, local>>
    PROVE  DependencyInvariant'
BY DEF DependencyInvariant, Progress, KindClean, ClusterConsistent, DesiredConsistent,
       NamesUnique, ReferencesResolve, Closed, local

\* Only the holder of the lock is running.
LEMMA Alone ==
    ASSUME DependencyInvariant, NEW d \in Deployers, NEW e \in Deployers,
           pc[d] # "idle", e # d
    PROVE  pc[e] = "idle"
BY DEF DependencyInvariant

\* The kinds of PRUNE_ORDER, one by one.
LEMMA PruneKinds ==
    /\ Len(PRUNE_ORDER) = 3
    /\ PRUNE_ORDER[1] = "SecurityPolicy"
    /\ PRUNE_ORDER[2] = "BackendTrafficPolicy"
    /\ PRUNE_ORDER[3] = "AIGatewayRoute"
BY DEF PRUNE_ORDER

\* A deployment ends, in whatever state it is.
LEMMA EndOfDeployment ==
    ASSUME TypeOK, DependencyInvariant, NEW d \in Deployers, pc[d] # "idle",
           Unlock(d), Goto(d, "idle"), Forget(d), UNCHANGED cluster
    PROVE  DependencyInvariant'
<1> USE DEF Goto, Forget, TypeOK
<1>1. \A e \in Deployers : pc'[e] = "idle"
  BY Alone
<1>2. ClusterConsistent'
  BY DEF DependencyInvariant, ClusterConsistent, NamesUnique, ReferencesResolve, Closed
<1>3. DesiredConsistent'
  BY DEF DependencyInvariant, DesiredConsistent, NamesUnique, Closed
<1>4. \A e \in Deployers : listed'[e] = 0
  <2>1. ASSUME NEW e \in Deployers \ {d} PROVE listed[e] = 0
    <3>1. pc[e] = "idle"
      BY Alone
    <3>2. listed[e] \in 0..3 /\ ~ (listed[e] > 0)
      BY <3>1, PruneKinds DEF DependencyInvariant
    <3> QED
      BY <3>2
  <2> QED
    BY <2>1
<1> QED
  BY <1>1, <1>2, <1>3, <1>4 DEF DependencyInvariant

\* Applying a document whose routes are there keeps the cluster consistent.
LEMMA ApplyKeepsCluster ==
    ASSUME ClusterConsistent, NEW doc, WellFormed(doc),
           \A r \in RouteNames : r \in doc.targetRefs => route_document(r) \in cluster,
           cluster' = Applied(cluster, doc)
    PROVE  ClusterConsistent'
<1>1. \A x \in cluster' : WellFormed(x)
  BY DEF ClusterConsistent, Applied
<1>2. NamesUnique(cluster')
  BY DEF ClusterConsistent, Applied, NamesUnique, Same
<1>3. ASSUME NEW r \in RouteNames, route_document(r) \in cluster
      PROVE  route_document(r) \in cluster'
  <2>1. CASE ~ Same(route_document(r), doc)
    BY <1>3, <2>1 DEF Applied
  <2>2. CASE Same(route_document(r), doc)
    \* It replaces a route by itself: a route document has nothing but its name.
    <3>1. doc = route_document(doc.name) /\ doc.name = r
      BY <2>2 DEF Same, WellFormed, route_document
    <3> QED
      BY <3>1 DEF Applied
  <2> QED
    BY <2>1, <2>2
<1>4. Closed(cluster')
  BY <1>3 DEF ClusterConsistent, ReferencesResolve, Closed, Applied
<1> QED
  BY <1>1, <1>2, <1>4 DEF ClusterConsistent, ReferencesResolve

\* The invariant is inductive while connections stay up.
LEMMA StepKeepsDependency ==
    ASSUME DeploymentAssumption, ~ LockCanBeLost, ~ LateRequests, late = NULL,
           TypeOK, TypeOK', DependencyInvariant, [Next]_vars
    PROVE  DependencyInvariant'
<1> USE DEF DependencyInvariant
<1>1. ASSUME NEW p \in Projects, NEW c \in Classes \cup {NULL}, AssignClass(p, c)
      PROVE  DependencyInvariant'
  BY <1>1, OutsideStep DEF AssignClass, Edited
<1>2. ASSUME NEW c \in Classes, NEW m \in Models, NEW l \in Limits \cup {NULL},
             SetLimit(c, m, l)
      PROVE  DependencyInvariant'
  BY <1>2, OutsideStep DEF SetLimit, Edited
<1>3. ASSUME NEW d \in Deployers, Start(d) PROVE DependencyInvariant'
  <2>1. pc' = [pc EXCEPT ![d] = "projects"] /\ UNCHANGED <<cluster, local>>
    BY <1>3 DEF Start, LockGranted, Goto
  <2>2. lock' = d /\ lock = NoOne /\ NoOne \notin Deployers
    BY <1>3 DEF Start, LockGranted, DeploymentAssumption
  <2>3. \A e \in Deployers : pc'[e] # "idle" => e = d
    BY <2>1, <2>2 DEF TypeOK
  <2>4. ClusterConsistent' /\ DesiredConsistent'
    BY <2>1 DEF ClusterConsistent, DesiredConsistent, NamesUnique,
                ReferencesResolve, Closed, local
  <2>5. Progress(d)'
    BY <2>1 DEF Progress, TypeOK
  <2>6. pc[d] = "idle"
    BY <1>3 DEF Start
  <2> QED
    BY <2>1, <2>2, <2>3, <2>4, <2>5, <2>6 DEF TypeOK, local
<1>4. ASSUME NEW d \in Deployers, Refuse(d) PROVE DependencyInvariant'
  BY <1>4, OutsideStep DEF Refuse
<1>5. ASSUME NEW d \in Deployers, ReadProjects(d) PROVE DependencyInvariant'
  <2>1. /\ pc' = [pc EXCEPT ![d] = "limits"] /\ pc[d] = "projects"
        /\ UNCHANGED <<cluster, lock, desired, pending, listed, doomed>>
    BY <1>5 DEF ReadProjects, Goto
  <2>2. ClusterConsistent' /\ DesiredConsistent'
    BY <2>1 DEF ClusterConsistent, DesiredConsistent, NamesUnique,
                ReferencesResolve, Closed
  <2>3. ASSUME NEW e \in Deployers, pc'[e] # "idle" PROVE lock' = e /\ Progress(e)'
    <3>1. e = d
      BY <2>1, <2>3, Alone DEF TypeOK
    <3> QED
      BY <2>1, <3>1 DEF TypeOK, Progress
  <2> QED
    BY <2>1, <2>2, <2>3 DEF TypeOK
<1>6. ASSUME NEW d \in Deployers, ReadLimits(d) PROVE DependencyInvariant'
  <2> DEFINE docs == build_policy_documents(projects[d], model_limits)
  <2>1. /\ pc' = [pc EXCEPT ![d] = "apply"] /\ pc[d] = "limits"
        /\ desired' = [desired EXCEPT ![d] = docs]
        /\ pending' = [pending EXCEPT ![d] = docs]
        /\ UNCHANGED <<cluster, lock, listed, doomed>>
    BY <1>6 DEF ReadLimits, Goto
  <2>2. /\ \A doc \in docs : WellFormed(doc)
        /\ NamesUnique(docs)
        /\ Closed(docs)
    BY BuiltDocuments DEF TypeOK
  <2> HIDE DEF docs
  <2>3. ClusterConsistent'
    BY <2>1 DEF ClusterConsistent, NamesUnique, ReferencesResolve, Closed
  <2>4. DesiredConsistent'
    BY <2>1, <2>2 DEF DesiredConsistent, NamesUnique, Closed, TypeOK
  <2>5. listed[d] = 0
    <3>1. listed[d] \in 0..3
      BY PruneKinds DEF TypeOK
    <3>2. ~ (listed[d] > 0)
      BY <2>1
    <3> QED
      BY <3>1, <3>2
  <2>6. ASSUME NEW e \in Deployers, pc'[e] # "idle" PROVE lock' = e /\ Progress(e)'
    <3>1. e = d
      BY <2>1, <2>6, Alone DEF TypeOK
    <3> QED
      BY <2>1, <2>5, <3>1 DEF TypeOK, Progress
  <2> QED
    BY <2>1, <2>3, <2>4, <2>6 DEF TypeOK
<1>7. ASSUME NEW d \in Deployers, ApplyNext(d) PROVE DependencyInvariant'
  <2>1. PICK doc \in pending[d] :
            /\ \A other \in pending[d] :
                   APPLY_ORDER[doc.kind] <= APPLY_ORDER[other.kind]
            /\ cluster' = Applied(cluster, doc)
            /\ pending' = [pending EXCEPT ![d] = @ \ {doc}]
    BY <1>7 DEF ApplyNext, NextDocuments
  <2>2. pc[d] = "apply" /\ UNCHANGED <<pc, lock, desired, listed, doomed>>
    BY <1>7 DEF ApplyNext
  <2>3. /\ pending[d] \subseteq desired[d]
        /\ desired[d] \ pending[d] \subseteq cluster
        /\ listed[d] = 0
    BY <2>2 DEF Progress
  <2>4. WellFormed(doc) /\ NamesUnique(desired[d]) /\ Closed(desired[d])
    BY <2>3 DEF DesiredConsistent
  <2>5. ASSUME NEW r \in RouteNames, r \in doc.targetRefs
        PROVE  route_document(r) \in cluster
    <3>1. route_document(r) \in desired[d]
      BY <2>3, <2>4, <2>5 DEF Closed
    <3>2. doc.kind \in {"BackendTrafficPolicy", "SecurityPolicy"}
      BY <2>4, <2>5 DEF WellFormed, route_document, Kinds
    <3>3. APPLY_ORDER[doc.kind] \in {1, 2} /\ APPLY_ORDER["AIGatewayRoute"] = 0
      BY <3>2 DEF APPLY_ORDER, Kinds
    <3>4. route_document(r) \notin pending[d]
      BY <2>1, <3>3 DEF route_document
    <3> QED
      BY <2>3, <3>1, <3>4
  <2>6. ClusterConsistent'
    BY <2>1, <2>4, <2>5, ApplyKeepsCluster
  <2>7. DesiredConsistent'
    BY <2>2 DEF DesiredConsistent
  <2>8. desired[d] \ pending'[d] \subseteq cluster'
    BY <2>1, <2>3, <2>4 DEF Applied, NamesUnique, TypeOK
  <2>9. ASSUME NEW e \in Deployers, pc'[e] # "idle" PROVE lock' = e /\ Progress(e)'
    <3>1. e = d
      BY <2>2, <2>9, Alone
    <3>2. pending'[d] \subseteq pending[d]
      BY <2>1 DEF TypeOK
    <3> QED
      BY <2>2, <2>3, <2>8, <3>1, <3>2 DEF Progress
  <2> QED
    BY <2>2, <2>6, <2>7, <2>9
<1>8. ASSUME NEW d \in Deployers, BeginPrune(d) PROVE DependencyInvariant'
  <2>1. /\ pc' = [pc EXCEPT ![d] = "list"] /\ pc[d] = "apply" /\ pending[d] = {}
        /\ UNCHANGED <<cluster, lock, desired, pending, listed, doomed>>
    BY <1>8 DEF BeginPrune, Goto, local
  <2>2. ClusterConsistent' /\ DesiredConsistent'
    BY <2>1 DEF ClusterConsistent, DesiredConsistent, NamesUnique,
                ReferencesResolve, Closed
  <2>3. desired[d] \subseteq cluster /\ listed[d] = 0
    BY <2>1 DEF Progress
  <2>4. ASSUME NEW e \in Deployers, pc'[e] # "idle" PROVE lock' = e /\ Progress(e)'
    <3>1. e = d
      BY <2>1, <2>4, Alone DEF TypeOK
    <3> QED
      BY <2>1, <2>3, <3>1 DEF TypeOK, Progress, KindClean
  <2> QED
    BY <2>1, <2>2, <2>4 DEF TypeOK
<1>9. ASSUME NEW d \in Deployers, ListKind(d) PROVE DependencyInvariant'
  <2> DEFINE k == PRUNE_ORDER[listed[d] + 1]
             stale == {doc \in cluster : /\ doc.kind = k
                                        /\ \A e \in desired[d] : ~ Same(doc, e)}
  <2>1. /\ pc' = [pc EXCEPT ![d] = "delete"] /\ pc[d] = "list"
        /\ listed[d] < Len(PRUNE_ORDER)
        /\ listed' = [listed EXCEPT ![d] = @ + 1]
        /\ doomed' = [doomed EXCEPT ![d] = stale]
        /\ UNCHANGED <<cluster, lock, desired, pending>>
    BY <1>9 DEF ListKind, Goto
  <2>2. ClusterConsistent' /\ DesiredConsistent'
    BY <2>1 DEF ClusterConsistent, DesiredConsistent, NamesUnique,
                ReferencesResolve, Closed
  <2>3. /\ listed[d] \in 0..2 /\ listed'[d] = listed[d] + 1
        /\ doomed'[d] = stale /\ pc'[d] = "delete"
    BY <2>1, PruneKinds DEF TypeOK
  <2>4. /\ desired[d] \subseteq cluster
        /\ \A i \in 1..3 : i < listed[d] => KindClean(d, i)
        /\ listed[d] > 0 => KindClean(d, listed[d])
    BY <2>1 DEF Progress
  <2>5. \A i \in 1..3 : i < listed'[d] => KindClean(d, i)'
    BY <2>1, <2>3, <2>4 DEF KindClean
  <2>6. \A doc \in stale : doc \notin desired[d]
    BY DEF Same
  <2>7. ASSUME NEW doc \in cluster, doc.kind = k, doc \notin desired[d]
        PROVE  doc \in stale
    \* Names are unique: only the document itself could have its name.
    BY <2>2, <2>4, <2>7 DEF ClusterConsistent, NamesUnique
  <2>8. Progress(d)'
    BY <2>1, <2>3, <2>4, <2>5, <2>6, <2>7 DEF Progress
  <2>9. ASSUME NEW e \in Deployers, pc'[e] # "idle" PROVE lock' = e /\ Progress(e)'
    <3>1. e = d
      BY <2>1, <2>9, Alone DEF TypeOK
    <3> QED
      BY <2>1, <2>8, <3>1
  <2>10. \A e \in Deployers : listed'[e] > 0 => pc'[e] \in {"list", "delete"}
    BY <2>1, <2>3 DEF TypeOK
  <2> QED
    BY <2>2, <2>9, <2>10
<1>10. ASSUME NEW d \in Deployers, DeleteNext(d) PROVE DependencyInvariant'
  <2>1. PICK doc \in doomed[d] :
            /\ cluster' = {e \in cluster : ~ Same(doc, e)}
            /\ doomed' = [doomed EXCEPT ![d] = @ \ {doc}]
    BY <1>10 DEF DeleteNext
  <2>2. pc[d] = "delete" /\ UNCHANGED <<pc, lock, desired, pending, listed>>
    BY <1>10 DEF DeleteNext
  <2>3. /\ desired[d] \subseteq cluster /\ pending[d] = {}
        /\ \A i \in 1..3 : i < listed[d] => KindClean(d, i)
        /\ listed[d] \in 1..3
        /\ \A x \in doomed[d] : x.kind = PRUNE_ORDER[listed[d]] /\ \A e \in desired[d] : ~ Same(x, e)
        /\ \A x \in cluster : x.kind = PRUNE_ORDER[listed[d]] =>
                                  x \in desired[d] \cup doomed[d]
    BY <2>2, PruneKinds DEF Progress, TypeOK
  <2>4. cluster' \subseteq cluster
    BY <2>1
  <2>5. NamesUnique(cluster') /\ \A x \in cluster' : WellFormed(x)
    BY <2>4 DEF ClusterConsistent, NamesUnique
  <2>6. ASSUME NEW x \in cluster', NEW r \in RouteNames, r \in x.targetRefs
        PROVE  route_document(r) \in cluster'
    <3>1. route_document(r) \in cluster
      BY <2>4, <2>6 DEF ClusterConsistent, ReferencesResolve, Closed
    <3>2. CASE ~ Same(doc, route_document(r))
      BY <2>1, <3>1, <3>2
    <3>3. CASE Same(doc, route_document(r))
      \* Routes are deleted last: x is a policy, so it is desired, and so is r.
      <4>1. listed[d] = 3
        BY <2>1, <2>3, <3>3, PruneKinds DEF route_document, Same
      <4>2. x.kind \in {"BackendTrafficPolicy", "SecurityPolicy"}
        BY <2>5, <2>6 DEF WellFormed, route_document, Kinds
      <4>3. KindClean(d, 1) /\ KindClean(d, 2)
        BY <2>3, <4>1
      <4>4. x \in desired[d]
        BY <2>4, <4>2, <4>3, PruneKinds DEF KindClean
      <4>5. route_document(r) \in desired[d]
        BY <2>6, <4>4 DEF DesiredConsistent, Closed
      <4> QED
        BY <2>1, <2>3, <3>3, <4>5
    <3> QED
      BY <3>2, <3>3
  <2>7. ClusterConsistent'
    BY <2>5, <2>6 DEF ClusterConsistent, ReferencesResolve, Closed
  <2>8. DesiredConsistent'
    BY <2>2 DEF DesiredConsistent
  <2>9. Progress(d)'
    <3>1. doomed'[d] = doomed[d] \ {doc}
      BY <2>1 DEF TypeOK
    <3>2. desired[d] \subseteq cluster'
      BY <2>1, <2>3
    <3>3. \A i \in 1..3 : i < listed[d] => KindClean(d, i)'
      BY <2>2, <2>3, <2>4 DEF KindClean
    <3> QED
      BY <2>1, <2>2, <2>3, <3>1, <3>2, <3>3 DEF Progress, Same
  <2>10. ASSUME NEW e \in Deployers, pc'[e] # "idle" PROVE lock' = e /\ Progress(e)'
    <3>1. e = d
      BY <2>2, <2>10, Alone
    <3> QED
      BY <2>2, <2>9, <3>1
  <2> QED
    BY <2>2, <2>7, <2>8, <2>10
<1>11. ASSUME NEW d \in Deployers, KindPruned(d) PROVE DependencyInvariant'
  <2>1. /\ pc' = [pc EXCEPT ![d] = "list"] /\ pc[d] = "delete" /\ doomed[d] = {}
        /\ UNCHANGED <<cluster, lock, desired, pending, listed, doomed>>
    BY <1>11 DEF KindPruned, Goto, local
  <2>2. ClusterConsistent' /\ DesiredConsistent'
    BY <2>1 DEF ClusterConsistent, DesiredConsistent, NamesUnique,
                ReferencesResolve, Closed
  <2>3. /\ desired[d] \subseteq cluster /\ KindClean(d, listed[d])
        /\ \A i \in 1..3 : i < listed[d] => KindClean(d, i)
    BY <2>1 DEF Progress, KindClean
  <2>4. ASSUME NEW e \in Deployers, pc'[e] # "idle" PROVE lock' = e /\ Progress(e)'
    <3>1. e = d
      BY <2>1, <2>4, Alone DEF TypeOK
    <3> QED
      BY <2>1, <2>3, <3>1 DEF TypeOK, Progress, KindClean
  <2> QED
    BY <2>1, <2>2, <2>4 DEF TypeOK
<1>12. ASSUME NEW d \in Deployers, Finish(d) PROVE DependencyInvariant'
  BY <1>12, EndOfDeployment DEF Finish
<1>13. ASSUME NEW d \in Deployers, Fail(d) PROVE DependencyInvariant'
  BY <1>13, EndOfDeployment DEF Fail
<1>14. ASSUME NEW d \in Deployers, LoseLock(d) PROVE DependencyInvariant'
  BY <1>14 DEF LoseLock
<1>15. CASE UNCHANGED vars
  BY <1>15, OutsideStep DEF vars, local
<1>16. ASSUME NEW c \in Classes, DeleteClass(c) PROVE DependencyInvariant'
  BY <1>16, OutsideStep DEF DeleteClass, Edited
<1>17. ASSUME NEW d \in Deployers PROVE ~ TimeOut(d)
  BY DEF TimeOut
<1>18. ~ ExecuteLate /\ ~ DropLate
  BY DEF ExecuteLate, DropLate
<1> QED
  BY <1>1, <1>2, <1>3, <1>4, <1>5, <1>6, <1>7, <1>8, <1>9, <1>10, <1>11, <1>12,
     <1>13, <1>14, <1>15, <1>16, <1>17, <1>18 DEF Next, Edit, Step

LEMMA InitDependency == Init => DependencyInvariant
BY DEF Init, DependencyInvariant, ClusterConsistent, DesiredConsistent, NamesUnique,
       ReferencesResolve, Closed

NoneLate == late = NULL

\* No request is late where none can be.
LEMMA NothingLate == ~ LateRequests /\ Spec => []NoneLate
<1>1. Init => NoneLate
  BY DEF Init, NoneLate
<1>2. ASSUME ~ LateRequests PROVE NoneLate /\ [Next]_vars => NoneLate'
  BY <1>2
     DEF NoneLate, Next, Edit, Step, vars, outside, AssignClass, SetLimit, DeleteClass, Edited, Start,
         Refuse, ReadProjects, ReadLimits, ApplyNext, BeginPrune, ListKind, DeleteNext,
         KindPruned, Finish, Fail, TimeOut, LoseLock, ExecuteLate, DropLate
<1>3. ASSUME ~ LateRequests PROVE Spec => []NoneLate
  BY <1>1, <1>2, <1>3, PTL DEF Spec
<1> QED
  BY <1>3

\* While connections stay up and no request outlives its timeout, every state satisfies
\* the dependency invariant.
THEOREM DependencyHolds ==
    ~ LockCanBeLost /\ ~ LateRequests /\ Spec => []DependencyInvariant
<1>1. ASSUME ~ LockCanBeLost, ~ LateRequests
      PROVE  TypeOK /\ TypeOK' /\ NoneLate /\ DependencyInvariant /\ [Next]_vars
               => DependencyInvariant'
  BY <1>1, StepKeepsDependency, DeploymentAssumption DEF NoneLate
<1>2. ASSUME ~ LockCanBeLost, ~ LateRequests PROVE Spec => []DependencyInvariant
  BY <1>1, <1>2, InitDependency, TypeCorrect, NothingLate, PTL DEF Spec
<1> QED
  BY <1>2

\* A deployment that runs holds the lock.
HolderRuns == \A d \in Deployers : pc[d] # "idle" => lock = d

\* While connections stay up, two deployments never run at once (kubernetes.py:62-77),
\* also when requests are executed after their timeout.
THEOREM DeploymentsExclusive == ~ LockCanBeLost /\ Spec => []MutualExclusion
<1>1. Init => HolderRuns
  BY DEF Init, HolderRuns
<1>2. ASSUME ~ LockCanBeLost PROVE TypeOK /\ HolderRuns /\ [Next]_vars => HolderRuns'
  <2> SUFFICES ASSUME TypeOK, HolderRuns, [Next]_vars PROVE HolderRuns'
    OBVIOUS
  <2> USE DEF TypeOK, HolderRuns
  <2>1. CASE UNCHANGED <<pc, lock>>
    BY <2>1
  <2>2. ASSUME NEW d \in Deployers, Start(d) PROVE HolderRuns'
    BY <2>2, DeploymentAssumption DEF Start, LockGranted, Goto, DeploymentAssumption
  <2>3. ASSUME NEW d \in Deployers, pc[d] # "idle", lock' = lock,
               pc' = [pc EXCEPT ![d] = pc'[d]]
        PROVE  HolderRuns'
    BY <2>3
  <2>4. ASSUME NEW d \in Deployers, pc[d] # "idle", Unlock(d), Goto(d, "idle")
        PROVE  HolderRuns'
    <3>1. \A e \in Deployers : pc'[e] # "idle" => e # d /\ pc[e] # "idle"
      BY <2>4 DEF Goto
    <3>2. lock = d
      BY <2>4
    <3> QED
      BY <3>1, <3>2
  <2>5. ASSUME NEW d \in Deployers,
               \/ ReadProjects(d) \/ ReadLimits(d) \/ ApplyNext(d) \/ BeginPrune(d)
               \/ ListKind(d) \/ DeleteNext(d) \/ KindPruned(d)
        PROVE  HolderRuns'
    <3>1. pc[d] # "idle" /\ lock' = lock /\ pc' = [pc EXCEPT ![d] = pc'[d]]
      BY <2>5 DEF ReadProjects, ReadLimits, ApplyNext, BeginPrune, ListKind, DeleteNext,
                  KindPruned, Goto
    <3> QED
      BY <2>3, <3>1
  <2>6. ASSUME NEW d \in Deployers, Finish(d) \/ Fail(d) \/ TimeOut(d) PROVE HolderRuns'
    <3>1. pc[d] # "idle" /\ Unlock(d) /\ Goto(d, "idle")
      BY <2>6 DEF Finish, Fail, TimeOut
    <3> QED
      BY <2>4, <3>1
  <2>7. ASSUME Edit PROVE UNCHANGED <<pc, lock>>
    BY <2>7 DEF Edit, AssignClass, SetLimit, DeleteClass, Edited
  <2>8. ASSUME ExecuteLate \/ DropLate PROVE UNCHANGED <<pc, lock>>
    BY <2>8 DEF ExecuteLate, DropLate
  <2>9. ASSUME NEW d \in Deployers, Refuse(d) PROVE UNCHANGED <<pc, lock>>
    BY <2>9 DEF Refuse
  <2>10. ASSUME NEW d \in Deployers PROVE ~ LoseLock(d)
    BY <1>2 DEF LoseLock
  <2>11. ASSUME UNCHANGED vars PROVE UNCHANGED <<pc, lock>>
    BY <2>11 DEF vars
  <2> HIDE DEF HolderRuns, TypeOK
  <2> QED
    BY <2>1, <2>2, <2>5, <2>6, <2>7, <2>8, <2>9, <2>10, <2>11 DEF Next, Step
<1>3. HolderRuns => MutualExclusion
  BY DEF HolderRuns, MutualExclusion
<1>4. ASSUME ~ LockCanBeLost PROVE Spec => []MutualExclusion
  BY <1>1, <1>2, <1>3, <1>4, TypeCorrect, PTL DEF Spec
<1> QED
  BY <1>4

\* While connections stay up and no request outlives its timeout, no policy in the
\* cluster ever targets a route that is not there, wherever deployments fail and however
\* the configuration changes.
THEOREM ReferencesAlwaysResolve ==
    ~ LockCanBeLost /\ ~ LateRequests /\ Spec => []ReferencesResolve
<1>1. DependencyInvariant => ReferencesResolve
  BY DEF DependencyInvariant, ClusterConsistent
<1> QED
  BY <1>1, DependencyHolds, PTL

\* kubernetes.py:75-77: whatever connections break and requests are late, a deployment
\* ends with its own lock or without one, and never releases the lock of another.
THEOREM LocksAreOwn == Spec => UnlocksOwnLock
<1>1. TypeOK /\ [Next]_vars =>
        [\A d \in Deployers :
           lock = d /\ lock' # d
               => lock' = NoOne /\ (pc'[d] = "idle" \/ pc' = pc)]_vars
  <2> SUFFICES ASSUME TypeOK, [Next]_vars, NEW d \in Deployers, lock = d, lock' # d
               PROVE  lock' = NoOne /\ (pc'[d] = "idle" \/ pc' = pc)
    OBVIOUS
  <2>0. lock # NoOne
    BY DeploymentAssumption DEF DeploymentAssumption
  <2>1. ASSUME NEW e \in Deployers, Unlock(e), Goto(e, "idle")
        PROVE  lock' = NoOne /\ (pc'[d] = "idle" \/ pc' = pc)
    BY <2>1 DEF Unlock, Goto, TypeOK
  <2>2. ASSUME NEW e \in Deployers, LoseLock(e)
        PROVE  lock' = NoOne /\ (pc'[d] = "idle" \/ pc' = pc)
    BY <2>2 DEF LoseLock
  <2>3. ASSUME NEW e \in Deployers, Finish(e) \/ Fail(e) \/ TimeOut(e)
        PROVE  Unlock(e) /\ Goto(e, "idle")
    BY <2>3 DEF Finish, Fail, TimeOut
  <2>4. CASE UNCHANGED lock
    BY <2>4
  <2>5. ASSUME NEW e \in Deployers, Start(e) PROVE FALSE
    BY <2>0, <2>5 DEF Start, LockGranted
  <2>6. ASSUME NEW e \in Deployers, Refuse(e) \/ ReadProjects(e) \/ ReadLimits(e)
                 \/ ApplyNext(e) \/ BeginPrune(e) \/ ListKind(e) \/ DeleteNext(e)
                 \/ KindPruned(e)
        PROVE  UNCHANGED lock
    BY <2>6 DEF Refuse, ReadProjects, ReadLimits, ApplyNext, BeginPrune, ListKind,
                DeleteNext, KindPruned
  <2>7. Edit \/ ExecuteLate \/ DropLate \/ UNCHANGED vars => UNCHANGED lock
    BY DEF Edit, AssignClass, SetLimit, DeleteClass, Edited, ExecuteLate, DropLate, vars
  <2> QED
    BY <2>1, <2>2, <2>3, <2>4, <2>5, <2>6, <2>7 DEF Next, Step
<1> QED
  BY <1>1, TypeCorrect, PTL DEF Spec, UnlocksOwnLock

-----------------------------------------------------------------------------
(* An undisturbed success takes effect                                     *)

\* A deployment is under way and nobody has disturbed it since it started.
Undisturbed(d) == pc[d] # "idle" /\ ~ disturbed[d]

\* What it has read is the configuration, and it is as far as its steps say.
OnTrack(d) ==
    /\ pc[d] = "limits" => projects[d] = limit_class
    /\ pc[d] \in {"apply", "list", "delete"} =>
           desired[d] = build_policy_documents(limit_class, model_limits)
    /\ Progress(d)

Holds(d) == Undisturbed(d) => OnTrack(d)

\* No lock is in this invariant: lost connections only disturb.
EffectInvariant ==
    /\ NamesUnique(cluster)
    /\ \A d \in Deployers : listed[d] > 0 => pc[d] \in {"list", "delete"}
    /\ \A d \in Deployers : Holds(d)

\* A step that is not of this deployment, and that disturbs it or writes nothing.
LEMMA NotItsStep ==
    ASSUME NEW d \in Deployers, Holds(d), pc'[d] = pc[d],
           projects'[d] = projects[d], desired'[d] = desired[d],
           pending'[d] = pending[d], listed'[d] = listed[d], doomed'[d] = doomed[d],
           \/ pc[d] # "idle" => disturbed'[d]
           \/ UNCHANGED <<cluster, limit_class, model_limits>> /\ disturbed'[d] = disturbed[d]
    PROVE  Holds(d)'
BY DEF Holds, Undisturbed, OnTrack, Progress, KindClean

\* A step of one deployer is not one of another.
LEMMA OthersStep ==
    ASSUME TypeOK, NEW e \in Deployers, NEW d \in Deployers, d # e, Holds(d),
           Start(e) \/ Refuse(e) \/ Step(e) \/ TimeOut(e) \/ LoseLock(e)
    PROVE  Holds(d)'
<1> USE DEF TypeOK, Goto, Forget, Disturb
<1>1. CASE Start(e) \/ Refuse(e) \/ LoseLock(e)
  BY <1>1, NotItsStep DEF Start, Refuse, LoseLock, outside, local, history
<1>2. CASE ReadProjects(e) \/ ReadLimits(e) \/ BeginPrune(e) \/ ListKind(e) \/ KindPruned(e)
  BY <1>2, NotItsStep
     DEF ReadProjects, ReadLimits, BeginPrune, ListKind, KindPruned, outside, local, history
<1>3. CASE ApplyNext(e) \/ DeleteNext(e)
  BY <1>3, NotItsStep DEF ApplyNext, DeleteNext
<1>4. CASE Finish(e) \/ Fail(e) \/ TimeOut(e)
  BY <1>4, NotItsStep DEF Finish, Fail, TimeOut, outside
<1> QED
  BY <1>1, <1>2, <1>3, <1>4 DEF Step

\* Edits disturb every deployment that is under way.
LEMMA WorldStep ==
    ASSUME TypeOK, NEW d \in Deployers, Holds(d), Edit \/ DropLate \/ UNCHANGED vars
    PROVE  Holds(d)'
<1>1. CASE Edit
  BY <1>1, NotItsStep
     DEF Edit, AssignClass, SetLimit, DeleteClass, Edited, Disturb, local, TypeOK
<1>2. CASE DropLate \/ UNCHANGED vars
  BY <1>2, NotItsStep DEF DropLate, vars, local, history
<1> QED BY <1>1, <1>2

\* A late request that does not come too late leaves what the deployment has done.
LEMMA LateStep ==
    ASSUME TypeOK, NEW d \in Deployers, Holds(d), ExecuteLate
    PROVE  Holds(d)'
<1> SUFFICES ASSUME Undisturbed(d)' PROVE OnTrack(d)'
  BY DEF Holds
<1>1. /\ pc[d] # "idle" /\ ~ disturbed[d] /\ ~ ComesTooLate(d)
      /\ UNCHANGED <<limit_class, model_limits, pc, projects, desired, pending, listed,
                     doomed>>
  BY DEF ExecuteLate, Disturb, Undisturbed, TypeOK, local
<1>2. OnTrack(d)
  BY <1>1 DEF Holds, Undisturbed
<1>3. late \in Requests /\ listed[d] \in 0..3
  BY PruneKinds DEF ExecuteLate, TypeOK
<1>4. ASSUME NEW doc \in desired[d] \ pending[d], doc \in cluster PROVE doc \in cluster'
  <2>1. ~ Same(late.doc, doc) \/ (late.verb = "apply" /\ late.doc = doc)
    BY <1>1 DEF ComesTooLate
  <2> QED BY <1>4, <2>1 DEF ExecuteLate, Applied, Same
<1>5. ASSUME NEW doc \in cluster', doc \notin cluster, doc \notin desired[d],
             NEW i \in 1..3, i <= listed[d]
      PROVE  doc.kind # PRUNE_ORDER[i]
  <2>1. late.verb = "apply" /\ doc = late.doc
    BY <1>5 DEF ExecuteLate, Applied
  <2>2. i \in 1..listed[d]
    BY <1>3, <1>5
  <2> QED BY <1>1, <1>5, <2>1, <2>2 DEF ComesTooLate
<1>6. ASSUME NEW i \in 1..3, i <= listed[d], KindClean(d, i) PROVE KindClean(d, i)'
  BY <1>1, <1>5, <1>6 DEF KindClean
<1>7. pc[d] = "apply" => Progress(d)'
  BY <1>1, <1>2, <1>4 DEF OnTrack, Progress
<1>8. ASSUME pc[d] \in {"list", "delete"} PROVE Progress(d)'
  <2>1. /\ pending[d] = {} /\ desired[d] \subseteq cluster
        /\ \A i \in 1..3 : i < listed[d] => KindClean(d, i)
        /\ pc[d] = "list" /\ listed[d] > 0 => KindClean(d, listed[d])
        /\ pc[d] = "delete" =>
              /\ listed[d] > 0
              /\ \A doc \in doomed[d] : /\ doc.kind = PRUNE_ORDER[listed[d]]
                                         /\ \A e \in desired[d] : ~ Same(doc, e)
              /\ \A doc \in cluster : doc.kind = PRUNE_ORDER[listed[d]] =>
                                        doc \in desired[d] \cup doomed[d]
    BY <1>2, <1>8 DEF OnTrack, Progress
  <2>2. desired[d] \subseteq cluster'
    BY <1>4, <2>1
  <2>3. \A i \in 1..3 : i < listed[d] => KindClean(d, i)'
    BY <1>3, <1>6, <2>1
  <2>4. pc[d] = "list" /\ listed[d] > 0 => KindClean(d, listed[d])'
    BY <1>1, <1>3, <1>6, <2>1
  <2>5. ASSUME pc[d] = "delete", NEW doc \in cluster', doc.kind = PRUNE_ORDER[listed[d]]
        PROVE  doc \in desired[d] \cup doomed[d]
    <3>1. listed[d] \in 1..3
      BY <1>3, <2>1, <2>5
    <3> QED BY <1>5, <2>1, <2>5, <3>1
  <2>6. /\ pc'[d] = pc[d] /\ desired'[d] = desired[d] /\ pending'[d] = pending[d]
        /\ listed'[d] = listed[d] /\ doomed'[d] = doomed[d] /\ pc[d] # "apply"
    BY <1>1, <1>8
  <2>7. \A i \in 1..3 : i < listed'[d] => KindClean(d, i)'
    BY <2>3, <2>6
  <2>8. pc'[d] = "delete" =>
            /\ listed'[d] > 0
            /\ \A doc \in doomed'[d] : /\ doc.kind = PRUNE_ORDER[listed'[d]]
                                       /\ \A e \in desired'[d] : ~ Same(doc, e)
            /\ \A doc \in cluster' : doc.kind = PRUNE_ORDER[listed'[d]] =>
                                       doc \in desired'[d] \cup doomed'[d]
    BY <2>1, <2>5, <2>6
  <2> QED BY <2>1, <2>2, <2>4, <2>6, <2>7, <2>8 DEF Progress
<1>9. ASSUME pc[d] \notin {"apply", "list", "delete"} PROVE Progress(d)'
  <2>1. pc'[d] \notin {"apply", "list", "delete"}
    BY <1>1, <1>9
  <2> QED BY <2>1 DEF Progress
<1> QED
  BY <1>1, <1>2, <1>7, <1>8, <1>9 DEF OnTrack

\* The names of the documents in the cluster are unique after every step.
LEMMA ClusterNames ==
    ASSUME NamesUnique(cluster), [Next]_vars
    PROVE  NamesUnique(cluster')
<1>1. ASSUME NEW doc, cluster' = Applied(cluster, doc) PROVE NamesUnique(cluster')
  BY <1>1 DEF Applied, NamesUnique, Same
<1>2. CASE cluster' \subseteq cluster
  BY <1>2 DEF NamesUnique
<1>3. CASE \E d \in Deployers : ApplyNext(d)
  BY <1>1, <1>3 DEF ApplyNext
<1>4. CASE ExecuteLate
  BY <1>1, <1>2, <1>4 DEF ExecuteLate
<1>5. CASE \E d \in Deployers : DeleteNext(d)
  BY <1>2, <1>5 DEF DeleteNext
<1> QED
  BY <1>2, <1>3, <1>4, <1>5
     DEF Next, Edit, Step, AssignClass, SetLimit, DeleteClass, Edited, Start, Refuse,
         ReadProjects, ReadLimits, BeginPrune, ListKind, KindPruned, Finish, Fail, TimeOut,
         LoseLock, DropLate, outside, vars

\* Kinds are listed only while pruning.
LEMMA ListedWhilePruning ==
    ASSUME TypeOK, [Next]_vars, NEW d \in Deployers,
           listed[d] > 0 => pc[d] \in {"list", "delete"}
    PROVE  listed'[d] > 0 => pc'[d] \in {"list", "delete"}
<1> USE DEF TypeOK, Goto
<1>1. ASSUME NEW e \in Deployers, Finish(e) \/ Fail(e) \/ TimeOut(e)
      PROVE  listed'[d] > 0 => pc'[d] \in {"list", "delete"}
  <2>1. pc' = [pc EXCEPT ![e] = "idle"] /\ listed' = [listed EXCEPT ![e] = 0]
    BY <1>1 DEF Finish, Fail, TimeOut, Forget
  <2>2. CASE d = e
    BY <2>1, <2>2
  <2>3. CASE d # e
    BY <2>1, <2>3
  <2> QED BY <2>2, <2>3
<1>2. ASSUME NEW e \in Deployers, Start(e) \/ ReadProjects(e) \/ ReadLimits(e)
               \/ BeginPrune(e) \/ KindPruned(e)
      PROVE  listed'[d] > 0 => pc'[d] \in {"list", "delete"}
  BY <1>2 DEF Start, ReadProjects, ReadLimits, BeginPrune, KindPruned, local
<1>3. ASSUME NEW e \in Deployers, ListKind(e)
      PROVE  listed'[d] > 0 => pc'[d] \in {"list", "delete"}
  BY <1>3 DEF ListKind
<1>4. CASE UNCHANGED <<pc, listed>>
  BY <1>4
<1>5. ASSUME NEW e \in Deployers,
             Refuse(e) \/ ApplyNext(e) \/ DeleteNext(e) \/ LoseLock(e)
      PROVE  UNCHANGED <<pc, listed>>
  BY <1>5 DEF Refuse, ApplyNext, DeleteNext, LoseLock, local
<1>6. Edit \/ ExecuteLate \/ DropLate \/ UNCHANGED vars => UNCHANGED <<pc, listed>>
  BY DEF Edit, AssignClass, SetLimit, DeleteClass, Edited, ExecuteLate, DropLate, local, vars
<1> QED
  BY <1>1, <1>2, <1>3, <1>4, <1>5, <1>6 DEF Next, Step

\* A deployment's own step keeps it on track.
LEMMA OwnStep ==
    ASSUME TypeOK, EffectInvariant, NEW d \in Deployers,
           Start(d) \/ Refuse(d) \/ Step(d) \/ TimeOut(d) \/ LoseLock(d)
    PROVE  Holds(d)'
<1> USE DEF TypeOK, Goto
<1>0. Holds(d) /\ NamesUnique(cluster) /\ listed[d] \in 0..3
  BY PruneKinds DEF EffectInvariant
<1>1. CASE Finish(d) \/ Fail(d) \/ TimeOut(d)
  BY <1>1 DEF Finish, Fail, TimeOut, Holds, Undisturbed
<1>2. CASE Refuse(d) \/ LoseLock(d)
  BY <1>0, <1>2, NotItsStep DEF Refuse, LoseLock, outside, local, history
<1>3. CASE Start(d)
  BY <1>3 DEF Start, Holds, OnTrack, Progress
<1>4. CASE ReadProjects(d)
  BY <1>4 DEF ReadProjects, Holds, OnTrack, Progress, outside
<1> SUFFICES ASSUME Undisturbed(d)', pc[d] # "idle",
                    ReadLimits(d) \/ ApplyNext(d) \/ BeginPrune(d) \/ ListKind(d)
                      \/ DeleteNext(d) \/ KindPruned(d)
             PROVE  OnTrack(d)'
  BY <1>1, <1>2, <1>3, <1>4
     DEF Step, Holds, ReadLimits, ApplyNext, BeginPrune, ListKind, DeleteNext, KindPruned
<1>5. /\ disturbed'[d] = disturbed[d] /\ UNCHANGED <<limit_class, model_limits>>
  BY DEF ReadLimits, ApplyNext, BeginPrune, ListKind, DeleteNext, KindPruned, Disturb,
         outside, local, history
<1>6. OnTrack(d)
  BY <1>0, <1>5 DEF Undisturbed, Holds
<1>7. CASE ReadLimits(d)
  <2>1. pc[d] = "limits" /\ ~ (listed[d] > 0)
    BY <1>7 DEF ReadLimits, EffectInvariant
  <2>2. /\ pc'[d] = "apply" /\ listed'[d] = 0
        /\ desired'[d] = build_policy_documents(limit_class, model_limits)
        /\ pending'[d] = desired'[d]
    BY <1>0, <1>6, <1>7, <2>1 DEF ReadLimits, OnTrack
  <2> QED BY <1>5, <2>2 DEF OnTrack, Progress
<1>8. CASE ApplyNext(d)
  <2>1. PICK doc \in pending[d] :
            /\ cluster' = Applied(cluster, doc)
            /\ pending' = [pending EXCEPT ![d] = @ \ {doc}]
    BY <1>8 DEF ApplyNext, NextDocuments
  <2>2. pc[d] = "apply" /\ UNCHANGED <<pc, desired, listed, projects>>
    BY <1>8 DEF ApplyNext
  <2>3. /\ pending[d] \subseteq desired[d] /\ desired[d] \ pending[d] \subseteq cluster
        /\ listed[d] = 0
        /\ desired[d] = build_policy_documents(limit_class, model_limits)
    BY <1>6, <2>2 DEF OnTrack, Progress
  <2>4. NamesUnique(desired[d])
    <3>1. NamesUnique(build_policy_documents(limit_class, model_limits))
      BY BuiltDocuments, DeploymentAssumption
    <3> QED BY <2>3, <3>1
  <2>5. desired[d] \ pending'[d] \subseteq cluster' /\ pending'[d] \subseteq desired[d]
    BY <2>1, <2>3, <2>4 DEF Applied, NamesUnique
  <2> QED BY <1>5, <2>2, <2>3, <2>5 DEF OnTrack, Progress
<1>9. CASE BeginPrune(d)
  <2>1. /\ pc'[d] = "list" /\ pc[d] = "apply" /\ pending[d] = {}
        /\ UNCHANGED <<cluster, local>>
    BY <1>9 DEF BeginPrune
  <2>2. desired[d] \subseteq cluster /\ listed[d] = 0
    BY <1>6, <2>1 DEF OnTrack, Progress
  <2> QED BY <1>5, <1>6, <2>1, <2>2 DEF OnTrack, Progress, KindClean, local
<1>10. CASE ListKind(d)
  <2> DEFINE k == PRUNE_ORDER[listed[d] + 1]
             stale == {doc \in cluster : /\ doc.kind = k
                                        /\ \A e \in desired[d] : ~ Same(doc, e)}
  <2>1. /\ pc'[d] = "delete" /\ pc[d] = "list" /\ listed'[d] = listed[d] + 1
        /\ doomed'[d] = stale /\ UNCHANGED <<cluster, desired, pending, projects>>
    BY <1>10 DEF ListKind
  <2>2. listed[d] \in 0..2
    BY <1>0, <1>10, PruneKinds DEF ListKind
  <2>3. /\ desired[d] \subseteq cluster
        /\ \A i \in 1..3 : i < listed[d] => KindClean(d, i)
        /\ listed[d] > 0 => KindClean(d, listed[d])
    BY <1>6, <2>1 DEF OnTrack, Progress
  <2>4. \A i \in 1..3 : i < listed'[d] => KindClean(d, i)'
    BY <2>1, <2>2, <2>3 DEF KindClean
  <2>5. \A doc \in stale : doc \notin desired[d]
    BY DEF Same
  <2>6. ASSUME NEW doc \in cluster, doc.kind = k, doc \notin desired[d]
        PROVE  doc \in stale
    \* Names are unique: only the document itself could have its name.
    BY <1>0, <2>3, <2>6 DEF NamesUnique
  <2> QED BY <1>5, <1>6, <2>1, <2>2, <2>3, <2>4, <2>5, <2>6 DEF OnTrack, Progress
<1>11. CASE DeleteNext(d)
  <2>1. PICK doc \in doomed[d] :
            /\ cluster' = {e \in cluster : ~ Same(doc, e)}
            /\ doomed' = [doomed EXCEPT ![d] = @ \ {doc}]
    BY <1>11 DEF DeleteNext
  <2>2. pc[d] = "delete" /\ UNCHANGED <<pc, desired, pending, listed, projects>>
    BY <1>11 DEF DeleteNext
  <2>3. /\ desired[d] \subseteq cluster /\ pending[d] = {}
        /\ \A i \in 1..3 : i < listed[d] => KindClean(d, i)
        /\ listed[d] > 0
        /\ \A x \in doomed[d] : x.kind = PRUNE_ORDER[listed[d]] /\ \A e \in desired[d] : ~ Same(x, e)
        /\ \A x \in cluster : x.kind = PRUNE_ORDER[listed[d]] =>
                                  x \in desired[d] \cup doomed[d]
    BY <1>6, <2>2 DEF OnTrack, Progress
  <2>4. cluster' \subseteq cluster /\ doomed'[d] = doomed[d] \ {doc}
    BY <2>1
  <2>5. \A i \in 1..3 : i < listed[d] => KindClean(d, i)'
    BY <2>2, <2>3, <2>4 DEF KindClean
  <2>6. desired[d] \subseteq cluster'
    BY <2>1, <2>3
  <2> QED BY <1>5, <1>6, <2>1, <2>2, <2>3, <2>4, <2>5, <2>6 DEF OnTrack, Progress, Same
<1>12. CASE KindPruned(d)
  <2>1. /\ pc'[d] = "list" /\ pc[d] = "delete" /\ doomed[d] = {}
        /\ UNCHANGED <<cluster, local>>
    BY <1>12 DEF KindPruned
  <2>2. /\ desired[d] \subseteq cluster /\ KindClean(d, listed[d])
        /\ \A i \in 1..3 : i < listed[d] => KindClean(d, i)
    BY <1>6, <2>1 DEF OnTrack, Progress, KindClean
  <2> QED BY <1>5, <1>6, <2>1, <2>2 DEF OnTrack, Progress, KindClean, local
<1> QED
  BY <1>7, <1>8, <1>9, <1>10, <1>11, <1>12

LEMMA StepKeepsEffect == TypeOK /\ EffectInvariant /\ [Next]_vars => EffectInvariant'
<1> SUFFICES ASSUME TypeOK, EffectInvariant, [Next]_vars PROVE EffectInvariant'
  OBVIOUS
<1>1. NamesUnique(cluster')
  BY ClusterNames DEF EffectInvariant
<1>2. \A d \in Deployers : listed'[d] > 0 => pc'[d] \in {"list", "delete"}
  BY ListedWhilePruning DEF EffectInvariant
<1>3. ASSUME NEW d \in Deployers PROVE Holds(d)'
  <2>1. Holds(d)
    BY DEF EffectInvariant
  <2>2. ASSUME NEW e \in Deployers,
               Start(e) \/ Refuse(e) \/ Step(e) \/ TimeOut(e) \/ LoseLock(e)
        PROVE  Holds(d)'
    BY <2>1, <2>2, OwnStep, OthersStep
  <2> QED BY <2>1, <2>2, WorldStep, LateStep DEF Next
<1> QED
  BY <1>1, <1>2, <1>3 DEF EffectInvariant, NamesUnique

\* When all kinds are pruned, the cluster holds what was built and nothing else.
LEMMA PrunedIsBuilt ==
    ASSUME TypeOK, NEW d \in Deployers, OnTrack(d), pc[d] = "list",
           listed[d] = Len(PRUNE_ORDER)
    PROVE  cluster = build_policy_documents(limit_class, model_limits)
<1>1. /\ desired[d] \subseteq cluster
      /\ desired[d] = build_policy_documents(limit_class, model_limits)
      /\ KindClean(d, 1) /\ KindClean(d, 2) /\ KindClean(d, 3)
  BY PruneKinds DEF OnTrack, Progress
<1>2. \A doc \in cluster : doc.kind \in Kinds
  BY DEF TypeOK, Documents
<1>3. cluster \subseteq desired[d]
  BY <1>1, <1>2, PruneKinds DEF KindClean, Kinds
<1> QED
  BY <1>1, <1>3

\* README.md:104: a deployment that reports success, and that nobody disturbed, leaves
\* exactly the documents of the configuration, whatever earlier deployments left behind,
\* also with lost connections around it, and with late requests that come in time for it
\* to repair what they do.
THEOREM DeploymentsTakeEffect == Spec => DeployTakesEffect
<1>1. Init => EffectInvariant
  BY DEF Init, EffectInvariant, NamesUnique, Holds, Undisturbed
<1>2. Spec => []EffectInvariant
  BY <1>1, StepKeepsEffect, TypeCorrect, PTL DEF Spec
<1>3. TypeOK /\ EffectInvariant /\ [Next]_vars =>
        [\A d \in Deployers :
           result[d] # "deployed" /\ result'[d] = "deployed" /\ ~ disturbed[d]
             => cluster' = build_policy_documents(limit_class', model_limits')]_vars
  <2> SUFFICES ASSUME TypeOK, EffectInvariant, [Next]_vars, NEW d \in Deployers,
                      result[d] # "deployed", result'[d] = "deployed", ~ disturbed[d]
               PROVE  cluster' = build_policy_documents(limit_class', model_limits')
    OBVIOUS
  <2>1. Finish(d)
    <3>1. ASSUME NEW e \in Deployers,
                 Start(e) \/ Refuse(e) \/ Fail(e) \/ TimeOut(e)
          PROVE  FALSE
      BY <3>1 DEF Start, Refuse, Fail, TimeOut, Report, TypeOK
    <3>2. ASSUME NEW e \in Deployers, ReadProjects(e) \/ ReadLimits(e) \/ ApplyNext(e)
                   \/ BeginPrune(e) \/ ListKind(e) \/ DeleteNext(e) \/ KindPruned(e)
                   \/ LoseLock(e)
          PROVE  UNCHANGED result
      BY <3>2 DEF ReadProjects, ReadLimits, ApplyNext, BeginPrune, ListKind, DeleteNext,
                  KindPruned, LoseLock
    <3>3. Edit \/ ExecuteLate \/ DropLate \/ UNCHANGED vars => UNCHANGED result
      BY DEF Edit, AssignClass, SetLimit, DeleteClass, Edited, ExecuteLate, DropLate, vars
    <3>4. ASSUME NEW e \in Deployers, e # d, Finish(e) PROVE FALSE
      BY <3>4 DEF Finish, Report, TypeOK
    <3> QED
      BY <3>1, <3>2, <3>3, <3>4 DEF Next, Step
  <2>2. /\ pc[d] = "list" /\ listed[d] = Len(PRUNE_ORDER)
        /\ UNCHANGED <<cluster, limit_class, model_limits>>
    BY <2>1 DEF Finish, outside
  <2>3. OnTrack(d)
    BY <2>2 DEF EffectInvariant, Holds, Undisturbed
  <2> QED
    BY <2>2, <2>3, PrunedIsBuilt
<1> QED
  BY <1>2, <1>3, TypeCorrect, PTL DEF Spec, DeployTakesEffect

-----------------------------------------------------------------------------
(* What DeploymentEnds rests on                                            *)

\* How far a deployment is: its queries, the applies, and two phases per kind.
Phase(d) ==
    CASE pc[d] = "idle" -> 0
      [] pc[d] = "projects" -> 1
      [] pc[d] = "limits" -> 2
      [] pc[d] = "apply" -> 3
      [] pc[d] = "list" -> 4 + 2 * listed[d]
      [] pc[d] = "delete" -> 3 + 2 * listed[d]

Loses(before, after) == after \subseteq before /\ after # before

\* A deployment ends, comes to a later phase, or has one document less to apply or to
\* delete: it repeats nothing, and nobody else gives it work or takes it back.
DeploymentsAdvance ==
    [][\A d \in Deployers : pc[d] # "idle" =>
          \/ UNCHANGED <<pc[d], listed[d], pending[d], doomed[d]>>
          \/ pc'[d] = "idle"
          \/ Phase(d)' > Phase(d)
          \/ Phase(d)' = Phase(d) /\ Loses(pending[d], pending'[d]) /\ UNCHANGED doomed[d]
          \/ Phase(d)' = Phase(d) /\ Loses(doomed[d], doomed'[d])
                                  /\ UNCHANGED pending[d]]_vars

\* kubernetes.py:64-77: with finitely many documents a deployment makes finitely many
\* requests, whatever is edited, executed late or deployed by others meanwhile; so each
\* one that does not stop ends and gives its lock up.
THEOREM DeploymentsTerminate == Spec => DeploymentsAdvance
<1>1. TypeOK /\ [Next]_vars =>
        [\A d \in Deployers : pc[d] # "idle" =>
            \/ UNCHANGED <<pc[d], listed[d], pending[d], doomed[d]>>
            \/ pc'[d] = "idle"
            \/ Phase(d)' > Phase(d)
            \/ Phase(d)' = Phase(d) /\ Loses(pending[d], pending'[d]) /\ UNCHANGED doomed[d]
            \/ Phase(d)' = Phase(d) /\ Loses(doomed[d], doomed'[d])
                                    /\ UNCHANGED pending[d]]_vars
  <2> SUFFICES ASSUME TypeOK, [Next]_vars, NEW d \in Deployers, pc[d] # "idle"
               PROVE  \/ UNCHANGED <<pc[d], listed[d], pending[d], doomed[d]>>
                      \/ pc'[d] = "idle"
                      \/ Phase(d)' > Phase(d)
                      \/ /\ Phase(d)' = Phase(d) /\ Loses(pending[d], pending'[d])
                         /\ UNCHANGED doomed[d]
                      \/ /\ Phase(d)' = Phase(d) /\ Loses(doomed[d], doomed'[d])
                         /\ UNCHANGED pending[d]
    OBVIOUS
  <2>0. listed[d] \in 0..3
    BY DEF TypeOK, PRUNE_ORDER
  <2>1. ASSUME NEW e \in Deployers, e # d,
               Start(e) \/ Refuse(e) \/ Step(e) \/ TimeOut(e) \/ LoseLock(e)
        PROVE  UNCHANGED <<pc[d], listed[d], pending[d], doomed[d]>>
    BY <2>1 DEF TypeOK, Start, Refuse, Step, TimeOut, LoseLock, ReadProjects, ReadLimits,
                ApplyNext, BeginPrune, ListKind, DeleteNext, KindPruned, Finish, Fail,
                Goto, Forget, local
  <2>2. CASE \/ Edit \/ ExecuteLate \/ DropLate \/ UNCHANGED vars
             \/ Start(d) \/ Refuse(d) \/ LoseLock(d)
    BY <2>2 DEF Edit, AssignClass, SetLimit, DeleteClass, Edited, ExecuteLate, DropLate,
                Start, Refuse, LoseLock, vars, local
  <2>3. CASE Finish(d) \/ Fail(d) \/ TimeOut(d)
    BY <2>3 DEF Finish, Fail, TimeOut, Goto, TypeOK
  <2>4. CASE ReadProjects(d) \/ ReadLimits(d) \/ BeginPrune(d)
    <3>1. \/ pc[d] = "projects" /\ pc'[d] = "limits"
          \/ pc[d] = "limits" /\ pc'[d] = "apply"
          \/ pc[d] = "apply" /\ pc'[d] = "list" /\ listed'[d] = listed[d]
      BY <2>4 DEF ReadProjects, ReadLimits, BeginPrune, Goto, local, TypeOK
    <3>2. Phase(d)' > Phase(d)
      BY <2>0, <3>1 DEF Phase
    <3> QED BY <3>2
  <2>5. CASE ListKind(d) \/ KindPruned(d)
    <3>1. \/ pc[d] = "list" /\ pc'[d] = "delete" /\ listed'[d] = listed[d] + 1
          \/ pc[d] = "delete" /\ pc'[d] = "list" /\ listed'[d] = listed[d]
      BY <2>5 DEF ListKind, KindPruned, Goto, local, TypeOK
    <3>2. Phase(d)' > Phase(d)
      BY <2>0, <3>1 DEF Phase
    <3> QED BY <3>2
  <2>6. CASE ApplyNext(d)
    <3>1. PICK doc \in pending[d] : pending' = [pending EXCEPT ![d] = @ \ {doc}]
      BY <2>6 DEF ApplyNext, NextDocuments
    <3>2. Loses(pending[d], pending'[d])
      BY <3>1 DEF Loses, TypeOK
    <3>3. UNCHANGED <<pc, listed, doomed>>
      BY <2>6 DEF ApplyNext
    <3> QED BY <3>2, <3>3 DEF Phase
  <2>7. CASE DeleteNext(d)
    <3>1. PICK doc \in doomed[d] : doomed' = [doomed EXCEPT ![d] = @ \ {doc}]
      BY <2>7 DEF DeleteNext
    <3>2. Loses(doomed[d], doomed'[d])
      BY <3>1 DEF Loses, TypeOK
    <3>3. UNCHANGED <<pc, listed, pending>>
      BY <2>7 DEF DeleteNext
    <3> QED BY <3>2, <3>3 DEF Phase
  <2> QED BY <2>1, <2>2, <2>3, <2>4, <2>5, <2>6, <2>7 DEF Next, Step
<1> QED BY <1>1, TypeCorrect, PTL DEF Spec, DeploymentsAdvance

==============================================================================
