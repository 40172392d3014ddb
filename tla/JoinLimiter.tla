------------------------------ MODULE JoinLimiter ------------------------------
(***************************************************************************)
(* The limit on project codes (apps/frontend/views.py, join_project): a    *)
(* counter per user in the process's local-memory cache, with an expiry.   *)
(* Each pod's Gunicorn has one synchronous worker, hence one cache and one *)
(* request at a time; the counters go when the pod goes.  An attempt makes *)
(* its entry (add) and counts in it (incr) in two steps, between which the *)
(* entry may expire.                                                       *)
(***************************************************************************)
EXTENDS Startup

CONSTANTS Users,
          Limit,        \* settings.PROJECT_JOIN_ATTEMPT_LIMIT
          Window        \* settings.PROJECT_JOIN_ATTEMPT_WINDOW_SECONDS

ASSUME LimiterAssumption == Limit \in Nat /\ Window \in Nat \ {0} /\ NULL \notin Users

VARIABLES attempts,     \* per pod and user: the count and the time it has left
          trying,       \* whose request a pod handles, between add and incr
          lookups       \* history: wrong codes looked up since the entry was added

limiterVars == <<attempts, trying, lookups>>
vars == <<startupVars, limiterVars>>

None == [count |-> 0, left |-> 0]   \* no entry

Init ==
    /\ StartupInit
    /\ attempts = [p \in Pods |-> [u \in Users |-> None]]
    /\ trying = [p \in Pods |-> NULL]
    /\ lookups = [p \in Pods |-> [u \in Users |-> 0]]

\* incr that renews the entry's expiry.
Counted_Renews(p, u) ==
    [count |-> IF attempts[p][u].count <= Limit THEN attempts[p][u].count + 1 ELSE Limit + 1,
     left |-> Window]

\* incr, which leaves the entry's expiry alone.  Counts above Limit + 1 make no
\* difference.
Counted(p, u) ==
    [count |-> IF attempts[p][u].count <= Limit THEN attempts[p][u].count + 1 ELSE Limit + 1,
     left |-> attempts[p][u].left]

\* incr without its ValueError: an attempt whose entry is gone passes, and is not kept.
Passes_Missing(p, u) == attempts[p][u] = None \/ Counted(p, u).count <= Limit

\* project_join_limited returns False.
Passes(p, u) == attempts[p][u] # None /\ Counted(p, u).count <= Limit

Count(p, u) ==
    attempts' = IF attempts[p][u] = None THEN attempts
                ELSE [attempts EXCEPT ![p][u] = Counted(p, u)]

Forget(p, u) ==
    /\ attempts' = [attempts EXCEPT ![p][u] = None]
    /\ lookups' = [lookups EXCEPT ![p][u] = 0]

-----------------------------------------------------------------------------

\* cache.add makes an entry with its expiry, or leaves the user's entry alone.
Try(p, u) ==
    /\ phase[p] = "serving" /\ trying[p] = NULL
    /\ trying' = [trying EXCEPT ![p] = u]
    /\ attempts' = IF attempts[p][u] # None THEN attempts
                   ELSE [attempts EXCEPT ![p][u] = [count |-> 0, left |-> Window]]
    /\ UNCHANGED <<startupVars, lookups>>

\* The request goes on with incr.
Handling(p, u) == trying[p] = u /\ trying' = [trying EXCEPT ![p] = NULL]

\* No code is looked up: the answer is 429, or the form is not valid, or the entry has
\* expired since add and incr raises a ValueError.
Refuse(p, u) ==
    /\ Handling(p, u)
    /\ Count(p, u)
    /\ UNCHANGED <<startupVars, lookups>>

\* join_user_by_code returns None or raises.
WrongCode(p, u) ==
    /\ Handling(p, u)
    /\ Passes(p, u)
    /\ Count(p, u)
    /\ lookups' = [lookups EXCEPT ![p][u] = @ + 1]
    /\ UNCHANGED startupVars

\* reset_project_join_limit, after the user has joined.
RightCode(p, u) ==
    /\ Handling(p, u)
    /\ Passes(p, u)
    /\ Forget(p, u)
    /\ UNCHANGED startupVars

\* The cache drops an entry before its time, when it is full and some other user's
\* request adds one.
Evict(p, u) ==
    /\ attempts[p][u] # None /\ trying[p] # u
    /\ Forget(p, u)
    /\ UNCHANGED <<startupVars, trying>>

\* Time passes for every cache.
Tick ==
    /\ \E p \in Pods, u \in Users : attempts[p][u] # None
    /\ attempts' = [p \in Pods |-> [u \in Users |->
           IF attempts[p][u].left <= 1 THEN None
           ELSE [attempts[p][u] EXCEPT !.left = @ - 1]]]
    /\ lookups' = [p \in Pods |-> [u \in Users |->
           IF attempts[p][u].left <= 1 THEN 0 ELSE lookups[p][u]]]
    /\ UNCHANGED <<startupVars, trying>>

\* A step of start.py or of Kubernetes; a process that ends takes its cache along.
Process ==
    /\ StartupNext
    /\ attempts' = [p \in Pods |-> IF phase'[p] = "down" THEN [u \in Users |-> None]
                                   ELSE attempts[p]]
    /\ trying' = [p \in Pods |-> IF phase'[p] = "down" THEN NULL ELSE trying[p]]
    /\ lookups' = [p \in Pods |-> IF phase'[p] = "down" THEN [u \in Users |-> 0]
                                  ELSE lookups[p]]

-----------------------------------------------------------------------------

Next ==
    \/ Process
    \/ \E p \in Pods, u \in Users :
          Try(p, u) \/ Refuse(p, u) \/ WrongCode(p, u) \/ RightCode(p, u) \/ Evict(p, u)
    \/ Tick

Spec == Init /\ [][Next]_vars

\* Kubernetes restarts containers; start.py goes on with what it can do, and PostgreSQL
\* gives the lock to those who wait for it in the order of their arrival; a dead
\* session ends; time passes.  Nothing makes users or editors do anything.
Fairness ==
    /\ \A p \in Pods : /\ WF_vars(\E r \in Releases : StartPod(p, r) /\ Process)
                       /\ WF_vars(Migrating(p) /\ Process)
                       /\ SF_vars(TakeLock(p) /\ Process)
    /\ WF_vars(EndSession /\ Process)
    /\ WF_vars(Tick)

FairSpec == Spec /\ Fairness

-----------------------------------------------------------------------------
(* Properties                                                              *)

TypeOK ==
    /\ StartupTypeOK
    /\ attempts \in [Pods -> [Users -> [count : 0..(Limit + 1), left : 0..Window]]]
    /\ trying \in [Pods -> Users \cup {NULL}]
    /\ lookups \in [Pods -> [Users -> Nat]]

\* views.py:35-38, 149-166 and README.md:60 "Failed join attempts per window": one
\* process looks up at most Limit wrong codes of a user between the first attempt of a
\* window and the end of that entry, and each of them was counted in the entry that
\* is there, also when an entry expires between add and incr; over all processes it is
\* at most Limit times their number.
LookupsBounded ==
    \A p \in Pods, u \in Users :
        lookups[p][u] <= Limit /\ lookups[p][u] <= attempts[p][u].count

\* A user who is locked out by a process is let in again, also one who goes on trying.
LockoutEnds ==
    \A p \in Pods, u \in Users :
        attempts[p][u].count > Limit ~> attempts[p][u] = None
==============================================================================
