----------------------------- MODULE UsageLedger -----------------------------
(***************************************************************************)
(* What the usage receiver promises its readers (the dashboard and the     *)
(* Prometheus exporter): a ledger in which one request is booked at most   *)
(* once, and is booked in the event table and in the daily aggregate at    *)
(* the same instant.  apps/usage/service.py states it as "Persist one ALS  *)
(* record exactly once and update its daily aggregate."                    *)
(*                                                                         *)
(* A row of DailyUsage is kept as the multiset of the records it has been  *)
(* charged with, [Records -> Nat].  Its request_count is the size of that  *)
(* multiset and its token_count the sum of its members' token counts, so   *)
(* two rows that differ in either column differ here as well.              *)
(***************************************************************************)
EXTENDS Naturals

CONSTANTS RequestIds,   \* UsageEvent.request_id values
          Identities,   \* (day, user, project id, shortcut, model) tuples
          Records       \* the usage records that can be delivered

ASSUME RecordsAssumption ==
    Records \subseteq [request_id : RequestIds, identity : Identities]

VARIABLES events,       \* the rows of UsageEvent
          daily         \* the multiset charged to each DailyUsage identity

ledgerVars == <<events, daily>>

NoUse == [r \in Records |-> 0]

Charge(row, r) == [row EXCEPT ![r] = @ + 1]

IsRecorded(r) == \E e \in events : e.request_id = r.request_id

LedgerInit ==
    /\ events = {}
    /\ daily = [k \in Identities |-> NoUse]

\* One request is booked: both tables change together.
Book(r) ==
    /\ ~ IsRecorded(r)
    /\ events' = events \cup {r}
    /\ daily' = [daily EXCEPT ![r.identity] = Charge(@, r)]

LedgerNext == \E r \in Records : Book(r)

LedgerSpec == LedgerInit /\ [][LedgerNext]_ledgerVars
==============================================================================
