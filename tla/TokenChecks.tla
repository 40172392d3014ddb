------------------------------ MODULE TokenChecks ------------------------------
(***************************************************************************)
(* Bearer tokens (apps/authz/models.py, StaticToken), the portal that      *)
(* creates and deletes them (apps/frontend/views.py), the superusers who   *)
(* edit them (StaticTokenAdmin), and the check that Envoy asks for before  *)
(* it lets a request through (apps/authz/views.py, envoy_authz_check).     *)
(*                                                                         *)
(* A check reads the token, its project and its limit class in one SELECT, *)
(* decides, counts the decision in the token's row by an UPDATE, and       *)
(* answers with headers from what it read.  The project and the token may  *)
(* be edited or deleted between the read and the count.                    *)
(***************************************************************************)
EXTENDS ProjectAdmin, Accounts

CONSTANTS Superusers,
          Lifetimes,    \* in days; the form bounds them by the settings
          Creators,     \* web workers that handle create_token
          Checkers,     \* web workers that handle envoy_authz_check
          TokenEdits,   \* do superusers edit tokens?
          LastToken,    \* bound on the tokens ever created
          LastCheck     \* bound on the decisions counted per token

TokenIds == 1..LastToken
Expiries == {d + l : d \in 0..LastDay, l \in Lifetimes}

ASSUME TokenAssumption ==
    /\ Superusers \subseteq Users
    /\ Lifetimes \subseteq Nat
    /\ TokenEdits \in BOOLEAN
    /\ LastToken \in Nat /\ LastCheck \in Nat

TokenRows == [id : TokenIds, user : Users, project : Projects, expires_at : Expiries,
              allowed_count : Nat, denied_count : Nat]

Headers == [project : Projects, limit_class : Classes \cup {NULL},
            quota_key : QuotaKeys]

\* What a check keeps of the token object it has read.
Checks == [token : TokenIds, allowed_count : Nat, read : Headers]
Requests == [user : Users, project : Projects]

Decisions == [allowed : Nat, denied : Nat]
NoDecision == [allowed |-> 0, denied |-> 0]

ASSUME TokenNullAssumption == NULL \notin TokenRows \cup Checks \cup Requests

VARIABLES tokens,       \* the rows of StaticToken
          tokensUsed,   \* primary keys given out
          members,      \* the (project, user) pairs with an active membership
          creating,     \* a valid form of create_token, or NULL
          altering,     \* the token row a superuser is about to save, or NULL
          checking,     \* a check that has read its token, or NULL
          counted,      \* history: the decisions for each token
          eligible,     \* history: headers that were right since a check's read
          missed,       \* history: the decisions that saves took from each token
          unseen        \* history: the decisions that an editor's loaded row lacks

tokenVars == <<tokens, tokensUsed, members, creating, altering, checking, counted>>
checkVars == <<projectVars, tokenVars, eligible, missed, unseen>>

TokenTypeOK ==
    /\ TypeOK
    /\ tokens \in SUBSET TokenRows
    /\ tokensUsed \in 0..LastToken
    /\ members \in SUBSET (Projects \X Users)
    /\ creating \in [Creators -> Requests \cup {NULL}]
    /\ altering \in [Editors -> TokenRows \cup {NULL}]
    /\ checking \in [Checkers -> Checks \cup {NULL}]
    /\ counted \in [TokenIds -> Decisions]
    /\ eligible \in [Checkers -> SUBSET Headers]
    /\ missed \in [TokenIds -> Decisions]
    /\ unseen \in [Editors -> Decisions]

TokenInit ==
    /\ Init
    /\ tokens = {}
    /\ tokensUsed = 0
    /\ members = {}
    /\ creating = [w \in Creators |-> NULL]
    /\ altering = [e \in Editors |-> NULL]
    /\ checking = [c \in Checkers |-> NULL]
    /\ counted = [t \in TokenIds |-> NoDecision]
    /\ eligible = [c \in Checkers |-> {}]
    /\ missed = [t \in TokenIds |-> NoDecision]
    /\ unseen = [e \in Editors |-> NoDecision]

\* active_filter: not expired, in an active project.
IsValid(row) == row.expires_at > today /\ IsActive(row.project)

HeadersOf(p) ==
    [project |-> p, limit_class |-> project[p].limit_class,
     quota_key |-> project[p].quota_key]

\* The headers that a check of this token may return in the present state.
RightHeaders(t) ==
    {HeadersOf(row.project) :
        row \in {r \in tokens : /\ r.id = t /\ IsValid(r)
                                /\ project[r.project].limit_class # NULL}}

RightNow == [t \in TokenIds |-> RightHeaders(t)]

\* History: what every check under way might have read since it read.
ObserveRight ==
    eligible' = [c \in Checkers |->
                    IF checking'[c] = NULL THEN {}
                    ELSE eligible[c] \cup RightNow'[checking'[c].token]]

Observe == ObserveRight /\ UNCHANGED <<missed, unseen>>

\* History: a decision for this token, which the rows in change views do not have.
Alters(e, t) == altering[e] # NULL /\ altering[e].id = t

ObserveAllowed(t) ==
    /\ ObserveRight
    /\ counted' = [counted EXCEPT ![t].allowed = @ + 1]
    /\ unseen' = [e \in Editors |->
           IF Alters(e, t) THEN [unseen[e] EXCEPT !.allowed = @ + 1] ELSE unseen[e]]
    /\ UNCHANGED missed

ObserveDenied(t) ==
    /\ ObserveRight
    /\ counted' = [counted EXCEPT ![t].denied = @ + 1]
    /\ unseen' = [e \in Editors |->
           IF Alters(e, t) THEN [unseen[e] EXCEPT !.denied = @ + 1] ELSE unseen[e]]
    /\ UNCHANGED missed

-----------------------------------------------------------------------------
(* The portal                                                              *)

\* Memberships change as module Memberships describes.
ChangeMembers(p, u) ==
    /\ Exists(p)
    /\ members' = IF <<p, u>> \in members THEN members \ {<<p, u>>}
                                          ELSE members \cup {<<p, u>>}
    /\ UNCHANGED <<projectVars, tokens, tokensUsed, creating, altering, checking, counted>>
    /\ Observe

\* A valid StaticTokenForm: token_projects_for_user.
OpenForm(w, u, p) ==
    /\ creating[w] = NULL
    /\ IsActive(p)
    /\ u \in Superusers \/ <<p, u>> \in members
    /\ creating' = [creating EXCEPT ![w] = [user |-> u, project |-> p]]
    /\ UNCHANGED <<projectVars, tokens, tokensUsed, members, altering, checking, counted>>
    /\ Observe

\* Counters without their default.
NewToken_NoDefault(w, lifetime) ==
    [id |-> tokensUsed + 1, user |-> creating[w].user, project |-> creating[w].project,
     expires_at |-> today + lifetime, allowed_count |-> NULL, denied_count |-> NULL]

NewToken(w, lifetime) ==
    [id |-> tokensUsed + 1, user |-> creating[w].user, project |-> creating[w].project,
     expires_at |-> today + lifetime, allowed_count |-> 0, denied_count |-> 0]

\* StaticToken.create_token; the foreign key needs the project.
CreateToken(w, lifetime) ==
    /\ creating[w] # NULL /\ tokensUsed < LastToken
    /\ Exists(creating[w].project)
    /\ tokens' = tokens \cup {NewToken(w, lifetime)}
    /\ tokensUsed' = tokensUsed + 1
    /\ creating' = [creating EXCEPT ![w] = NULL]
    /\ UNCHANGED <<projectVars, members, altering, checking, counted>>
    /\ Observe

\* An IntegrityError, or any other failure.
AbandonForm(w) ==
    /\ creating[w] # NULL
    /\ creating' = [creating EXCEPT ![w] = NULL]
    /\ UNCHANGED <<projectVars, tokens, tokensUsed, members, altering, checking, counted>>
    /\ Observe

\* delete_token by its user, or the admin's deletion.
DeleteToken(row) ==
    /\ row \in tokens
    /\ tokens' = tokens \ {row}
    /\ UNCHANGED <<projectVars, tokensUsed, members, creating, altering, checking, counted>>
    /\ Observe

-----------------------------------------------------------------------------
(* Superusers (StaticTokenAdmin): the counters are read-only form fields,   *)
(* so the saved row holds them as they were loaded.                         *)

OpenToken(e, row, u, p, expiry) ==
    /\ TokenEdits
    /\ altering[e] = NULL
    /\ row \in tokens /\ Exists(p)
    /\ altering' = [altering EXCEPT ![e] =
                       [row EXCEPT !.user = u, !.project = p, !.expires_at = expiry]]
    /\ UNCHANGED <<projectVars, tokens, tokensUsed, members, creating, checking, counted>>
    /\ ObserveRight
    /\ unseen' = [unseen EXCEPT ![e] = missed[row.id]]
    /\ UNCHANGED missed

\* An UPDATE of the whole row, or an INSERT if the row is gone.
SaveToken(e) ==
    /\ altering[e] # NULL
    /\ Exists(altering[e].project)
    /\ tokens' = {row \in tokens : row.id # altering[e].id} \cup {altering[e]}
    /\ altering' = [altering EXCEPT ![e] = NULL]
    /\ UNCHANGED <<projectVars, tokensUsed, members, creating, checking, counted>>
    /\ ObserveRight
    /\ missed' = [missed EXCEPT ![altering[e].id] = unseen[e]]
    /\ unseen' = [unseen EXCEPT ![e] = NoDecision]

AbandonToken(e) ==
    /\ altering[e] # NULL
    /\ altering' = [altering EXCEPT ![e] = NULL]
    /\ UNCHANGED <<projectVars, tokens, tokensUsed, members, creating, checking, counted>>
    /\ ObserveRight
    /\ unseen' = [unseen EXCEPT ![e] = NoDecision]
    /\ UNCHANGED missed

\* The deletion of a project cascades to its tokens and memberships.
DeleteProjectAndTokens(p) ==
    /\ DeleteProject(p)
    /\ tokens' = {row \in tokens : row.project # p}
    /\ members' = {m \in members : m[1] # p}
    /\ UNCHANGED <<tokensUsed, creating, altering, checking, counted>>
    /\ Observe

EditProjects == Change /\ UNCHANGED tokenVars /\ Observe

-----------------------------------------------------------------------------
(* envoy_authz_check                                                       *)

\* find_valid; a token that is not found is answered at once and not counted.
FindValid(c, row) ==
    /\ checking[c] = NULL
    /\ row \in tokens /\ IsValid(row)
    /\ checking' = [checking EXCEPT ![c] =
                       [token |-> row.id, allowed_count |-> row.allowed_count,
                        read |-> HeadersOf(row.project)]]
    /\ UNCHANGED <<projectVars, tokens, tokensUsed, members, creating, altering, counted>>
    /\ Observe

\* limit_class_id is set, and the URL is below the endpoint (_matches_api_endpoint).
Accepts(c, below) == checking[c].read.limit_class # NULL /\ below

\* Headers from related rows that are loaded when they are used.
Response_Lazy(c) ==
    IF Exists(checking[c].read.project)
    THEN HeadersOf(checking[c].read.project) ELSE checking[c].read

\* The identity and quota headers of the 200 response.
Response(c) == checking[c].read

Counted(t) == counted[t].allowed + counted[t].denied

EndCheck(c) == checking' = [checking EXCEPT ![c] = NULL]

\* token.allowed_count += 1; token.save(update_fields=['allowed_count'])
CountAllowed_InPython(c) ==
    tokens' = {IF row.id = checking[c].token
               THEN [row EXCEPT !.allowed_count = checking[c].allowed_count + 1]
               ELSE row : row \in tokens}

\* record_allowed: an UPDATE with F() of the row, if it is still there.
CountAllowed(c) ==
    tokens' = {IF row.id = checking[c].token
               THEN [row EXCEPT !.allowed_count = @ + 1] ELSE row : row \in tokens}

\* record_denied
CountDenied(c) ==
    tokens' = {IF row.id = checking[c].token
               THEN [row EXCEPT !.denied_count = @ + 1] ELSE row : row \in tokens}

Allow(c) ==
    /\ checking[c] # NULL
    /\ \E below \in BOOLEAN : Accepts(c, below)
    /\ Counted(checking[c].token) < LastCheck
    /\ CountAllowed(c)
    /\ EndCheck(c)
    /\ UNCHANGED <<projectVars, tokensUsed, members, creating, altering>>
    /\ ObserveAllowed(checking[c].token)

Deny(c) ==
    /\ checking[c] # NULL
    /\ \E below \in BOOLEAN : ~ Accepts(c, below)
    /\ Counted(checking[c].token) < LastCheck
    /\ CountDenied(c)
    /\ EndCheck(c)
    /\ UNCHANGED <<projectVars, tokensUsed, members, creating, altering>>
    /\ ObserveDenied(checking[c].token)

\* The database or the worker fails before the count.
FailCheck(c) ==
    /\ checking[c] # NULL
    /\ EndCheck(c)
    /\ UNCHANGED <<projectVars, tokens, tokensUsed, members, creating, altering, counted>>
    /\ Observe

-----------------------------------------------------------------------------

Portal ==
    \/ \E p \in Projects, u \in Users : ChangeMembers(p, u)
    \/ \E w \in Creators, u \in Users, p \in Projects : OpenForm(w, u, p)
    \/ \E w \in Creators, l \in Lifetimes : CreateToken(w, l)
    \/ \E w \in Creators : AbandonForm(w)
    \/ \E row \in tokens : DeleteToken(row)

Superuser ==
    \/ \E e \in Editors, row \in tokens, u \in Users, p \in Projects, x \in Expiries :
           OpenToken(e, row, u, p, x)
    \/ \E e \in Editors : SaveToken(e) \/ AbandonToken(e)

Check ==
    \/ \E c \in Checkers, row \in tokens : FindValid(c, row)
    \/ \E c \in Checkers : Allow(c) \/ Deny(c) \/ FailCheck(c)

TokenNext ==
    \/ EditProjects
    \/ \E p \in Projects : DeleteProjectAndTokens(p)
    \/ Portal \/ Superuser \/ Check

TokenSpec == TokenInit /\ [][TokenNext]_checkVars

-----------------------------------------------------------------------------
(* Properties                                                              *)

\* README.md:74 "A valid token is accepted only when its project is active, has a
\* limit class": when a check returns 200, there was one instant since its read at
\* which the token existed, had not expired, belonged to this active project, and
\* the project had exactly this class and quota key.  The headers never mix two
\* states of the project, or a project with a token that was gone by then.
AcceptedWasEligible ==
    [][\A c \in Checkers : Allow(c) => Response(c) \in eligible[c]]_checkVars

\* A row and the decisions that it lacks are all the decisions for its token.
Accounts(row, lacks) ==
    /\ row.allowed_count + lacks.allowed = counted[row.id].allowed
    /\ row.denied_count + lacks.denied = counted[row.id].denied

\* test_authz.py:333-340 (allowed_count == 2 after two allowed checks): with checks that
\* overlap each other and every other change, a token's counters are the numbers of
\* decisions for it, but for those that fell between the load and the save of a change
\* view of this token, which writes the counters back as they were loaded, also into
\* a row that was deleted meanwhile.  No other decision is ever lost, and none is
\* counted twice or brought back.
CountersAccountedFor == \A row \in tokens : Accounts(row, missed[row.id])

\* Whatever superusers save, the counters never claim more than was decided.
CountersNeverAhead ==
    \A row \in tokens :
        /\ row.allowed_count <= counted[row.id].allowed
        /\ row.denied_count <= counted[row.id].denied
==============================================================================
