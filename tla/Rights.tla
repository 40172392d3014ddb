-------------------------------- MODULE Rights --------------------------------
(***************************************************************************)
(* Who may edit projects: the flags is_staff and is_superuser of the user  *)
(* table, the administrators of each project, the signal that makes a new  *)
(* administrator staff (apps/authz/apps.py), the OIDC login that promotes  *)
(* the configured user (apps/frontend/pipeline.py), the superusers' forms, *)
(* and the permission checks of the admin site (apps/authz/admin.py).      *)
(*                                                                         *)
(* A request is checked when it begins; the rights it was checked with may *)
(* be gone when its transaction commits.  A user's form, and the login     *)
(* pipeline's step before the promotion, write the whole user row.         *)
(***************************************************************************)
EXTENDS ProjectAdmin, Accounts

CONSTANTS Root,         \* the superuser that createsuperuser made
          Promoted,     \* users whose name is GDK_OIDC_ADMIN_USERNAME
          Logins,       \* OIDC logins at one time
          MaxLogins     \* bound on the logins ever

ASSUME RightsAssumption ==
    Root \in Users /\ Promoted \subseteq Users /\ MaxLogins \in Nat

UserRows == [user : Users, is_staff : BOOLEAN, is_superuser : BOOLEAN]
Grants == [add : SUBSET Users, remove : SUBSET Users, raise : SUBSET Users]

ASSUME RightsNullAssumption == NULL \notin UserRows \cup Grants

VARIABLES staff, superusers,    \* the flags of the user table
          administrators,       \* Project.administrators
          granting,             \* an open transaction's change of the relation
          userForm,             \* the user row a superuser is about to save
          login,                \* the user row a login has loaded
          logins,               \* how many logins there were
          lowered,              \* history: staff flags taken by a whole-row save
          granted               \* history: superusers by a superuser's form

userVars == <<staff, superusers, login, logins, lowered, granted>>
rightsVars == <<projectVars, userVars, administrators, granting, userForm>>

RightsInit ==
    /\ Init
    /\ staff = {Root} /\ superusers = {Root}
    /\ administrators = [p \in Projects |-> {}]
    /\ granting = [e \in Editors |-> NULL]
    /\ userForm = [e \in Editors |-> NULL]
    /\ login = [l \in Logins |-> NULL]
    /\ logins = 0
    /\ lowered = {} /\ granted = {Root}

\* AdminSite.has_permission, and ProjectScopedAdmin: can_administer.
MayEdit(u, p, role) ==
    /\ u \in staff
    /\ \/ role = "superuser" /\ u \in superusers
       \/ role = "administrator" /\ u \notin superusers /\ u \in administrators[p]

IsSuperuser(u) == u \in staff /\ u \in superusers

\* An open transaction has updated this user's row.
Locked(u) == \E e \in Editors : granting[e] # NULL /\ u \in granting[e].raise

\* The whole row is written.
WriteUser(row) ==
    /\ ~ Locked(row.user)
    /\ staff' = IF row.is_staff THEN staff \cup {row.user} ELSE staff \ {row.user}
    /\ superusers' = IF row.is_superuser THEN superusers \cup {row.user}
                     ELSE superusers \ {row.user}
    /\ lowered' = IF row.is_staff THEN lowered \ {row.user} ELSE lowered \cup {row.user}

-----------------------------------------------------------------------------
(* Projects                                                                *)

\* change_view of a user who may edit the project.
OpenProjectAs(e, p, role) ==
    /\ userForm[e] = NULL
    /\ \E u \in Users : MayEdit(u, p, role)
    /\ OpenProject(e, p, role)
    /\ UNCHANGED <<userVars, administrators, granting, userForm>>

\* A signal that is not connected.
Raised_None(added) == {}

\* update_project_administrators_staff: those of the added who are not staff yet.
Raised(added) == added \ staff

\* An open transaction has written this project's row.
RowLocked(p) == \E e \in Editors : granting[e] # NULL /\ editing[e].project = p

Raise(users) ==
    /\ \A u \in users : ~ Locked(u)
    /\ staff' = staff \cup users
    /\ lowered' = lowered \ users

\* A superuser's form: save_model and save_related, not committed yet.  The relation is
\* set to the posted list, which is not empty, against what it is now, and the signal
\* updates the users that are added.
SetAdministrators(e, list) ==
    /\ editing[e] # NULL /\ editing[e].role = "superuser" /\ list # {}
    /\ ~ RowLocked(editing[e].project)
    /\ LET now == administrators[editing[e].project]
           new == list \ now
       IN  /\ \A u \in Raised(new) : ~ Locked(u)
           /\ granting' = [granting EXCEPT ![e] =
                              [add |-> new, remove |-> now \ list, raise |-> Raised(new)]]
    /\ UNCHANGED <<projectVars, userVars, administrators, userForm>>

\* The commit of that transaction.
CommitProject(e) ==
    /\ granting[e] # NULL
    /\ SaveProject(e)
    /\ administrators' = [administrators EXCEPT ![editing[e].project] =
                             (@ \cup granting[e].add) \ granting[e].remove]
    /\ staff' = staff \cup granting[e].raise
    /\ lowered' = lowered \ granting[e].raise
    /\ granting' = [granting EXCEPT ![e] = NULL]
    /\ UNCHANGED <<superusers, login, logins, granted, userForm>>

\* A project administrator's form has no administrators.
SaveProjectAs(e) ==
    /\ editing[e] # NULL /\ editing[e].role = "administrator"
    /\ ~ RowLocked(editing[e].project)
    /\ SaveProject(e)
    /\ UNCHANGED <<userVars, administrators, granting, userForm>>

AbandonProjectAs(e) ==
    /\ AbandonProject(e)
    /\ granting' = [granting EXCEPT ![e] = NULL]
    /\ UNCHANGED <<userVars, administrators, userForm>>

\* add_view and delete_view (superusers only); the rows of the relation go along.
CreateProjectAs(p, row, list) ==
    /\ \E u \in Users : IsSuperuser(u)
    /\ CreateProject(p, row)
    /\ list # {}
    /\ administrators' = [administrators EXCEPT ![p] = list]
    /\ Raise(Raised(list))
    /\ UNCHANGED <<superusers, login, logins, granted, granting, userForm>>

DeleteProjectAs(p) ==
    /\ \E u \in Users : IsSuperuser(u)
    /\ ~ RowLocked(p)
    /\ DeleteProject(p)
    /\ administrators' = [administrators EXCEPT ![p] = {}]
    /\ UNCHANGED <<userVars, granting, userForm>>

-----------------------------------------------------------------------------
(* Users                                                                   *)

\* UserAdmin: the form has both flags.
OpenUser(e, row) ==
    /\ editing[e] = NULL /\ userForm[e] = NULL
    /\ \E u \in Users : IsSuperuser(u)
    /\ userForm' = [userForm EXCEPT ![e] = row]
    /\ UNCHANGED <<projectVars, userVars, administrators, granting>>

SaveUser(e) ==
    /\ userForm[e] # NULL
    /\ WriteUser(userForm[e])
    /\ granted' = IF userForm[e].is_superuser THEN granted \cup {userForm[e].user} ELSE granted
    /\ userForm' = [userForm EXCEPT ![e] = NULL]
    /\ UNCHANGED <<projectVars, login, logins, administrators, granting>>

\* social_user loads the user of an OIDC login.
BeginLogin(l, u) ==
    /\ login[l] = NULL /\ logins < MaxLogins
    /\ login' = [login EXCEPT ![l] =
                    [user |-> u, is_staff |-> u \in staff, is_superuser |-> u \in superusers]]
    /\ logins' = logins + 1
    /\ UNCHANGED <<projectVars, staff, superusers, lowered, granted, administrators,
                   granting, userForm>>

\* user_details saves the loaded user if the provider sent other names.
UserDetails(l) ==
    /\ login[l] # NULL
    /\ WriteUser(login[l])
    /\ UNCHANGED <<projectVars, login, logins, granted, administrators, granting, userForm>>

\* A promotion of whoever logs in.
Promotes_All(row) == ~ (row.is_staff /\ row.is_superuser)

\* The name is the configured one, and a flag was missing when the user was loaded.
Promotes(row) == row.user \in Promoted /\ ~ (row.is_staff /\ row.is_superuser)

\* promote_oidc_admin: save(update_fields=['is_staff', 'is_superuser']).
EndLogin(l) ==
    /\ login[l] # NULL
    /\ IF Promotes(login[l])
       THEN WriteUser([login[l] EXCEPT !.is_staff = TRUE, !.is_superuser = TRUE])
       ELSE UNCHANGED <<staff, superusers, lowered>>
    /\ login' = [login EXCEPT ![l] = NULL]
    /\ UNCHANGED <<projectVars, logins, granted, administrators, granting, userForm>>

-----------------------------------------------------------------------------

RightsNext ==
    \/ \E p \in Projects, row \in Rows, list \in SUBSET Users : CreateProjectAs(p, row, list)
    \/ \E p \in Projects : DeleteProjectAs(p)
    \/ \E e \in Editors, p \in Projects, role \in Roles : OpenProjectAs(e, p, role)
    \/ \E e \in Editors : \/ \E list \in SUBSET Users : SetAdministrators(e, list)
                          \/ CommitProject(e) \/ SaveProjectAs(e) \/ AbandonProjectAs(e)
                          \/ SaveUser(e)
                          \/ \E row \in UserRows : OpenUser(e, row)
    \/ \E l \in Logins : UserDetails(l) \/ EndLogin(l) \/ \E u \in Users : BeginLogin(l, u)
    \/ DayPasses /\ UNCHANGED <<userVars, administrators, granting, userForm>>

RightsSpec == RightsInit /\ [][RightsNext]_rightsVars

-----------------------------------------------------------------------------
(* Properties                                                              *)

RightsTypeOK ==
    /\ TypeOK
    /\ staff \subseteq Users /\ superusers \subseteq Users
    /\ administrators \in [Projects -> SUBSET Users]
    /\ granting \in [Editors -> Grants \cup {NULL}]
    /\ userForm \in [Editors -> UserRows \cup {NULL}]
    /\ login \in [Logins -> UserRows \cup {NULL}]
    /\ logins \in 0..MaxLogins
    /\ lowered \subseteq Users /\ granted \subseteq Users

\* apps.py:5-17, test_authz.py:528: whoever administers a project can enter the admin
\* site, also when his user row is saved while he is being added; only a whole-row save
\* that takes the flag keeps him out.
AdministratorsAreStaff ==
    \A p \in Projects : administrators[p] \subseteq staff \cup lowered

\* README.md:8, pipeline.py:25-37: a superuser is one because a superuser's form says so
\* or because he is the configured OIDC user.  No administration of projects and no
\* other login leads there, and a stale row only brings back what was given before.
SuperusersWereMade == superusers \subseteq granted \cup Promoted
==============================================================================
