----------------------------- MODULE ProjectAdmin -----------------------------
(***************************************************************************)
(* The project table (apps/authz/models.py) and the administrators who     *)
(* edit it through the Django admin (apps/authz/admin.py, ProjectAdmin).   *)
(*                                                                         *)
(* A change view loads the whole row, puts the posted fields of its form   *)
(* into it, and saves the whole row: the fields that the form does not     *)
(* have are written back as they were loaded.  The load and the save are   *)
(* separate statements of a READ COMMITTED transaction, so other editors   *)
(* may come in between.                                                    *)
(***************************************************************************)
EXTENDS Naturals, FiniteSets

CONSTANTS Projects,     \* primary keys, each given out once
          Classes,      \* ProjectLimitClass rows
          Codes,        \* join codes (their hashes)
          QuotaKeys,    \* what generate_project_quota_key can return
          EndDates,     \* the dates that editors enter
          Approvals,    \* the values of join_requires_approval
          Editors,      \* requests of administrators
          Roles,        \* what they may be
          LastDay,      \* bound on the calendar
          NULL          \* no row, no class, no code, no date

ASSUME ProjectAdminAssumption ==
    /\ NULL \notin Classes \cup Codes \cup QuotaKeys \cup EndDates
    /\ EndDates \subseteq Nat
    /\ Approvals \subseteq BOOLEAN
    \* A superuser, or a user among the project's administrators.
    /\ Roles \subseteq {"superuser", "administrator"}
    /\ LastDay \in Nat

Rows == [limit_class : Classes \cup {NULL}, end_date : EndDates \cup {NULL},
         join_code : Codes \cup {NULL}, join_requires_approval : Approvals,
         quota_key : QuotaKeys]

Edits == [project : Projects, role : Roles, row : Rows]

ASSUME NullAssumption == NULL \notin Rows \cup Edits

VARIABLES project,      \* the row of each primary key, or NULL
          keys,         \* history: the quota key a project was created with
          assigned,     \* history: the classes superusers have saved for it
          editing,      \* the row an editor is about to save, or NULL
          today         \* timezone.localdate()

projectVars == <<project, keys, assigned, editing, today>>

TypeOK ==
    /\ project \in [Projects -> Rows \cup {NULL}]
    /\ keys \in [Projects -> QuotaKeys \cup {NULL}]
    /\ assigned \in [Projects -> SUBSET (Classes \cup {NULL})]
    /\ editing \in [Editors -> Edits \cup {NULL}]
    /\ today \in 0..LastDay

Init ==
    /\ project = [p \in Projects |-> NULL]
    /\ keys = [p \in Projects |-> NULL]
    /\ assigned = [p \in Projects |-> {}]
    /\ editing = [e \in Editors |-> NULL]
    /\ today = 0

Exists(p) == project[p] # NULL

\* Project.is_active, active_projects.
IsActive(p) ==
    Exists(p) /\ (project[p].end_date # NULL => project[p].end_date >= today)

\* Another project has this join code.
CodeTaken(p, code) ==
    code # NULL /\ \E q \in Projects \ {p} : Exists(q) /\ project[q].join_code = code

\* A form that offers the limit class to every administrator.
FormResults_AllFields(role, row) == {r \in Rows : r.quota_key = row.quota_key}

\* set_join_code that stores an empty string instead of no code.
FormResults_EmptyCode(role, row) ==
    {[r EXCEPT !.join_code = IF @ = NULL THEN "" ELSE @] :
        r \in {s \in Rows : s.quota_key = row.quota_key}}

\* A form that offers the quota key.
FormResults_Key(role, row) ==
    {r \in Rows : role = "superuser" \/ r.limit_class = row.limit_class}

\* get_fields: what the row can be after the form, whose fields hold anything the
\* editor posts.  Only a superuser's form has the limit class; none has the key.
FormResults(role, row) ==
    {r \in Rows : /\ r.quota_key = row.quota_key
                  /\ role = "superuser" \/ r.limit_class = row.limit_class}

\* History: a superuser has chosen this class.
Assign(p, c) == assigned' = [assigned EXCEPT ![p] = @ \cup {c}]

-----------------------------------------------------------------------------

\* add_view (superusers only): the new row gets a fresh quota key.
CreateProject(p, row) ==
    /\ keys[p] = NULL
    /\ \A q \in Projects : row.quota_key # keys[q]
    /\ ~ CodeTaken(p, row.join_code)
    /\ project' = [project EXCEPT ![p] = row]
    /\ keys' = [keys EXCEPT ![p] = row.quota_key]
    /\ Assign(p, row.limit_class)
    /\ UNCHANGED <<editing, today>>

\* change_view: get_object, and a valid form (clean_join_code).
OpenProject(e, p, role) ==
    /\ editing[e] = NULL
    /\ Exists(p)
    /\ \E r \in FormResults(role, project[p]) :
          /\ ~ CodeTaken(p, r.join_code)
          /\ editing' = [editing EXCEPT ![e] = [project |-> p, role |-> role, row |-> r]]
    /\ UNCHANGED <<project, keys, assigned, today>>

\* A table whose join codes are kept apart by the form's validation only.
CodeIsFree_Unchecked(edit) == TRUE

\* The unique constraint of join_code_hash.
CodeIsFree(edit) == ~ CodeTaken(edit.project, edit.row.join_code)

\* save_model: set_join_code and Project.save.  An UPDATE of every column, and an
\* INSERT with the same primary key if the row has been deleted meanwhile.
SaveProject(e) ==
    /\ editing[e] # NULL
    /\ LET edit == editing[e]
       IN  /\ Exists(edit.project) =>
                  project[edit.project].quota_key = edit.row.quota_key
           /\ CodeIsFree(edit)
           /\ project' = [project EXCEPT ![edit.project] = edit.row]
           /\ IF edit.role = "superuser"
              THEN Assign(edit.project, edit.row.limit_class)
              ELSE UNCHANGED assigned
    /\ editing' = [editing EXCEPT ![e] = NULL]
    /\ UNCHANGED <<keys, today>>

\* The request ends without a save: an IntegrityError, or any other failure.
AbandonProject(e) ==
    /\ editing[e] # NULL
    /\ editing' = [editing EXCEPT ![e] = NULL]
    /\ UNCHANGED <<project, keys, assigned, today>>

\* delete_view (superusers only).
DeleteProject(p) ==
    /\ Exists(p)
    /\ project' = [project EXCEPT ![p] = NULL]
    /\ UNCHANGED <<keys, assigned, editing, today>>

\* Midnight in settings.TIME_ZONE.
DayPasses ==
    /\ today < LastDay
    /\ today' = today + 1
    /\ UNCHANGED <<project, keys, assigned, editing>>

\* What happens to projects without a deletion, which cascades to other tables.
Change ==
    \/ \E p \in Projects, row \in Rows : CreateProject(p, row)
    \/ \E e \in Editors, p \in Projects, role \in Roles : OpenProject(e, p, role)
    \/ \E e \in Editors : SaveProject(e) \/ AbandonProject(e)
    \/ DayPasses

Next == Change \/ \E p \in Projects : DeleteProject(p)

Spec == Init /\ [][Next]_projectVars

-----------------------------------------------------------------------------
(* Properties                                                              *)

\* A join code leads to one project (admin.py:61-69, models.py:65), although the
\* form's check and the save are apart: find_by_join_code never has to choose.
JoinCodesUnique ==
    \A p \in Projects : Exists(p) => ~ CodeTaken(p, project[p].join_code)

\* models.py:94-100: Envoy's daily counters are kept per quota key.  A project keeps
\* the key it was created with, through every save and also when a late save brings
\* back a deleted row, and no two projects share one.
QuotaKeyImmutable ==
    \A p \in Projects : Exists(p) =>
        /\ project[p].quota_key = keys[p]
        /\ \A q \in Projects \ {p} : keys[q] # keys[p]

\* A late save of a project administrator, whose form has no limit class, may restore
\* an older class or a deleted project (admin.py:181), but never a class that no
\* superuser has chosen for the project.
ClassFromSuperuser ==
    \A p \in Projects : Exists(p) => project[p].limit_class \in assigned[p]
==============================================================================
