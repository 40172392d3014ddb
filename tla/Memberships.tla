------------------------------ MODULE Memberships ------------------------------
(***************************************************************************)
(* Who belongs to a project: the membership table (apps/authz/models.py),  *)
(* users who join with a project code (join_project, Project.join_user),   *)
(* and administrators who approve, change and delete memberships.          *)
(*                                                                         *)
(* Joining is a sequence of autocommitted statements: find the project,    *)
(* get_or_create the membership, and activate it if the project needs no   *)
(* approval.  Project edits, membership edits, deletions and a second join *)
(* of the same user may come between any two of them.  The limit on failed *)
(* attempts, which comes before, is not part of this module.               *)
(***************************************************************************)
EXTENDS ProjectAdmin, Accounts

CONSTANTS Joiners,      \* web workers that handle join_project
          LastRow       \* bound on the membership rows ever inserted

ASSUME MembershipAssumption == LastRow \in Nat

Statuses == {"requested", "active"}

MembershipRows ==
    [id : 1..LastRow, project : Projects, user : Users, status : Statuses]

Finds == [project : Projects, join_requires_approval : Approvals]

ASSUME MembershipNullAssumption == NULL \notin MembershipRows \cup Users \cup Finds

VARIABLES memberships,  \* the rows of ProjectMembership
          rowsUsed,     \* primary keys given out
          changing,     \* the membership row an administrator is about to save
          pc,           \* where each joiner is
          user,         \* whose request it handles
          found,        \* the project it has found: its key and approval flag
          membership,   \* the row that get_or_create returned, or NULL
          touched       \* history: has an administrator interfered since it began?

joinVars == <<pc, user, found, membership>>
membershipVars == <<projectVars, memberships, rowsUsed, changing, joinVars, touched>>

MembershipTypeOK ==
    /\ TypeOK
    /\ memberships \in SUBSET MembershipRows
    /\ rowsUsed \in 0..LastRow
    /\ changing \in [Editors -> MembershipRows \cup {NULL}]
    /\ pc \in [Joiners -> {"idle", "get", "create", "reget", "activate"}]
    /\ user \in [Joiners -> Users \cup {NULL}]
    /\ found \in [Joiners -> Finds \cup {NULL}]
    /\ membership \in [Joiners -> MembershipRows \cup {NULL}]
    /\ touched \in [Joiners -> BOOLEAN]
    /\ \A j \in Joiners : /\ pc[j] # "idle" => found[j] # NULL /\ user[j] # NULL
                          /\ pc[j] = "activate" => membership[j] # NULL

MembershipInit ==
    /\ Init
    /\ memberships = {}
    /\ rowsUsed = 0
    /\ changing = [e \in Editors |-> NULL]
    /\ pc = [j \in Joiners |-> "idle"]
    /\ user = [j \in Joiners |-> NULL]
    /\ found = [j \in Joiners |-> NULL]
    /\ membership = [j \in Joiners |-> NULL]
    /\ touched = [j \in Joiners |-> FALSE]

RowsOf(p, u) == {m \in memberships : m.project = p /\ m.user = u}

\* A table without the unique constraint.
Unique_Unchecked(row) == TRUE

\* The unique constraint of ProjectMembership, for a row about to be written.
Unique(row) == \A m \in RowsOf(row.project, row.user) : m.id = row.id

\* History: an administrator writes to the table while these joins are under way.
Touch == touched' = [j \in Joiners |-> pc[j] # "idle"]

Goto(j, label) == pc' = [pc EXCEPT ![j] = label]

-----------------------------------------------------------------------------
(* Administrators (ProjectMembershipAdmin, and the inline of ProjectAdmin) *)

AddMembership(row) ==
    /\ row.id = rowsUsed + 1
    /\ Exists(row.project) /\ Unique(row)
    /\ memberships' = memberships \cup {row}
    /\ rowsUsed' = row.id
    /\ Touch
    /\ UNCHANGED <<projectVars, changing, joinVars>>

\* The form is loaded and valid: project, user and status may all be changed.
OpenMembership(e, row) ==
    /\ changing[e] = NULL
    /\ \E m \in memberships : m.id = row.id
    /\ Exists(row.project) /\ Unique(row)
    /\ changing' = [changing EXCEPT ![e] = row]
    /\ UNCHANGED <<projectVars, memberships, rowsUsed, joinVars, touched>>

\* An UPDATE of the whole row, or an INSERT if the row is gone.
SaveMembership(e) ==
    /\ changing[e] # NULL
    /\ LET row == changing[e]
       IN  /\ Exists(row.project) /\ Unique(row)
           /\ memberships' = {m \in memberships : m.id # row.id} \cup {row}
    /\ changing' = [changing EXCEPT ![e] = NULL]
    /\ Touch
    /\ UNCHANGED <<projectVars, rowsUsed, joinVars>>

\* An IntegrityError, or any other failure.
AbandonMembership(e) ==
    /\ changing[e] # NULL
    /\ changing' = [changing EXCEPT ![e] = NULL]
    /\ UNCHANGED <<projectVars, memberships, rowsUsed, joinVars, touched>>

DeleteMembership(m) ==
    /\ m \in memberships
    /\ memberships' = memberships \ {m}
    /\ Touch
    /\ UNCHANGED <<projectVars, rowsUsed, changing, joinVars>>

\* The deletion of a project cascades to its memberships.
DeleteProjectAndMembers(p) ==
    /\ DeleteProject(p)
    /\ memberships' = {m \in memberships : m.project # p}
    /\ Touch
    /\ UNCHANGED <<rowsUsed, changing, joinVars>>

\* Every other change of the project table leaves the memberships alone.
ChangeProjects ==
    /\ Change
    /\ UNCHANGED <<memberships, rowsUsed, changing, joinVars, touched>>

-----------------------------------------------------------------------------
(* join_project                                                            *)

\* find_by_join_code: an active project with this code.
FindProject(j, u, p) ==
    /\ pc[j] = "idle"
    /\ IsActive(p) /\ project[p].join_code # NULL
    /\ Goto(j, "get")
    /\ user' = [user EXCEPT ![j] = u]
    /\ found' = [found EXCEPT ![j] =
                    [project |-> p,
                     join_requires_approval |-> project[p].join_requires_approval]]
    /\ UNCHANGED <<projectVars, memberships, rowsUsed, changing, membership, touched>>

\* get_or_create: the get, which is tried once more after a failed create.
GetMembership(j) ==
    /\ pc[j] \in {"get", "reget"}
    /\ LET rows == RowsOf(found[j].project, user[j])
       IN  \/ /\ rows # {}
              /\ Goto(j, "activate")
              /\ \E m \in rows : membership' = [membership EXCEPT ![j] = m]
           \/ /\ rows = {} /\ pc[j] = "get"
              /\ Goto(j, "create")
              /\ UNCHANGED membership
    /\ UNCHANGED <<projectVars, memberships, rowsUsed, changing, user, found,
                   touched>>

\* A status that is not one of MEMBERSHIP_STATUS_CHOICES.
NewMembership_Misspelt(j) ==
    [id |-> rowsUsed + 1, project |-> found[j].project, user |-> user[j],
     status |-> IF found[j].join_requires_approval THEN "request" ELSE "active"]

NewMembership(j) ==
    [id |-> rowsUsed + 1, project |-> found[j].project, user |-> user[j],
     status |-> IF found[j].join_requires_approval THEN "requested" ELSE "active"]

\* get_or_create: the create, or an IntegrityError because the membership exists by
\* now or the project does not.
CreateMembership(j) ==
    /\ pc[j] = "create" /\ rowsUsed < LastRow
    /\ \/ /\ Exists(found[j].project) /\ Unique(NewMembership(j))
          /\ memberships' = memberships \cup {NewMembership(j)}
          /\ rowsUsed' = rowsUsed + 1
          /\ membership' = [membership EXCEPT ![j] = NewMembership(j)]
          /\ Goto(j, "activate")
       \/ /\ ~ Exists(found[j].project) \/ ~ Unique(NewMembership(j))
          /\ Goto(j, "reget")
          /\ UNCHANGED <<memberships, rowsUsed, membership>>
    /\ UNCHANGED <<projectVars, changing, user, found, touched>>

\* A join that leaves an existing membership as it is.
NeedsActivation_Never(j) == FALSE

NeedsActivation(j) ==
    ~ found[j].join_requires_approval /\ membership[j].status # "active"

End(j) ==
    /\ Goto(j, "idle")
    /\ user' = [user EXCEPT ![j] = NULL]
    /\ found' = [found EXCEPT ![j] = NULL]
    /\ membership' = [membership EXCEPT ![j] = NULL]
    /\ touched' = [touched EXCEPT ![j] = FALSE]
    /\ UNCHANGED <<projectVars, rowsUsed, changing>>

\* A save of the whole membership that the join has read.
Activated_Whole(j) ==
    {m \in memberships : m.id # membership[j].id} \cup {[membership[j] EXCEPT !.status = "active"]}

\* save(update_fields=['status'])
Activated(j) ==
    {IF m.id = membership[j].id THEN [m EXCEPT !.status = "active"] ELSE m : m \in memberships}

\* The activation if necessary, an UPDATE that raises if the row is gone; then the
\* redirect.
Join(j) ==
    /\ pc[j] = "activate"
    /\ IF NeedsActivation(j)
       THEN (\E m \in memberships : m.id = membership[j].id) /\ memberships' = Activated(j)
       ELSE UNCHANGED memberships
    /\ End(j)

\* An exception anywhere; what was committed stays.
FailJoin(j) ==
    /\ pc[j] # "idle"
    /\ UNCHANGED memberships
    /\ End(j)

-----------------------------------------------------------------------------

JoinStep(j) == GetMembership(j) \/ CreateMembership(j) \/ Join(j) \/ FailJoin(j)

MembershipNext ==
    \/ ChangeProjects
    \/ \E p \in Projects : DeleteProjectAndMembers(p)
    \/ \E row \in MembershipRows : AddMembership(row)
    \/ \E e \in Editors, row \in MembershipRows : OpenMembership(e, row)
    \/ \E e \in Editors : SaveMembership(e) \/ AbandonMembership(e)
    \/ \E m \in memberships : DeleteMembership(m)
    \/ \E j \in Joiners, u \in Users, p \in Projects : FindProject(j, u, p)
    \/ \E j \in Joiners : JoinStep(j)

MembershipSpec == MembershipInit /\ [][MembershipNext]_membershipVars

-----------------------------------------------------------------------------
(* Properties                                                              *)

\* models.py:203: two joins of one user at once, a join and an administrator's new
\* membership, or a moved one: there is one membership per project and user.
OneMembership ==
    \A m, n \in memberships : m.project = n.project /\ m.user = n.user => m = n

\* models.py:120-130: a join that ends well has made its user a member, and an
\* active one if the project needed no approval when it was found, unless an
\* administrator interfered meanwhile.
JoinKeepsPromise ==
    [][\A j \in Joiners :
          Join(j) /\ ~ touched[j] =>
              \E m \in memberships' :
                  /\ m.project = found[j].project /\ m.user = user[j]
                  /\ ~ found[j].join_requires_approval => m.status = "active"]_membershipVars

\* A join that has read a membership before an administrator deleted it, moved it
\* to another user or gave it to another project does not undo that: it only ever
\* raises the status of a row that is there.
JoinUndoesNothing ==
    [][\A j \in Joiners :
          pc[j] = "activate" /\ pc'[j] # "activate" =>
              /\ \A n \in memberships' : \E m \in memberships :
                     m.id = n.id /\ m.project = n.project /\ m.user = n.user
              /\ \A m \in memberships : m.status = "active" => m \in memberships']_membershipVars
==============================================================================
