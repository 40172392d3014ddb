-------------------------- MODULE ProjectAdminProofs --------------------------
(***************************************************************************)
(* What concurrent full-row saves cannot break, for every set of projects, *)
(* editors, codes, classes and keys.  The rows that editors have loaded    *)
(* and not yet saved are part of each inductive invariant: a save writes   *)
(* what was read at another time.                                          *)
(***************************************************************************)
EXTENDS ProjectAdmin, TLAPS

-----------------------------------------------------------------------------
(* Type correctness                                                        *)

LEMMA InitTyped == Init => TypeOK
BY ProjectAdminAssumption DEF Init, TypeOK, ProjectAdminAssumption

LEMMA StepTyped == TypeOK /\ [Next]_projectVars => TypeOK'
<1> SUFFICES ASSUME TypeOK, [Next]_projectVars PROVE TypeOK'
  OBVIOUS
<1> USE DEF TypeOK
<1>1. ASSUME NEW p \in Projects, NEW row \in Rows, CreateProject(p, row)
      PROVE  TypeOK'
  <2>1. row.quota_key \in QuotaKeys /\ row.limit_class \in Classes \cup {NULL}
    BY DEF Rows
  <2> QED BY <1>1, <2>1 DEF CreateProject, Assign
<1>2. ASSUME NEW e \in Editors, NEW p \in Projects, NEW role \in Roles,
             OpenProject(e, p, role)
      PROVE  TypeOK'
  <2>1. PICK r \in Rows :
            editing' = [editing EXCEPT ![e] = [project |-> p, role |-> role, row |-> r]]
    BY <1>2 DEF OpenProject, FormResults
  <2>2. [project |-> p, role |-> role, row |-> r] \in Edits
    BY DEF Edits
  <2> QED BY <1>2, <2>1, <2>2 DEF OpenProject
<1>3. ASSUME NEW e \in Editors, SaveProject(e)
      PROVE  TypeOK'
  <2> DEFINE edit == editing[e]
  <2>1. edit.project \in Projects /\ edit.row \in Rows
        /\ edit.row.limit_class \in Classes \cup {NULL}
    BY <1>3 DEF SaveProject, Edits, Rows
  <2>2. project' = [project EXCEPT ![edit.project] = edit.row]
    BY <1>3 DEF SaveProject
  <2>3. assigned' \in [Projects -> SUBSET (Classes \cup {NULL})]
    BY <1>3, <2>1 DEF SaveProject, Assign
  <2> QED BY <1>3, <2>1, <2>2, <2>3 DEF SaveProject
<1>4. ASSUME NEW e \in Editors, AbandonProject(e)
      PROVE  TypeOK'
  BY <1>4 DEF AbandonProject
<1>5. ASSUME NEW p \in Projects, DeleteProject(p)
      PROVE  TypeOK'
  BY <1>5 DEF DeleteProject
<1>6. CASE DayPasses
  BY <1>6, ProjectAdminAssumption DEF DayPasses, ProjectAdminAssumption
<1>7. CASE UNCHANGED projectVars
  BY <1>7 DEF projectVars
<1> QED
  BY <1>1, <1>2, <1>3, <1>4, <1>5, <1>6, <1>7 DEF Next, Change

\* The rows, the pending saves and the calendar are always well typed.
THEOREM TypeCorrect == Spec => []TypeOK
BY InitTyped, StepTyped, PTL DEF Spec

-----------------------------------------------------------------------------
(* Join codes: the check at the save is what keeps them unique; a check     *)
(* at the load, which clean_join_code makes as well, would not be enough.   *)

\* Saving a row whose code no other project has keeps all codes unique.
LEMMA SaveKeepsUnique ==
    ASSUME TypeOK, JoinCodesUnique, NEW p \in Projects, NEW row \in Rows,
           ~ CodeTaken(p, row.join_code), project' = [project EXCEPT ![p] = row]
    PROVE  JoinCodesUnique'
<1> SUFFICES ASSUME NEW q \in Projects, project'[q] # NULL,
                    project'[q].join_code # NULL,
                    NEW r \in Projects \ {q}, project'[r] # NULL,
                    project'[r].join_code = project'[q].join_code
             PROVE  FALSE
  BY DEF JoinCodesUnique, Exists, CodeTaken
<1>1. project'[p] = row /\ \A s \in Projects \ {p} : project'[s] = project[s]
  BY DEF TypeOK
<1>2. CASE q = p
  BY <1>1, <1>2 DEF CodeTaken, Exists
<1>3. CASE r = p
  BY <1>1, <1>3 DEF CodeTaken, Exists
<1>4. CASE q # p /\ r # p
  BY <1>1, <1>4 DEF JoinCodesUnique, CodeTaken, Exists
<1> QED
  BY <1>2, <1>3, <1>4

LEMMA StepKeepsUnique ==
    TypeOK /\ JoinCodesUnique /\ [Next]_projectVars => JoinCodesUnique'
<1> SUFFICES ASSUME TypeOK, JoinCodesUnique, [Next]_projectVars PROVE JoinCodesUnique'
  OBVIOUS
<1>1. ASSUME NEW p \in Projects, NEW row \in Rows, CreateProject(p, row)
      PROVE  JoinCodesUnique'
  BY <1>1, SaveKeepsUnique DEF CreateProject
<1>2. ASSUME NEW e \in Editors, SaveProject(e)
      PROVE  JoinCodesUnique'
  <2>1. editing[e].project \in Projects /\ editing[e].row \in Rows
    BY <1>2 DEF SaveProject, TypeOK, Edits
  <2> QED BY <1>2, <2>1, SaveKeepsUnique DEF SaveProject, CodeIsFree
<1>3. ASSUME NEW p \in Projects, DeleteProject(p)
      PROVE  JoinCodesUnique'
  BY <1>3 DEF DeleteProject, JoinCodesUnique, CodeTaken, Exists, TypeOK
<1>4. CASE UNCHANGED project
  BY <1>4 DEF JoinCodesUnique, CodeTaken, Exists
<1> QED
  BY <1>1, <1>2, <1>3, <1>4
     DEF Next, Change, OpenProject, AbandonProject, DayPasses, projectVars

\* However saves interleave, a join code leads to one project.
THEOREM CodesStayUnique == Spec => []JoinCodesUnique
<1>1. Init => JoinCodesUnique
  BY DEF Init, JoinCodesUnique, Exists
<1> QED
  BY <1>1, StepKeepsUnique, TypeCorrect, PTL DEF Spec

-----------------------------------------------------------------------------
(* Quota keys and limit classes                                            *)

\* The key of every row, in the table or in a pending save, is its project's first
\* one, and first keys differ.
KeyInvariant ==
    /\ \A p \in Projects : Exists(p) => project[p].quota_key = keys[p]
    /\ \A e \in Editors : editing[e] # NULL =>
           editing[e].row.quota_key = keys[editing[e].project]
    /\ \A p, q \in Projects : p # q /\ keys[p] # NULL => keys[p] # keys[q]

\* The same for classes: what a pending save of an administrator would write has
\* been chosen by a superuser before.
ClassInvariant ==
    /\ ClassFromSuperuser
    /\ \A e \in Editors : editing[e] # NULL /\ editing[e].role # "superuser" =>
           editing[e].row.limit_class \in assigned[editing[e].project]

LEMMA StepKeepsKeys ==
    TypeOK /\ KeyInvariant /\ [Next]_projectVars => KeyInvariant'
<1> SUFFICES ASSUME TypeOK, KeyInvariant, [Next]_projectVars PROVE KeyInvariant'
  OBVIOUS
<1> USE DEF KeyInvariant, Exists
<1>1. ASSUME NEW p \in Projects, NEW row \in Rows, CreateProject(p, row)
      PROVE  KeyInvariant'
  <2>1. /\ project' = [project EXCEPT ![p] = row]
        /\ keys' = [keys EXCEPT ![p] = row.quota_key]
        /\ editing' = editing /\ keys[p] = NULL
        /\ \A q \in Projects : row.quota_key # keys[q]
    BY <1>1 DEF CreateProject
  <2>2. \A q \in Projects : Exists(q) => keys[q] # NULL
    BY ProjectAdminAssumption DEF TypeOK, Rows, ProjectAdminAssumption
  <2>3. \A e \in Editors : editing[e] # NULL =>
            /\ editing[e].project \in Projects /\ editing[e].project # p
    <3> SUFFICES ASSUME NEW e \in Editors, editing[e] # NULL
                 PROVE  editing[e].project \in Projects /\ editing[e].project # p
      OBVIOUS
    <3>1. editing[e].project \in Projects /\ editing[e].row.quota_key \in QuotaKeys
      BY DEF TypeOK, Edits, Rows
    <3>2. keys[editing[e].project] # NULL
      BY <3>1, ProjectAdminAssumption DEF ProjectAdminAssumption
    <3> QED BY <2>1, <3>1, <3>2
  <2>4. \A q \in Projects : project'[q] # NULL => project'[q].quota_key = keys'[q]
    BY <2>1 DEF TypeOK
  <2>5. \A e \in Editors : editing'[e] # NULL =>
            editing'[e].row.quota_key = keys'[editing'[e].project]
    BY <2>1, <2>3 DEF TypeOK
  <2>6. \A q, r \in Projects : q # r /\ keys'[q] # NULL => keys'[q] # keys'[r]
    BY <2>1 DEF TypeOK
  <2> QED BY <2>4, <2>5, <2>6
<1>2. ASSUME NEW e \in Editors, NEW p \in Projects, NEW role \in Roles,
             OpenProject(e, p, role)
      PROVE  KeyInvariant'
  <2>1. PICK r \in Rows :
            /\ r.quota_key = project[p].quota_key
            /\ editing' = [editing EXCEPT ![e] = [project |-> p, role |-> role, row |-> r]]
    BY <1>2 DEF OpenProject, FormResults
  <2>2. project[p].quota_key = keys[p] /\ project' = project /\ keys' = keys
    BY <1>2 DEF OpenProject
  <2> QED BY <2>1, <2>2 DEF TypeOK
<1>3. ASSUME NEW e \in Editors, SaveProject(e)
      PROVE  KeyInvariant'
  <2>1. /\ editing[e] # NULL /\ keys' = keys
        /\ project' = [project EXCEPT ![editing[e].project] = editing[e].row]
        /\ editing' = [editing EXCEPT ![e] = NULL]
    BY <1>3 DEF SaveProject
  <2> QED BY <2>1 DEF TypeOK
<1>4. ASSUME NEW e \in Editors, AbandonProject(e)
      PROVE  KeyInvariant'
  BY <1>4 DEF AbandonProject, TypeOK
<1>5. ASSUME NEW p \in Projects, DeleteProject(p)
      PROVE  KeyInvariant'
  BY <1>5 DEF DeleteProject, TypeOK
<1>6. CASE DayPasses \/ UNCHANGED projectVars
  BY <1>6 DEF DayPasses, projectVars
<1> QED
  BY <1>1, <1>2, <1>3, <1>4, <1>5, <1>6 DEF Next, Change

\* A project keeps its quota key for ever, and shares it with none.
THEOREM KeysNeverChange == Spec => []QuotaKeyImmutable
<1>1. Init => KeyInvariant
  BY DEF Init, KeyInvariant, Exists
<1>2. TypeOK /\ KeyInvariant => QuotaKeyImmutable
  BY ProjectAdminAssumption
     DEF TypeOK, KeyInvariant, QuotaKeyImmutable, Exists, Rows, ProjectAdminAssumption
<1> QED
  BY <1>1, <1>2, StepKeepsKeys, TypeCorrect, PTL DEF Spec

LEMMA StepKeepsClasses ==
    TypeOK /\ ClassInvariant /\ [Next]_projectVars => ClassInvariant'
<1> SUFFICES ASSUME TypeOK, ClassInvariant, [Next]_projectVars PROVE ClassInvariant'
  OBVIOUS
<1> USE DEF ClassInvariant, ClassFromSuperuser, Exists
<1>1. ASSUME NEW p \in Projects, NEW row \in Rows, CreateProject(p, row)
      PROVE  ClassInvariant'
  <2>1. /\ project' = [project EXCEPT ![p] = row]
        /\ assigned' = [assigned EXCEPT ![p] = @ \cup {row.limit_class}]
        /\ editing' = editing
    BY <1>1 DEF CreateProject, Assign
  <2>2. \A q \in Projects : assigned[q] \subseteq assigned'[q]
    BY <2>1 DEF TypeOK
  <2>3. \A q \in Projects : project'[q] # NULL => project'[q].limit_class \in assigned'[q]
    BY <2>1 DEF TypeOK
  <2>4. \A e \in Editors : editing[e] # NULL => editing[e].project \in Projects
    BY DEF TypeOK, Edits
  <2> QED BY <2>1, <2>2, <2>3, <2>4
<1>2. ASSUME NEW e \in Editors, NEW p \in Projects, NEW role \in Roles,
             OpenProject(e, p, role)
      PROVE  ClassInvariant'
  <2>1. PICK r \in Rows :
            /\ role = "superuser" \/ r.limit_class = project[p].limit_class
            /\ editing' = [editing EXCEPT ![e] = [project |-> p, role |-> role, row |-> r]]
    BY <1>2 DEF OpenProject, FormResults
  <2>2. /\ project[p].limit_class \in assigned[p]
        /\ project' = project /\ assigned' = assigned
    BY <1>2 DEF OpenProject
  <2> QED BY <2>1, <2>2 DEF TypeOK
<1>3. ASSUME NEW e \in Editors, SaveProject(e)
      PROVE  ClassInvariant'
  <2> DEFINE q == editing[e].project
             c == editing[e].row.limit_class
  <2>1. /\ editing[e] # NULL
        /\ project' = [project EXCEPT ![q] = editing[e].row]
        /\ editing' = [editing EXCEPT ![e] = NULL]
        /\ IF editing[e].role = "superuser"
           THEN assigned' = [assigned EXCEPT ![q] = @ \cup {c}]
           ELSE assigned' = assigned
    BY <1>3 DEF SaveProject, Assign
  <2>2. q \in Projects /\ editing[e].row \in Rows
    BY <2>1 DEF TypeOK, Edits
  <2>3. \A p \in Projects : assigned[p] \subseteq assigned'[p]
    BY <2>1, <2>2 DEF TypeOK
  <2>4. c \in assigned'[q]
    BY <2>1, <2>2 DEF TypeOK
  <2>5. \A p \in Projects : project'[p] # NULL => project'[p].limit_class \in assigned'[p]
    BY <2>1, <2>2, <2>3, <2>4 DEF TypeOK
  <2>6. \A f \in Editors : editing[f] # NULL => editing[f].project \in Projects
    BY DEF TypeOK, Edits
  <2> QED BY <2>1, <2>3, <2>5, <2>6 DEF TypeOK
<1>4. ASSUME NEW e \in Editors, AbandonProject(e)
      PROVE  ClassInvariant'
  BY <1>4 DEF AbandonProject, TypeOK
<1>5. ASSUME NEW p \in Projects, DeleteProject(p)
      PROVE  ClassInvariant'
  BY <1>5 DEF DeleteProject, TypeOK
<1>6. CASE DayPasses \/ UNCHANGED projectVars
  BY <1>6 DEF DayPasses, projectVars
<1> QED
  BY <1>1, <1>2, <1>3, <1>4, <1>5, <1>6 DEF Next, Change

\* No project ever gets a limit class that no superuser has chosen for it.
THEOREM ClassesChosenBySuperusers == Spec => []ClassFromSuperuser
<1>1. Init => ClassInvariant
  BY DEF Init, ClassInvariant, ClassFromSuperuser, Exists
<1>2. ClassInvariant => ClassFromSuperuser
  BY DEF ClassInvariant
<1> QED
  BY <1>1, <1>2, StepKeepsClasses, TypeCorrect, PTL DEF Spec
==============================================================================
