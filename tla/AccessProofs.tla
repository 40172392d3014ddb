------------------------------ MODULE AccessProofs ------------------------------
(***************************************************************************)
(* Who may use and who may administer a project, for every number of       *)
(* users, projects, requests and web workers.                              *)
(*                                                                         *)
(* Memberships: one membership per project and user, a join that keeps     *)
(* what the form promises, and no administrator's change undone.           *)
(* TokenChecks: what a check accepts was eligible at one instant, and the  *)
(* counters are what was decided, less what a superuser's change view has  *)
(* overwritten.                                                            *)
(* Rights: an administrator can enter the admin site unless his user row   *)
(* was saved without the flag, and superusers were made by those who may   *)
(* make them.                                                              *)
(* In each of them the project table keeps the properties of ProjectAdmin. *)
(***************************************************************************)
EXTENDS Memberships, TokenChecks, Rights, ProjectAdminProofs

-----------------------------------------------------------------------------
(* Memberships                                                             *)

\* The project table behaves here as in its own module.
LEMMA MembershipProjectStep == [MembershipNext]_membershipVars => [Next]_projectVars
BY DEF MembershipNext, ChangeProjects, DeleteProjectAndMembers, AddMembership,
       OpenMembership, SaveMembership, AbandonMembership, DeleteMembership, FindProject,
       JoinStep, GetMembership, CreateMembership, Join, FailJoin, End, Next, membershipVars

\* Everything that is proved of the project table holds beside its memberships.
THEOREM MembershipsKeepProjects == MembershipSpec => Spec
<1>1. MembershipInit => Init
  BY DEF MembershipInit
<1> QED
  BY <1>1, MembershipProjectStep, PTL DEF MembershipSpec, Spec

-----------------------------------------------------------------------------
(* Type correctness                                                        *)

LEMMA MembershipInitTyped == MembershipInit => MembershipTypeOK
<1>1. MembershipInit => TypeOK
  BY InitTyped DEF MembershipInit
<1> QED
  BY <1>1, MembershipAssumption DEF MembershipInit, MembershipTypeOK, MembershipAssumption

\* A joiner's end.
LEMMA EndTyped ==
    ASSUME MembershipTypeOK, TypeOK', NEW j \in Joiners, End(j),
           memberships' \in SUBSET MembershipRows
    PROVE  MembershipTypeOK'
BY DEF End, Goto, MembershipTypeOK

LEMMA ActivatedTyped ==
    ASSUME MembershipTypeOK, NEW j \in Joiners
    PROVE  Activated(j) \in SUBSET MembershipRows
<1>1. \A m \in MembershipRows : [m EXCEPT !.status = "active"] \in MembershipRows
  BY DEF MembershipRows, Statuses
<1> QED
  BY <1>1 DEF Activated, MembershipTypeOK

LEMMA NewMembershipTyped ==
    ASSUME MembershipTypeOK, NEW j \in Joiners, pc[j] = "create", rowsUsed < LastRow
    PROVE  NewMembership(j) \in MembershipRows /\ rowsUsed + 1 \in 0..LastRow
<1>1. found[j] \in Finds /\ user[j] \in Users
  BY DEF MembershipTypeOK
<1>2. rowsUsed + 1 \in 1..LastRow /\ rowsUsed + 1 \in 0..LastRow
  BY MembershipAssumption DEF MembershipTypeOK, MembershipAssumption
<1> QED
  BY <1>1, <1>2 DEF NewMembership, MembershipRows, Finds, Statuses

LEMMA MembershipStepTyped ==
    MembershipTypeOK /\ TypeOK' /\ MembershipNext => MembershipTypeOK'
<1> SUFFICES ASSUME MembershipTypeOK, TypeOK', MembershipNext PROVE MembershipTypeOK'
  OBVIOUS
<1> USE DEF MembershipTypeOK, joinVars
<1>1. CASE ChangeProjects
  BY <1>1 DEF ChangeProjects
<1>2. ASSUME NEW p \in Projects, DeleteProjectAndMembers(p) PROVE MembershipTypeOK'
  BY <1>2 DEF DeleteProjectAndMembers, Touch
<1>3. ASSUME NEW row \in MembershipRows, AddMembership(row) PROVE MembershipTypeOK'
  <2>1. row.id \in 0..LastRow
    BY DEF MembershipRows
  <2> QED BY <1>3, <2>1 DEF AddMembership, Touch
<1>4. ASSUME NEW e \in Editors, NEW row \in MembershipRows, OpenMembership(e, row)
      PROVE  MembershipTypeOK'
  BY <1>4 DEF OpenMembership
<1>5. ASSUME NEW e \in Editors, SaveMembership(e) PROVE MembershipTypeOK'
  BY <1>5 DEF SaveMembership, Touch
<1>6. ASSUME NEW e \in Editors, AbandonMembership(e) PROVE MembershipTypeOK'
  BY <1>6 DEF AbandonMembership
<1>7. ASSUME NEW m \in memberships, DeleteMembership(m) PROVE MembershipTypeOK'
  BY <1>7 DEF DeleteMembership, Touch
<1>8. ASSUME NEW j \in Joiners, NEW u \in Users, NEW p \in Projects, FindProject(j, u, p)
      PROVE  MembershipTypeOK'
  <2> DEFINE find == [project |-> p,
                      join_requires_approval |-> project[p].join_requires_approval]
  <2>1. project[p] \in Rows
    BY <1>8 DEF FindProject, IsActive, Exists, TypeOK
  <2>2. find \in Finds
    BY <2>1 DEF Finds, Rows
  <2>3. find # NULL /\ u # NULL
    BY <1>8, <2>2, MembershipNullAssumption DEF MembershipNullAssumption
  <2>4. found' = [found EXCEPT ![j] = find]
    BY <1>8 DEF FindProject
  <2> HIDE DEF find
  <2> QED BY <1>8, <2>2, <2>3, <2>4 DEF FindProject, Goto
<1>9. ASSUME NEW j \in Joiners, GetMembership(j) PROVE MembershipTypeOK'
  BY <1>9, MembershipNullAssumption DEF GetMembership, Goto, RowsOf, MembershipNullAssumption
<1>10. ASSUME NEW j \in Joiners, CreateMembership(j) PROVE MembershipTypeOK'
  BY <1>10, NewMembershipTyped, MembershipNullAssumption
     DEF CreateMembership, Goto, MembershipNullAssumption
<1>11. ASSUME NEW j \in Joiners, Join(j) PROVE MembershipTypeOK'
  <2>1. memberships' \in SUBSET MembershipRows
    BY <1>11, ActivatedTyped DEF Join
  <2> QED BY <1>11, <2>1, EndTyped DEF Join
<1>12. ASSUME NEW j \in Joiners, FailJoin(j) PROVE MembershipTypeOK'
  BY <1>12, EndTyped DEF FailJoin
<1> QED
  BY <1>1, <1>2, <1>3, <1>4, <1>5, <1>6, <1>7, <1>8, <1>9, <1>10, <1>11, <1>12
     DEF MembershipNext, JoinStep

\* Memberships, joins and their history are always well typed.
THEOREM MembershipsTypeCorrect == MembershipSpec => []MembershipTypeOK
<1>1. MembershipSpec => []TypeOK
  BY MembershipsKeepProjects, TypeCorrect
<1>2. MembershipTypeOK /\ TypeOK' /\ [MembershipNext]_membershipVars => MembershipTypeOK'
  BY MembershipStepTyped DEF membershipVars, joinVars, projectVars, MembershipTypeOK
<1> QED
  BY <1>1, <1>2, MembershipInitTyped, PTL DEF MembershipSpec

-----------------------------------------------------------------------------
(* One membership                                                          *)

\* Primary keys are given out once, also to the rows that a late save may insert again.
KeysGivenOut ==
    /\ \A m \in memberships : m.id <= rowsUsed
    /\ \A e \in Editors : changing[e] # NULL => changing[e].id <= rowsUsed

OneInvariant == OneMembership /\ KeysGivenOut

\* What is in both tables, and what is added, decides.
LEMMA AddedKeepsOne ==
    ASSUME MembershipTypeOK, OneInvariant, NEW row \in MembershipRows, Unique(row),
           row.id = rowsUsed + 1, memberships' = memberships \cup {row}, rowsUsed' = row.id,
           UNCHANGED changing
    PROVE  OneInvariant'
<1>1. rowsUsed \in Nat /\ \A m \in MembershipRows : m.id \in Nat
  BY MembershipAssumption DEF MembershipTypeOK, MembershipRows, MembershipAssumption
<1>2. \A m \in memberships : m.id <= rowsUsed /\ m.id # row.id
  BY <1>1 DEF OneInvariant, KeysGivenOut, MembershipTypeOK
<1>3. \A m \in memberships : m.project = row.project /\ m.user = row.user => FALSE
  BY <1>2 DEF Unique, RowsOf
<1>4. OneMembership'
  BY <1>3 DEF OneInvariant, OneMembership
<1>5. \A e \in Editors : changing[e] # NULL => changing[e].id <= rowsUsed + 1
  BY <1>1 DEF OneInvariant, KeysGivenOut, MembershipTypeOK
<1>6. \A m \in memberships : m.id <= rowsUsed + 1
  BY <1>1, <1>2 DEF MembershipTypeOK
<1> QED
  BY <1>1, <1>4, <1>5, <1>6 DEF OneInvariant, KeysGivenOut

\* Rows that go leave the others as they are.
LEMMA FewerKeepOne ==
    ASSUME OneInvariant, memberships' \subseteq memberships, UNCHANGED <<rowsUsed, changing>>
    PROVE  OneInvariant'
BY DEF OneInvariant, OneMembership, KeysGivenOut

LEMMA StepKeepsOne ==
    MembershipTypeOK /\ OneInvariant /\ [MembershipNext]_membershipVars => OneInvariant'
<1> SUFFICES ASSUME MembershipTypeOK, OneInvariant, [MembershipNext]_membershipVars
             PROVE  OneInvariant'
  OBVIOUS
<1>1. ASSUME NEW p \in Projects, DeleteProjectAndMembers(p) PROVE OneInvariant'
  BY <1>1, FewerKeepOne DEF DeleteProjectAndMembers
<1>2. ASSUME NEW row \in MembershipRows, AddMembership(row) PROVE OneInvariant'
  BY <1>2, AddedKeepsOne DEF AddMembership
<1>3. ASSUME NEW e \in Editors, NEW row \in MembershipRows, OpenMembership(e, row)
      PROVE  OneInvariant'
  <2>1. row.id <= rowsUsed
    BY <1>3 DEF OpenMembership, OneInvariant, KeysGivenOut
  <2> QED
    BY <1>3, <2>1 DEF OpenMembership, OneInvariant, OneMembership, KeysGivenOut,
                      MembershipTypeOK
<1>4. ASSUME NEW e \in Editors, SaveMembership(e) PROVE OneInvariant'
  <2> DEFINE row == changing[e]
             others == {m \in memberships : m.id # row.id}
  <2>1. Unique(row) /\ memberships' = others \cup {row} /\ row # NULL
    BY <1>4 DEF SaveMembership
  <2>2. \A m \in others : ~ (m.project = row.project /\ m.user = row.user)
    BY <2>1 DEF Unique, RowsOf
  <2>3. OneMembership'
    BY <2>1, <2>2 DEF OneInvariant, OneMembership
  <2>4. row.id <= rowsUsed /\ rowsUsed' = rowsUsed
    BY <1>4, <2>1 DEF SaveMembership, OneInvariant, KeysGivenOut
  <2>5. changing' = [changing EXCEPT ![e] = NULL]
    BY <1>4 DEF SaveMembership
  <2>6. KeysGivenOut'
    BY <2>1, <2>4, <2>5 DEF OneInvariant, KeysGivenOut, MembershipTypeOK
  <2> QED BY <2>3, <2>6 DEF OneInvariant
<1>5. ASSUME NEW e \in Editors, AbandonMembership(e) PROVE OneInvariant'
  BY <1>5 DEF AbandonMembership, OneInvariant, OneMembership, KeysGivenOut, MembershipTypeOK
<1>6. ASSUME NEW m \in memberships, DeleteMembership(m) PROVE OneInvariant'
  BY <1>6, FewerKeepOne DEF DeleteMembership
<1>7. ASSUME NEW j \in Joiners, CreateMembership(j) PROVE OneInvariant'
  <2>1. CASE UNCHANGED <<memberships, rowsUsed>>
    BY <1>7, <2>1, FewerKeepOne DEF CreateMembership
  <2>2. CASE Unique(NewMembership(j)) /\ memberships' = memberships \cup {NewMembership(j)}
             /\ rowsUsed' = rowsUsed + 1
    <3>1. NewMembership(j) \in MembershipRows
      BY <1>7, NewMembershipTyped DEF CreateMembership
    <3>2. NewMembership(j).id = rowsUsed + 1
      BY DEF NewMembership
    <3> QED BY <1>7, <2>2, <3>1, <3>2, AddedKeepsOne DEF CreateMembership
  <2> QED BY <1>7, <2>1, <2>2 DEF CreateMembership
<1>8. ASSUME NEW j \in Joiners, Join(j) PROVE OneInvariant'
  <2>1. CASE memberships' = Activated(j)
    <3>1. \A n \in memberships' : \E m \in memberships :
              /\ n.id = m.id /\ n.project = m.project /\ n.user = m.user
              /\ n = IF m.id = membership[j].id THEN [m EXCEPT !.status = "active"] ELSE m
      BY <2>1 DEF Activated, MembershipTypeOK, MembershipRows
    <3>2. OneMembership'
      BY <3>1 DEF OneInvariant, OneMembership
    <3>3. UNCHANGED <<rowsUsed, changing>>
      BY <1>8 DEF Join, End
    <3>4. KeysGivenOut'
      BY <3>1, <3>3 DEF OneInvariant, KeysGivenOut
    <3> QED BY <3>2, <3>4 DEF OneInvariant
  <2>2. CASE UNCHANGED memberships
    BY <1>8, <2>2, FewerKeepOne DEF Join, End
  <2> QED BY <1>8, <2>1, <2>2 DEF Join
<1>9. CASE UNCHANGED <<memberships, rowsUsed, changing>>
  BY <1>9, FewerKeepOne
<1> QED
  BY <1>1, <1>2, <1>3, <1>4, <1>5, <1>6, <1>7, <1>8, <1>9
     DEF MembershipNext, ChangeProjects, FindProject, JoinStep, GetMembership, FailJoin, End,
         membershipVars

\* models.py:203: any number of joins and administrators leave one membership per
\* project and user.
THEOREM MembershipsStayOne == MembershipSpec => []OneMembership
<1>1. MembershipInit => OneInvariant
  BY DEF MembershipInit, OneInvariant, OneMembership, KeysGivenOut
<1>2. OneInvariant => OneMembership
  BY DEF OneInvariant
<1> QED
  BY <1>1, <1>2, MembershipsTypeCorrect, StepKeepsOne, PTL DEF MembershipSpec

-----------------------------------------------------------------------------
(* What a join promises, and what it leaves alone                          *)

\* While no administrator interferes, the row that a join has read or created stays,
\* and its status only rises.
Kept(j) ==
    \E m \in memberships :
        /\ m.id = membership[j].id /\ m.project = found[j].project /\ m.user = user[j]
        /\ membership[j].status = "active" => m.status = "active"

PromiseInvariant ==
    \A j \in Joiners : pc[j] = "activate" /\ ~ touched[j] => Kept(j)

\* An activation changes nothing but a status, which it raises.
LEMMA ActivationRaises ==
    ASSUME MembershipTypeOK, NEW j \in Joiners, NEW m \in memberships
    PROVE  \E n \in Activated(j) :
               /\ n.id = m.id /\ n.project = m.project /\ n.user = m.user
               /\ m.status = "active" \/ m.id = membership[j].id => n.status = "active"
               /\ m.status = "active" => n = m
<1>1. m \in MembershipRows
  BY DEF MembershipTypeOK
<1>2. CASE m.id = membership[j].id
  <2> DEFINE n == [m EXCEPT !.status = "active"]
  <2>1. n \in Activated(j)
    BY <1>2 DEF Activated
  <2>2. n.id = m.id /\ n.project = m.project /\ n.user = m.user /\ n.status = "active"
    BY <1>1 DEF MembershipRows
  <2>3. m.status = "active" => n = m
    BY <1>1 DEF MembershipRows
  <2> HIDE DEF n
  <2> QED BY <2>1, <2>2, <2>3
<1>3. CASE m.id # membership[j].id
  <2>1. m \in Activated(j)
    BY <1>3 DEF Activated
  <2> QED BY <1>3, <2>1
<1> QED BY <1>2, <1>3

\* The joins that are not taking this step keep theirs while rows are added or raised.
LEMMA OthersKeep ==
    ASSUME MembershipTypeOK, PromiseInvariant, NEW k \in Joiners, NEW j \in Joiners, j # k,
           \A m \in memberships : \E n \in memberships' :
               /\ n.id = m.id /\ n.project = m.project /\ n.user = m.user
               /\ m.status = "active" => n.status = "active",
           pc'[j] = pc[j], touched'[j] = touched[j], membership'[j] = membership[j],
           found'[j] = found[j], user'[j] = user[j],
           pc'[j] = "activate", ~ touched'[j]
    PROVE  Kept(j)'
<1>1. PICK m \in memberships :
          /\ m.id = membership[j].id /\ m.project = found[j].project /\ m.user = user[j]
          /\ membership[j].status = "active" => m.status = "active"
  BY DEF PromiseInvariant, Kept
<1>2. PICK n \in memberships' :
          /\ n.id = m.id /\ n.project = m.project /\ n.user = m.user
          /\ m.status = "active" => n.status = "active"
  BY <1>1
<1> QED BY <1>1, <1>2 DEF Kept

LEMMA StepKeepsPromise ==
    MembershipTypeOK /\ PromiseInvariant /\ [MembershipNext]_membershipVars => PromiseInvariant'
<1> SUFFICES ASSUME MembershipTypeOK, PromiseInvariant, [MembershipNext]_membershipVars
             PROVE  PromiseInvariant'
  OBVIOUS
<1>1. CASE Touch /\ UNCHANGED pc
  BY <1>1 DEF Touch, PromiseInvariant
<1>2. CASE UNCHANGED <<memberships, joinVars, touched>>
  BY <1>2 DEF PromiseInvariant, Kept, joinVars
<1>3. ASSUME NEW k \in Joiners, NEW u \in Users, NEW p \in Projects, FindProject(k, u, p)
      PROVE  PromiseInvariant'
  <2>1. ASSUME NEW j \in Joiners, j # k, pc'[j] = "activate", ~ touched'[j]
        PROVE  Kept(j)'
    BY <1>3, <2>1, OthersKeep DEF FindProject, Goto, MembershipTypeOK
  <2>2. pc'[k] # "activate"
    BY <1>3 DEF FindProject, Goto, MembershipTypeOK
  <2> QED BY <2>1, <2>2 DEF PromiseInvariant
<1>4. ASSUME NEW k \in Joiners, GetMembership(k) PROVE PromiseInvariant'
  <2>1. ASSUME NEW j \in Joiners, j # k, pc'[j] = "activate", ~ touched'[j]
        PROVE  Kept(j)'
    BY <1>4, <2>1, OthersKeep DEF GetMembership, Goto, MembershipTypeOK
  <2>2. pc'[k] = "activate" => Kept(k)'
    BY <1>4 DEF GetMembership, Goto, RowsOf, Kept, MembershipTypeOK
  <2> QED BY <2>1, <2>2 DEF PromiseInvariant
<1>5. ASSUME NEW k \in Joiners, CreateMembership(k) PROVE PromiseInvariant'
  <2>1. memberships \subseteq memberships'
    BY <1>5 DEF CreateMembership
  <2>2. ASSUME NEW j \in Joiners, j # k, pc'[j] = "activate", ~ touched'[j]
        PROVE  Kept(j)'
    BY <1>5, <2>1, <2>2, OthersKeep DEF CreateMembership, Goto, MembershipTypeOK
  <2>3. pc'[k] = "activate" => Kept(k)'
    <3> SUFFICES ASSUME pc'[k] = "activate" PROVE Kept(k)'
      OBVIOUS
    <3>1. /\ NewMembership(k) \in memberships' /\ membership'[k] = NewMembership(k)
          /\ UNCHANGED <<found, user>>
      BY <1>5 DEF CreateMembership, Goto, MembershipTypeOK
    <3>2. NewMembership(k).project = found[k].project /\ NewMembership(k).user = user[k]
      BY DEF NewMembership
    <3> QED BY <3>1, <3>2 DEF Kept
  <2> QED BY <2>2, <2>3 DEF PromiseInvariant
<1>6. ASSUME NEW k \in Joiners, Join(k) \/ FailJoin(k) PROVE PromiseInvariant'
  <2>1. End(k)
    BY <1>6 DEF Join, FailJoin
  <2>2. \A m \in memberships : \E n \in memberships' :
            /\ n.id = m.id /\ n.project = m.project /\ n.user = m.user
            /\ m.status = "active" => n.status = "active"
    <3>1. CASE memberships' = Activated(k)
      BY <3>1, ActivationRaises
    <3>2. CASE UNCHANGED memberships
      BY <3>2
    <3> QED BY <1>6, <3>1, <3>2 DEF Join, FailJoin
  <2>3. ASSUME NEW j \in Joiners, j # k, pc'[j] = "activate", ~ touched'[j]
        PROVE  Kept(j)'
    BY <2>1, <2>2, <2>3, OthersKeep DEF End, Goto, MembershipTypeOK
  <2>4. pc'[k] # "activate"
    BY <2>1 DEF End, Goto, MembershipTypeOK
  <2> QED BY <2>3, <2>4 DEF PromiseInvariant
<1> QED
  BY <1>1, <1>2, <1>3, <1>4, <1>5, <1>6
     DEF MembershipNext, JoinStep, ChangeProjects, DeleteProjectAndMembers, AddMembership,
         OpenMembership, SaveMembership, AbandonMembership, DeleteMembership, joinVars, membershipVars

\* The row that was kept is the one the join promised.
LEMMA JoinDelivers ==
    ASSUME MembershipTypeOK, PromiseInvariant, NEW j \in Joiners, Join(j), ~ touched[j]
    PROVE  \E m \in memberships' :
               /\ m.project = found[j].project /\ m.user = user[j]
               /\ ~ found[j].join_requires_approval => m.status = "active"
<1>1. PICK m \in memberships :
          /\ m.id = membership[j].id /\ m.project = found[j].project /\ m.user = user[j]
          /\ membership[j].status = "active" => m.status = "active"
  BY DEF PromiseInvariant, Kept, Join
<1>2. CASE NeedsActivation(j)
  <2>1. memberships' = Activated(j)
    BY <1>2 DEF Join
  <2>2. PICK n \in Activated(j) :
            /\ n.id = m.id /\ n.project = m.project /\ n.user = m.user
            /\ m.id = membership[j].id => n.status = "active"
    BY ActivationRaises
  <2> QED BY <1>1, <2>1, <2>2
<1>3. CASE ~ NeedsActivation(j)
  <2>1. memberships' = memberships
    BY <1>3 DEF Join
  <2> QED BY <1>1, <1>3, <2>1 DEF NeedsActivation
<1> QED BY <1>2, <1>3

\* models.py:120-130: a join that ends well has made its user a member, an active one if
\* no approval was needed, unless an administrator interfered.
THEOREM JoinsKeepTheirPromise == MembershipSpec => JoinKeepsPromise
<1>1. MembershipInit => PromiseInvariant
  BY DEF MembershipInit, PromiseInvariant
<1>2. MembershipTypeOK /\ PromiseInvariant /\ [MembershipNext]_membershipVars =>
          [\A j \in Joiners :
              Join(j) /\ ~ touched[j] =>
                  \E m \in memberships' :
                      /\ m.project = found[j].project /\ m.user = user[j]
                      /\ ~ found[j].join_requires_approval => m.status = "active"]_membershipVars
  BY JoinDelivers
<1> QED
  BY <1>1, <1>2, MembershipsTypeCorrect, StepKeepsPromise, PTL
     DEF MembershipSpec, JoinKeepsPromise

LEMMA JoinLeavesAlone ==
    ASSUME MembershipTypeOK, [MembershipNext]_membershipVars, NEW j \in Joiners,
           pc[j] = "activate", pc'[j] # "activate"
    PROVE  /\ \A n \in memberships' : \E m \in memberships :
                  m.id = n.id /\ m.project = n.project /\ m.user = n.user
           /\ \A m \in memberships : m.status = "active" => m \in memberships'
<1>1. Join(j) \/ FailJoin(j)
  BY DEF MembershipNext, JoinStep, ChangeProjects, DeleteProjectAndMembers, AddMembership,
         OpenMembership, SaveMembership, AbandonMembership, DeleteMembership, joinVars, membershipVars,
         FindProject, GetMembership, CreateMembership, Join, FailJoin, End, Goto,
         MembershipTypeOK
<1>2. CASE memberships' = Activated(j)
  <2>1. \A n \in memberships' : \E m \in memberships :
            m.id = n.id /\ m.project = n.project /\ m.user = n.user
    BY <1>2 DEF Activated, MembershipTypeOK, MembershipRows
  <2>2. \A m \in memberships : m.status = "active" => m \in memberships'
    BY <1>2, ActivationRaises
  <2> QED BY <2>1, <2>2
<1>3. CASE UNCHANGED memberships
  BY <1>3
<1> QED BY <1>1, <1>2, <1>3 DEF Join, FailJoin

\* A join never undoes what an administrator did to the row it has read.
THEOREM JoinsUndoNothing == MembershipSpec => JoinUndoesNothing
<1>1. MembershipTypeOK /\ [MembershipNext]_membershipVars =>
          [\A j \in Joiners :
              pc[j] = "activate" /\ pc'[j] # "activate" =>
                  /\ \A n \in memberships' : \E m \in memberships :
                         m.id = n.id /\ m.project = n.project /\ m.user = n.user
                  /\ \A m \in memberships : m.status = "active" => m \in memberships']_membershipVars
  BY JoinLeavesAlone
<1> QED
  BY <1>1, MembershipsTypeCorrect, PTL DEF MembershipSpec, JoinUndoesNothing

-----------------------------------------------------------------------------
(* Bearer tokens and their checks                                          *)

\* The project table behaves here as in its own module.
LEMMA ProjectStep == [TokenNext]_checkVars => [Next]_projectVars
BY DEF TokenNext, EditProjects, DeleteProjectAndTokens, Portal, Superuser, Check,
       ChangeMembers, OpenForm, CreateToken, AbandonForm, DeleteToken, OpenToken,
       SaveToken, AbandonToken, FindValid, Allow, Deny, FailCheck, Next, checkVars

\* So everything that is proved of module ProjectAdmin holds beside tokens and checks.
THEOREM TokensKeepProjects == TokenSpec => Spec
<1>1. TokenInit => Init
  BY DEF TokenInit
<1> QED
  BY <1>1, ProjectStep, PTL DEF TokenSpec, Spec

-----------------------------------------------------------------------------
(* Type correctness                                                        *)

LEMMA HeadersTyped ==
    ASSUME TypeOK, NEW p \in Projects, Exists(p)
    PROVE  HeadersOf(p) \in Headers
BY DEF TypeOK, Exists, HeadersOf, Headers, Rows

\* After any step, the headers that are right are headers.
LEMMA RightNowTyped ==
    ASSUME TypeOK', tokens' \in SUBSET TokenRows
    PROVE  RightNow' \in [TokenIds -> SUBSET Headers]
<1>1. ASSUME NEW p \in Projects, project'[p] # NULL
      PROVE  HeadersOf(p)' \in Headers
  BY <1>1 DEF TypeOK, HeadersOf, Headers, Rows
<1>2. \A row \in tokens' : row.project \in Projects
  BY DEF TokenRows
<1>3. ASSUME NEW t \in TokenIds
      PROVE  RightHeaders(t)' \in SUBSET Headers
  BY <1>1, <1>2 DEF RightHeaders, IsValid, IsActive, Exists
<1> QED
  BY <1>3 DEF RightNow

\* The headers that checks may answer with stay typed in every step.
LEMMA EligibleTyped ==
    ASSUME TypeOK', tokens' \in SUBSET TokenRows,
           checking' \in [Checkers -> Checks \cup {NULL}],
           eligible \in [Checkers -> SUBSET Headers], ObserveRight
    PROVE  eligible' \in [Checkers -> SUBSET Headers]
<1>1. RightNow' \in [TokenIds -> SUBSET Headers]
  BY RightNowTyped
<1>2. ASSUME NEW c \in Checkers, checking'[c] # NULL
      PROVE  RightNow'[checking'[c].token] \in SUBSET Headers
  BY <1>1, <1>2 DEF Checks
<1> QED
  BY <1>2 DEF ObserveRight

\* What a step of TokenNext leaves of the other variables' types.
TableTypeOK ==
    /\ tokens \in SUBSET TokenRows
    /\ tokensUsed \in 0..LastToken
    /\ members \in SUBSET (Projects \X Users)
    /\ creating \in [Creators -> Requests \cup {NULL}]
    /\ altering \in [Editors -> TokenRows \cup {NULL}]
    /\ checking \in [Checkers -> Checks \cup {NULL}]
    /\ counted \in [TokenIds -> Decisions]
    /\ missed \in [TokenIds -> Decisions]
    /\ unseen \in [Editors -> Decisions]

LEMMA NoneIsDecisions == NoDecision \in Decisions
BY DEF NoDecision, Decisions

LEMMA TableStepTyped == TokenTypeOK /\ TypeOK' /\ TokenNext => TableTypeOK'
<1> SUFFICES ASSUME TokenTypeOK, TypeOK', TokenNext PROVE TableTypeOK'
  OBVIOUS
<1> USE DEF TokenTypeOK, TableTypeOK
<1>1. CASE EditProjects
  BY <1>1 DEF EditProjects, tokenVars, Observe
<1>2. ASSUME NEW p \in Projects, DeleteProjectAndTokens(p)
      PROVE  TableTypeOK'
  BY <1>2 DEF DeleteProjectAndTokens, Observe
<1>3. ASSUME NEW p \in Projects, NEW u \in Users, ChangeMembers(p, u)
      PROVE  TableTypeOK'
  BY <1>3 DEF ChangeMembers, Observe
<1>4. ASSUME NEW w \in Creators, NEW u \in Users, NEW p \in Projects, OpenForm(w, u, p)
      PROVE  TableTypeOK'
  BY <1>4 DEF OpenForm, Requests, Observe
<1>5. ASSUME NEW w \in Creators, NEW l \in Lifetimes, CreateToken(w, l)
      PROVE  TableTypeOK'
  <2>1. /\ creating[w] \in Requests /\ tokensUsed + 1 \in TokenIds
        /\ today \in 0..LastDay
    BY <1>5, TokenAssumption DEF CreateToken, TokenIds, TokenAssumption, TypeOK
  <2>2. today + l \in Expiries
    BY <2>1 DEF Expiries
  <2>3. NewToken(w, l) \in TokenRows
    BY <2>1, <2>2 DEF NewToken, TokenRows, Requests
  <2>4. tokensUsed' \in 0..LastToken
    BY <1>5, TokenAssumption DEF CreateToken, TokenAssumption
  <2> QED BY <1>5, <2>3, <2>4 DEF CreateToken, Observe
<1>6. ASSUME NEW w \in Creators, AbandonForm(w)
      PROVE  TableTypeOK'
  BY <1>6 DEF AbandonForm, Observe
<1>7. ASSUME NEW row \in tokens, DeleteToken(row)
      PROVE  TableTypeOK'
  BY <1>7 DEF DeleteToken, Observe
<1>8. ASSUME NEW e \in Editors, NEW row \in tokens, NEW u \in Users,
             NEW p \in Projects, NEW x \in Expiries, OpenToken(e, row, u, p, x)
      PROVE  TableTypeOK'
  <2>1. [row EXCEPT !.user = u, !.project = p, !.expires_at = x] \in TokenRows
    BY DEF TokenRows
  <2>2. missed[row.id] \in Decisions
    BY DEF TokenRows
  <2> QED BY <1>8, <2>1, <2>2 DEF OpenToken
<1>9. ASSUME NEW e \in Editors, SaveToken(e)
      PROVE  TableTypeOK'
  <2>1. altering[e] \in TokenRows
    BY <1>9 DEF SaveToken
  <2> QED BY <1>9, <2>1, NoneIsDecisions DEF SaveToken
<1>10. ASSUME NEW e \in Editors, AbandonToken(e)
       PROVE  TableTypeOK'
  BY <1>10, NoneIsDecisions DEF AbandonToken
<1>11. ASSUME NEW c \in Checkers, NEW row \in tokens, FindValid(c, row)
       PROVE  TableTypeOK'
  <2>1. row.project \in Projects /\ row.id \in TokenIds /\ row.allowed_count \in Nat
    BY DEF TokenRows
  <2>2. HeadersOf(row.project) \in Headers
    BY <1>11, <2>1, HeadersTyped DEF FindValid, IsValid, IsActive
  <2>3. [token |-> row.id, allowed_count |-> row.allowed_count,
         read |-> HeadersOf(row.project)] \in Checks
    BY <2>1, <2>2 DEF Checks
  <2> QED BY <1>11, <2>3 DEF FindValid, Observe
<1>12. ASSUME NEW c \in Checkers, Allow(c)
       PROVE  TableTypeOK'
  <2>1. \A row \in TokenRows : [row EXCEPT !.allowed_count = @ + 1] \in TokenRows
    BY DEF TokenRows
  <2>2. tokens' \in SUBSET TokenRows
    BY <1>12, <2>1 DEF Allow, CountAllowed
  <2>3. checking[c].token \in TokenIds
    BY <1>12 DEF Allow, Checks
  <2>4. \A d \in Decisions : [d EXCEPT !.allowed = @ + 1] \in Decisions
    BY DEF Decisions
  <2>5. counted' \in [TokenIds -> Decisions] /\ missed' \in [TokenIds -> Decisions]
    BY <1>12, <2>3, <2>4 DEF Allow, ObserveAllowed
  <2>6. unseen' \in [Editors -> Decisions]
    BY <1>12, <2>4 DEF Allow, ObserveAllowed
  <2> QED BY <1>12, <2>2, <2>5, <2>6 DEF Allow, EndCheck
<1>13. ASSUME NEW c \in Checkers, Deny(c)
       PROVE  TableTypeOK'
  <2>1. \A row \in TokenRows : [row EXCEPT !.denied_count = @ + 1] \in TokenRows
    BY DEF TokenRows
  <2>2. tokens' \in SUBSET TokenRows
    BY <1>13, <2>1 DEF Deny, CountDenied
  <2>3. checking[c].token \in TokenIds
    BY <1>13 DEF Deny, Checks
  <2>4. \A d \in Decisions : [d EXCEPT !.denied = @ + 1] \in Decisions
    BY DEF Decisions
  <2>5. counted' \in [TokenIds -> Decisions] /\ missed' \in [TokenIds -> Decisions]
    BY <1>13, <2>3, <2>4 DEF Deny, ObserveDenied
  <2>6. unseen' \in [Editors -> Decisions]
    BY <1>13, <2>4 DEF Deny, ObserveDenied
  <2> QED BY <1>13, <2>2, <2>5, <2>6 DEF Deny, EndCheck
<1>14. ASSUME NEW c \in Checkers, FailCheck(c)
       PROVE  TableTypeOK'
  BY <1>14 DEF FailCheck, EndCheck, Observe
<1> QED
  BY <1>1, <1>2, <1>3, <1>4, <1>5, <1>6, <1>7, <1>8, <1>9, <1>10, <1>11, <1>12,
     <1>13, <1>14 DEF TokenNext, Portal, Superuser, Check

\* Every action records the history.
LEMMA EveryStepObserves == TokenNext => ObserveRight
BY DEF TokenNext, EditProjects, DeleteProjectAndTokens, Portal, Superuser, Check,
       ChangeMembers, OpenForm, CreateToken, AbandonForm, DeleteToken, OpenToken,
       SaveToken, AbandonToken, FindValid, Allow, Deny, FailCheck, Observe,
       ObserveAllowed, ObserveDenied

\* Tokens, checks, forms and their history are always well typed.
THEOREM TokensTypeCorrect == TokenSpec => []TokenTypeOK
<1>1. TokenInit => TokenTypeOK
  <2>1. TokenInit => TypeOK
    BY InitTyped DEF TokenInit
  <2> QED BY <2>1, TokenAssumption, NoneIsDecisions DEF TokenInit, TokenTypeOK, TokenAssumption
<1>2. TokenTypeOK /\ [TokenNext]_checkVars => TokenTypeOK'
  <2> SUFFICES ASSUME TokenTypeOK, [TokenNext]_checkVars PROVE TokenTypeOK'
    OBVIOUS
  <2>1. TypeOK'
    BY ProjectStep, StepTyped DEF TokenTypeOK
  <2>2. CASE TokenNext
    <3>1. TableTypeOK'
      BY <2>1, <2>2, TableStepTyped
    <3>2. eligible' \in [Checkers -> SUBSET Headers]
      BY <2>1, <2>2, <3>1, EligibleTyped, EveryStepObserves DEF TokenTypeOK, TableTypeOK
    <3> QED BY <2>1, <3>1, <3>2 DEF TokenTypeOK, TableTypeOK
  <2>3. CASE UNCHANGED checkVars
    BY <2>1, <2>3 DEF checkVars, tokenVars, TokenTypeOK
  <2> QED BY <2>2, <2>3
<1> QED
  BY <1>1, <1>2, PTL DEF TokenSpec

-----------------------------------------------------------------------------
(* Accepted requests were eligible                                         *)

\* What a check holds, if it can be accepted at all, was right since its read.
ReadWasEligible ==
    \A c \in Checkers :
        checking[c] # NULL /\ checking[c].read.limit_class # NULL =>
            checking[c].read \in eligible[c]

\* A check that is still under way keeps what it has read, and all that was right.
LEMMA UnderWayKeeps ==
    ASSUME ReadWasEligible, TokenTypeOK, ObserveRight, NEW c \in Checkers,
           checking'[c] = checking[c], checking[c] # NULL,
           checking[c].read.limit_class # NULL
    PROVE  checking'[c].read \in eligible'[c]
<1>1. eligible'[c] = eligible[c] \cup RightNow'[checking'[c].token]
  BY DEF ObserveRight
<1> QED
  BY <1>1 DEF ReadWasEligible

\* What is read now is right now.
LEMMA ReadIsRight ==
    ASSUME TokenTypeOK, ObserveRight, NEW c \in Checkers, NEW row \in tokens,
           FindValid(c, row), checking'[c].read.limit_class # NULL
    PROVE  checking'[c].read \in eligible'[c]
<1>1. checking'[c] = [token |-> row.id, allowed_count |-> row.allowed_count,
                      read |-> HeadersOf(row.project)]
  BY DEF FindValid, TokenTypeOK
<1>2. row.id \in TokenIds
  BY DEF TokenTypeOK, TokenRows
<1>3. project' = project /\ today' = today /\ tokens' = tokens
  BY DEF FindValid, projectVars
<1>4. RightHeaders(row.id)' = RightHeaders(row.id)
  BY <1>3 DEF RightHeaders, IsValid, IsActive, Exists, HeadersOf
<1>5. project[row.project].limit_class # NULL
  BY <1>1 DEF HeadersOf
<1>6. HeadersOf(row.project) \in RightHeaders(row.id)
  BY <1>5 DEF FindValid, RightHeaders
<1>7. RightNow'[row.id] = RightHeaders(row.id)'
  BY <1>2 DEF RightNow
<1>8. checking'[c] # NULL
  <2>1. checking'[c] \in Checks
    <3>1. HeadersOf(row.project) \in Headers
      BY HeadersTyped DEF TokenTypeOK, TokenRows, FindValid, IsValid, IsActive
    <3> QED BY <1>1, <1>2, <3>1 DEF Checks, TokenTypeOK, TokenRows
  <2> QED BY <2>1, TokenNullAssumption
<1>9. eligible'[c] = eligible[c] \cup RightNow'[row.id]
  BY <1>1, <1>8 DEF ObserveRight
<1> QED
  BY <1>1, <1>4, <1>6, <1>7, <1>9

\* Every step of a check either starts it, ends it or leaves it as it is.
LEMMA CheckSteps ==
    ASSUME TokenTypeOK, TokenNext, NEW c \in Checkers
    PROVE  \/ checking'[c] = checking[c]
           \/ checking'[c] = NULL
           \/ \E row \in tokens : FindValid(c, row)
<1>1. CASE EditProjects
  BY <1>1 DEF EditProjects, tokenVars
<1>2. CASE \E p \in Projects : DeleteProjectAndTokens(p)
  BY <1>2 DEF DeleteProjectAndTokens
<1>3. CASE Portal
  BY <1>3 DEF Portal, ChangeMembers, OpenForm, CreateToken, AbandonForm, DeleteToken
<1>4. CASE Superuser
  BY <1>4 DEF Superuser, OpenToken, SaveToken, AbandonToken
<1>5. ASSUME NEW d \in Checkers, NEW row \in tokens, FindValid(d, row)
      PROVE  checking'[c] = checking[c] \/ FindValid(c, row)
  BY <1>5 DEF FindValid, TokenTypeOK
<1>6. ASSUME NEW d \in Checkers, Allow(d) \/ Deny(d) \/ FailCheck(d)
      PROVE  checking'[c] = checking[c] \/ checking'[c] = NULL
  BY <1>6 DEF Allow, Deny, FailCheck, EndCheck, TokenTypeOK
<1> QED
  BY <1>1, <1>2, <1>3, <1>4, <1>5, <1>6 DEF TokenNext, Check

\* The authorization endpoint (views.py:104-118) never answers with a class or a quota key
\* that its token was not entitled to at some instant of the request.
THEOREM ChecksAcceptTheEligible == TokenSpec => AcceptedWasEligible
<1>1. TokenInit => ReadWasEligible
  BY DEF TokenInit, ReadWasEligible
<1>2. TokenTypeOK /\ ReadWasEligible /\ [TokenNext]_checkVars => ReadWasEligible'
  <2> SUFFICES ASSUME TokenTypeOK, ReadWasEligible, [TokenNext]_checkVars,
                      NEW c \in Checkers, checking'[c] # NULL,
                      checking'[c].read.limit_class # NULL
               PROVE  checking'[c].read \in eligible'[c]
    BY DEF ReadWasEligible
  <2>1. CASE TokenNext
    BY <2>1, CheckSteps, EveryStepObserves, UnderWayKeeps, ReadIsRight
  <2>2. CASE UNCHANGED checkVars
    BY <2>2 DEF checkVars, tokenVars, ReadWasEligible
  <2> QED BY <2>1, <2>2
<1>3. ReadWasEligible => \A c \in Checkers : Allow(c) => Response(c) \in eligible[c]
  BY DEF ReadWasEligible, Allow, Accepts, Response
<1>4. ReadWasEligible => [\A c \in Checkers : Allow(c) => Response(c) \in eligible[c]]_checkVars
  BY <1>3
<1> QED
  BY <1>1, <1>2, <1>4, TokensTypeCorrect, PTL DEF TokenSpec, AcceptedWasEligible

-----------------------------------------------------------------------------
(* The counters                                                            *)

\* The primary keys that may be met belong to tokens created already, and nothing was
\* decided for a token before its creation.
KeysInUse ==
    /\ \A row \in tokens : row.id <= tokensUsed
    /\ \A e \in Editors : altering[e] # NULL => altering[e].id <= tokensUsed
    /\ \A c \in Checkers : checking[c] # NULL => checking[c].token <= tokensUsed
    /\ \A t \in TokenIds :
           t > tokensUsed => counted[t] = NoDecision /\ missed[t] = NoDecision

\* The row of a change view lacks what its save will take from the token.
FormsAccountedFor ==
    \A e \in Editors : altering[e] # NULL => Accounts(altering[e], unseen[e])

CounterInvariant ==
    /\ KeysInUse
    /\ CountersAccountedFor
    /\ FormsAccountedFor

\* A count of a decision: the token's rows and the history advance together, and the
\* rows in change views lack one decision more.
LEMMA CountsTogether ==
    ASSUME TokenTypeOK, CounterInvariant, NEW c \in Checkers, Allow(c) \/ Deny(c)
    PROVE  /\ \A row \in tokens' : \E old \in tokens : row.id = old.id
           /\ CountersAccountedFor'
           /\ FormsAccountedFor'
           /\ \A t \in TokenIds : t > tokensUsed => counted'[t] = counted[t]
<1>1. /\ checking[c] # NULL /\ checking[c].token \in TokenIds
      /\ checking[c].token <= tokensUsed
  BY DEF Allow, Deny, TokenTypeOK, Checks, CounterInvariant, KeysInUse
<1>2. /\ \A t \in TokenIds : /\ counted[t].allowed \in Nat /\ counted[t].denied \in Nat
                             /\ missed[t].allowed \in Nat /\ missed[t].denied \in Nat
      /\ \A e \in Editors : unseen[e].allowed \in Nat /\ unseen[e].denied \in Nat
  BY DEF TokenTypeOK, Decisions
<1>3. \A row \in TokenRows :
          row.id \in TokenIds /\ row.allowed_count \in Nat /\ row.denied_count \in Nat
  BY DEF TokenRows
<1>4. \A e \in Editors : altering[e] # NULL => altering[e] \in TokenRows
  BY DEF TokenTypeOK
<1>5. CASE Allow(c)
  <2>1. \A t \in TokenIds :
            /\ counted'[t].denied = counted[t].denied
            /\ counted'[t].allowed = IF t = checking[c].token
                                     THEN counted[t].allowed + 1 ELSE counted[t].allowed
    BY <1>1, <1>5 DEF Allow, ObserveAllowed, TokenTypeOK, Decisions
  <2>2. \A e \in Editors :
            /\ unseen'[e].denied = unseen[e].denied
            /\ unseen'[e].allowed =
                   IF altering[e] # NULL /\ altering[e].id = checking[c].token
                   THEN unseen[e].allowed + 1 ELSE unseen[e].allowed
    BY <1>5 DEF Allow, ObserveAllowed, Alters, TokenTypeOK, Decisions
  <2>3. missed' = missed /\ altering' = altering
    BY <1>5 DEF Allow, ObserveAllowed
  <2>4. ASSUME NEW old \in tokens,
               NEW row, row = IF old.id = checking[c].token
                              THEN [old EXCEPT !.allowed_count = @ + 1] ELSE old
        PROVE  /\ row.id = old.id /\ row.denied_count = old.denied_count
               /\ row.allowed_count = IF old.id = checking[c].token
                                      THEN old.allowed_count + 1 ELSE old.allowed_count
    BY <2>4 DEF TokenTypeOK, TokenRows
  <2>5. ASSUME NEW row \in tokens'
        PROVE  \E old \in tokens :
                   row = IF old.id = checking[c].token
                         THEN [old EXCEPT !.allowed_count = @ + 1] ELSE old
    BY <1>5 DEF Allow, CountAllowed
  <2>6. ASSUME NEW row \in tokens'
        PROVE  /\ \E old \in tokens : row.id = old.id
               /\ row.allowed_count + missed'[row.id].allowed = counted'[row.id].allowed
               /\ row.denied_count + missed'[row.id].denied = counted'[row.id].denied
    <3>1. PICK old \in tokens :
              row = IF old.id = checking[c].token
                    THEN [old EXCEPT !.allowed_count = @ + 1] ELSE old
      BY <2>5
    <3>2. /\ row.id = old.id /\ row.denied_count = old.denied_count
          /\ row.allowed_count = IF old.id = checking[c].token
                                 THEN old.allowed_count + 1 ELSE old.allowed_count
      BY <2>4, <3>1
    <3>3. old \in TokenRows
      BY DEF TokenTypeOK
    <3>4. /\ old.allowed_count + missed[old.id].allowed = counted[old.id].allowed
          /\ old.denied_count + missed[old.id].denied = counted[old.id].denied
      BY DEF CounterInvariant, CountersAccountedFor, Accounts
    <3> QED BY <1>2, <1>3, <2>1, <2>3, <3>2, <3>3, <3>4
  <2>7. CountersAccountedFor'
    BY <2>6 DEF CountersAccountedFor, Accounts
  <2>8. ASSUME NEW e \in Editors, altering'[e] # NULL
        PROVE  Accounts(altering[e], unseen[e])'
    <3>1. altering[e] \in TokenRows /\ Accounts(altering[e], unseen[e])
      BY <1>4, <2>3, <2>8 DEF CounterInvariant, FormsAccountedFor
    <3>2. altering[e] # NULL
      BY <2>3, <2>8
    <3> QED BY <1>2, <1>3, <2>1, <2>2, <2>3, <3>1, <3>2 DEF Accounts
  <2>9. ASSUME NEW t \in TokenIds, t > tokensUsed PROVE counted'[t] = counted[t]
    <3>1. t # checking[c].token
      BY <1>1, <2>9 DEF TokenTypeOK, TokenIds
    <3> QED BY <1>5, <3>1 DEF Allow, ObserveAllowed, TokenTypeOK
  <2> QED BY <2>6, <2>7, <2>8, <2>9 DEF FormsAccountedFor
<1>6. CASE Deny(c)
  <2>1. \A t \in TokenIds :
            /\ counted'[t].allowed = counted[t].allowed
            /\ counted'[t].denied = IF t = checking[c].token
                                    THEN counted[t].denied + 1 ELSE counted[t].denied
    BY <1>1, <1>6 DEF Deny, ObserveDenied, TokenTypeOK, Decisions
  <2>2. \A e \in Editors :
            /\ unseen'[e].allowed = unseen[e].allowed
            /\ unseen'[e].denied =
                   IF altering[e] # NULL /\ altering[e].id = checking[c].token
                   THEN unseen[e].denied + 1 ELSE unseen[e].denied
    BY <1>6 DEF Deny, ObserveDenied, Alters, TokenTypeOK, Decisions
  <2>3. missed' = missed /\ altering' = altering
    BY <1>6 DEF Deny, ObserveDenied
  <2>4. ASSUME NEW old \in tokens,
               NEW row, row = IF old.id = checking[c].token
                              THEN [old EXCEPT !.denied_count = @ + 1] ELSE old
        PROVE  /\ row.id = old.id /\ row.allowed_count = old.allowed_count
               /\ row.denied_count = IF old.id = checking[c].token
                                     THEN old.denied_count + 1 ELSE old.denied_count
    BY <2>4 DEF TokenTypeOK, TokenRows
  <2>5. ASSUME NEW row \in tokens'
        PROVE  \E old \in tokens :
                   row = IF old.id = checking[c].token
                         THEN [old EXCEPT !.denied_count = @ + 1] ELSE old
    BY <1>6 DEF Deny, CountDenied
  <2>6. ASSUME NEW row \in tokens'
        PROVE  /\ \E old \in tokens : row.id = old.id
               /\ row.allowed_count + missed'[row.id].allowed = counted'[row.id].allowed
               /\ row.denied_count + missed'[row.id].denied = counted'[row.id].denied
    <3>1. PICK old \in tokens :
              row = IF old.id = checking[c].token
                    THEN [old EXCEPT !.denied_count = @ + 1] ELSE old
      BY <2>5
    <3>2. /\ row.id = old.id /\ row.allowed_count = old.allowed_count
          /\ row.denied_count = IF old.id = checking[c].token
                                THEN old.denied_count + 1 ELSE old.denied_count
      BY <2>4, <3>1
    <3>3. old \in TokenRows
      BY DEF TokenTypeOK
    <3>4. /\ old.allowed_count + missed[old.id].allowed = counted[old.id].allowed
          /\ old.denied_count + missed[old.id].denied = counted[old.id].denied
      BY DEF CounterInvariant, CountersAccountedFor, Accounts
    <3> QED BY <1>2, <1>3, <2>1, <2>3, <3>2, <3>3, <3>4
  <2>7. CountersAccountedFor'
    BY <2>6 DEF CountersAccountedFor, Accounts
  <2>8. ASSUME NEW e \in Editors, altering'[e] # NULL
        PROVE  Accounts(altering[e], unseen[e])'
    <3>1. altering[e] \in TokenRows /\ Accounts(altering[e], unseen[e])
      BY <1>4, <2>3, <2>8 DEF CounterInvariant, FormsAccountedFor
    <3>2. altering[e] # NULL
      BY <2>3, <2>8
    <3> QED BY <1>2, <1>3, <2>1, <2>2, <2>3, <3>1, <3>2 DEF Accounts
  <2>9. ASSUME NEW t \in TokenIds, t > tokensUsed PROVE counted'[t] = counted[t]
    <3>1. t # checking[c].token
      BY <1>1, <2>9 DEF TokenTypeOK, TokenIds
    <3> QED BY <1>6, <3>1 DEF Deny, ObserveDenied, TokenTypeOK
  <2> QED BY <2>6, <2>7, <2>8, <2>9 DEF FormsAccountedFor
<1> QED
  BY <1>5, <1>6

\* The steps of a check and of the tables that save no row: nothing is decided, the rows
\* are old ones, and a row in a change view lacks what the row it was loaded from lacks.
LEMMA QuietStep ==
    ASSUME TokenTypeOK, CounterInvariant,
           counted' = counted, missed' = missed, tokens' \subseteq tokens,
           tokensUsed' = tokensUsed,
           \A e \in Editors : \/ altering'[e] = NULL
                              \/ altering'[e] = altering[e] /\ unseen'[e] = unseen[e]
                              \/ \E row \in tokens :
                                    /\ altering'[e].id = row.id
                                    /\ altering'[e].allowed_count = row.allowed_count
                                    /\ altering'[e].denied_count = row.denied_count
                                    /\ unseen'[e] = missed[row.id],
           \A c \in Checkers : \/ checking'[c] = NULL
                               \/ checking'[c] = checking[c]
                               \/ \E row \in tokens : checking'[c].token = row.id
    PROVE  CounterInvariant'
<1>1. \A row \in tokens' : row.id <= tokensUsed'
  BY DEF CounterInvariant, KeysInUse
<1>2. CountersAccountedFor'
  BY DEF CounterInvariant, CountersAccountedFor, Accounts
<1>3. ASSUME NEW e \in Editors, altering'[e] # NULL
      PROVE  Accounts(altering[e], unseen[e])' /\ altering'[e].id <= tokensUsed'
  BY <1>3 DEF CounterInvariant, FormsAccountedFor, CountersAccountedFor, KeysInUse, Accounts
<1>4. FormsAccountedFor'
  BY <1>3 DEF FormsAccountedFor
<1>5. \A c \in Checkers : checking'[c] # NULL => checking'[c].token <= tokensUsed'
  BY DEF CounterInvariant, KeysInUse
<1>6. \A t \in TokenIds :
          t > tokensUsed' => counted'[t] = NoDecision /\ missed'[t] = NoDecision
  BY DEF CounterInvariant, KeysInUse
<1> QED
  BY <1>1, <1>2, <1>3, <1>4, <1>5, <1>6 DEF CounterInvariant, KeysInUse

LEMMA StepKeepsCounters ==
    TokenTypeOK /\ CounterInvariant /\ TokenNext => CounterInvariant'
<1> SUFFICES ASSUME TokenTypeOK, CounterInvariant, TokenNext PROVE CounterInvariant'
  OBVIOUS
<1>1. CASE EditProjects
  BY <1>1, QuietStep DEF EditProjects, tokenVars, Observe
<1>2. ASSUME NEW p \in Projects, DeleteProjectAndTokens(p)
      PROVE  CounterInvariant'
  BY <1>2, QuietStep DEF DeleteProjectAndTokens, Observe
<1>3. ASSUME NEW p \in Projects, NEW u \in Users, ChangeMembers(p, u)
      PROVE  CounterInvariant'
  BY <1>3, QuietStep DEF ChangeMembers, Observe
<1>4. ASSUME NEW w \in Creators, NEW u \in Users, NEW p \in Projects, OpenForm(w, u, p)
      PROVE  CounterInvariant'
  BY <1>4, QuietStep DEF OpenForm, Observe
<1>5. ASSUME NEW w \in Creators, NEW l \in Lifetimes, CreateToken(w, l)
      PROVE  CounterInvariant'
  <2>1. /\ tokensUsed \in Nat /\ tokensUsed' = tokensUsed + 1
        /\ tokensUsed + 1 \in TokenIds
    BY <1>5, TokenAssumption DEF CreateToken, TokenIds, TokenTypeOK, TokenAssumption
  <2>2. counted[tokensUsed + 1] = NoDecision /\ missed[tokensUsed + 1] = NoDecision
    BY <2>1 DEF CounterInvariant, KeysInUse
  <2>3. /\ NewToken(w, l).id = tokensUsed + 1
        /\ NewToken(w, l).allowed_count = 0 /\ NewToken(w, l).denied_count = 0
    BY DEF NewToken
  <2>4. /\ tokens' = tokens \cup {NewToken(w, l)}
        /\ counted' = counted /\ altering' = altering /\ checking' = checking
        /\ missed' = missed /\ unseen' = unseen
    BY <1>5 DEF CreateToken, Observe
  <2>5. Accounts(NewToken(w, l), missed[tokensUsed + 1])
    BY <2>2, <2>3 DEF Accounts, NoDecision
  <2>6. CountersAccountedFor'
    <3>1. ASSUME NEW row \in tokens' PROVE Accounts(row, missed[row.id])
      BY <2>3, <2>4, <2>5 DEF CounterInvariant, CountersAccountedFor
    <3> QED BY <2>4, <3>1 DEF CountersAccountedFor, Accounts
  <2>7. \A row \in tokens' : row.id <= tokensUsed'
    <3>1. \A row \in tokens : row.id \in Nat
      BY DEF TokenTypeOK, TokenRows, TokenIds
    <3> QED BY <2>1, <2>3, <2>4, <3>1 DEF CounterInvariant, KeysInUse
  <2>8. \A e \in Editors : altering'[e] # NULL => altering'[e].id <= tokensUsed'
    <3>1. \A e \in Editors : altering[e] # NULL => altering[e].id \in Nat
      BY DEF TokenTypeOK, TokenRows, TokenIds
    <3> QED BY <2>1, <2>4, <3>1 DEF CounterInvariant, KeysInUse
  <2>9. FormsAccountedFor'
    BY <2>4 DEF CounterInvariant, FormsAccountedFor, Accounts
  <2>10. \A c \in Checkers : checking'[c] # NULL => checking'[c].token <= tokensUsed'
    <3>1. \A c \in Checkers : checking[c] # NULL => checking[c].token \in Nat
      BY DEF TokenTypeOK, Checks, TokenIds
    <3> QED BY <2>1, <2>4, <3>1 DEF CounterInvariant, KeysInUse
  <2>11. \A t \in TokenIds :
             t > tokensUsed' => counted'[t] = NoDecision /\ missed'[t] = NoDecision
    BY <2>1, <2>4 DEF CounterInvariant, KeysInUse, TokenIds
  <2> QED
    BY <2>6, <2>7, <2>8, <2>9, <2>10, <2>11 DEF CounterInvariant, KeysInUse
<1>6. ASSUME NEW w \in Creators, AbandonForm(w)
      PROVE  CounterInvariant'
  BY <1>6, QuietStep DEF AbandonForm, Observe
<1>7. ASSUME NEW row \in tokens, DeleteToken(row)
      PROVE  CounterInvariant'
  BY <1>7, QuietStep DEF DeleteToken, Observe
<1>8. ASSUME NEW e \in Editors, NEW row \in tokens, NEW u \in Users,
             NEW p \in Projects, NEW x \in Expiries, OpenToken(e, row, u, p, x)
      PROVE  CounterInvariant'
  <2> DEFINE form == [row EXCEPT !.user = u, !.project = p, !.expires_at = x]
  <2>1. /\ form.id = row.id /\ form.allowed_count = row.allowed_count
        /\ form.denied_count = row.denied_count
    BY DEF TokenTypeOK, TokenRows
  <2>2. \A d \in Editors : \/ altering'[d] = altering[d] /\ unseen'[d] = unseen[d]
                           \/ altering'[d] = form /\ unseen'[d] = missed[row.id]
    BY <1>8 DEF OpenToken, TokenTypeOK
  <2> HIDE DEF form
  <2>3. \A d \in Editors : \/ altering'[d] = altering[d] /\ unseen'[d] = unseen[d]
                           \/ /\ altering'[d].id = row.id
                              /\ altering'[d].allowed_count = row.allowed_count
                              /\ altering'[d].denied_count = row.denied_count
                              /\ unseen'[d] = missed[row.id]
    BY <2>1, <2>2
  <2> QED BY <1>8, <2>3, QuietStep DEF OpenToken
<1>9. ASSUME NEW e \in Editors, SaveToken(e)
      PROVE  CounterInvariant'
  <2>1. /\ tokens' = {row \in tokens : row.id # altering[e].id} \cup {altering[e]}
        /\ altering[e] # NULL /\ altering'[e] = NULL
        /\ \A d \in Editors : \/ altering'[d] = NULL
                              \/ altering'[d] = altering[d] /\ unseen'[d] = unseen[d]
        /\ UNCHANGED <<tokensUsed, checking, counted>>
    BY <1>9 DEF SaveToken, TokenTypeOK
  <2>2. altering[e].id \in TokenIds /\ altering[e].id <= tokensUsed
    BY <2>1 DEF TokenTypeOK, TokenRows, CounterInvariant, KeysInUse
  <2>3. \A t \in TokenIds :
            missed'[t] = IF t = altering[e].id THEN unseen[e] ELSE missed[t]
    BY <1>9 DEF SaveToken, TokenTypeOK
  <2>4. \A row \in tokens' :
            row = altering[e] \/ (row \in tokens /\ row.id # altering[e].id)
    BY <2>1
  <2>5. ASSUME NEW row \in tokens' PROVE Accounts(row, missed'[row.id])
    <3>1. CASE row = altering[e]
      BY <2>1, <2>2, <2>3, <3>1 DEF CounterInvariant, FormsAccountedFor
    <3>2. CASE row \in tokens /\ row.id # altering[e].id
      <4>1. row.id \in TokenIds /\ Accounts(row, missed[row.id])
        BY <3>2 DEF TokenTypeOK, TokenRows, CounterInvariant, CountersAccountedFor
      <4> QED BY <2>3, <3>2, <4>1
    <3> QED BY <2>4, <3>1, <3>2
  <2>6. CountersAccountedFor'
    BY <2>1, <2>5 DEF CountersAccountedFor, Accounts
  <2>7. \A row \in tokens' : row.id <= tokensUsed'
    BY <2>1, <2>2, <2>4 DEF CounterInvariant, KeysInUse
  <2>8. FormsAccountedFor'
    BY <2>1 DEF CounterInvariant, FormsAccountedFor, Accounts
  <2>9. \A d \in Editors : altering'[d] # NULL => altering'[d].id <= tokensUsed'
    BY <2>1 DEF CounterInvariant, KeysInUse
  <2>10. ASSUME NEW t \in TokenIds, t > tokensUsed'
         PROVE  counted'[t] = NoDecision /\ missed'[t] = NoDecision
    <3>1. t # altering[e].id
      BY <2>1, <2>2, <2>10 DEF TokenIds, TokenTypeOK
    <3> QED BY <2>1, <2>3, <2>10, <3>1 DEF CounterInvariant, KeysInUse
  <2>11. \A c \in Checkers : checking'[c] # NULL => checking'[c].token <= tokensUsed'
    BY <2>1 DEF CounterInvariant, KeysInUse
  <2> QED
    BY <2>6, <2>7, <2>8, <2>9, <2>10, <2>11 DEF CounterInvariant, KeysInUse
<1>10. ASSUME NEW e \in Editors, AbandonToken(e)
       PROVE  CounterInvariant'
  <2>1. \A d \in Editors : \/ altering'[d] = NULL
                           \/ altering'[d] = altering[d] /\ unseen'[d] = unseen[d]
    BY <1>10 DEF AbandonToken, TokenTypeOK
  <2> QED BY <1>10, <2>1, QuietStep DEF AbandonToken
<1>11. ASSUME NEW c \in Checkers, NEW row \in tokens, FindValid(c, row)
       PROVE  CounterInvariant'
  <2>1. \A d \in Checkers : checking'[d] = checking[d] \/ checking'[d].token = row.id
    BY <1>11 DEF FindValid, TokenTypeOK
  <2> QED BY <1>11, <2>1, QuietStep DEF FindValid, Observe
<1>12. ASSUME NEW c \in Checkers, Allow(c) \/ Deny(c)
       PROVE  CounterInvariant'
  <2>1. /\ UNCHANGED <<tokensUsed, altering, missed>>
        /\ \A d \in Checkers : checking'[d] = NULL \/ checking'[d] = checking[d]
    BY <1>12 DEF Allow, Deny, EndCheck, TokenTypeOK, ObserveAllowed, ObserveDenied
  <2>2. /\ \A row \in tokens' : \E old \in tokens : row.id = old.id
        /\ CountersAccountedFor'
        /\ FormsAccountedFor'
        /\ \A t \in TokenIds : t > tokensUsed => counted'[t] = counted[t]
    BY <1>12, CountsTogether
  <2>3. KeysInUse'
    BY <2>1, <2>2 DEF CounterInvariant, KeysInUse
  <2> QED BY <2>2, <2>3 DEF CounterInvariant
<1>13. ASSUME NEW c \in Checkers, FailCheck(c)
       PROVE  CounterInvariant'
  <2>1. \A d \in Checkers : checking'[d] = NULL \/ checking'[d] = checking[d]
    BY <1>13 DEF FailCheck, EndCheck, TokenTypeOK
  <2> QED BY <1>13, <2>1, QuietStep DEF FailCheck, Observe
<1> QED
  BY <1>1, <1>2, <1>3, <1>4, <1>5, <1>6, <1>7, <1>8, <1>9, <1>10, <1>11, <1>12, <1>13
     DEF TokenNext, Portal, Superuser, Check

LEMMA CountersInductive == TokenSpec => []CounterInvariant
<1>1. TokenInit => CounterInvariant
  BY DEF TokenInit, CounterInvariant, KeysInUse, CountersAccountedFor, FormsAccountedFor
<1>2. TokenTypeOK /\ CounterInvariant /\ [TokenNext]_checkVars => CounterInvariant'
  <2> SUFFICES ASSUME TokenTypeOK, CounterInvariant, [TokenNext]_checkVars
               PROVE  CounterInvariant'
    OBVIOUS
  <2>1. CASE UNCHANGED checkVars
    BY <2>1 DEF checkVars, tokenVars, CounterInvariant, KeysInUse, CountersAccountedFor,
                FormsAccountedFor, Accounts
  <2> QED BY <2>1, StepKeepsCounters
<1> QED
  BY <1>1, <1>2, TokensTypeCorrect, PTL DEF TokenSpec

\* record_allowed and record_denied (models.py:325-333) lose no count and add none, with
\* any number of checks at once; what a token's counters lack are the decisions that a
\* change view (admin.py:345-369) has overwritten.
THEOREM CountersAreAccounted == TokenSpec => []CountersAccountedFor
<1>1. CounterInvariant => CountersAccountedFor
  BY DEF CounterInvariant
<1> QED
  BY <1>1, CountersInductive, PTL

\* So even a change view's save of old counters claims nothing that was not decided.
THEOREM CountersStayBehind == TokenSpec => []CountersNeverAhead
<1>1. TokenTypeOK /\ CountersAccountedFor => CountersNeverAhead
  <2> SUFFICES ASSUME TokenTypeOK, CountersAccountedFor, NEW row \in tokens
               PROVE  /\ row.allowed_count <= counted[row.id].allowed
                      /\ row.denied_count <= counted[row.id].denied
    BY DEF CountersNeverAhead
  <2>1. /\ row.allowed_count \in Nat /\ row.denied_count \in Nat
        /\ missed[row.id].allowed \in Nat /\ missed[row.id].denied \in Nat
        /\ row.allowed_count + missed[row.id].allowed = counted[row.id].allowed
        /\ row.denied_count + missed[row.id].denied = counted[row.id].denied
    BY DEF TokenTypeOK, TokenRows, Decisions, CountersAccountedFor, Accounts
  <2> QED BY <2>1
<1> QED
  BY <1>1, TokensTypeCorrect, CountersAreAccounted, PTL

-----------------------------------------------------------------------------
(* The users' rights                                                       *)

\* The project table behaves here as in its own module.
LEMMA RightsProjectStep == [RightsNext]_rightsVars => [Next]_projectVars
BY DEF RightsNext, CreateProjectAs, DeleteProjectAs, OpenProjectAs, SetAdministrators,
       CommitProject, SaveProjectAs, AbandonProjectAs, SaveUser, OpenUser, UserDetails,
       EndLogin, BeginLogin, Next, Change, rightsVars

\* apps/authz/admin.py, apps.py: everything that is proved of the project table holds
\* beside the administrators relation, the user rows and the logins.
THEOREM RightsKeepProjects == RightsSpec => Spec
<1>1. RightsInit => Init
  BY DEF RightsInit
<1> QED
  BY <1>1, RightsProjectStep, PTL DEF RightsSpec, Spec

-----------------------------------------------------------------------------
(* Type correctness                                                        *)

LEMMA RightsInitTyped == RightsInit => RightsTypeOK
<1>1. RightsInit => TypeOK
  BY InitTyped DEF RightsInit
<1> QED
  BY <1>1, RightsAssumption DEF RightsInit, RightsTypeOK, RightsAssumption

\* A whole user row leaves sets of users.
LEMMA WrittenUsers ==
    ASSUME NEW row \in UserRows, WriteUser(row), RightsTypeOK
    PROVE  staff' \subseteq Users /\ superusers' \subseteq Users /\ lowered' \subseteq Users
BY DEF WriteUser, UserRows, RightsTypeOK

LEMMA RightsStepTyped == RightsTypeOK /\ TypeOK' /\ RightsNext => RightsTypeOK'
<1> SUFFICES ASSUME RightsTypeOK, TypeOK', RightsNext PROVE RightsTypeOK'
  OBVIOUS
<1> USE DEF RightsTypeOK, userVars
<1>1. ASSUME NEW p \in Projects, NEW row \in Rows, NEW list \in SUBSET Users,
             CreateProjectAs(p, row, list)
      PROVE  RightsTypeOK'
  BY <1>1 DEF CreateProjectAs, Raise, Raised
<1>2. ASSUME NEW p \in Projects, DeleteProjectAs(p)
      PROVE  RightsTypeOK'
  BY <1>2 DEF DeleteProjectAs
<1>3. ASSUME NEW e \in Editors, NEW p \in Projects, NEW role \in Roles,
             OpenProjectAs(e, p, role)
      PROVE  RightsTypeOK'
  BY <1>3 DEF OpenProjectAs
<1>4. ASSUME NEW e \in Editors, NEW list \in SUBSET Users, SetAdministrators(e, list)
      PROVE  RightsTypeOK'
  <2>1. editing[e].project \in Projects
    BY <1>4 DEF SetAdministrators, TypeOK, Edits
  <2> DEFINE now == administrators[editing[e].project]
             grant == [add |-> list \ now, remove |-> now \ list,
                       raise |-> Raised(list \ now)]
  <2>2. grant \in Grants
    BY <2>1 DEF Grants, Raised
  <2>3. granting' = [granting EXCEPT ![e] = grant]
    BY <1>4 DEF SetAdministrators
  <2> HIDE DEF grant
  <2> QED BY <1>4, <2>2, <2>3 DEF SetAdministrators
<1>5. ASSUME NEW e \in Editors, CommitProject(e)
      PROVE  RightsTypeOK'
  <2>1. granting[e] \in Grants
    BY <1>5 DEF CommitProject
  <2>2. granting[e].add \subseteq Users /\ granting[e].raise \subseteq Users
    BY <2>1 DEF Grants
  <2> QED BY <1>5, <2>2 DEF CommitProject
<1>6. ASSUME NEW e \in Editors, SaveProjectAs(e)
      PROVE  RightsTypeOK'
  BY <1>6 DEF SaveProjectAs
<1>7. ASSUME NEW e \in Editors, AbandonProjectAs(e)
      PROVE  RightsTypeOK'
  BY <1>7 DEF AbandonProjectAs
<1>8. ASSUME NEW e \in Editors, SaveUser(e)
      PROVE  RightsTypeOK'
  <2>1. userForm[e] \in UserRows
    BY <1>8 DEF SaveUser
  <2>2. userForm[e].user \in Users
    BY <2>1 DEF UserRows
  <2> QED BY <1>8, <2>1, <2>2, WrittenUsers DEF SaveUser
<1>9. ASSUME NEW e \in Editors, NEW row \in UserRows, OpenUser(e, row)
      PROVE  RightsTypeOK'
  BY <1>9 DEF OpenUser
<1>10. ASSUME NEW l \in Logins, UserDetails(l)
       PROVE  RightsTypeOK'
  <2>1. login[l] \in UserRows
    BY <1>10 DEF UserDetails
  <2> QED BY <1>10, <2>1, WrittenUsers DEF UserDetails
<1>11. ASSUME NEW l \in Logins, EndLogin(l)
       PROVE  RightsTypeOK'
  <2>1. login[l] \in UserRows
    BY <1>11 DEF EndLogin
  <2>2. [login[l] EXCEPT !.is_staff = TRUE, !.is_superuser = TRUE] \in UserRows
    BY <2>1 DEF UserRows
  <2>3. staff' \subseteq Users /\ superusers' \subseteq Users /\ lowered' \subseteq Users
    BY <1>11, <2>2, WrittenUsers DEF EndLogin
  <2> QED BY <1>11, <2>3 DEF EndLogin
<1>12. ASSUME NEW l \in Logins, NEW u \in Users, BeginLogin(l, u)
       PROVE  RightsTypeOK'
  <2>1. [user |-> u, is_staff |-> u \in staff, is_superuser |-> u \in superusers]
           \in UserRows
    BY DEF UserRows
  <2> QED BY <1>12, <2>1, RightsAssumption DEF BeginLogin, RightsAssumption
<1>13. CASE DayPasses /\ UNCHANGED <<userVars, administrators, granting, userForm>>
  BY <1>13
<1> QED
  BY <1>1, <1>2, <1>3, <1>4, <1>5, <1>6, <1>7, <1>8, <1>9, <1>10, <1>11, <1>12, <1>13
     DEF RightsNext

\* The flags, the relation, the forms and the logins are always well typed.
THEOREM RightsTypeCorrect == RightsSpec => []RightsTypeOK
<1>1. RightsSpec => []TypeOK
  BY RightsKeepProjects, TypeCorrect
<1>2. RightsTypeOK /\ TypeOK' /\ [RightsNext]_rightsVars => RightsTypeOK'
  BY RightsStepTyped DEF rightsVars, userVars, projectVars, RightsTypeOK
<1> QED
  BY <1>1, <1>2, RightsInitTyped, PTL DEF RightsSpec

-----------------------------------------------------------------------------
(* Administrators are staff                                                *)

\* A user who has once been staff, and is an administrator, does not get lost: the flag
\* is taken only by a whole-row save, which lowered remembers.
Known == staff \cup lowered

\* Also the users that an open transaction is about to add.
StaffInvariant ==
    /\ AdministratorsAreStaff
    /\ \A e \in Editors : granting[e] # NULL =>
           granting[e].add \subseteq Known \cup granting[e].raise

LEMMA WriteKeepsKnown == ASSUME NEW row, WriteUser(row) PROVE Known \subseteq Known'
BY DEF WriteUser, Known

\* No step takes a user out of Known.
LEMMA StepKeepsKnown == [RightsNext]_rightsVars => Known \subseteq Known'
<1> SUFFICES ASSUME [RightsNext]_rightsVars PROVE Known \subseteq Known'
  OBVIOUS
<1>1. ASSUME NEW p \in Projects, NEW row \in Rows, NEW list \in SUBSET Users,
             CreateProjectAs(p, row, list)
      PROVE  Known \subseteq Known'
  BY <1>1 DEF CreateProjectAs, Raise, Known
<1>2. ASSUME NEW e \in Editors, CommitProject(e)
      PROVE  Known \subseteq Known'
  BY <1>2 DEF CommitProject, Known
<1>3. ASSUME NEW e \in Editors, SaveUser(e)
      PROVE  Known \subseteq Known'
  BY <1>3, WriteKeepsKnown DEF SaveUser
<1>4. ASSUME NEW l \in Logins, UserDetails(l)
      PROVE  Known \subseteq Known'
  BY <1>4, WriteKeepsKnown DEF UserDetails
<1>5. ASSUME NEW l \in Logins, EndLogin(l)
      PROVE  Known \subseteq Known'
  <2>1. CASE Promotes(login[l])
    BY <1>5, <2>1, WriteKeepsKnown DEF EndLogin
  <2>2. CASE ~ Promotes(login[l])
    BY <1>5, <2>2 DEF EndLogin, Known
  <2> QED BY <2>1, <2>2
<1>6. ASSUME UNCHANGED <<staff, lowered>> PROVE Known \subseteq Known'
  BY <1>6 DEF Known
<1> QED
  BY <1>1, <1>2, <1>3, <1>4, <1>5, <1>6
     DEF RightsNext, DeleteProjectAs, OpenProjectAs, SetAdministrators, SaveProjectAs,
         AbandonProjectAs, OpenUser, BeginLogin, rightsVars, userVars

\* A step that neither changes the relation nor opens a transaction.
LEMMA RelationKept ==
    ASSUME RightsTypeOK, StaffInvariant, Known \subseteq Known',
           UNCHANGED <<administrators, granting>>
    PROVE  StaffInvariant'
BY DEF StaffInvariant, AdministratorsAreStaff, Known

LEMMA StepKeepsStaff ==
    RightsTypeOK /\ RightsTypeOK' /\ StaffInvariant /\ [RightsNext]_rightsVars => StaffInvariant'
<1> SUFFICES ASSUME RightsTypeOK, RightsTypeOK', StaffInvariant, [RightsNext]_rightsVars
             PROVE  StaffInvariant'
  OBVIOUS
<1>0. Known \subseteq Known'
  BY StepKeepsKnown
<1>1. ASSUME NEW p \in Projects, NEW row \in Rows, NEW list \in SUBSET Users,
             CreateProjectAs(p, row, list)
      PROVE  StaffInvariant'
  <2>1. list \subseteq staff'
    BY <1>1 DEF CreateProjectAs, Raise, Raised
  <2> QED
    BY <1>0, <1>1, <2>1 DEF CreateProjectAs, StaffInvariant, AdministratorsAreStaff, Known,
                            RightsTypeOK
<1>2. ASSUME NEW p \in Projects, DeleteProjectAs(p)
      PROVE  StaffInvariant'
  BY <1>0, <1>2 DEF DeleteProjectAs, StaffInvariant, AdministratorsAreStaff, Known,
                    RightsTypeOK
<1>3. ASSUME NEW e \in Editors, NEW list \in SUBSET Users, SetAdministrators(e, list)
      PROVE  StaffInvariant'
  <2> DEFINE now == administrators[editing[e].project]
             grant == [add |-> list \ now, remove |-> now \ list,
                       raise |-> Raised(list \ now)]
  <2>1. grant.add \subseteq Known \cup grant.raise
    BY DEF Raised, Known
  <2>2. granting' = [granting EXCEPT ![e] = grant] /\ UNCHANGED administrators
    BY <1>3 DEF SetAdministrators
  <2> HIDE DEF grant
  <2> QED
    BY <1>0, <2>1, <2>2 DEF StaffInvariant, AdministratorsAreStaff, Known, RightsTypeOK
<1>4. ASSUME NEW e \in Editors, CommitProject(e)
      PROVE  StaffInvariant'
  <2>1. granting[e].add \subseteq Known'
    BY <1>0, <1>4 DEF CommitProject, StaffInvariant, Known
  <2>2. /\ administrators' = [administrators EXCEPT ![editing[e].project] =
                                 (@ \cup granting[e].add) \ granting[e].remove]
        /\ granting' = [granting EXCEPT ![e] = NULL]
    BY <1>4 DEF CommitProject
  <2> QED
    BY <1>0, <2>1, <2>2 DEF StaffInvariant, AdministratorsAreStaff, Known, RightsTypeOK
<1>5. ASSUME NEW e \in Editors, AbandonProjectAs(e)
      PROVE  StaffInvariant'
  BY <1>0, <1>5 DEF AbandonProjectAs, StaffInvariant, AdministratorsAreStaff, Known,
                    RightsTypeOK
<1>6. CASE UNCHANGED <<administrators, granting>>
  BY <1>0, <1>6, RelationKept
<1> QED
  BY <1>1, <1>2, <1>3, <1>4, <1>5, <1>6
     DEF RightsNext, OpenProjectAs, SaveProjectAs, OpenUser, SaveUser, BeginLogin,
         UserDetails, EndLogin, rightsVars, userVars

\* apps.py:5-17: whoever administers a project is staff, unless a save of his user row
\* took the flag, for any number of requests that change the relation at once.
THEOREM AdministratorsStayStaff == RightsSpec => []AdministratorsAreStaff
<1>1. RightsInit => StaffInvariant
  BY DEF RightsInit, StaffInvariant, AdministratorsAreStaff
<1>2. StaffInvariant => AdministratorsAreStaff
  BY DEF StaffInvariant
<1> QED
  BY <1>1, <1>2, RightsTypeCorrect, StepKeepsStaff, PTL DEF RightsSpec

-----------------------------------------------------------------------------
(* Superusers                                                              *)

Entitled == granted \cup Promoted

\* A row that a login has loaded makes nobody a superuser who may not be one.
SuperuserInvariant ==
    /\ SuperusersWereMade
    /\ \A l \in Logins : login[l] # NULL /\ login[l].is_superuser => login[l].user \in Entitled

\* A whole-row save of an entitled user's flag.
LEMMA WriteKeepsMade ==
    ASSUME NEW row, WriteUser(row), row.is_superuser => row.user \in Entitled',
           SuperuserInvariant, Entitled \subseteq Entitled', UNCHANGED login
    PROVE  SuperuserInvariant'
BY DEF WriteUser, SuperuserInvariant, SuperusersWereMade, Entitled

LEMMA StepKeepsMade ==
    RightsTypeOK /\ SuperuserInvariant /\ [RightsNext]_rightsVars => SuperuserInvariant'
<1> SUFFICES ASSUME RightsTypeOK, SuperuserInvariant, [RightsNext]_rightsVars
             PROVE  SuperuserInvariant'
  OBVIOUS
<1>1. ASSUME NEW e \in Editors, SaveUser(e)
      PROVE  SuperuserInvariant'
  <2>1. Entitled \subseteq Entitled' /\ UNCHANGED login
    BY <1>1 DEF SaveUser, Entitled
  <2>2. userForm[e].is_superuser => userForm[e].user \in Entitled'
    BY <1>1 DEF SaveUser, Entitled
  <2> QED BY <1>1, <2>1, <2>2, WriteKeepsMade DEF SaveUser
<1>2. ASSUME NEW l \in Logins, UserDetails(l)
      PROVE  SuperuserInvariant'
  <2>1. Entitled' = Entitled /\ UNCHANGED login
    BY <1>2 DEF UserDetails, Entitled
  <2>2. login[l].is_superuser => login[l].user \in Entitled
    BY <1>2 DEF UserDetails, SuperuserInvariant
  <2> QED BY <1>2, <2>1, <2>2, WriteKeepsMade DEF UserDetails
<1>3. ASSUME NEW l \in Logins, EndLogin(l)
      PROVE  SuperuserInvariant'
  <2>1. superusers' \subseteq Entitled
    <3>1. CASE Promotes(login[l])
      <4>1. login[l] \in UserRows
        BY <1>3 DEF EndLogin, RightsTypeOK
      <4>2. DEFINE row == [login[l] EXCEPT !.is_staff = TRUE, !.is_superuser = TRUE]
      <4>3. row.user = login[l].user /\ WriteUser(row)
        BY <1>3, <3>1, <4>1 DEF EndLogin, UserRows
      <4>4. superusers' \subseteq superusers \cup {row.user}
        BY <4>3 DEF WriteUser
      <4> QED BY <3>1, <4>3, <4>4 DEF Promotes, SuperuserInvariant, SuperusersWereMade, Entitled
    <3>2. CASE ~ Promotes(login[l])
      BY <1>3, <3>2 DEF EndLogin, SuperuserInvariant, SuperusersWereMade, Entitled
    <3> QED BY <3>1, <3>2
  <2>2. Entitled' = Entitled
    BY <1>3 DEF EndLogin, Entitled
  <2>3. \A k \in Logins : login'[k] # NULL => login'[k] = login[k]
    BY <1>3 DEF EndLogin, RightsTypeOK
  <2> QED BY <2>1, <2>2, <2>3 DEF SuperuserInvariant, SuperusersWereMade, Entitled
<1>4. ASSUME NEW l \in Logins, NEW u \in Users, BeginLogin(l, u)
      PROVE  SuperuserInvariant'
  <2> DEFINE row == [user |-> u, is_staff |-> u \in staff, is_superuser |-> u \in superusers]
  <2>1. login' = [login EXCEPT ![l] = row] /\ UNCHANGED <<superusers, granted>>
    BY <1>4 DEF BeginLogin
  <2>2. row.is_superuser => row.user \in Entitled
    BY DEF SuperuserInvariant, SuperusersWereMade, Entitled
  <2> HIDE DEF row
  <2> QED
    BY <2>1, <2>2 DEF SuperuserInvariant, SuperusersWereMade, Entitled, RightsTypeOK
<1>5. CASE UNCHANGED <<superusers, granted, login>>
  BY <1>5 DEF SuperuserInvariant, SuperusersWereMade, Entitled
<1> QED
  BY <1>1, <1>2, <1>3, <1>4, <1>5
     DEF RightsNext, CreateProjectAs, DeleteProjectAs, OpenProjectAs, SetAdministrators,
         CommitProject, SaveProjectAs, AbandonProjectAs, OpenUser, rightsVars, userVars

\* pipeline.py:25-37: every superuser was made one by a superuser's form or is the
\* configured OIDC user, whatever rows logins and forms loaded before.
THEOREM SuperusersMade == RightsSpec => []SuperusersWereMade
<1>1. RightsInit => SuperuserInvariant
  BY DEF RightsInit, SuperuserInvariant, SuperusersWereMade
<1>2. SuperuserInvariant => SuperusersWereMade
  BY DEF SuperuserInvariant
<1> QED
  BY <1>1, <1>2, RightsTypeCorrect, StepKeepsMade, PTL DEF RightsSpec
==============================================================================
