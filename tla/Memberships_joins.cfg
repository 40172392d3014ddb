\* Two joins at once, and an administrator.
CONSTANTS
    NULL = NULL
    Projects = {p1}
    Classes = {}
    Codes = {j1}
    QuotaKeys = {k1}
    EndDates = {}
    Approvals = {FALSE, TRUE}
    Editors = {e1}
    Roles = {"administrator"}
    LastDay = 0
    Users = {u1, u2}
    Joiners = {w1, w2}
    LastRow = 2
SYMMETRY JoinerSymmetry
SPECIFICATION MembershipSpec
INVARIANTS
    MembershipTypeOK
    OneMembership
PROPERTIES
    JoinKeepsPromise
    JoinUndoesNothing
\* Every primary key may be used up and deleted again: then nothing is left to do.
CHECK_DEADLOCK FALSE
