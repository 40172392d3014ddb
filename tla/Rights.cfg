\* A project, two requests at once, a superuser and another user, and logins.
CONSTANTS
    NULL = NULL
    Projects = {p1}
    Classes = {}
    Codes = {}
    QuotaKeys = {k1}
    EndDates = {}
    Approvals = {TRUE}
    Editors = {e1, e2}
    Roles = {"superuser", "administrator"}
    LastDay = 1
    Root = root
    Users = {root, u1}
    Promoted = {root}
    Logins = {l1}
    MaxLogins = 2
SYMMETRY EditorSymmetry
SPECIFICATION RightsSpec
INVARIANTS
    RightsTypeOK
    AdministratorsAreStaff
    SuperusersWereMade
\* Every primary key may be used up and deleted again: then nothing is left to do.
CHECK_DEADLOCK FALSE
