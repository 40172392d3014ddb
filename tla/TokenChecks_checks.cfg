\* Two checks overlap each other and every edit of the token and its project.
CONSTANTS
    NULL = NULL
    Projects = {p1}
    Classes = {a1}
    Codes = {}
    QuotaKeys = {k1}
    EndDates = {0}
    Approvals = {FALSE}
    Editors = {e1}
    Roles = {"superuser"}
    LastDay = 1
    Users = {u1}
    Superusers = {}
    Lifetimes = {1}
    Creators = {w1}
    Checkers = {c1, c2}
    TokenEdits = TRUE
    LastToken = 1
    LastCheck = 2
SPECIFICATION TokenSpec
SYMMETRY CheckerSymmetry
INVARIANTS
    TokenTypeOK
    CountersAccountedFor
PROPERTY
    AcceptedWasEligible
\* Every primary key may be used up and deleted again: then nothing is left to do.
CHECK_DEADLOCK FALSE
