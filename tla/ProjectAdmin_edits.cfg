\* Two projects, two editors: what concurrent saves cannot break.
CONSTANTS
    NULL = NULL
    Projects = {p1, p2}
    Classes = {c1}
    Codes = {j1}
    QuotaKeys = {k1, k2}
    EndDates = {}
    Approvals = {FALSE, TRUE}
    Editors = {e1, e2}
    Roles = {"superuser", "administrator"}
    LastDay = 1
SYMMETRY EditorSymmetry
SPECIFICATION Spec
INVARIANTS
    JoinCodesUnique
    QuotaKeyImmutable
    ClassFromSuperuser
\* Every primary key may be used up and deleted again: then nothing is left to do.
CHECK_DEADLOCK FALSE
