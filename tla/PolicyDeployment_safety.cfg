\* Two web workers deploy while a superuser edits; connections stay up.
CONSTANTS
    NULL = NULL
    NoOne = NoOne
    ClassAuth = ClassAuth
    Projects = {p1, p2}
    Models = {m1}
    Classes = {c1, c2}
    Limits <- TwoLimits
    Backends = {m1}
    Deployers = {d1, d2}
    LockCanBeLost = FALSE
    LateRequests = FALSE
    MaxEdits = 2
SYMMETRY DeployerSymmetry
SPECIFICATION Spec
INVARIANTS
    MutualExclusion
    ReferencesResolve
PROPERTY
    DeployTakesEffect
