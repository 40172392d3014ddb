\* Connections break and requests execute after their timeout; one model has no backend.
CONSTANTS
    NULL = NULL
    NoOne = NoOne
    ClassAuth = ClassAuth
    Projects = {p1}
    Models = {m1, m2}
    Classes = {c1}
    Limits <- TwoLimits
    Backends = {m1}
    Deployers = {d1, d2}
    LockCanBeLost = TRUE
    LateRequests = TRUE
    MaxEdits = 1
SPECIFICATION FairSpec
PROPERTIES
    DeployTakesEffect
    UnlocksOwnLock
    DeploymentEnds
