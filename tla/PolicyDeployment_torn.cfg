\* Two edits may fall between the two queries of one deployment.
CONSTANTS
    NULL = NULL
    NoOne = NoOne
    ClassAuth = ClassAuth
    Projects = {p1}
    Models = {m1}
    Classes = {c1, c2}
    Limits <- OneLimit
    Backends = {m1}
    Deployers = {d1}
    LockCanBeLost = FALSE
    LateRequests = FALSE
    MaxEdits = 2
SPECIFICATION Spec
PROPERTY
    PrunesOnlyStale
