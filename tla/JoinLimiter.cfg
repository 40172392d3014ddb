\* Two pods, two releases, one user who tries codes.
CONSTANTS
    NULL = NULL
    Pods = {p1, p2}
    Releases = {1, 9}
    Deferred <- MCDeferred
    Projects = {1, 2}
    QuotaKeys = {k1, k2}
    MaxExits = 2
    Users = {u1}
    Limit = 2
    Window = 2
SPECIFICATION FairSpec
INVARIANTS
    TypeOK
    MigrationsSerialized
    ServesOnItsSchema
    RowsComplete
    LookupsBounded
PROPERTIES
    LockoutEnds
    EveryPodServes
