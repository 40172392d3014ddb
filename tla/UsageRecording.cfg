\* Two workers, every interleaving: safety, refinement and liveness.
CONSTANTS
    q1 = q1
    q2 = q2
    q3 = q3
    q4 = q4
    k1 = k1
    k2 = k2
    None = None
    RequestIds = {q1, q2, q3, q4}
    Identities = {k1, k2}
    Workers = {w1, w2}
    Records <- MCRecords
    Messages <- MCMessages
    Unstorable <- MCUnstorable
SPECIFICATION FairSpec
INVARIANTS
    AggregateMatchesEvents
    OneEventPerRequest
PROPERTIES
    ReturnsOnlyWhenBooked
    LedgerImplemented
    EveryMessageEnds
