\* Shortcuts change hands while requests run and midnight passes.
CONSTANTS
    r1 = r1
    r2 = r2
    r3 = r3
    u1 = u1
    p1 = p1
    p2 = p2
    m1 = m1
    NULL = NULL
    RequestIds = {r1, r2, r3}
    Users = {u1}
    Projects = {p1, p2}
    Models = {m1}
    Shortcuts = {1, 2, 3}
    Call <- MCCall
    Stamped = {r1, r3}
    LastDay = 1
    MaxRenames = 2
SPECIFICATION Spec
INVARIANTS
    ExactUnlessSplit
    ReportsNeverOver
    BookedToItsProject
\* Every request may be booked on the last day: then nothing is left to do.
CHECK_DEADLOCK FALSE
