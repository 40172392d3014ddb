\* What the dashboard shows after a project got another shortcut.
CONSTANTS
    r1 = r1
    r2 = r2
    r3 = r3
    u1 = u1
    p1 = p1
    p2 = p2
    m1 = m1
    NULL = NULL
    RequestIds = {r1, r2, r3}
    Users = {u1}
    Projects = {p1, p2}
    Models = {m1}
    Shortcuts = {1, 2, 3}
    Call <- MCCall
    Stamped = {r1, r2, r3}
    LastDay = 0
    MaxRenames = 1
SPECIFICATION Spec
INVARIANTS
    DashboardShowsUsage
\* Every request may be booked on the last day: then nothing is left to do.
CHECK_DEADLOCK FALSE
