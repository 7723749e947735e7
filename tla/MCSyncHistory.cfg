SPECIFICATION Spec
CONSTANTS
    r1 = r1
    r2 = r2
    r3 = r3
    m1 = m1
    Runs = {r1, r2, r3}
    Machines = {m1}
    Window = 1
    PageSize = 1
    PageTries = 2
    Identities = 1
    MaxRevision = 7
    MaxFaults = 0
    Paging = TRUE
INVARIANTS AllClearIsTrue
CHECK_DEADLOCK FALSE
