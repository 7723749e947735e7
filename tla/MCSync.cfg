SPECIFICATION FairSpec
CONSTANTS
    r1 = r1
    r2 = r2
    m1 = m1
    Runs = {r1, r2}
    Machines = {m1}
    Window = 1
    PageSize = 1
    PageTries = 2
    Identities = 2
    MaxRevision = 5
    MaxFaults = 1
    Paging = TRUE
INVARIANTS TypeOK CursorMeansCurrent HistoryHasNoGap
PROPERTIES Converges
CHECK_DEADLOCK FALSE
