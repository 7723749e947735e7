SPECIFICATION FairSpec
CONSTANTS
    a1 = a1
    r1 = r1
    w1 = w1
    Runs = {r1}
    LiveRuns = {r1}
    Workers = {w1}
    Activities = {a1}
    MaxPerDevice = 2
    MaxAttempts = 2
    Races = {"refusal"}
    EventKinds = {"starting", "started", "progress", "failed"}
    MaxRows = 2
    MaxGen = 2
    MaxCrashes = 0
INVARIANTS NotBoth EndNotLost OneStart
PROPERTIES OutboxDrains EndArrives
CHECK_DEADLOCK FALSE
