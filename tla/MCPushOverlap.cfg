SPECIFICATION Spec
CONSTANTS
    a1 = a1
    r1 = r1
    w1 = w1
    w2 = w2
    Runs = {r1}
    LiveRuns = {r1}
    Workers = {w1, w2}
    Activities = {a1}
    MaxPerDevice = 1
    MaxAttempts = 2
    Races = {"sending", "registering", "early", "deadlock", "crash", "expiry", "quota"}
    EventKinds = {"starting", "started", "failed"}
    MaxRows = 2
    MaxGen = 1
    MaxCrashes = 1
INVARIANTS TypeOK SentOnce NeverSilent
PROPERTIES NoLateStart
CHECK_DEADLOCK FALSE
