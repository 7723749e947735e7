SPECIFICATION FairSpec
CONSTANTS
    d1 = d1
    d2 = d2
    NoDrainer = NoDrainer
    Runs = {1}
    Drainers <- OneDrainer
    UsedKinds <- LostKindsUsed
    MaxEvents = 3
    BatchSize = 3
    MaxActiveRuns = 1
    MaxFaults = 1
    LateKinds = {}
    MaxLate = 0
    PruneModes = {FALSE}
    EventRetention = FALSE
CHECK_DEADLOCK FALSE
PROPERTIES TerminalReachesServer
