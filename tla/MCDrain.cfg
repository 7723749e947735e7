SPECIFICATION FairSpec
CONSTANTS
    d1 = d1
    d2 = d2
    NoDrainer = NoDrainer
    Runs = {1, 2}
    Drainers <- OneDrainer
    UsedKinds <- LostKindsUsed
    MaxEvents = 3
    BatchSize = 4
    MaxActiveRuns = 2
    MaxFaults = 1
    LateKinds = {"put"}
    MaxLate = 1
    PruneModes = {FALSE, TRUE}
    EventRetention = FALSE
CHECK_DEADLOCK FALSE
PROPERTIES InOrderRunsDrain
