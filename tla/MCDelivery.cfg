SPECIFICATION Spec
CONSTANTS
    d1 = d1
    d2 = d2
    NoDrainer = NoDrainer
    Runs = {1}
    Drainers <- TwoDrainers
    UsedKinds <- AttentionKindsUsed
    MaxEvents = 4
    BatchSize = 2
    MaxActiveRuns = 1
    MaxFaults = 2
    LateKinds = {"post"}
    MaxLate = 1
    PruneModes = {FALSE}
    EventRetention = TRUE
CHECK_DEADLOCK FALSE
INVARIANTS TypeOK DeliveredWasAccepted PrunedWasUploaded DuplicatesAccepted AttentionFollowsEvents
PROPERTIES ImplementsProjection
