\* Everything may go wrong.
SPECIFICATION FairSpec
CHECK_DEADLOCK FALSE
CONSTANTS
    Failures = {"slow", "cli", "worker", "spawn", "store"}
    MaxCancels = 2
INVARIANTS
    SuccessMeansStarted
    TargetNeedsAck
PROPERTIES
    HandoffResolves
    GivenUpStops
