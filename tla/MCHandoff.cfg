\* What may go wrong without deadlines passing early or the disk failing.
SPECIFICATION FairSpec
CHECK_DEADLOCK FALSE
CONSTANTS
    Failures = {"cli", "worker", "spawn"}
    MaxCancels = 2
INVARIANTS
    TypeOK
    LostNeverStarted
    ExitIsRecorded
    NoOrphan
    KilledIsNotFailed
PROPERTIES
    CancelEndsTarget
    CliAnswers
