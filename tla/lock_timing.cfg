SPECIFICATION Spec
CONSTANTS
    LockTtl = 60
    Buffer = 10
    BaseDelay = 4
    MaxDelay = 120
    PromoteInterval = 2
    RecoveryInterval = 10
    MaxTimer = 130
    Timeouts <- SomeTimeouts
    MaxAttempts = 2
    Batch = 1
    Latency = 1
    Skew = 2
INVARIANTS TypeOK LockOutlivesAttempt TakenOverInTime PromotedInTime
CHECK_DEADLOCK FALSE
