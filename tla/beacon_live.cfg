SPECIFICATION ScheduleSpec
CONSTANTS
    Jobs = {j1, j2}
    None = None
    MaxAttempts = 2
    MaxTries = 1
    Verify = FALSE
    Quiet = 1
    Warmup = 1
    RetryInterval = 1
    CollisionWindow = 1
    TxCap = 1
    Gap = 1
    MaxAge = 1
INVARIANTS
    ScheduleTypeOK
    WatchdogAddsOnce
PROPERTIES
    ReturnsAfterStop
    ReturnsOnQuietChannel
    BeaconsSpaced
    OnTheAir
CHECK_DEADLOCK FALSE
