SPECIFICATION Spec
CONSTANTS
    Jobs = {j1, j2, j3}
    None = None
    MaxAttempts = 2
    MaxTries = 1
    Verify = TRUE
    Quiet = 1
    Warmup = 1
    RetryInterval = 1
    CollisionWindow = 1
    TxCap = 1
SYMMETRY Symmetry
INVARIANTS
    TypeOK
    OneExpectation
    OneRetryPerBeacon
    OneFrameAfterStop
PROPERTIES
    PromptVerdictsHold
CHECK_DEADLOCK FALSE
