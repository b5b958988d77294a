SPECIFICATION Spec
CONSTANTS
    Jobs = {j1, j2}
    None = None
    MaxAttempts = 2
    MaxTries = 1
    Verify = FALSE
    Quiet = 1
    Warmup = 1
    RetryInterval = 1
    CollisionWindow = 1
    TxCap = 1
PROPERTIES
    CollisionHeardAfterSend
CHECK_DEADLOCK FALSE
