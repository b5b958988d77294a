SPECIFICATION PromptSpec
CONSTANTS
    Forwarder = Forwarder
    Parts = {Forwarder, Listener}
    TxCap = 1
    SendCap = 1
    MaxFrames = 1
INVARIANTS
    CleanExit
CHECK_DEADLOCK FALSE
