SPECIFICATION FairSpec
CONSTANTS
    Forwarder = Forwarder
    Parts = {Forwarder, Listener}
    TxCap = 1
    SendCap = 1
    MaxFrames = 3
INVARIANTS
    TypeOK
    HandoversHaveReceivers
    PanicsOnlyIf
PROPERTIES
    ProcessExits
CHECK_DEADLOCK FALSE
