SPECIFICATION Spec
CONSTANTS
    alice = alice  bob = bob  me = me  m1 = m1  m2 = m2
    None = None
    MyCall = me
    Stations = {alice, bob, me}
    Messages <- OneMessage
    Source <- FromAlice
    Destination <- ToBob
    InternetTraffic <- FullInternet
    RFTraffic <- FullRF
    Timeout = 0
    Window = 2
    GateDelay = 1
    Interval = 2
    InboundCap = 1
    TxCap = 1
INVARIANTS
    TypeOK
    NothingPendingGatedElsewhere
    SendingStillWanted
    HeldForGateDelay
PROPERTY ImplementsRelay
CHECK_DEADLOCK FALSE
