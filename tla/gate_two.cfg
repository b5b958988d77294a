SPECIFICATION FairSpec
CONSTANTS
    alice = alice  bob = bob  me = me  m1 = m1  m2 = m2
    None = None
    MyCall = me
    Stations = {alice, bob, me}
    Messages <- TwoMessages
    Source <- FromAlice
    Destination <- ToBob
    InternetTraffic <- PairInternet
    RFTraffic <- HeardRF
    Timeout = 0
    Window = 1
    GateDelay = 1
    Interval = 1
    InboundCap = 1
    TxCap = 1
INVARIANTS
    SpacedWhileSending
PROPERTIES
    PendingResolved
    StopsAfterStop
CHECK_DEADLOCK FALSE
