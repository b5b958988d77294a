SPECIFICATION FairSpec
CONSTANTS
    Reader = Reader
    Uploaders = {u1}
    Conns = {c1, c2, c3}
    None = None
    InboundCap = 1
INVARIANTS
    TypeOK
    SharedIsLoggedIn
PROPERTIES
    Reconnects
    StopEndsReaderUnraced
CHECK_DEADLOCK FALSE
