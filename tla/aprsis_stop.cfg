SPECIFICATION FairSpec
CONSTANTS
    Reader = Reader
    Uploaders = {}
    Conns = {c1, c2}
    None = None
    InboundCap = 1
PROPERTIES
    StopEndsReader
CHECK_DEADLOCK FALSE
