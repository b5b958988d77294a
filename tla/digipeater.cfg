SPECIFICATION ForwarderFairSpec
CONSTANTS
    s1 = s1
    s2 = s2
    Stations <- TwoStations
    Nobody = Nobody
    Originals <- Traffic
    ThirdParty <- ThirdPartyKeys
    Configurations <- Setups
    SSnStations <- OneSSn
    Window = 2
    MaxSends <- Sends
    Igate = s1
    Enclosed <- Contents
    Online <- OnlineKeys
    Forwardable <- ForwardableKeys
    Outside = {"named"}
    Timeout = 1
    ChanCap = 1
INVARIANTS
    ForwarderTypeOK
    HopsAreSpent
    UsedHopsComeFirst
    SignsOnce
    NothingGoesBack
PROPERTIES
    AdvertisedIfLocal
    FloodEnds
    CatchesUp
    ForwardingEnds
CHECK_DEADLOCK FALSE
