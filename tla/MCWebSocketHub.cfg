CONSTANTS
    c1 = c1
    c2 = c2
    info = info
    Clients <- Two
    Levels <- Info
    DefaultLevels <- Info
    Subscriptions <- None
    SendCap = 1
    MaxMsgs = 1
    MaxUpdates = 0
    MaxRequests = 1
    MaxClients = 1
    BroadcastCap = 1

SPECIFICATION FairSpec
CHECK_DEADLOCK FALSE

INVARIANTS
    TypeOK
    MapMatchesChannels
    NoSilentLoss

PROPERTY
    ClosedClientIsReleased
