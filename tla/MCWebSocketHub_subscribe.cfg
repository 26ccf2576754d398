CONSTANTS
    c1 = c1
    c2 = c2
    info = info
    Clients <- One
    Levels <- Info
    DefaultLevels <- Info
    Subscriptions <- BatchOrRefuse
    SendCap = 1
    MaxMsgs = 2
    MaxUpdates = 2
    MaxRequests = 0
    MaxClients = 1
    BroadcastCap = 1

SPECIFICATION Spec
CHECK_DEADLOCK FALSE

INVARIANTS
    AtMostOnce
    AcknowledgedFilterApplies
