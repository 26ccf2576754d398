CONSTANTS
    c1 = c1
    c2 = c2
    info = info
    Clients <- Two
    Levels <- Info
    DefaultLevels <- Info
    Subscriptions <- None
    SendCap = 1
    MaxMsgs = 1
    MaxUpdates = 0
    MaxRequests = 0
    MaxClients = 2
    BroadcastCap = 1

SPECIFICATION Spec
CHECK_DEADLOCK FALSE

INVARIANT
    NeverPanics
