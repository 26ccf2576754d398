CONSTANTS
    f1 = f1
    f2 = f2
    f3 = f3
    Filters <- MCFilters
    DefaultFilter = f1
    ResetFilter = f2
    Refused = {f3}
    MaxReconnectAttempts = 2
    MaxSockets = 2
    MaxClicks = 1
    MaxOpens = 2
    MaxMessages <- MCMaxMessages
    BucketSize <- MCBucketSize
    Window <- MCWindow
    MaxRows = 1
    MaxReceived = 2
    MaxTime = 1

SPECIFICATION StreamPageSpec
CHECK_DEADLOCK FALSE

INVARIANTS
    StreamPageTypeOK
    NewestKept
    ChartCountsAll
    UpdatesRun
    ConnectedMeansOpen
    SubscriptionInForce
PROPERTY
    MessagesShown
    ConnectionSettles
