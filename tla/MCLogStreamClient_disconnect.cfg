CONSTANTS
    f1 = f1
    f2 = f2
    f3 = f3
    Filters <- MCFilters
    DefaultFilter = f1
    ResetFilter = f2
    Refused = {f3}
    MaxReconnectAttempts = 2
    MaxSockets = 4
    MaxClicks = 3
    MaxOpens = 3

SPECIFICATION StreamSpec
CHECK_DEADLOCK FALSE

PROPERTY
    DisconnectPreventsReconnection
