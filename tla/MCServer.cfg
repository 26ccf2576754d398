CONSTANTS
    p1 = p1
    c1 = c1
    Patterns <- MCPatterns
    Conns <- MCConns
    BadLines = TRUE
    BucketSize = 1
    Retention = 1
    MaxTime = 2
    MaxLines = 2
    MaxFaults = 1
    MaxCrashes = 1

SPECIFICATION ServerSpec

INVARIANTS
    ServerTypeOK
    ShutdownFlushCovers

PROPERTY
    PendingIsSettled
