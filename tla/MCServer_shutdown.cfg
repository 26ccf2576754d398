CONSTANTS
    p1 = p1
    c1 = c1
    Patterns <- MCPatterns
    Conns <- MCConns
    BadLines = FALSE
    BucketSize = 2
    Retention = 2
    MaxTime = 1
    MaxLines = 2
    MaxFaults = 0
    MaxCrashes = 1

SPECIFICATION ServerSpec

INVARIANT
    ShutdownIsGraceful
