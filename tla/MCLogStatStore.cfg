CONSTANTS
    p1 = p1
    p2 = p2
    Patterns <- MCPatterns
    BucketSize = 2
    Retention = 2
    MaxTime = 3
    MaxLines = 3
    MaxFaults = 1
    MaxCrashes = 1

SPECIFICATION Spec
SYMMETRY PatternSymmetry

INVARIANTS
    TypeOK
    Conservation
    NoLossWithoutFailure
    CountersMatchTheirBucket

PROPERTIES
    DurableUntilExpired
    FirstSeenKept
    ImplementsLedger
