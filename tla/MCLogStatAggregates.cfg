CONSTANTS
    s1 = s1
    l1 = l1
    l2 = l2
    Sources <- MCSources
    Loggers <- MCLoggers
    Patterns <- MCPatterns
    Filters <- MCFilters
    BucketSize = 2
    Retention = 1
    Hour = 2
    RecentResults = 3
    MaxTime = 2
    MaxLines = 2
    MaxFaults = 1
    MaxCrashes = 1
    MaxQueries = 1

SPECIFICATION AggregationSpec

INVARIANTS
    NothingMissing
    TwiceOnlyByFlush
    MetricsBucketIsComplete
    NothingMissingInTotals
    TotalsTwiceOnlyByFlush
    FirstSeenIsEarliest
