------------------------------- MODULE StatsCharts -------------------------------
(***************************************************************************)
(* What the dashboard's two charts show of the rows given to them          *)
(* (app.js): messages per bucket stacked by level, and a line of messages  *)
(* per bucket for each selected logger.  A chart is a function from the    *)
(* names of its series to functions from buckets to numbers of messages;   *)
(* layout and colours are left out.                                        *)
(***************************************************************************)
EXTENDS Integers, SequencesExt

CONSTANTS
    ChartLevels,    \* levels the level chart has a bar for
    Unknown,        \* 'Unknown', the logger of a row without one
    TopCount        \* 5: loggers selected by the button for the top loggers

LoggerOf(row) == IF "Logger" \in DOMAIN row THEN row.Logger ELSE Unknown
CountOf(row) == IF "N" \in DOMAIN row THEN row.N ELSE row.TotalCount

Loggers(data) == {LoggerOf(row) : row \in ToSet(data)}
Buckets(data) == {row.BucketTS : row \in ToSet(data)}

Volume(data, Counts(_)) ==
    SumFunctionOnSet([i \in DOMAIN data |-> CountOf(data[i])], {i \in DOMAIN data : Counts(data[i])})

PerBucket(data, buckets, Counts(_)) ==
    [ts \in buckets |-> Volume(data, LAMBDA row : row.BucketTS = ts /\ Counts(row))]

\* updateDashboardLevelsChart: the levels that have messages.
LevelsChart(data) ==
    [level \in {l \in ChartLevels : Volume(data, LAMBDA row : row.Level = l) > 0} |->
        PerBucket(data, Buckets(data), LAMBDA row : row.Level = level)]

\* updateDashboardTimeSeriesChart: no level selected means all of them.
SeriesChart(data, loggers, levels) ==
    LET Counted(row) == LoggerOf(row) \in loggers /\ (levels = {} \/ row.Level \in levels)
        buckets == {row.BucketTS : row \in {r \in ToSet(data) : Counted(r)}}
    IN  [logger \in loggers |->
            PerBucket(data, buckets, LAMBDA row : Counted(row) /\ LoggerOf(row) = logger)]

LoggerVolume(data, logger) == Volume(data, LAMBDA row : LoggerOf(row) = logger)

\* The loggers with the most messages; a tie may fall either way.
TopLoggers(data) ==
    {top \in SUBSET Loggers(data) :
        /\ Cardinality(top) = Min({TopCount, Cardinality(Loggers(data))})
        /\ \A a \in top, b \in Loggers(data) \ top : LoggerVolume(data, a) >= LoggerVolume(data, b)}
=============================================================================
