---------------------------- MODULE LogStatAggregates ----------------------------
(***************************************************************************)
(* The aggregated queries beside the others of LogStatQuery.  Both make    *)
(* the same two reads, under filters of the same kind; an aggregated one   *)
(* groups what it reads by host, bucket and level, the memory in Go and    *)
(* the database with GROUP BY, and merges the groups.  Nothing filters     *)
(* what the database selects once more, and the limit is that of the       *)
(* database's groups.                                                      *)
(*                                                                         *)
(* An aggregation is a function from (source, bucket) to totals and first  *)
(* timestamps; the number of loggers is left out.  queryPc is "aggregated" *)
(* where that of another query is "answered".                              *)
(***************************************************************************)
EXTENDS LogStatQuery

VARIABLE aggregates     \* the handler's answer

aggregationVars == <<allVars, aggregates>>

Group(k) == [source |-> k.pattern.source, bucketTS |-> k.bucketTS]
Groups(rows) == {Group(r.key) : r \in rows}
Members(rows, g) == {r \in rows : Group(r.key) = g}

Total(rows) == MapThenSumSet(LAMBDA r : r.stat.n, rows)
FirstSeen(rows) == Min({r.stat.firstSeen : r \in rows})

\* aggregateStats, and the SELECT with its GROUP BY.
AggregateStats(rows) ==
    [g \in Groups(rows) |->
        [total |-> Total(Members(rows, g)), firstSeen |-> FirstSeen(Members(rows, g))]]

\* aggregated[:MaxResults], in the order of ORDER BY bucket_ts DESC.
FirstGroups(groups, max) ==
    IF max = 0 \/ Cardinality(groups) <= max THEN {groups}
    ELSE {part \in kSubset(max, groups) :
             \A g \in part, h \in groups \ part : h.bucketTS <= g.bucketTS}

\* What queryAggregatedFromDB may return.
QueryAggregatedFromDB(f, stats) ==
    LET all == AggregateStats(Selected(f, stats))
    IN  {[g \in groups |-> all[g]] : groups \in FirstGroups(DOMAIN all, f.max)}

Merged_KeepsMemory(a, b) ==
    [total |-> a.total + b.total, firstSeen |-> a.firstSeen]

Merged(a, b) ==
    [total |-> a.total + b.total,
     firstSeen |-> IF b.firstSeen < a.firstSeen THEN b.firstSeen ELSE a.firstSeen]

MergeAggregates_FirstOnly(as, bs) ==
    [g \in DOMAIN as \cup DOMAIN bs |-> IF g \in DOMAIN as THEN as[g] ELSE bs[g]]

MergeAggregates(as, bs) ==
    [g \in DOMAIN as \cup DOMAIN bs |->
        IF g \in DOMAIN as \cap DOMAIN bs THEN Merged(as[g], bs[g])
        ELSE IF g \in DOMAIN as THEN as[g] ELSE bs[g]]

\* QueryAggregatedStatsOptimized has the memory's rows from QueryLogStats without a limit.
AggregateMemory(f, mem) == AggregateStats(MemoryRows(f, mem))

----------------------------------------------------------------------------
\* QueryRecentAggregated, for one hour and without a limit.
RecentAggregated == [Recent EXCEPT !.max = 0]

AggregationInit == QueryInit /\ aggregates = <<>>

AggregateDatabase ==
    /\ queryPc = "database"
    /\ \E found \in IF filter.database THEN QueryAggregatedFromDB(filter, db) ELSE {<<>>} :
          aggregates' = MergeAggregates(AggregateMemory(filter, copied), found)
    /\ queryPc' = "aggregated"
    /\ UNCHANGED <<vars, filter, copied, answer, failed, queries, atBegin, overlap>>

\* An error of the database is logged, and the memory alone is the answer.
AggregateDatabaseFails ==
    /\ queryPc = "database" /\ filter.database
    /\ Fault
    /\ aggregates' = AggregateMemory(filter, copied)
    /\ failed' = TRUE /\ queryPc' = "aggregated"
    /\ UNCHANGED <<now, process, entries, db, flushing, maintPc, history,
                   filter, copied, answer, queries, atBegin, overlap>>

AggregatesAnswered ==
    queryPc = "aggregated" /\ Forget /\ aggregates' = <<>> /\ UNCHANGED vars

AggregationCrash == QueryCrash /\ aggregates' = <<>>

AggregationNext ==
    \/ /\ \/ \E f \in Filters \cup {Recent, RecentAggregated} : BeginQuery(f)
          \/ CopyMemory \/ ReadDatabase \/ ReadDatabaseFails \/ Answered
          \/ StoreStep
       /\ UNCHANGED aggregates
    \/ AggregateDatabase \/ AggregateDatabaseFails \/ AggregatesAnswered
    \/ AggregationCrash

AggregationSpec == AggregationInit /\ [][AggregationNext]_aggregationVars

----------------------------------------------------------------------------
(* Properties.                                                             *)

KeysOf(f, g) == {k \in Keys : Group(k) = g /\ Accepts(f, k)}
LinesOf(counts, f, g) == MapThenSumSet(LAMBDA k : counts[k], KeysOf(f, g))

GroupsOfKeys == {Group(k) : k \in Keys}
TotalOf(g) == IF g \in DOMAIN aggregates THEN aggregates[g].total ELSE 0

\* Without a limit, the totals of both reads together miss no line that was counted
\* before the query began and still existed at its end, although a flush moves lines
\* from one to the other in between.
NothingMissingInTotals ==
    /\ queryPc = "aggregated" /\ ~failed /\ filter.memory /\ filter.database
    /\ Exact(filter) /\ filter.max = 0
    => \A g \in GroupsOfKeys :
          TotalOf(g) + LinesOf(lost, filter, g) + LinesOf(expired, filter, g)
             >= LinesOf(atBegin, filter, g)

\* Whatever a query includes and however it is limited, a total holds more lines than were
\* ever counted only if a flush committed one of its keys between the two reads.
TotalsTwiceOnlyByFlush ==
    queryPc = "aggregated" /\ Exact(filter) => \A g \in GroupsOfKeys :
        KeysOf(filter, g) \cap overlap = {} => TotalOf(g) <= LinesOf(accepted, filter, g)

\* FirstSeenTS is the earliest: without a limit, no row the query's filter accepts that is
\* in the table was first seen before the aggregate of its group, be that row written
\* before the query or by a flush that came between its reads.
FirstSeenIsEarliest ==
    /\ queryPc = "aggregated" /\ ~failed /\ filter.memory /\ filter.database
    /\ Exact(filter) /\ filter.max = 0
    => \A g \in DOMAIN aggregates : \A k \in KeysOf(filter, g) \cap Present(db) :
          aggregates[g].firstSeen <= db[k].firstSeen
=============================================================================
