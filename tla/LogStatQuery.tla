------------------------------ MODULE LogStatQuery ------------------------------
(***************************************************************************)
(* The queries of log_stat_query.go, run by a handler of http_handler.go   *)
(* beside everything LogStatStore does.  A query copies the counters in    *)
(* memory under the mutex, reads the database without it, and filters and  *)
(* truncates what it has; so a flush may fall between its two reads.       *)
(*                                                                         *)
(* A pattern is split here into its logger and its source, which stands    *)
(* for hostName and level.  A filter is given by what it accepts: matches  *)
(* holds the loggers its regular expression matches, likes those the LIKE  *)
(* pattern of regexToLike matches.                                         *)
(***************************************************************************)
EXTENDS LogStatStore, FiniteSets, FiniteSetsExt

CONSTANTS
    Sources,        \* (hostName, level) pairs
    Loggers,        \* logger names
    Filters,        \* filters of /api/query/stats and its like
    Hour,           \* one hour, in ticks
    RecentResults,  \* maxResults of QueryRecentStats: 10000 in /metrics
    MaxQueries      \* bound: queries made

Filter == [sources : SUBSET Sources, matches : SUBSET Loggers, likes : SUBSET Loggers,
           start : Nat, end : Nat, max : Nat, memory : BOOLEAN, database : BOOLEAN]

ASSUME PatternsAssumption == Patterns \subseteq [source : Sources, logger : Loggers]
ASSUME FiltersAssumption == Filters \subseteq Filter
ASSUME QueryBounds == Hour \in Nat \ {0} /\ RecentResults \in Nat /\ MaxQueries \in Nat

VARIABLES
    queryPc,        \* where the handler stands
    filter,         \* its filter
    copied,         \* what it copied of s.entries
    answer,         \* the rows it answers
    failed,         \* its read of the database returned an error
    queries,        \* queries so far
    atBegin,        \* history: lines counted when it began
    overlap         \* history: keys committed since it copied the memory

queryVars == <<queryPc, filter, copied, answer, failed, queries, atBegin, overlap>>
allVars == <<vars, queryVars>>

Row == [from : {"memory", "database"}, key : Keys, stat : Stat]
Rows(from, stats) == {[from |-> from, key |-> k, stat |-> stats[k]] : k \in Present(stats)}

InRange(f, k) == f.start <= k.bucketTS /\ k.bucketTS <= f.end

\* The filter in Go and the WHERE clause of both SQL statements.
Accepts(f, k) ==
    k.pattern.source \in f.sources /\ k.pattern.logger \in f.matches /\ InRange(f, k)
Selects(f, k) ==
    k.pattern.source \in f.sources /\ k.pattern.logger \in f.likes /\ InRange(f, k)

Accepted(f, rows) == {r \in rows : Accepts(f, r.key)}
Selected(f, stats) == {r \in Rows("database", stats) : Selects(f, r.key)}

\* The choices of n rows in the order of ORDER BY bucket_ts DESC.
Newest(rows, n) ==
    {part \in kSubset(n, rows) :
        \A r \in part, q \in rows \ part : q.key.bucketTS <= r.key.bucketTS}

\* LIMIT, of which 0 is no limit.
Limited(rows, max) == IF max = 0 \/ Cardinality(rows) <= max THEN {rows} ELSE Newest(rows, max)

\* filtered[:MaxResults]: the rows of the memory come first, in a map's random order.
Truncated(mem, rows, max) ==
    IF max > 0 /\ Cardinality(mem) >= max
    THEN kSubset(max, mem)
    ELSE {mem \cup part : part \in Limited(rows, IF max = 0 THEN 0 ELSE max - Cardinality(mem))}

\* The rows of the copied memory that f accepts.
MemoryRows(f, mem) == IF f.memory THEN Accepted(f, Rows("memory", mem)) ELSE {}

QueryLogStats_MemoryShadows(f, mem, stats) ==
    LET own == MemoryRows(f, mem) IN
    {own \cup {r \in Accepted(f, Selected(f, stats)) : \A q \in own : q.key # r.key}}

\* What QueryLogStats may answer to f.
QueryLogStats(f, mem, stats) ==
    UNION {Truncated(MemoryRows(f, mem), Accepted(f, read), f.max) :
              read \in IF f.database THEN Limited(Selected(f, stats), f.max) ELSE {{}}}

----------------------------------------------------------------------------
(* /metrics: the bucket it shows, of the rows of the last hour.            *)

BucketsOf(rows) == {r.key.bucketTS : r \in rows}

TargetBucket_Ascending(rows) ==
    LET bs == BucketsOf(rows) IN
    IF Cardinality(bs) > 1 THEN Min(bs \ {Min(bs)}) ELSE Max(bs)

TargetBucket(rows) ==
    LET bs == BucketsOf(rows) IN
    IF Cardinality(bs) > 1 THEN Max(bs \ {Max(bs)}) ELSE Max(bs)

----------------------------------------------------------------------------
(* One query after the other.                                              *)

NoFilter == [sources |-> {}, matches |-> {}, likes |-> {}, start |-> 0, end |-> 0, max |-> 0,
             memory |-> FALSE, database |-> FALSE]

QueryInit ==
    /\ Init
    /\ queryPc = "idle" /\ filter = NoFilter /\ copied = NoEntries /\ answer = {}
    /\ failed = FALSE /\ queries = 0 /\ atBegin = NoCounts /\ overlap = {}

\* QueryRecentStats, for one hour.
Recent == [sources |-> Sources, matches |-> Loggers, likes |-> Loggers,
           start |-> IF now < Hour THEN 0 ELSE now - Hour, end |-> MaxTime, max |-> RecentResults,
           memory |-> TRUE, database |-> TRUE]

BeginQuery(f) ==
    /\ up /\ queryPc = "idle"
    /\ queries < MaxQueries /\ queries' = queries + 1
    /\ queryPc' = "memory" /\ filter' = f
    /\ atBegin' = accepted
    /\ UNCHANGED <<vars, copied, answer, failed, overlap>>

CopyMemory_NoMutex ==
    /\ queryPc = "memory"
    /\ copied' = IF filter.memory THEN entries ELSE NoEntries
    /\ queryPc' = "database"
    /\ UNCHANGED <<vars, filter, answer, failed, queries, atBegin, overlap>>

CopyMemory ==
    /\ queryPc = "memory"
    /\ filter.memory => Unlocked
    /\ copied' = IF filter.memory THEN entries ELSE NoEntries
    /\ queryPc' = "database"
    /\ UNCHANGED <<vars, filter, answer, failed, queries, atBegin, overlap>>

ReadDatabase ==
    /\ queryPc = "database"
    /\ answer' \in QueryLogStats(filter, copied, db)
    /\ queryPc' = "answered"
    /\ UNCHANGED <<vars, filter, copied, failed, queries, atBegin, overlap>>

\* An error of the database is logged, and the memory alone is the answer.
ReadDatabaseFails ==
    /\ queryPc = "database" /\ filter.database
    /\ Fault
    /\ answer' \in QueryLogStats(filter, copied, NoEntries)
    /\ failed' = TRUE /\ queryPc' = "answered"
    /\ UNCHANGED <<now, process, entries, db, flushing, maintPc, history,
                   filter, copied, queries, atBegin, overlap>>

\* The handler has answered, or has ended with the process.
Forget ==
    /\ queryPc' = "idle" /\ filter' = NoFilter /\ copied' = NoEntries /\ answer' = {}
    /\ failed' = FALSE /\ atBegin' = NoCounts /\ overlap' = {}
    /\ UNCHANGED queries

Answered == queryPc = "answered" /\ Forget /\ UNCHANGED vars

QueryCrash == Crash /\ Forget

StoreStep ==
    /\ \/ Tick \/ Flush \/ Maintenance \/ Restart
       \/ \E p \in Patterns : AddOrUpdate(p)
    /\ overlap' = IF queryPc = "database" /\ flushPc' = "committed"
                  THEN overlap \cup written ELSE overlap
    /\ UNCHANGED <<queryPc, filter, copied, answer, failed, queries, atBegin>>

QueryNext ==
    \/ \E f \in Filters \cup {Recent} : BeginQuery(f)
    \/ CopyMemory \/ ReadDatabase \/ ReadDatabaseFails \/ Answered
    \/ QueryCrash
    \/ StoreStep

QuerySpec == QueryInit /\ [][QueryNext]_allVars

----------------------------------------------------------------------------
(* Properties.                                                             *)

\* Lines of key k in the rows of the answer that come from one of the two reads.
Share(from, k) ==
    LET rows == {r \in answer : r.from = from /\ r.key = k} IN
    IF rows = {} THEN 0 ELSE (CHOOSE r \in rows : TRUE).stat.n

InAnswer(k) == Share("memory", k) + Share("database", k)

\* The filter's LIKE pattern says what its regular expression says.
Exact(f) == f.likes = f.matches

\* An answer below its limit misses no line that was counted before the query began
\* and still existed at its end, although a flush may move lines from the memory to
\* the database between the two reads of QueryLogStats.  The LIKE pattern has to say
\* what the expression says.
NothingMissing ==
    /\ queryPc = "answered" /\ ~failed /\ filter.memory /\ filter.database
    /\ Exact(filter) /\ (filter.max = 0 \/ Cardinality(answer) < filter.max)
    => \A k \in Keys : Accepts(filter, k) =>
          InAnswer(k) + lost[k] + expired[k] >= atBegin[k]

\* An answer of QueryLogStats holds more lines of a key than were ever counted only
\* if a flush committed that key between the query's two reads.
TwiceOnlyByFlush ==
    queryPc = "answered" => \A k \in Keys \ overlap : InAnswer(k) <= accepted[k]

\* With rows of several buckets, /metrics shows a bucket that no line can join any more.
MetricsBucketIsComplete ==
    queryPc = "answered" /\ Cardinality(BucketsOf(answer)) > 1 =>
        TargetBucket(answer) + BucketSize <= now
=============================================================================
