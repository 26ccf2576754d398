# A TLA+ model of log_stat_wf

log_stat_wf receives WildFly log lines as JSON over TCP, counts them per
(bucket of time, host, logger, level) in memory, flushes the counters into SQLite,
answers queries over both, and streams the lines to browsers over WebSockets.
This directory holds TLA+ modules of that program, the TLC configurations that
check them, and TLAPS proofs of the safety properties those runs check (those of the aggregated
queries excepted). Paths below are relative to the repository; a bare `x.go` is `src/src/x.go`, a bare `x.js` is `src/src/web/x.js`.

## 1. Inventory

| component | code | state | operations | hard behaviour | correct when |
|---|---|---|---|---|---|
| statistics store | `log_stat_store.go`, `model.go` | `entries` under `mu`, `bucketSize`, `appStartTime` | `AddOrUpdate`, `GetAll`, `PrintSummary` | many connections count while a flush holds the mutex | each line is counted once, in the bucket of its arrival |
| flush | `log_stat_store_util_db.go` | the table `log_stats`; a transaction | `InitDB`, `FlushToDb`, `QueryDatabase` | SQLite errors at every call; the process stops between the commit and the clearing of the map | a count is durable once, lost only with an error or a stop |
| maintenance | `db_maintenance.go` | SQLite's write lock | `CleanupOldData`, `VacuumDatabase` | runs beside the flush in its own goroutine | deletes rows older than the retention and nothing else |
| process | `main.go` | listener, connections, goroutines | accept loop, 5-minute flush, signal handler, 3-hour maintenance | the ways to end: `os.Exit`, `log.Fatal` of any goroutine, kill | a shutdown makes the counters durable |
| hub | `websocket_hub.go`, `websocket_handler.go` | `clients`, three channels | `Run`, `registerClient`, `unregisterClient`, `broadcastMessage` | rendezvous and handling are two steps; clients leave while their goroutines run | map, limit and channels agree; nothing is closed twice |
| client | `websocket_client.go` | filter, subscription, limiter, timer, batch buffer, channel `send` | both pumps, `ProcessMessage`, `UpdateSubscription`, batching | fields replaced without a lock under other goroutines | at most once, drops counted, acknowledged filter in force |
| filter, transformation | `websocket_filter.go`, `websocket_message.go` | none | `NewMessageFilter`, `Matches`, `ProcessStackTrace` | globs, regular expressions, collapsing of frames | the filter accepts what it says |
| queries | `log_stat_query.go` | none; reads memory, then the database | `QueryLogStats`, `QueryAggregatedStatsOptimized` | a flush between the two reads; one pattern as expression and as LIKE; aggregates of two reads merged | no line missing, twice only by a flush in between |
| HTTP API, metrics | `http_handler.go` | `bootTime` | `/api/*`, `/metrics` | timestamps compared as text; choice of the bucket | the last completed bucket, rates per second |
| browser stream | `web/stream.js` | connection, timers, subscription, settings, message buffer, list, chart | connect, reconnect, apply, buffer, show, pause | timers that fire after a disconnect; late closes; two live sockets; refused settings; a hidden tab | subscription kept; list and chart hold what came in |
| dashboard | `web/app.js` | loaded and filtered rows, sort, filter, selections, timers | load, filter, sort, render in chunks, draw charts | overlapping loads, renderings and a debounce timer | table, head, filter and charts agree; nothing loads for ever |
| reporting | `memory_stats.go`, `log_writer.go`, `main_util.go` | a file handle, counters | | I/O | — |
| page, libraries, scripts | `web/index.html`, `style.css`, vendored chart library, build and WildFly scripts | | | | — |

Interaction: a TCP connection's goroutine (`main.go`, `handleConnection`) parses a
line, calls `AddOrUpdate`, and hands the line to the hub with `BroadcastLog`, which
drops rather than blocks. The ticker, the signal handler and the connections meet
at `s.mu`; the flush and the maintenance meet at SQLite's write lock; hub, readers
and handlers meet at unbuffered channels; `ProcessMessage` goroutines, the batch
goroutine and the two pumps meet at a client's fields. Any goroutine that panics or
calls `log.Fatal` ends all of them.

`PROJECT.json` lists what in this is hard to test, each at its line, with the
properties that watch it.

## 2. Modules

| module | models |
|---|---|
| `MessageLedger` | the promise: every counted line is pending, durable, lost or expired, in one place at a time |
| `LogStatStore` | store, flush, maintenance, crash and restart |
| `LogStatStore_proofs` | the theorems about it |
| `Server` | extends `LogStatStore` with the goroutines of `main.go` |
| `WebSocketClient` | one client: its pumps, message goroutines, batch goroutines |
| `WebSocketHub` | extends `WebSocketClient` with the hub, registration and broadcast |
| `LogStatQuery` | extends `LogStatStore` with a query that reads memory and database beside it; the bucket of `/metrics` |
| `LogStatAggregates` | extends `LogStatQuery` with the aggregated query |
| `LogStreamClient` | the browser's stream client: connection, reconnection, subscription, settings |
| `StreamPage` | extends `LogStreamClient` with the page: buffer, list, chart, intervals, visibility |
| `StatsTable` | the dashboard's table: filter, sort, rendering in chunks |
| `StatsCharts` | what the dashboard's two charts show of given rows, as operators |
| `Dashboard` | extends both with loads, clicks, timers and the information pages |
| `Server_proofs`, `WebSocketClient_proofs`, `WebSocketHub_proofs`, `LogStatQuery_proofs`, `LogStreamClient_proofs`, `StreamPage_proofs`, `Dashboard_proofs` | the theorems about these; `Dashboard_proofs` covers `StatsTable` and `StatsCharts` |
| `MC*` | instances for TLC |

### LogStatStore

Time is a count of ticks. `entries` and `db` are total functions from keys
(pattern of the line, bucket) to records (`n`, `duration`, `firstSeen`); an absent key
holds `NoStat`, whose `n` is 0. A pattern stands for host, logger and level together,
which the code never separates here.

`FlushToDb` holds `s.mu` from its first line to its return; nothing else of this
process sees `entries` meanwhile, but SQLite, the maintenance and the end of the process
interleave with it, so it is a sequence of steps: `FlushBegin` (lock),
`FlushSetup`/`FlushSetupFails` (open, begin, prepare), `FlushUpsert`/`FlushUpsertFails`
per entry, `FlushCommit`/`FlushCommitFails`, `FlushClear` (the deferred replacement of
the map and the unlock). Every error path empties the map, as the code does.
An upsert error is passed over and the rest committed.

SQLite is not part of the repository and is modelled from its use: a transaction
takes the write lock with its first upsert, its rows appear at the commit or never,
other writers wait or get an error. `written # {}` is the lock of the flush,
`maintPc = "vacuuming"` that of the maintenance. A DELETE takes one step; a VACUUM
takes two, so that a flush meets it half-way.

`Stop` is any end of the process: map and open transaction go. `Restart` is `main`
once more; `appStartTime` is the new start. Ghost variables `accepted`, `lost`
and `expired` record what became of counts; no action reads them.

### Server

Adds the accept loop (`Accept`, `AcceptFails` = `log.Fatal`), the connections
(`HandleLine`, `UnparsableLine` = `log.Fatalf`), the ticker's and the signal
goroutine's use of the flush, and kills. Every step that touches the store is a step
of `LogStatStore` conjoined with what `main.go` adds. `atShutdown` is a ghost.

### WebSocketClient and WebSocketHub

A client is a record. Its fields are read and written without a lock, so there is a step for each
load and each store that another goroutine may come between:
`UpdateSubscription` is `ReadSubscription`, `SetSubscription`, `SetFilter`,
`SetRateLimiter`, `SetTimer`, `ClearTimer`, `Acknowledge`; `ProcessMessage` is `Match`,
`Admit` (the nil check of the limiter), `Allow`/`Limit`/`AllowPanics` (its second load),
`AddToBatch`/`Deliver`. The batch goroutine is `BatcherTop` (the nil check of the timer), `BatcherReceives` (its second load),
`BatcherWakes`, `FlushBatch`, `BatcherChecks`, `BatcherResets`. Merged are loads of a pointer that is never nil once it
is set: the two of `c.filter` at `websocket_client.go:104`, and those of `c.subscription` at `:218` and `:219`, the
second of which gives only the length of the timeout. A subscription is
reduced to the levels it accepts, whether it limits and whether it batches.
The rate limiter grants or refuses at will. `hand` is what the writer has taken off
the channel and not yet written.

`Run` receives (`ReceiveRegister`, `ReceiveUnregister`) in one step and handles
(`RegisterClient`, `UnregisterClient`) in the next, since the reader goes on as
soon as the rendezvous is over. `broadcastMessage` starts one task per client.
Messages are numbered, with a level each.

A panic in a goroutine that the code starts ends the process (`panicked`). The handler
library recovers a panic of the reader: `ReaderSends` on a closed channel just leaves.

### LogStatQuery

A handler's query is `BeginQuery`, `CopyMemory` (under `s.mu`, hence never inside a
flush), `ReadDatabase` or `ReadDatabaseFails` (the error is logged and the memory
alone is answered), `Answered`. The store's steps fall anywhere between.
A pattern is split into its logger and its source (host and level). A filter is given
by what it accepts: `matches` for the regular expression, `likes` for the LIKE pattern
made of it, which need not agree; where a property needs them to, it says `Exact`.
`Limited` is the statement's ORDER BY and LIMIT, `Truncated` the cut in Go, where the rows
of the memory come first and in no order. `Recent` is the query of one hour that the pages and `/metrics`
make, with the limit they pass (`RecentResults`). `InRange` is the range check of the memory's rows; the second
filter by time that `/api/stats` puts after a query (`filterStatsByTimestamp`) is not modelled.
`atBegin` and `overlap` are ghosts.

### LogStatAggregates

The handlers of aggregated statistics call `QueryAggregatedStatsOptimized`. It makes the same two reads:
`AggregateMemory` groups the rows of the memory in Go, `QueryAggregatedFromDB` has the database group its own, and
`MergeAggregates` adds them (`AggregateDatabase`); if the database fails the memory's groups are the answer
(`AggregateDatabaseFails`). Either read may be left out (`memory`, `database` of the filter). The limit goes to the database alone
(`FirstGroups`), and nothing filters its rows again. The store's steps fall in between, as they do for the other queries, whose steps the module
keeps: a query shows in its second read which of the two it is, and its filter may be any of either kind. The number of loggers
of an aggregate is left out.
`QueryAggregatedStats` and `QueryByLoggerPattern` have no caller and are left out.

### LogStreamClient and StreamPage

One JavaScript thread: each click, socket event and timer is a step. The socket handlers
act on the one client, whichever socket they belong to, and timers are never cancelled,
so the model keeps a state per socket and only the number of pending timers of each
kind. `Send` reaches the server only on an open socket; on a connecting one
the browser throws, which `updateSubscription` catches after it has stored the subscription.
When the constructor of the socket throws, `Connect` ends with the status and without an attempt to reconnect.
`form` is what the fields say, `saved` what localStorage holds, `lastSubscription` what a
reconnection sends. A setting is one value for all fields of the form; `DefaultFilter` is that of the markup,
`ResetFilter` that of `resetFilters`, which differ. The server refuses the settings in `Refused` (a pattern that does not compile) and keeps the
filter it had; the page stores them all the same. `status` is the text of `updateStatus`, in which a user reads that the attempts
are used up. `missed` is a ghost: settings applied with no connection are saved and not stored in the client
(`stream.js:712`).

`StreamPage` conjoins what the page does to the client's steps: `LoadSettings` where the
code calls `loadSettings`, `StartUpdates` and `StopUpdates` for both intervals, whose variable `updating` tells whether
they run and not how many there are. `Receive`
appends a message to the buffer from any open socket (a batch is several of them); `Incoming` has a line that came over one
socket come over another one too, since a page with two sockets gets each line twice and compares nothing. `Tick` is one turn of the interval:
`processMessageBuffer`, whose cutoff is computed for all buckets, after the trim. `updateTable` follows each change of
`messages` and draws the last 1000 of them: `Table` is the last `MaxRows`. A
message is its time and a number that tells it from others: the chart's levels would only repeat the count per level. Ghosts:
`received`, `resized`.

### StatsTable, StatsCharts and Dashboard

`StatsTable` keeps `currentData` and `filteredData` as sequences, the body of the table as
a notice and the rows below it, and `frames`, the renderings under way. `renderChunk`
reads its array when the frame comes: `live` tells an array that `sortTable` may still sort
in place from one that `filteredData` has left behind. All chunks that wait for a frame
run in it, in order (`AnimationFrame`). `Sorted` and `Filtered` say which place each row comes from:
`InOrder` lists the members of a set by how many come before each, so that a sort is a renumbering of the rows that can be reasoned
about without unfolding a recursive definition. What a column compares is an integer: numbers scaled, texts
by their order. `StatsCharts` has the data of the charts as functions from
series to buckets to numbers.

`Dashboard` has a step per handler: `BeginLoad` is `loadStats` up to `fetch`, `Loaded` and
`LoadFails` are what follows a response, with its request's view mode; responses come in any order;
`currentViewMode` (set by the select's change event) and `viewMode` (the form's value) are two
variables because `clearFiltersBtn` changes one of them only. The charts are drawn where the code
draws them, from the rows the code passes. What a request may answer is `Answers[mode]`. The
panels of the system and the database page are loading, shown or in error. Ghosts:
`newest`, `drawn`, `cleared`.

## 3. Runs

| run | asks | bounds |
|---|---|---|
| `store` | is every line counted once, in its bucket, and durable until it expires, under all interleavings, errors, a crash and a restart; does the store implement `MessageLedger` | 2 patterns, buckets and retention of 2 ticks, 4 ticks, 3 lines, 1 error, 1 crash |
| `server` | does a shutdown that reaches `os.Exit(0)` cover what it should; does every pending line get settled | 1 pattern, 1 sender, buckets and retention of 1 tick, 3 ticks, 2 lines, 1 error, 1 stop |
| `server_shutdown` | does a signal cost counted lines (it does) | 1 stop, no error |
| `hub` | map, limit, channels, counted drops, release of closed connections | 2 clients for 1 place, 1 message, 1 request each, channels of 1 |
| `hub_subscribe` | at-most-once and the filter in force, for a client that changes its subscription | 1 client, 2 messages, 2 new subscriptions, with batching or with limiting |
| `hub_closed_channel` | can a goroutine of the code panic (it can) | 2 clients, 1 message |
| `query` | does a query, plain or aggregated, miss or wrongly repeat lines, where both patterns agree; are first timestamps the earliest; is the bucket of `/metrics` complete | 1 source, 2 loggers, 2 buckets of 2 ticks, 2 lines, 1 error, 1 crash, 1 query of 4 filters (1 row or group at most; the database alone, with a LIKE pattern that lets more through; `Recent` with `RecentResults` 3; `RecentAggregated`) |
| `stream_disconnect` | does a disconnect prevent reconnection (it does not) | 3 settings, 2 attempts, 3 clicks, 3 sockets that open, 4 at a time |
| `stream_page` | is the client connected when it thinks so, what does the server filter by, is a user who wants a connection left waiting; do list, table and chart hold what came in, do the updates run when they should | 3 settings (markup, reset, refused; lists of 1 and 2, buckets of 1 and 2 ticks), a table of 1 row, 2 attempts, 1 click, 2 sockets that open, 2 at a time, 2 messages, 1 tick |
| `dashboard` | do table, head, filter, charts and loading indicators agree, whatever overlaps, fails or fires late; the head only while the newest request has been answered last | answers of at most 2 rows, chunks of 1 row, 3 loads (2 of them at the start), 3 clicks or refreshes |
| `dashboard_render` | does a rendered table show the filtered rows and no others (it does not) | the same |
| `dashboard_view` | are the rows in the view chosen once all requests are answered (they are not) | the same |

Why these bounds are enough to be interesting. *store*: four ticks and two-tick
buckets give a first bucket that starts in its middle, a crash and a restart inside
a bucket, and a row that outlives its bucket and expires; two patterns make a
flush with one failing and one succeeding upsert; three lines put a line before, during
the wait for, and after a flush. *server*: the two flushers race for the mutex, a
VACUUM delays either, a connection counts a line during the shutdown. *hub*: one
place for two clients gives rejection, a race for the freed place, and unregistration of
a client that was never in the map; channels of capacity 1 fill at once.
*hub_subscribe*: two messages and two replacements give each order of a task's reads and the
reader's writes, creation, stop and loss of a timer, and a full channel.

*query*: two lines put the same
key in memory and in the database around a flush that falls before, between or
after the two reads, with a limit that is reached and one that is not; one query is
enough because queries change nothing. *stream_page*: a click on Connect and the auto-connect, or one and a late close, give
two live sockets, and lines over both; with two attempts a close starts a first one and its failure a second one, which succeeds or is
the last, so that the run reaches connections, waiting and giving up; settings are changed in the form and stored by the connect callback, or
applied with or without a connection; two messages overflow the table and the shorter list, and the tick puts them in one bucket or
two, late or expired. *dashboard*: the two loads of the opening overlap from the start
and a third one follows in either mode; with chunks of one row a
rendering of two rows takes two frames, between which a click, a response or the search's
timer may fall; the aggregated answer has a row without a logger.

What these bounds leave out, the proofs of section 5 cover: they hold for all values of the constants. Only the
liveness properties and those of the aggregated queries rest on these instances alone.

Named bounds (`MaxTime`, `MaxLines`, `MaxFaults`, `MaxCrashes`, `MaxMsgs`, `MaxUpdates`,
`MaxRequests`, `MaxQueries`, `MaxClicks`, `MaxOpens`, `MaxSockets`, `MaxReceived`, `MaxLoads`, `MaxActs`)
stop the environment only. `MaxRows`, `RecentResults`, `MaxReconnectAttempts`, `ChunkSize` and the channels' capacities are numbers of the code, made
small. Deadlock is checked for `store`,
`server` and `query`, which can always go on; the runs of the hub turn it off because the
model rests once its messages and connections are used up, or after a panic, and
those of the browser because it rests once the user does.

Each property of a passing run has a mutant in `PROJECT.json`: a definition of the
model changed as a plausible bug would change it (the operators named
`<definition>_<Bug>`), for which TLC finds the property violated.

### Fairness

*Server.* Strong fairness on the ticker's flush and on the steps of a running flush, weak
fairness on the end of a VACUUM; none on senders, signals or maintenance.
The ticker fires every five minutes and `sync.RWMutex` lets a waiting writer in ahead
of later ones, so lines cannot keep it out for ever; the maintenance that takes the write lock runs
every three hours and lets it go. A kill or an error is never fair and never required.

*Hub.* Weak fairness on each goroutine that can go on (pumps, tasks, the hub's handling),
strong fairness on the two rendezvous, because Go's `select` draws at random among
ready channels. The reader of a closed connection returns from its read. A batch
goroutine and its timer are not fair: no liveness property needs them.

*Stream.* Weak fairness on the timers and the interval, which the browser fires, and on the sockets that are
connecting or closing, which end in an open or a close event. An open socket may stay open for ever, and no
click is ever required.

*Dashboard.* Weak fairness on the animation frames and on the responses: a `fetch` ends in a response or an
error. None on clicks, the refresh interval or the search's timer.

## 4. Where code and comments part

1. `server_shutdown`: `main.go:113` "Handle graceful shutdown". The handler closes the listener
   first; the accept loop gets an error and calls `log.Fatal` (`main.go:144`), so that the
   process may end before the flush.
2. `hub_closed_channel`: `websocket_hub.go:73` "removes a client from the hub"; it closes a channel
   that `ProcessMessage` goroutines still send on. Other paths to a panic in the model: `UpdateSubscription` sets
   `c.rateLimiter` or `c.batchTimer` to nil between a nil check and the use (`websocket_client.go:110`, `:213`, `:219`).
3. `stream_disconnect`: `stream.js:69` "Prevent reconnection"; a timer set earlier (`:93`) connects again.
4. `dashboard_render`: `app.js:841` "Re-render the table with filtered and sorted data"; a rendering under way is not
   cancelled, and both append their later chunks (`:729`), so that rows appear twice. Opening the
   dashboard is enough: `navigateToPage` and the end of the `DOMContentLoaded` handler both load.
5. `dashboard_view`: `index.html:44` "View Mode:"; the response of an older request that comes last is drawn in its own view
   (`app.js:919`) under the head of the newer one.

Seen while modelling, without a run of their own:

- `log_stat_store.go:178` "Parse error, just print the line" is followed by `log.Fatalf`: the model has it as
  `UnparsableLine`, which ends the process.
- `websocket_client.go:163` "flushBatch sends the accumulated batch"; the type assertion on re-parsed JSON never holds, so
  every batch is empty (`BatchOf`), and what was in the buffer is gone.
- `log_stat_query.go:58` "Regex pattern to match logger names"; the database is read with a LIKE
  pattern that keeps most of the expression's operators as text (`:169`), so that flushed lines are missing: `NothingMissing` has
  `Exact` as a premise.
- `log_stat_query.go:72` "Number of unique loggers"; the numbers of memory and
  database are added (`:541`), so a logger in both counts twice. The model has no such number.
- `log_stat_query.go:61` "Maximum number of results to return"; of an aggregated query only the database's groups are cut (`:493`),
  those of the memory come on top (`FirstGroups`).
- `stream.js:135` "Store subscription for reconnection"; settings the server refuses are stored too, so that after a
  reconnection the server has its default and not the filter it had.
- `index.html:373` "Max Messages to Display", 10000 by default; `updateTable` draws 1000 (`stream.js:602`).
- `app.js:416` "Show empty message if no results": in the detailed view the rendering just requested empties the table again
  in its next frame.
- `app.js:886` keeps a copy of the rows as they came, `:917` sorts the other one: until the next sort or filter a sorted
  table and `filteredData` differ in order. The charts do not depend on it.
- After Clear filters the form is in the detailed view and `currentViewMode` is what it was, so that a
  click on a header draws aggregated cells under the detailed head (`RowsFitHeaders` says so).
- `stream.js:745` "Clear saved settings": `applyFilters` saves the defaults right after.
- `stream.js:833` "pause updates when tab not visible": a connect callback starts them in a hidden tab (`:489`).

## 5. Proofs

`LogStatStore_proofs` proves, for all values of the constants:

| theorem | statement |
|---|---|
| `TypeCorrect` | `Spec => []TypeOK` |
| `LinesConserved` | `Spec => []Conservation` |
| `NothingLostWithoutFailure` | `Spec => []NoLossWithoutFailure` |
| `CountersMatch` | `Spec => []CountersMatchTheirBucket` |
| `DurableKept` | `Spec => DurableUntilExpired` |
| `FirstSeenNeverChanges` | `Spec => FirstSeenKept` |
| `StoreImplementsLedger` | `Spec => Ledger!LedgerSpec` |

Assumptions: the bucket size is a positive number, the retention a number, the bounds
numbers. `Patterns` may be any set.

The inductive invariant is `StoreInvariant`: `TypeOK`, `FlushInvariant`,
`Conservation`, `NoLossWithoutFailure`. `Conservation` alone is not inductive: the
commit moves the counts of `written` from memory to the rows, and that balances only
because `written` holds keys present in `entries`, disjoint from `todo`, and empty outside
the transaction (`FlushInvariant`). `NoLossWithoutFailure` needs that at `FlushClear` the keys not
in `written` have no counts, that is, that without an error the loop has visited the
whole map; this is where the mutex enters: `AddOrUpdate` needs it, so `entries` does not
grow under the loop. `CountersMatchTheirBucket` is inductive over
`StoreInvariant`, from lemmas on `BucketTime`. The two action
properties and the refinement take one step case per action, on top of the invariants.
The refinement maps `FlushCommit` to `Persist`, the failing ends of a flush, `FlushClear`
and `Stop` to `Discard`, `Cleanup` to `Expire`, and the rest to stuttering.

`Server_proofs`, for any senders, patterns and bounds:

| theorem | statement |
|---|---|
| `StoreInServer` | `ServerSpec => []StoreInvariant` |
| `ServerTyped` | `ServerSpec => []ServerTypeOK` |
| `ShutdownCovers` | `ServerSpec => []ShutdownFlushCovers` |

Every step of the server is a step of the store or leaves it alone (`ServerStepIsStoreStep`), so the
store's invariant carries over. `ShutdownFlushCovers` speaks of the state after the exit;
`ShutdownInvariant` says what leads to it: somebody is in `FlushToDb` exactly while the mutex is held,
the signal goroutine exactly while `sigPc` is `"flushing"`, and as long as it is, the lines counted are those counted
when it began, because counting needs the mutex. At the flush's return `Conservation` and
`NoLossWithoutFailure` give that all of them are durable (`FlushCovers`), and what is durable or expired
only grows (`DurableGrows`) until `os.Exit`, while connections go on counting.

`WebSocketClient_proofs` and `WebSocketHub_proofs`, for any set of connections, levels, subscriptions,
messages, capacities and bounds:

| theorem | statement |
|---|---|
| `HubInvariant` | `Spec => []HubInv` |
| `HubTypes` | `Spec => []TypeOK` |
| `MapSafe` | `Spec => []MapMatchesChannels` |
| `OnceAtMost` | `Spec => []AtMostOnce` |
| `NothingLostSilently` | `Spec => []NoSilentLoss` |
| `AcknowledgedFilter` | `Spec => []AcknowledgedFilterApplies` |

`HubInv` is an invariant of each client's record (`ClientInv`) and what relates the clients to the hub. The parts of
`ClientInv`: `WriterHolds` (an item in hand exactly while writing), `OnePlace` (a message is
in the channel, in hand or with the browser, in one of them at most, and only once its goroutine has queued it), `SentIsKept` (what is
queued stays in one of them until the writer ends), `DropsCounted` (the counter against the losses, with the answers still owed
and the batches flushed), `FilterFollows` (the field `filter` is never older than the subscription acknowledged
last, although the reader replaces the fields one by one). `AtMostOnce` needs `BroadcastOrdered` besides: a number is
broadcast once and a client's goroutine for it has not been started before, or `OnePlace` would break when it is.
`MapMatchesChannels` needs `MapFollowsReaders`: a reader that has not registered, or that is about to be put into the
map, has a channel nobody has closed. Each step changes the record of one client, so the proof shows for each step
which fields it leaves alone, and that the parts depending on the others hold again.
Nothing is assumed of the number of clients.

`LogStatQuery_proofs`, for any sources, loggers, filters and bounds (of `QuerySpec`, the queries that are not aggregated; the run has both):

| theorem | statement |
|---|---|
| `QueryInvariant` | `QuerySpec => []QueryInv` |
| `NothingIsMissing` | `QuerySpec => []NothingMissing` |
| `TwiceByFlushAlone` | `QuerySpec => []TwiceOnlyByFlush` |
| `MetricsBucketEnded` | `QuerySpec => []MetricsBucketIsComplete` |

The properties speak of an answer; `ReadsFollow` says what holds between the two reads: of each key, what is
in the copy and in the table is no more than was counted unless a flush committed the key meanwhile, and no less than
was there at the beginning, less what was lost or expired. It rests on `StoreInvariant`, which a query's steps leave alone.
`FinitelyMany` is there because LIMIT compares a number of rows and `Patterns` may be infinite: map, table and copy hold
finitely many keys in every reachable state.

`LogStreamClient_proofs` and `StreamPage_proofs`, for any settings, number of attempts, sockets and bounds:

| theorem | statement |
|---|---|
| `StreamTyped`, `ConnectedOverOpenSocket` | the client's types and `ConnectedMeansOpen`, of `StreamSpec` |
| `SubscriptionHolds` | `StreamSpec => []SubscriptionInForce` |
| `ClientOnPage` | the same inductive invariants, of `StreamPageSpec` |
| `StreamPageTyped` | `StreamPageSpec => []StreamPageTypeOK` |
| `PageConnectedOverOpenSocket` | `StreamPageSpec => []ConnectedMeansOpen` |
| `UpdatesGoOn` | `StreamPageSpec => []UpdatesRun` |
| `NewestAreKept` | `StreamPageSpec => []NewestKept` |
| `ChartCounts` | `StreamPageSpec => []ChartCountsAll` |

A step of the page is a step of the client or leaves it alone. `SubscriptionInForce` speaks
only of a connected client without a pending callback, and promises the server's filter only for settings the server accepts; the inductive `SubscriptionInvariant` adds
`StoredIsSaved`, which must hold through disconnections too: what is stored, if anything, is what was saved last
unless that came too early to be stored. `NewestKept`
is an existential, and the proof gives its witness in each case: `dropped` stays, or grows by
what the trim cuts off. It is inductive over the types alone.

`ChartCounts` needs to know what has left the buffer: `ChartFollows` says that `received` is `Processed` followed by the
buffer, that the chart is empty before the first message is processed, and that within the window it has a bucket exactly
where messages fell, with all of them, as long as the settings stay (`resized`). The cutoff moves
with the clock only, so a bucket removed is never in the window again.

`Dashboard_proofs`, for any rows, columns, answers, levels, chunk sizes and bounds:

| theorem | statement |
|---|---|
| `DashboardTyped` | `DashboardSpec => []DashboardTypeOK` |
| `FilterIsInForce` | `DashboardSpec => []FilterInForce` |
| `RowsFit` | `DashboardSpec => []RowsFitHeaders` |
| `TableIsComplete` | `DashboardSpec => []TableComplete` |
| `ChartsFollow` | `DashboardSpec => []ChartsFollowData` |

The assumptions of `StatsTable` and `Dashboard` are those TLC evaluates: what a column compares is an integer, the count of a
row is a number of messages, `MaxLoads` admits the two loads of the opening. Three inductive invariants:

- `HeadInv` for `RowsFitHeaders`, which speaks only of a table whose last response was that of the newest request (`newest`) and whose
  renderings have not met (`drawn`): the head is made for the form's mode and so is the newest request (`AskedFor`); while
  the newest request was the last to be answered the data are an answer's in that mode (`NewestFits`), and, if renderings have
  not met, so are the body and what the renderings under way will still draw, cell for cell while `currentViewMode` is
  the form's (`ShownFit`). An older response drawn last makes `newest` false; what is shown then is finding 5.
- `TableInv` for `TableComplete`, which speaks only of a table at rest: until a load empties the body or a rendering at once
  meets older chunks, either the last rendering in `frames` has still rows to draw, works on the rows as they are
  sorted now, and has drawn what is before its index (`InProgress`), or no rendering will clear the body again and
  all rows are there (`Finished`). A frame runs the chunks of all renderings in one fold; `FrameAppends` and
  `FrameGoesOn` follow it chunk by chunk.
- `ChartsInv`, the first two parts of `ChartsFollowData`. That sorting in place leaves the charts true is
  `ChartsOfSorted`: a sort is a bijection of places, and a sum does not depend on the order. That both charts
  count the same is `SumOfParts`: the sums of the parts of a bucket, by logger or by level, add up to the bucket; a level
  left out has volume zero, so each of its rows counts zero.

`HeadInv` and `TableInv` were checked by TLC on the instance of the run `dashboard` (532,565 states), before they
were proved.

Sums, folds and sorting. The library's induction theorems take an operator as a parameter and cannot be
instantiated here, but inclusion is well-founded on the subsets of a finite set, and the
library states that for a set of sets: the counterexamples to a lemma form a set, a smallest one exists
(`SmallestSet`), and taking one element out of it gives a smaller one that is none. `SumOf`, `SumOfUnion`,
`SumOfParts`, `SumMapped`, the frames' fold and the existence of `InOrder`'s numbering are proved in this way.

Only model-checked: the liveness properties (`PendingIsSettled`, `ClosedClientIsReleased`, `ConnectionSettles`,
`MessagesShown`, `DisplaySettles`), which are out of the prover's reach, as is `ENABLED`, and the three properties of
aggregated queries (`NothingMissingInTotals`, `TotalsTwiceOnlyByFlush`, `FirstSeenIsEarliest`). Every other invariant and action property of
a passing run is a theorem above.

## 6. Assumed, and left out

- The wall clock does not go back; one UTC offset, no change of it while running.
- Bucket sizes divide an hour, so that buckets count alike from midnight and from tick 0.
- A timer behaves as since Go 1.23: a stopped timer delivers nothing.
- The rate limiter's arithmetic, the wording of logs, flags, routing, JSON.
- Of the browser: other tabs that write the same localStorage, fields of the form that are empty or no numbers, storage that
  refuses, charts or elements that are missing. Messages carry a valid time, as the server sends them.
- Not modelled in the browser: colours, layout and text of cells and panels, the dialog with a message's
  details, `subscribe` and `ping`, the memory chart (nothing calls it), the status line.
- What properties leave open, by their own words: `RowsFitHeaders` says nothing of an older response drawn last (finding 5);
  `SubscriptionInForce` says nothing of settings applied without a connection while older ones are stored (`missed`) or of refused ones
; `ChartCountsAll` holds until the chart's settings change (`resized`); `NewestKept` and `ChartCountsAll` count a line that came over
  two sockets twice, as the page does; `MessagesShown` excepts a message outrun by newer ones before a tick, and `Clear`;
  `PendingIsSettled` counts a lost line as settled; `FilterInForce` has the text field alone,
  because the level field takes effect at once.
- Whether two intervals run at once: `updating` is a boolean.
- `filterStatsByTimestamp`, and `QueryAggregatedStats` and `QueryByLoggerPattern`, which nothing calls.
- The dashboard is opened at `/`; the other pages of `StartPages` differ in one load less.
- Extraction of fields from a line, globs, regular expressions, stack traces: pure, planned.
- Connections are never reused; ping/pong deadlines are a connection that closes.

## 7. Plan

1. Proofs: the three properties of `LogStatAggregates`, from `ReadsFollow` of `LogStatQuery_proofs` and the sums of
   `Dashboard_proofs`. An inductive form of `ShutdownIsGraceful`'s premise, that is, under which order of
   closing and flushing a shutdown would lose nothing, would state what the finding asks of a repair.
2. `MessageFilter`: `Matches`, `ProcessStackTrace`, `filterStackTraceFrames` as operators used by
   `WebSocketClient`, whose `ProcessMessage` reads the filter twice, once to match and once to transform.
3. Pure operators on text: the expressions for which `regexToLike` is exact (`Exact`, until now a premise); RFC3339 order under
   several offsets; `getBucketTime` over a change of offset.
4. An abstract hub (per client a bounded queue, drops counted) that `WebSocketHub` implements.
