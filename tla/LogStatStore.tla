------------------------------ MODULE LogStatStore ------------------------------
(***************************************************************************)
(* The statistics store: the in-memory counters of log_stat_store.go, the  *)
(* flush into SQLite of log_stat_store_util_db.go and the maintenance of   *)
(* db_maintenance.go, with the process that runs them stopping and         *)
(* starting again.                                                         *)
(*                                                                         *)
(* Time is a count of ticks.  A counter is identified by the pattern of a  *)
(* line (hostName, logger and level together) and by its bucket.  entries  *)
(* and db are total functions on these keys; a key that is absent from the *)
(* map s.entries, or that has no row, holds NoStat.                        *)
(*                                                                         *)
(* SQLite is modelled from how the code uses it: one writer at a time, a   *)
(* transaction takes the write lock at its first upsert and what it wrote  *)
(* is seen at its commit or never, a statement that finds the lock taken   *)
(* waits or returns an error.                                              *)
(***************************************************************************)
EXTENDS Naturals

CONSTANTS
    Patterns,       \* (hostName, logger, level) combinations of the lines
    BucketSize,     \* s.bucketSize, in ticks
    Retention,      \* the flag -retention-days, in ticks
    MaxTime,        \* bound: last tick of the clock
    MaxLines,       \* bound: lines accepted
    MaxFaults,      \* bound: SQLite calls that return an error
    MaxCrashes      \* bound: times the process stops

ASSUME BucketSizeAssumption == BucketSize \in Nat \ {0}
ASSUME RetentionAssumption == Retention \in Nat
ASSUME BoundsAssumption ==
    MaxTime \in Nat /\ MaxLines \in Nat /\ MaxFaults \in Nat /\ MaxCrashes \in Nat

VARIABLES
    now,            \* the wall clock
    up,             \* the process runs
    appStartTime,   \* s.appStartTime
    entries,        \* s.entries: the counters in memory
    db,             \* the committed rows of log_stats
    flushPc,        \* where FlushToDb stands; it holds s.mu unless "idle"
    todo,           \* keys its loop over the entries has still to upsert
    written,        \* keys its transaction has upserted
    maintPc,        \* where RunMaintenance stands
    faults,         \* SQLite errors so far
    crashes,        \* stops of the process so far
    lines,          \* lines accepted so far
    accepted,       \* history: lines counted, per key
    lost,           \* history: counts that never reached the database
    expired         \* history: counts deleted with their row

process == <<up, appStartTime, crashes>>
flushing == <<flushPc, todo, written>>
history == <<lines, accepted, lost, expired>>
vars == <<now, process, entries, db, flushing, maintPc, faults, history>>

----------------------------------------------------------------------------
Time == 0 .. MaxTime

\* getBucketTime: start of the bucket of t.  Every admitted bucket size divides
\* an hour, so counting buckets from midnight or from tick 0 is the same.
BucketTime(t) == (t \div BucketSize) * BucketSize

Buckets == {BucketTime(t) : t \in Time}

Keys == [pattern : Patterns, bucketTS : Buckets]

\* LogStat, without the fields that make its key.
Stat == [n : Nat, duration : Nat, firstSeen : Time]

NoStat == [n |-> 0, duration |-> 0, firstSeen |-> 0]

NoEntries == [k \in Keys |-> NoStat]
NoCounts == [k \in Keys |-> 0]

Present(stats) == {k \in Keys : stats[k].n > 0}

Unlocked_NoMutex == TRUE

\* s.mu is free: FlushToDb holds it from its first line to its return.
Unlocked == flushPc = "idle"

\* SQLite's write lock, as the flush and as the maintenance hold it.
FlushWrites == flushPc = "upserting" /\ written # {}
MaintenanceWrites == maintPc = "vacuuming"

----------------------------------------------------------------------------
Init ==
    /\ now \in Time
    /\ up = TRUE
    /\ appStartTime = now
    /\ entries = NoEntries
    /\ db = NoEntries
    /\ flushPc = "idle" /\ todo = {} /\ written = {}
    /\ maintPc = "idle"
    /\ faults = 0 /\ crashes = 0
    /\ lines = 0 /\ accepted = NoCounts /\ lost = NoCounts /\ expired = NoCounts

Tick ==
    /\ now < MaxTime
    /\ now' = now + 1
    /\ UNCHANGED <<process, entries, db, flushing, maintPc, faults, history>>

NewStat_SinceStart(bucketTS) == [n |-> 1, duration |-> now - appStartTime, firstSeen |-> now]

\* The entry a line creates when its key is not in the map.
NewStat(bucketTS) ==
    [n         |-> 1,
     duration  |-> IF appStartTime > bucketTS THEN now - appStartTime ELSE BucketSize,
     firstSeen |-> now]

\* The entry of key k with one more line.
Counted(k) ==
    IF k \in Present(entries) THEN [entries[k] EXCEPT !.n = @ + 1] ELSE NewStat(k.bucketTS)

\* One line of pattern p is counted in the bucket of the present time.
AddOrUpdate(p) ==
    LET k == [pattern |-> p, bucketTS |-> BucketTime(now)] IN
    /\ up /\ Unlocked
    /\ lines < MaxLines /\ lines' = lines + 1
    /\ entries' = [entries EXCEPT ![k] = Counted(k)]
    /\ accepted' = [accepted EXCEPT ![k] = @ + 1]
    /\ UNCHANGED <<now, process, db, flushing, maintPc, faults, lost, expired>>

----------------------------------------------------------------------------
(* FlushToDb.                                                              *)

FlushBegin ==
    /\ up /\ Unlocked
    /\ flushPc' = "setup"
    /\ UNCHANGED <<now, process, entries, db, todo, written, maintPc, faults, history>>

\* The counts the keys in ks still hold in memory are given up.
GiveUp(ks) == lost' = [k \in Keys |-> IF k \in ks THEN lost[k] + entries[k].n ELSE lost[k]]

ClearAndReturn_KeepEntries ==
    /\ entries' = entries
    /\ flushPc' = "idle" /\ todo' = {} /\ written' = {}

\* s.entries is replaced by an empty map and FlushToDb returns.
ClearAndReturn ==
    /\ entries' = NoEntries
    /\ flushPc' = "idle" /\ todo' = {} /\ written' = {}

Fault == faults < MaxFaults /\ faults' = faults + 1

\* sql.Open, db.Begin or tx.Prepare returns an error.
FlushSetupFails ==
    /\ flushPc = "setup"
    /\ Fault
    /\ GiveUp(Keys)
    /\ ClearAndReturn
    /\ UNCHANGED <<now, process, db, maintPc, lines, accepted, expired>>

FlushSetup ==
    /\ flushPc = "setup"
    /\ flushPc' = "upserting"
    /\ todo' = Present(entries)
    /\ UNCHANGED <<now, process, entries, db, written, maintPc, faults, history>>

\* One turn of the loop: stmt.Exec succeeds once no other writer holds the lock.
FlushUpsert(k) ==
    /\ flushPc = "upserting" /\ k \in todo
    /\ ~MaintenanceWrites
    /\ todo' = todo \ {k}
    /\ written' = written \cup {k}
    /\ UNCHANGED <<now, process, entries, db, flushPc, maintPc, faults, history>>

\* One turn of the loop: stmt.Exec returns an error, which is counted and passed over.
FlushUpsertFails(k) ==
    /\ flushPc = "upserting" /\ k \in todo
    /\ Fault
    /\ todo' = todo \ {k}
    /\ UNCHANGED <<now, process, entries, db, flushPc, written, maintPc, history>>

\* INSERT ... ON CONFLICT DO UPDATE of an entry over a row.
Upsert_Overwrite(row, entry) == entry
Upsert_LastSeen(row, entry) ==
    [n |-> row.n + entry.n, duration |-> entry.duration, firstSeen |-> entry.firstSeen]
Upsert(row, entry) ==
    IF row.n = 0
    THEN entry
    ELSE [n         |-> row.n + entry.n,
          duration  |-> entry.duration,
          firstSeen |-> IF row.firstSeen < entry.firstSeen
                        THEN row.firstSeen ELSE entry.firstSeen]

FlushCommit ==
    /\ flushPc = "upserting" /\ todo = {}
    /\ db' = [k \in Keys |-> IF k \in written THEN Upsert(db[k], entries[k]) ELSE db[k]]
    /\ flushPc' = "committed"
    /\ UNCHANGED <<now, process, entries, todo, written, maintPc, faults, history>>

FlushCommitFails ==
    /\ flushPc = "upserting" /\ todo = {}
    /\ Fault
    /\ GiveUp(Keys)
    /\ ClearAndReturn
    /\ UNCHANGED <<now, process, db, maintPc, lines, accepted, expired>>

\* After the commit: what was not upserted is given up with the rest of the map.
FlushClear ==
    /\ flushPc = "committed"
    /\ GiveUp(Keys \ written)
    /\ ClearAndReturn
    /\ UNCHANGED <<now, process, db, maintPc, faults, lines, accepted, expired>>

----------------------------------------------------------------------------
(* RunMaintenance: CleanupOldData, then VacuumDatabase whatever it returned. *)

\* The rows CleanupOldData's DELETE selects.
Outdated(k) == k.bucketTS + Retention < now

Cleanup ==
    LET old == {k \in Present(db) : Outdated(k)} IN
    /\ up /\ maintPc = "idle"
    /\ ~FlushWrites
    /\ db' = [k \in Keys |-> IF k \in old THEN NoStat ELSE db[k]]
    /\ expired' = [k \in Keys |-> IF k \in old THEN expired[k] + db[k].n ELSE expired[k]]
    /\ maintPc' = "cleaned"
    /\ UNCHANGED <<now, process, entries, flushing, faults, lines, accepted, lost>>

\* The DELETE finds the write lock taken for too long.
CleanupFails ==
    /\ up /\ maintPc = "idle"
    /\ FlushWrites
    /\ maintPc' = "cleaned"
    /\ UNCHANGED <<now, process, entries, db, flushing, faults, history>>

VacuumBegin ==
    /\ maintPc = "cleaned"
    /\ ~FlushWrites
    /\ maintPc' = "vacuuming"
    /\ UNCHANGED <<now, process, entries, db, flushing, faults, history>>

VacuumFails ==
    /\ maintPc = "cleaned"
    /\ FlushWrites
    /\ maintPc' = "idle"
    /\ UNCHANGED <<now, process, entries, db, flushing, faults, history>>

VacuumEnd_HoldsLock ==
    /\ maintPc = "vacuuming"
    /\ UNCHANGED vars

VacuumEnd ==
    /\ maintPc = "vacuuming"
    /\ maintPc' = "idle"
    /\ UNCHANGED <<now, process, entries, db, flushing, faults, history>>

----------------------------------------------------------------------------
(* The process.                                                            *)

\* What has not been committed: the whole map, less the upserted keys between
\* tx.Commit and the clearing of the map.
Uncommitted == IF flushPc = "committed" THEN Keys \ written ELSE Keys

\* The process ends, however it ends: the map goes with it and SQLite rolls
\* back what was not committed.
Stop ==
    /\ up
    /\ up' = FALSE
    /\ crashes' = crashes + 1
    /\ GiveUp(Uncommitted)
    /\ ClearAndReturn
    /\ maintPc' = "idle"
    /\ UNCHANGED <<now, appStartTime, db, faults, lines, accepted, expired>>

Crash == crashes < MaxCrashes /\ Stop

Restart_NextBucket ==
    /\ ~up
    /\ up' = TRUE
    /\ appStartTime' = BucketTime(now) + BucketSize
    /\ UNCHANGED <<now, entries, db, flushing, maintPc, faults, crashes, history>>

\* main once more: NewLogStatStore, and InitDB over a table that may exist.
Restart ==
    /\ ~up
    /\ up' = TRUE
    /\ appStartTime' = now
    /\ UNCHANGED <<now, entries, db, flushing, maintPc, faults, crashes, history>>

----------------------------------------------------------------------------
Flush ==
    \/ FlushBegin \/ FlushSetup \/ FlushSetupFails
    \/ \E k \in Keys : FlushUpsert(k) \/ FlushUpsertFails(k)
    \/ FlushCommit \/ FlushCommitFails \/ FlushClear

Maintenance == Cleanup \/ CleanupFails \/ VacuumBegin \/ VacuumFails \/ VacuumEnd

Next ==
    \/ Tick
    \/ \E p \in Patterns : AddOrUpdate(p)
    \/ Flush
    \/ Maintenance
    \/ Crash
    \/ Restart

Spec == Init /\ [][Next]_vars

----------------------------------------------------------------------------
(* Properties.                                                             *)

\* Every variable has its type.
TypeOK ==
    /\ now \in Time
    /\ up \in BOOLEAN
    /\ appStartTime \in 0 .. now
    /\ entries \in [Keys -> Stat]
    /\ db \in [Keys -> Stat]
    /\ flushPc \in {"idle", "setup", "upserting", "committed"}
    /\ todo \in SUBSET Keys
    /\ written \in SUBSET Keys
    /\ maintPc \in {"idle", "cleaned", "vacuuming"}
    /\ faults \in Nat
    /\ crashes \in Nat
    /\ lines \in Nat
    /\ accepted \in [Keys -> Nat]
    /\ lost \in [Keys -> Nat]
    /\ expired \in [Keys -> Nat]

Pending(k) == IF k \in Uncommitted THEN entries[k].n ELSE 0

\* AddOrUpdate, FlushToDb and CleanupOldData together count every line exactly
\* once: whatever has failed, stopped or been deleted in between, the lines
\* counted under a key are those in memory, in its row, lost or expired.
Conservation ==
    \A k \in Keys : accepted[k] = Pending(k) + db[k].n + lost[k] + expired[k]

\* FlushToDb clears the whole map, and not only what it read, yet no line
\* counted while it runs is dropped with it: as long as SQLite has returned no
\* error and the process has not stopped, nothing is lost.
NoLossWithoutFailure ==
    faults = 0 /\ crashes = 0 => \A k \in Keys : lost[k] = 0

\* What s.mu and the transaction keep while FlushToDb runs: the loop visits
\* entries of the map and nothing else, each once, and passes one over only for
\* an error; a stopped process holds nothing.
FlushInvariant ==
    /\ todo \cup written \subseteq Present(entries)
    /\ todo \cap written = {}
    /\ flushPc \in {"idle", "setup"} => todo = {} /\ written = {}
    /\ flushPc = "committed" => todo = {}
    /\ flushPc \in {"upserting", "committed"} /\ faults = 0 =>
          Present(entries) = todo \cup written
    /\ ~up => flushPc = "idle" /\ maintPc = "idle" /\ entries = NoEntries

\* The inductive invariant from which the store's properties are proved.
StoreInvariant ==
    TypeOK /\ FlushInvariant /\ Conservation /\ NoLossWithoutFailure

WellFormed(k, stat) ==
    /\ k.bucketTS <= stat.firstSeen /\ stat.firstSeen <= now
    /\ stat.firstSeen < k.bucketTS + BucketSize
    /\ stat.duration <= BucketSize

\* Over flushes and restarts within a bucket, the counters of a bucket were first
\* seen inside it and are no longer than it, and a row that is added to keeps a
\* first_seen_ts no later than that of what is still in memory.
CountersMatchTheirBucket ==
    /\ \A k \in Present(entries) : WellFormed(k, entries[k])
    /\ \A k \in Present(db) : WellFormed(k, db[k])
    /\ \A k \in Present(db) \cap Present(entries) :
          db[k].firstSeen <= entries[k].firstSeen

\* The upsert and the maintenance may never take counts out of a row: a count
\* only grows, until its whole row is deleted, and that only when its first line
\* is older than the retention, to the precision of a bucket.
DurableUntilExpired ==
    [][\A k \in Keys : db'[k].n < db[k].n =>
          db'[k].n = 0 /\ db[k].firstSeen + Retention < now + BucketSize]_vars

\* As long as a row exists, repeated flushes of its bucket (after a crash and a
\* restart too) leave its first_seen_ts what the first of them wrote.
FirstSeenKept ==
    [][\A k \in Present(db) : db'[k].n > 0 => db'[k].firstSeen = db[k].firstSeen]_vars

\* The store keeps the promise of MessageLedger.  What a flush has committed is
\* durable from tx.Commit on, although the map still holds it.
Ledger == INSTANCE MessageLedger WITH
    pending <- [k \in Keys |-> Pending(k)],
    durable <- [k \in Keys |-> db[k].n]

ImplementsLedger == Ledger!LedgerSpec
=============================================================================
