-------------------------- MODULE LogStatStore_proofs --------------------------
(***************************************************************************)
(* What is proved of LogStatStore, for every set of patterns, bucket size, *)
(* retention and bound.                                                    *)
(***************************************************************************)
EXTENDS LogStatStore, TLAPS

USE DEF process, flushing, history, vars

----------------------------------------------------------------------------
(* The operators the actions are built from.                               *)

LEMMA KeyOfNow ==
    ASSUME now \in Time, NEW p \in Patterns
    PROVE  [pattern |-> p, bucketTS |-> BucketTime(now)] \in Keys
  BY DEF Keys, Buckets

LEMMA EmptyTypes ==
    ASSUME MaxTime \in Nat
    PROVE  /\ NoStat \in Stat
           /\ NoEntries \in [Keys -> Stat]
           /\ NoCounts \in [Keys -> Nat]
           /\ \A k \in Keys : NoEntries[k].n = 0 /\ NoCounts[k] = 0
  BY DEF NoStat, NoEntries, NoCounts, Stat, Time

\* An upsert adds the counts, whether the row exists or not.
LEMMA UpsertAdds ==
    ASSUME NEW row \in Stat, NEW entry \in Stat
    PROVE  /\ Upsert(row, entry) \in Stat
           /\ Upsert(row, entry).n = row.n + entry.n
  BY DEF Upsert, Stat

\* A key of the map never has a count of zero, so that the new entry of a line
\* and the increment of an old one both add one.
LEMMA LineAddsOne ==
    ASSUME TypeOK, NEW p \in Patterns, AddOrUpdate(p),
           NEW k \in Keys, k = [pattern |-> p, bucketTS |-> BucketTime(now)]
    PROVE  /\ entries' \in [Keys -> Stat]
           /\ entries'[k].n = entries[k].n + 1
           /\ \A j \in Keys \ {k} : entries'[j] = entries[j]
  <1>1. entries' = [entries EXCEPT ![k] = Counted(k)]
    BY DEF AddOrUpdate
  <1>2. Counted(k) \in Stat /\ Counted(k).n = entries[k].n + 1
    <2>1. now \in Time /\ now - appStartTime \in Nat /\ BucketSize \in Nat
      BY BoundsAssumption, BucketSizeAssumption DEF TypeOK, Time
    <2>2. entries[k] \in Stat
      BY DEF TypeOK
    <2>3. CASE k \in Present(entries)
      BY <2>2, <2>3 DEF Counted, Stat
    <2>4. CASE k \notin Present(entries)
      <3>1. entries[k].n = 0
        BY <2>2, <2>4 DEF Present, Stat
      <3> QED BY <2>1, <2>4, <3>1 DEF Counted, NewStat, Stat
    <2> QED BY <2>3, <2>4
  <1> QED BY <1>1, <1>2 DEF TypeOK

----------------------------------------------------------------------------
(* Type correctness.                                                       *)

LEMMA InitTypeOK == Init => TypeOK
  BY EmptyTypes, BoundsAssumption DEF Init, TypeOK, Time

LEMMA ClearTypes ==
    ASSUME ClearAndReturn
    PROVE  /\ entries' \in [Keys -> Stat] /\ flushPc' = "idle"
           /\ todo' = {} /\ written' = {}
           /\ \A k \in Keys : entries'[k].n = 0
  BY EmptyTypes, BoundsAssumption DEF ClearAndReturn

LEMMA GiveUpTypes ==
    ASSUME TypeOK, NEW ks \in SUBSET Keys, GiveUp(ks)
    PROVE  /\ lost' \in [Keys -> Nat]
           /\ \A k \in Keys : lost'[k] = lost[k] + (IF k \in ks THEN entries[k].n ELSE 0)
  BY DEF GiveUp, TypeOK, Stat

LEMMA CommitTypes ==
    ASSUME TypeOK, FlushCommit
    PROVE  /\ db' \in [Keys -> Stat]
           /\ \A k \in Keys :
                db'[k].n = db[k].n + (IF k \in written THEN entries[k].n ELSE 0)
  <1>1. ASSUME NEW k \in Keys
        PROVE  /\ entries[k] \in Stat /\ db[k] \in Stat /\ db[k].n \in Nat
               /\ Upsert(db[k], entries[k]) \in Stat
               /\ Upsert(db[k], entries[k]).n = db[k].n + entries[k].n
    <2>1. entries[k] \in Stat /\ db[k] \in Stat
      BY DEF TypeOK
    <2> QED BY <2>1, UpsertAdds DEF Stat
  <1>2. db' = [k \in Keys |-> IF k \in written THEN Upsert(db[k], entries[k]) ELSE db[k]]
    BY DEF FlushCommit
  <1>3. db' \in [Keys -> Stat]
    BY <1>1, <1>2
  <1>4. ASSUME NEW k \in Keys
        PROVE  db'[k].n = db[k].n + (IF k \in written THEN entries[k].n ELSE 0)
    <2>1. CASE k \in written
      BY <1>1, <1>2, <2>1
    <2>2. CASE k \notin written
      <3>1. db'[k] = db[k]
        BY <1>2, <2>2
      <3> QED BY <1>1, <2>2, <3>1
    <2> QED BY <2>1, <2>2
  <1> QED BY <1>3, <1>4

LEMMA CleanupTypes ==
    ASSUME TypeOK, Cleanup
    PROVE  /\ db' \in [Keys -> Stat] /\ expired' \in [Keys -> Nat]
           /\ \A k \in Keys : db'[k].n + expired'[k] = db[k].n + expired[k]
  <1> DEFINE old == {k \in Present(db) : Outdated(k)}
  <1>1. /\ db' = [k \in Keys |-> IF k \in old THEN NoStat ELSE db[k]]
        /\ expired' = [k \in Keys |-> IF k \in old THEN expired[k] + db[k].n ELSE expired[k]]
    BY DEF Cleanup
  <1>2. NoStat \in Stat /\ NoStat.n = 0
    BY EmptyTypes, BoundsAssumption DEF NoStat
  <1>3. \A k \in Keys : db[k] \in Stat /\ db[k].n \in Nat /\ expired[k] \in Nat
    BY DEF TypeOK, Stat
  <1> HIDE DEF old
  <1>4. db' \in [Keys -> Stat] /\ expired' \in [Keys -> Nat]
    BY <1>1, <1>2, <1>3
  <1>5. ASSUME NEW k \in Keys
        PROVE  db'[k].n + expired'[k] = db[k].n + expired[k]
    <2>1. CASE k \in old
      BY <1>1, <1>2, <1>3, <2>1
    <2>2. CASE k \notin old
      BY <1>1, <1>3, <2>2
    <2> QED BY <2>1, <2>2
  <1> QED BY <1>4, <1>5

LEMMA TypeOKStep == TypeOK /\ [Next]_vars => TypeOK'
  <1> SUFFICES ASSUME TypeOK, [Next]_vars PROVE TypeOK'
    OBVIOUS
  <1>t. MaxTime \in Nat
    BY BoundsAssumption
  <1>1. CASE Tick
    <2>1. now' \in Time /\ appStartTime' \in 0 .. now'
      BY <1>t, <1>1 DEF Tick, TypeOK, Time
    <2> QED BY <1>1, <2>1 DEF Tick, TypeOK
  <1>2. ASSUME NEW p \in Patterns, AddOrUpdate(p) PROVE TypeOK'
    <2> DEFINE k == [pattern |-> p, bucketTS |-> BucketTime(now)]
    <2>1. k \in Keys
      BY KeyOfNow DEF TypeOK
    <2>2. entries' \in [Keys -> Stat]
      BY <1>2, <2>1, LineAddsOne
    <2>3. accepted' = [accepted EXCEPT ![k] = accepted[k] + 1] /\ lines' = lines + 1
      BY <1>2 DEF AddOrUpdate
    <2> HIDE DEF k
    <2>4. accepted' \in [Keys -> Nat] /\ lines' \in Nat
      BY <2>1, <2>3 DEF TypeOK
    <2> QED BY <1>2, <2>2, <2>4 DEF AddOrUpdate, TypeOK
  <1>3. CASE Flush
    <2>1. CASE FlushBegin
      BY <2>1 DEF FlushBegin, TypeOK
    <2>2. CASE FlushSetup
      BY <2>2 DEF FlushSetup, TypeOK, Present
    <2>3. CASE FlushSetupFails
      <3>1. lost' \in [Keys -> Nat] /\ faults' \in Nat
        BY <2>3, GiveUpTypes DEF FlushSetupFails, Fault, TypeOK
      <3> QED BY <2>3, <3>1, ClearTypes DEF FlushSetupFails, TypeOK
    <2>4. ASSUME NEW k \in Keys, FlushUpsert(k) PROVE TypeOK'
      BY <2>4 DEF FlushUpsert, TypeOK
    <2>5. ASSUME NEW k \in Keys, FlushUpsertFails(k) PROVE TypeOK'
      BY <2>5 DEF FlushUpsertFails, Fault, TypeOK
    <2>6. CASE FlushCommit
      <3>1. db' \in [Keys -> Stat]
        BY <2>6, CommitTypes
      <3> QED BY <2>6, <3>1 DEF FlushCommit, TypeOK
    <2>7. CASE FlushCommitFails
      <3>1. lost' \in [Keys -> Nat] /\ faults' \in Nat
        BY <2>7, GiveUpTypes DEF FlushCommitFails, Fault, TypeOK
      <3> QED BY <2>7, <3>1, ClearTypes DEF FlushCommitFails, TypeOK
    <2>8. CASE FlushClear
      <3>1. lost' \in [Keys -> Nat]
        BY <2>8, GiveUpTypes DEF FlushClear
      <3> QED BY <2>8, <3>1, ClearTypes DEF FlushClear, TypeOK
    <2> QED BY <1>3, <2>1, <2>2, <2>3, <2>4, <2>5, <2>6, <2>7, <2>8 DEF Flush
  <1>4. CASE Maintenance
    <2>1. CASE Cleanup
      <3>1. db' \in [Keys -> Stat] /\ expired' \in [Keys -> Nat]
        BY <2>1, CleanupTypes
      <3> QED BY <2>1, <3>1 DEF Cleanup, TypeOK
    <2>2. CASE CleanupFails \/ VacuumBegin \/ VacuumFails \/ VacuumEnd
      BY <2>2 DEF CleanupFails, VacuumBegin, VacuumFails, VacuumEnd, TypeOK
    <2> QED BY <1>4, <2>1, <2>2 DEF Maintenance
  <1>5. CASE Crash
    <2>1. Stop /\ Uncommitted \in SUBSET Keys
      BY <1>5 DEF Crash, Uncommitted
    <2>2. lost' \in [Keys -> Nat]
      BY <2>1, GiveUpTypes DEF Stop
    <2>3. crashes' \in Nat /\ maintPc' = "idle"
      BY <2>1 DEF Stop, TypeOK
    <2>u. up' \in BOOLEAN
      BY <2>1, Zenon DEF Stop
    <2>4. ClearAndReturn /\ UNCHANGED <<now, appStartTime, db, faults, lines, accepted, expired>>
      BY <2>1 DEF Stop
    <2> QED BY <2>2, <2>3, <2>u, <2>4, ClearTypes DEF TypeOK
  <1>6. CASE Restart
    <2>1. appStartTime' \in 0 .. now'
      BY <1>t, <1>6 DEF Restart, TypeOK, Time
    <2> QED BY <1>6, <2>1 DEF Restart, TypeOK
  <1>7. CASE UNCHANGED vars
    BY <1>7 DEF TypeOK
  <1> QED BY <1>1, <1>2, <1>3, <1>4, <1>5, <1>6, <1>7 DEF Next

\* Every variable of the store keeps its type.
THEOREM TypeCorrect == Spec => []TypeOK
  BY InitTypeOK, TypeOKStep, PTL DEF Spec

----------------------------------------------------------------------------
(* The inductive invariant.                                                *)

LEMMA CountsAreNat ==
    ASSUME TypeOK, NEW k \in Keys
    PROVE  /\ entries[k] \in Stat /\ entries[k].n \in Nat /\ db[k].n \in Nat
           /\ accepted[k] \in Nat /\ lost[k] \in Nat /\ expired[k] \in Nat
           /\ k \in Present(entries) <=> entries[k].n > 0
           /\ k \notin Present(entries) <=> entries[k].n = 0
  BY DEF TypeOK, Stat, Present

LEMMA InitStoreInvariant == Init => StoreInvariant
  <1> SUFFICES ASSUME Init PROVE StoreInvariant
    OBVIOUS
  <1>1. TypeOK
    BY InitTypeOK
  <1>2. \A k \in Keys : /\ entries[k].n = 0 /\ db[k].n = 0 /\ accepted[k] = 0
                        /\ lost[k] = 0 /\ expired[k] = 0
    BY EmptyTypes, BoundsAssumption DEF Init
  <1>3. Conservation /\ NoLossWithoutFailure
    BY <1>2 DEF Conservation, NoLossWithoutFailure, Pending
  <1>4. FlushInvariant
    BY DEF Init, FlushInvariant
  <1> QED BY <1>1, <1>3, <1>4 DEF StoreInvariant

\* While s.mu is held the map does not change and the loop only moves keys from
\* todo to written, or out of both with an error.
LEMMA FlushInvariantStep ==
    ASSUME TypeOK, TypeOK', FlushInvariant, [Next]_vars
    PROVE  FlushInvariant'
  <1>0. ASSUME ClearAndReturn, ~up' => maintPc' = "idle"
        PROVE  FlushInvariant'
    <2>1. Present(entries)' \in SUBSET Keys /\ NoEntries' = NoEntries
      BY DEF Present, NoEntries
    <2> QED BY <1>0, <2>1 DEF ClearAndReturn, FlushInvariant
  <1>1. CASE Tick \/ Restart \/ UNCHANGED vars
    BY <1>1 DEF Tick, Restart, FlushInvariant, Present
  <1>2. ASSUME NEW p \in Patterns, AddOrUpdate(p) PROVE FlushInvariant'
    BY <1>2 DEF AddOrUpdate, Unlocked, FlushInvariant
  <1>3. CASE Flush
    <2>1. CASE FlushBegin
      BY <2>1 DEF FlushBegin, Unlocked, FlushInvariant, Present
    <2>2. CASE FlushSetup
      BY <2>2 DEF FlushSetup, FlushInvariant, Present
    <2>3. CASE FlushSetupFails \/ FlushCommitFails \/ FlushClear
      BY <1>0, <2>3 DEF FlushSetupFails, FlushCommitFails, FlushClear, FlushInvariant
    <2>4. ASSUME NEW k \in Keys, FlushUpsert(k) PROVE FlushInvariant'
      BY <2>4 DEF FlushUpsert, FlushInvariant, Present
    <2>5. ASSUME NEW k \in Keys, FlushUpsertFails(k) PROVE FlushInvariant'
      <3>1. faults' # 0
        BY <2>5 DEF FlushUpsertFails, Fault, TypeOK
      <3> QED BY <2>5, <3>1 DEF FlushUpsertFails, FlushInvariant, Present
    <2>6. CASE FlushCommit
      BY <2>6 DEF FlushCommit, FlushInvariant, Present
    <2> QED BY <1>3, <2>1, <2>2, <2>3, <2>4, <2>5, <2>6 DEF Flush
  <1>4. CASE Maintenance
    BY <1>4 DEF Maintenance, Cleanup, CleanupFails, VacuumBegin, VacuumFails, VacuumEnd,
                FlushInvariant, Present
  <1>5. CASE Crash
    BY <1>0, <1>5 DEF Crash, Stop
  <1> QED BY <1>1, <1>2, <1>3, <1>4, <1>5 DEF Next

\* A flush that returns without having committed gives up all it held, and one
\* that committed what it did not write; in both cases nothing stays pending.
LEMMA GiveUpPending ==
    ASSUME TypeOK, TypeOK', GiveUp(Uncommitted), ClearAndReturn
    PROVE  \A k \in Keys : lost'[k] = lost[k] + Pending(k) /\ Pending(k)' = 0
  <1>1. ASSUME NEW k \in Keys PROVE lost'[k] = lost[k] + Pending(k)
    BY <1>1, GiveUpTypes DEF Pending, Uncommitted
  <1>2. ASSUME NEW k \in Keys PROVE Pending(k)' = 0
    BY <1>2, ClearTypes DEF Pending
  <1> QED BY <1>1, <1>2

\* The counts of a key move between the map, its row, lost and expired, and only
\* AddOrUpdate makes their sum larger.
LEMMA ConservationStep ==
    ASSUME TypeOK, TypeOK', FlushInvariant, Conservation, [Next]_vars
    PROVE  Conservation'
  <1> SUFFICES ASSUME NEW k \in Keys
               PROVE  accepted'[k] = Pending(k)' + db'[k].n + lost'[k] + expired'[k]
    BY DEF Conservation, Keys, Buckets, Time, BucketTime
  <1>a. accepted[k] = Pending(k) + db[k].n + lost[k] + expired[k]
    BY DEF Conservation
  <1>b. /\ Pending(k) \in Nat /\ db[k].n \in Nat /\ lost[k] \in Nat /\ expired[k] \in Nat
        /\ accepted[k] \in Nat /\ entries[k].n \in Nat
    BY CountsAreNat DEF Pending
  <1>1. ASSUME UNCHANGED <<entries, db, accepted, lost, expired>>,
               Uncommitted' = Uncommitted
        PROVE  accepted'[k] = Pending(k)' + db'[k].n + lost'[k] + expired'[k]
    BY <1>1, <1>a DEF Pending
  <1>2. CASE Tick \/ Restart \/ UNCHANGED vars
    BY <1>1, <1>2 DEF Tick, Restart, Uncommitted
  <1>3. ASSUME NEW p \in Patterns, AddOrUpdate(p)
        PROVE  accepted'[k] = Pending(k)' + db'[k].n + lost'[k] + expired'[k]
    <2> DEFINE j == [pattern |-> p, bucketTS |-> BucketTime(now)]
    <2>1. j \in Keys
      BY KeyOfNow DEF TypeOK
    <2>2. entries'[j].n = entries[j].n + 1 /\ (k # j => entries'[k] = entries[k])
      BY <1>3, <2>1, LineAddsOne
    <2>3. /\ accepted' = [accepted EXCEPT ![j] = accepted[j] + 1]
          /\ UNCHANGED <<db, lost, expired>>
          /\ flushPc = "idle" /\ flushPc' = "idle"
      BY <1>3 DEF AddOrUpdate, Unlocked
    <2>4. Pending(k) = entries[k].n /\ Pending(k)' = entries'[k].n
      BY <2>3 DEF Pending, Uncommitted
    <2> HIDE DEF j
    <2>5. accepted'[k] = accepted[k] + (IF k = j THEN 1 ELSE 0)
      BY <1>b, <2>1, <2>3 DEF TypeOK
    <2>6. Pending(k)' = Pending(k) + (IF k = j THEN 1 ELSE 0)
      BY <1>b, <2>2, <2>4
    <2> QED BY <1>a, <1>b, <2>3, <2>5, <2>6
  <1>4. ASSUME GiveUp(Uncommitted), ClearAndReturn, UNCHANGED <<db, accepted, expired>>
        PROVE  accepted'[k] = Pending(k)' + db'[k].n + lost'[k] + expired'[k]
    <2>1. lost'[k] = lost[k] + Pending(k) /\ Pending(k)' = 0
      BY <1>4, GiveUpPending
    <2> QED BY <1>4, <1>a, <1>b, <2>1
  <1>5. CASE Flush
    <2>1. CASE FlushBegin \/ FlushSetup
      BY <1>1, <2>1 DEF FlushBegin, Unlocked, FlushSetup, Uncommitted
    <2>2. CASE \E j \in Keys : FlushUpsert(j) \/ FlushUpsertFails(j)
      BY <1>1, <2>2 DEF FlushUpsert, FlushUpsertFails, Uncommitted
    <2>3. CASE FlushSetupFails \/ FlushCommitFails \/ FlushClear
      BY <1>4, <2>3 DEF FlushSetupFails, FlushCommitFails, FlushClear, Uncommitted
    <2>4. CASE FlushCommit
      <3>1. db'[k].n = db[k].n + (IF k \in written THEN entries[k].n ELSE 0)
        BY <2>4, CommitTypes
      <3>2. Pending(k) = entries[k].n
        BY <2>4 DEF FlushCommit, Pending, Uncommitted
      <3>3. Pending(k)' = IF k \in written THEN 0 ELSE entries[k].n
        BY <2>4 DEF FlushCommit, Pending, Uncommitted
      <3>4. UNCHANGED <<accepted, lost, expired>>
        BY <2>4 DEF FlushCommit
      <3> QED BY <1>a, <1>b, <3>1, <3>2, <3>3, <3>4
    <2> QED BY <1>5, <2>1, <2>2, <2>3, <2>4 DEF Flush
  <1>6. CASE Maintenance
    <2>1. CASE Cleanup
      <3>1. db'[k].n + expired'[k] = db[k].n + expired[k]
        BY <2>1, CleanupTypes
      <3>2. db'[k].n \in Nat /\ expired'[k] \in Nat
        BY CleanupTypes, <2>1 DEF Stat
      <3>3. UNCHANGED <<accepted, lost>> /\ Pending(k)' = Pending(k)
        BY <2>1 DEF Cleanup, Pending, Uncommitted
      <3> QED BY <1>a, <1>b, <3>1, <3>2, <3>3
    <2>2. CASE CleanupFails \/ VacuumBegin \/ VacuumFails \/ VacuumEnd
      BY <1>1, <2>2 DEF CleanupFails, VacuumBegin, VacuumFails, VacuumEnd, Uncommitted
    <2> QED BY <1>6, <2>1, <2>2 DEF Maintenance
  <1>7. CASE Crash
    BY <1>4, <1>7 DEF Crash, Stop
  <1> QED BY <1>2, <1>3, <1>5, <1>6, <1>7 DEF Next

\* Without an error the flush has written every entry of the map when it clears
\* it, because no line could be counted in between.
LEMMA NoLossStep ==
    ASSUME TypeOK, TypeOK', FlushInvariant, NoLossWithoutFailure, [Next]_vars
    PROVE  NoLossWithoutFailure'
  <1> SUFFICES ASSUME faults' = 0, crashes' = 0, NEW k \in Keys
               PROVE  lost'[k] = 0
    BY DEF NoLossWithoutFailure, Keys, Buckets, Time, BucketTime
  <1>a. faults = 0 /\ crashes = 0 => lost[k] = 0
    BY DEF NoLossWithoutFailure
  <1>1. ASSUME UNCHANGED <<lost, faults, crashes>> PROVE lost'[k] = 0
    BY <1>1, <1>a
  <1>2. CASE Tick \/ Restart \/ UNCHANGED vars
    BY <1>1, <1>2 DEF Tick, Restart
  <1>3. ASSUME NEW p \in Patterns, AddOrUpdate(p) PROVE lost'[k] = 0
    BY <1>1, <1>3 DEF AddOrUpdate
  <1>4. CASE Flush
    <2>1. CASE FlushBegin \/ FlushSetup \/ FlushCommit
      BY <1>1, <2>1 DEF FlushBegin, FlushSetup, FlushCommit
    <2>2. ASSUME NEW j \in Keys, FlushUpsert(j) PROVE lost'[k] = 0
      BY <1>1, <2>2 DEF FlushUpsert
    <2>3. ASSUME Fault PROVE FALSE
      BY <2>3 DEF Fault, TypeOK
    <2>4. CASE FlushSetupFails \/ FlushCommitFails \/ \E j \in Keys : FlushUpsertFails(j)
      BY <2>3, <2>4 DEF FlushSetupFails, FlushCommitFails, FlushUpsertFails
    <2>5. CASE FlushClear
      <3>1. faults = 0 /\ crashes = 0 /\ flushPc = "committed" /\ GiveUp(Keys \ written)
        BY <2>5 DEF FlushClear
      <3>2. Present(entries) = written
        BY <3>1 DEF FlushInvariant
      <3>3. lost'[k] = lost[k] + (IF k \in written THEN 0 ELSE entries[k].n)
        BY <3>1, GiveUpTypes
      <3> QED BY <1>a, <3>1, <3>2, <3>3, CountsAreNat
    <2> QED BY <1>4, <2>1, <2>2, <2>4, <2>5 DEF Flush
  <1>5. CASE Maintenance
    BY <1>1, <1>5 DEF Maintenance, Cleanup, CleanupFails, VacuumBegin, VacuumFails, VacuumEnd
  <1>6. CASE Crash
    BY <1>6 DEF Crash, Stop, TypeOK
  <1> QED BY <1>2, <1>3, <1>4, <1>5, <1>6 DEF Next

LEMMA StoreInvariantStep == StoreInvariant /\ [Next]_vars => StoreInvariant'
  BY TypeOKStep, FlushInvariantStep, ConservationStep, NoLossStep DEF StoreInvariant

LEMMA StoreInvariantHolds == Spec => []StoreInvariant
  BY InitStoreInvariant, StoreInvariantStep, PTL DEF Spec

\* The lines counted under a key are always those in memory, in its row, lost or
\* expired: no flush, error, stop, restart or cleanup counts one twice or drops
\* one unnoticed.
THEOREM LinesConserved == Spec => []Conservation
  <1>1. StoreInvariant => Conservation
    BY DEF StoreInvariant
  <1> QED BY <1>1, StoreInvariantHolds, PTL

\* While SQLite has returned no error and the process has not stopped, no flush
\* has lost a line, however its steps interleave with the counting of others.
THEOREM NothingLostWithoutFailure == Spec => []NoLossWithoutFailure
  <1>1. StoreInvariant => NoLossWithoutFailure
    BY DEF StoreInvariant
  <1> QED BY <1>1, StoreInvariantHolds, PTL

----------------------------------------------------------------------------
(* The store implements MessageLedger.                                     *)

LEMMA LedgerInitHolds == Init => Ledger!LedgerInit
  <1> SUFFICES ASSUME Init PROVE Ledger!LedgerInit
    OBVIOUS
  <1>1. \A k \in Keys : NoEntries[k].n = 0
    BY EmptyTypes, BoundsAssumption
  <1> QED BY <1>1 DEF Init, Ledger!LedgerInit, Ledger!Empty, NoCounts, Pending

LEMMA LedgerStep ==
    ASSUME StoreInvariant, StoreInvariant', [Next]_vars
    PROVE  [Ledger!LedgerNext]_(Ledger!ledger)
  <1> DEFINE pending == [k \in Keys |-> Pending(k)]
             durable == [k \in Keys |-> db[k].n]
  <1>t. TypeOK /\ TypeOK'
    BY DEF StoreInvariant
  <1>1. ASSUME UNCHANGED <<entries, db, lost, expired>>, Uncommitted' = Uncommitted
        PROVE  UNCHANGED Ledger!ledger
    BY <1>1 DEF Ledger!ledger, Pending
  <1>2. CASE Tick \/ Restart \/ UNCHANGED vars
    BY <1>1, <1>2 DEF Tick, Restart, Uncommitted
  <1>3. ASSUME GiveUp(Uncommitted), ClearAndReturn, UNCHANGED <<db, expired>>
        PROVE  Ledger!Discard
    <2>1. \A k \in Keys : lost'[k] = lost[k] + Pending(k) /\ Pending(k)' = 0
      BY <1>3, <1>t, GiveUpPending
    <2>2. lost' = [k \in Keys |-> lost[k] + Pending(k)]
      BY <1>t, <2>1 DEF TypeOK
    <2> QED BY <1>3, <2>1, <2>2 DEF Ledger!Discard, Ledger!Empty
  <1>4. ASSUME NEW p \in Patterns, AddOrUpdate(p)
        PROVE  \E k \in Keys : Ledger!Accept(k)
    <2> DEFINE j == [pattern |-> p, bucketTS |-> BucketTime(now)]
    <2>1. j \in Keys
      BY <1>t, KeyOfNow DEF TypeOK
    <2>2. entries'[j].n = entries[j].n + 1 /\ \A k \in Keys \ {j} : entries'[k] = entries[k]
      BY <1>4, <1>t, <2>1, LineAddsOne
    <2>3. UNCHANGED <<db, lost, expired>> /\ flushPc = "idle" /\ flushPc' = "idle"
      BY <1>4 DEF AddOrUpdate, Unlocked
    <2> HIDE DEF j
    <2>4. pending' = [pending EXCEPT ![j] = @ + 1]
      BY <2>1, <2>2, <2>3 DEF Pending, Uncommitted
    <2>5. Ledger!Accept(j)
      BY <2>3, <2>4 DEF Ledger!Accept
    <2> QED BY <2>1, <2>5
  <1>5. CASE Flush
    <2>1. CASE FlushBegin \/ FlushSetup
      BY <1>1, <2>1 DEF FlushBegin, Unlocked, FlushSetup, Uncommitted
    <2>2. CASE \E j \in Keys : FlushUpsert(j) \/ FlushUpsertFails(j)
      BY <1>1, <2>2 DEF FlushUpsert, FlushUpsertFails, Uncommitted
    <2>3. CASE FlushSetupFails \/ FlushCommitFails \/ FlushClear
      <3>1. Ledger!Discard
        BY <1>3, <2>3 DEF FlushSetupFails, FlushCommitFails, FlushClear, Uncommitted
      <3> QED BY <3>1 DEF Ledger!LedgerNext
    <2>4. CASE FlushCommit
      <3>1. \A k \in Keys : /\ db'[k].n = db[k].n + (IF k \in written THEN entries[k].n ELSE 0)
                            /\ db[k].n \in Nat
        BY <1>t, <2>4, CommitTypes, CountsAreNat
      <3>2. /\ \A k \in Keys : Pending(k) = entries[k].n
            /\ \A k \in Keys : Pending(k)' = IF k \in written THEN 0 ELSE entries[k].n
        BY <2>4 DEF FlushCommit, Pending, Uncommitted
      <3>3. /\ durable' = [k \in Keys |-> IF k \in written THEN durable[k] + pending[k]
                                                           ELSE durable[k]]
            /\ pending' = [k \in Keys |-> IF k \in written THEN 0 ELSE pending[k]]
        BY <3>1, <3>2
      <3>4. PICK kept \in SUBSET Keys : kept = written
        BY <1>t DEF TypeOK
      <3>5. UNCHANGED <<lost, expired>>
        BY <2>4 DEF FlushCommit
      <3>6. Ledger!Persist(kept)
        BY <3>3, <3>4, <3>5 DEF Ledger!Persist
      <3> QED BY <3>6 DEF Ledger!LedgerNext
    <2> QED BY <1>5, <2>1, <2>2, <2>3, <2>4 DEF Flush
  <1>6. CASE Maintenance
    <2>1. CASE Cleanup
      <3>1. PICK old \in SUBSET Keys : old = {k \in Present(db) : Outdated(k)}
        BY DEF Present
      <3>2. /\ db' = [k \in Keys |-> IF k \in old THEN NoStat ELSE db[k]]
            /\ expired' = [k \in Keys |-> IF k \in old THEN expired[k] + db[k].n
                                                         ELSE expired[k]]
            /\ UNCHANGED <<entries, flushing, lost>>
        BY <2>1, <3>1 DEF Cleanup
      <3>3. durable' = [k \in Keys |-> IF k \in old THEN 0 ELSE durable[k]]
        BY <3>2 DEF NoStat
      <3>4. Ledger!Expire(old)
        BY <3>2, <3>3 DEF Ledger!Expire, Pending, Uncommitted
      <3> QED BY <3>4 DEF Ledger!LedgerNext
    <2>2. CASE CleanupFails \/ VacuumBegin \/ VacuumFails \/ VacuumEnd
      BY <1>1, <2>2 DEF CleanupFails, VacuumBegin, VacuumFails, VacuumEnd, Uncommitted
    <2> QED BY <1>6, <2>1, <2>2 DEF Maintenance
  <1>7. CASE Crash
    <2>1. Ledger!Discard
      BY <1>3, <1>7 DEF Crash, Stop
    <2> QED BY <2>1 DEF Ledger!LedgerNext
  <1> QED BY <1>2, <1>4, <1>5, <1>6, <1>7 DEF Next, Ledger!LedgerNext

\* Counting, flushing, failing, stopping and cleaning are steps of the ledger: what
\* tx.Commit has made durable is never counted again, and what is not durable is
\* pending or lost.
THEOREM StoreImplementsLedger == Spec => ImplementsLedger
  <1>1. StoreInvariant /\ StoreInvariant' /\ [Next]_vars
          => [Ledger!LedgerNext]_(Ledger!ledger)
    BY LedgerStep
  <1> QED BY <1>1, LedgerInitHolds, StoreInvariantHolds, PTL
          DEF Spec, ImplementsLedger, Ledger!LedgerSpec

----------------------------------------------------------------------------
(* The counters and their buckets.                                         *)

\* getBucketTime puts every instant into the bucket that contains it.
LEMMA BucketContains ==
    ASSUME NEW t \in Nat
    PROVE  BucketTime(t) \in Nat /\ BucketTime(t) <= t /\ t < BucketTime(t) + BucketSize
  BY BucketSizeAssumption, SMT DEF BucketTime

LEMMA KeyTypes ==
    ASSUME NEW k \in Keys
    PROVE  k.bucketTS \in Nat /\ BucketSize \in Nat
  BY BucketContains, BucketSizeAssumption, BoundsAssumption DEF Keys, Buckets, Time

\* The entry of a line is well formed in the bucket of its time.
LEMMA CountedWellFormed ==
    ASSUME TypeOK, CountersMatchTheirBucket, NEW k \in Keys, k.bucketTS = BucketTime(now)
    PROVE  /\ WellFormed(k, Counted(k))
           /\ k \in Present(db) => db[k].firstSeen <= Counted(k).firstSeen
  <1>1. now \in Nat /\ appStartTime \in Nat /\ appStartTime <= now /\ BucketSize \in Nat
    BY BoundsAssumption, BucketSizeAssumption DEF TypeOK, Time
  <1>2. k.bucketTS \in Nat /\ k.bucketTS <= now /\ now < k.bucketTS + BucketSize
    BY <1>1, BucketContains
  <1>3. k \in Present(db) => db[k].firstSeen <= now
    BY DEF CountersMatchTheirBucket, WellFormed
  <1>4. CASE k \in Present(entries)
    <2>1. /\ Counted(k).firstSeen = entries[k].firstSeen
          /\ Counted(k).duration = entries[k].duration
      BY <1>4 DEF Counted, TypeOK, Stat
    <2>2. WellFormed(k, entries[k])
      BY <1>4 DEF CountersMatchTheirBucket
    <2>3. k \in Present(db) => db[k].firstSeen <= entries[k].firstSeen
      BY <1>4 DEF CountersMatchTheirBucket
    <2> QED BY <2>1, <2>2, <2>3 DEF WellFormed
  <1>5. CASE k \notin Present(entries)
    <2>1. /\ Counted(k).firstSeen = now
          /\ Counted(k).duration = IF appStartTime > k.bucketTS THEN now - appStartTime
                                                              ELSE BucketSize
      BY <1>5 DEF Counted, NewStat
    <2>2. Counted(k).duration <= BucketSize
      BY <1>1, <1>2, <2>1
    <2> QED BY <1>1, <1>2, <1>3, <2>1, <2>2 DEF WellFormed
  <1> QED BY <1>4, <1>5

\* What an upsert leaves in the row of a key.
LEMMA UpsertFirstSeen ==
    ASSUME TypeOK, CountersMatchTheirBucket, NEW k \in Present(entries)
    PROVE  /\ WellFormed(k, Upsert(db[k], entries[k]))
           /\ Upsert(db[k], entries[k]).firstSeen <= entries[k].firstSeen
           /\ k \in Present(db) => Upsert(db[k], entries[k]).firstSeen = db[k].firstSeen
  <1>1. k \in Keys /\ WellFormed(k, entries[k])
    BY DEF CountersMatchTheirBucket, Present
  <1>2. /\ entries[k].firstSeen \in Nat /\ db[k].firstSeen \in Nat
        /\ db[k].n \in Nat /\ entries[k] \in Stat
    BY <1>1, BoundsAssumption DEF TypeOK, Stat, Time
  <1>3. CASE k \in Present(db)
    <2>1. WellFormed(k, db[k]) /\ db[k].firstSeen <= entries[k].firstSeen
      BY <1>3 DEF CountersMatchTheirBucket
    <2>2. /\ Upsert(db[k], entries[k]).firstSeen = db[k].firstSeen
          /\ Upsert(db[k], entries[k]).duration = entries[k].duration
      BY <1>2, <1>3, <2>1 DEF Upsert, Present
    <2> QED BY <1>1, <2>1, <2>2 DEF WellFormed
  <1>4. CASE k \notin Present(db)
    <2>1. Upsert(db[k], entries[k]) = entries[k]
      BY <1>1, <1>2, <1>4 DEF Upsert, Present
    <2> QED BY <1>1, <1>2, <1>4, <2>1
  <1> QED BY <1>3, <1>4

LEMMA CountersStep ==
    ASSUME TypeOK, TypeOK', FlushInvariant, CountersMatchTheirBucket, [Next]_vars
    PROVE  CountersMatchTheirBucket'
  <1>a. /\ \A k \in Keys : k \in Present(entries) <=> entries[k].n > 0
        /\ \A k \in Keys : k \in Present(entries)' <=> entries'[k].n > 0
        /\ \A k \in Keys : k \in Present(db)' <=> db'[k].n > 0
        /\ Present(entries)' \subseteq Keys /\ Present(db)' \subseteq Keys
    BY DEF Present
  <1>b. \A k \in Keys : entries[k].firstSeen \in Nat /\ db[k].firstSeen \in Nat
    BY BoundsAssumption DEF TypeOK, Stat, Time
  <1>c. now \in Nat /\ now' \in Nat
    BY BoundsAssumption DEF TypeOK, Time
  <1>1. ASSUME now' >= now,
               \A k \in Present(entries)' : k \in Present(entries) /\ entries'[k] = entries[k],
               \A k \in Present(db)' : k \in Present(db) /\ db'[k] = db[k]
        PROVE  CountersMatchTheirBucket'
    <2>1. \A k \in Present(entries)' : WellFormed(k, entries[k])'
      BY <1>1, <1>a, <1>b, <1>c DEF CountersMatchTheirBucket, WellFormed
    <2>2. \A k \in Present(db)' : WellFormed(k, db[k])'
      BY <1>1, <1>a, <1>b, <1>c DEF CountersMatchTheirBucket, WellFormed
    <2>3. \A k \in Present(db)' \cap Present(entries)' : db'[k].firstSeen <= entries'[k].firstSeen
      BY <1>1 DEF CountersMatchTheirBucket
    <2> QED BY <2>1, <2>2, <2>3 DEF CountersMatchTheirBucket
  <1>2. ASSUME now' >= now, UNCHANGED <<entries, db>>
        PROVE  CountersMatchTheirBucket'
    BY <1>1, <1>2 DEF Present
  <1>3. ASSUME ClearAndReturn, UNCHANGED <<now, db>>
        PROVE  CountersMatchTheirBucket'
    <2>1. Present(entries)' = {}
      BY <1>3, <1>a, ClearTypes
    <2> QED BY <1>1, <1>3, <1>c, <2>1 DEF Present
  <1>4. CASE Tick
    BY <1>2, <1>4, <1>c DEF Tick
  <1>5. CASE Restart \/ UNCHANGED vars
    BY <1>2, <1>5, <1>c DEF Restart
  <1>6. ASSUME NEW p \in Patterns, AddOrUpdate(p) PROVE CountersMatchTheirBucket'
    <2> DEFINE j == [pattern |-> p, bucketTS |-> BucketTime(now)]
    <2>1. j \in Keys /\ j.bucketTS = BucketTime(now)
      BY KeyOfNow DEF TypeOK
    <2>2. /\ entries' = [entries EXCEPT ![j] = Counted(j)] /\ now' = now /\ db' = db
      BY <1>6 DEF AddOrUpdate
    <2> HIDE DEF j
    <2>3. /\ entries'[j] = Counted(j)
          /\ \A k \in Keys \ {j} : entries'[k] = entries[k]
      BY <2>1, <2>2 DEF TypeOK
    <2>4. /\ WellFormed(j, Counted(j))
          /\ j \in Present(db) => db[j].firstSeen <= Counted(j).firstSeen
      BY <2>1, CountedWellFormed
    <2>5. Present(db)' = Present(db)
      BY <2>2 DEF Present
    <2>6. ASSUME NEW k \in Present(entries)'
          PROVE  /\ WellFormed(k, entries[k])'
                 /\ k \in Present(db)' => db'[k].firstSeen <= entries'[k].firstSeen
      <3>1. CASE k = j
        BY <2>2, <2>3, <2>4, <2>5, <3>1 DEF WellFormed
      <3>2. CASE k # j
        <4>1. k \in Present(entries) /\ entries'[k] = entries[k]
          BY <1>a, <2>3, <3>2
        <4> QED BY <2>2, <2>5, <4>1 DEF CountersMatchTheirBucket, WellFormed
      <3> QED BY <3>1, <3>2
    <2>7. \A k \in Present(db)' : WellFormed(k, db[k])'
      BY <2>2, <2>5 DEF CountersMatchTheirBucket, WellFormed
    <2> QED BY <2>6, <2>7 DEF CountersMatchTheirBucket
  <1>7. CASE Flush
    <2>1. CASE FlushBegin \/ FlushSetup \/ \E k \in Keys : FlushUpsert(k) \/ FlushUpsertFails(k)
      BY <1>2, <1>c, <2>1 DEF FlushBegin, FlushSetup, FlushUpsert, FlushUpsertFails
    <2>2. CASE FlushSetupFails \/ FlushCommitFails \/ FlushClear
      BY <1>3, <2>2 DEF FlushSetupFails, FlushCommitFails, FlushClear
    <2>3. CASE FlushCommit
      <3>1. /\ db' = [k \in Keys |-> IF k \in written THEN Upsert(db[k], entries[k]) ELSE db[k]]
            /\ UNCHANGED <<now, entries>> /\ written \subseteq Present(entries)
        BY <2>3 DEF FlushCommit, FlushInvariant
      <3>2. ASSUME NEW k \in Present(db)'
            PROVE  /\ WellFormed(k, db[k])'
                   /\ k \in Present(entries) => db'[k].firstSeen <= entries[k].firstSeen
        <4>1. CASE k \in written
          <5>1. db'[k] = Upsert(db[k], entries[k]) /\ k \in Present(entries)
            BY <1>a, <3>1, <4>1
          <5> QED BY <3>1, <5>1, UpsertFirstSeen DEF WellFormed
        <4>2. CASE k \notin written
          <5>1. db'[k] = db[k] /\ k \in Present(db)
            BY <1>a, <3>1, <4>2 DEF Present
          <5> QED BY <3>1, <5>1 DEF CountersMatchTheirBucket, WellFormed
        <4> QED BY <4>1, <4>2
      <3>3. \A k \in Present(entries)' : WellFormed(k, entries[k])' /\ k \in Present(entries)
        BY <3>1 DEF CountersMatchTheirBucket, WellFormed, Present
      <3> QED BY <3>1, <3>2, <3>3 DEF CountersMatchTheirBucket
    <2> QED BY <1>7, <2>1, <2>2, <2>3 DEF Flush
  <1>8. CASE Maintenance
    <2>1. CASE Cleanup
      <3>1. PICK old \in SUBSET Keys : db' = [k \in Keys |-> IF k \in old THEN NoStat ELSE db[k]]
        BY <2>1 DEF Cleanup, Present
      <3>2. \A k \in Present(db)' : k \in Present(db) /\ db'[k] = db[k]
        BY <1>a, <3>1 DEF Present, NoStat
      <3>3. now' = now /\ entries' = entries
        BY <2>1 DEF Cleanup
      <3> QED BY <1>1, <1>c, <3>2, <3>3 DEF Present
    <2>2. CASE CleanupFails \/ VacuumBegin \/ VacuumFails \/ VacuumEnd
      BY <1>2, <1>c, <2>2 DEF CleanupFails, VacuumBegin, VacuumFails, VacuumEnd
    <2> QED BY <1>8, <2>1, <2>2 DEF Maintenance
  <1>9. CASE Crash
    BY <1>3, <1>9 DEF Crash, Stop
  <1> QED BY <1>4, <1>5, <1>6, <1>7, <1>8, <1>9 DEF Next

LEMMA InitCounters == Init => CountersMatchTheirBucket
  BY EmptyTypes, BoundsAssumption DEF Init, CountersMatchTheirBucket, Present

LEMMA CountersHold == Spec => [](StoreInvariant /\ CountersMatchTheirBucket)
  <1>1. Init => StoreInvariant /\ CountersMatchTheirBucket
    BY InitStoreInvariant, InitCounters
  <1>2. StoreInvariant /\ CountersMatchTheirBucket /\ [Next]_vars
          => (StoreInvariant /\ CountersMatchTheirBucket)'
    BY StoreInvariantStep, CountersStep DEF StoreInvariant
  <1> QED BY <1>1, <1>2, PTL DEF Spec

\* The counters of a bucket, in memory and in the database, were first seen inside
\* it and last no longer, and a row is no younger than the entry it is to absorb.
THEOREM CountersMatch == Spec => []CountersMatchTheirBucket
  BY CountersHold, PTL

\* What a step can do to a row: only the commit of a flush and the cleanup touch it.
LEMMA RowStep ==
    ASSUME StoreInvariant, CountersMatchTheirBucket, [Next]_vars, NEW k \in Present(db)
    PROVE  \/ db'[k] = db[k]
           \/ FlushCommit /\ db'[k].n > db[k].n /\ db'[k].firstSeen = db[k].firstSeen
           \/ db'[k].n = 0 /\ Outdated(k)
  <1>t. TypeOK /\ FlushInvariant /\ k \in Keys
    BY DEF StoreInvariant, Present
  <1>1. CASE UNCHANGED db
    BY <1>1
  <1>2. CASE FlushCommit
    <2>1. db' = [j \in Keys |-> IF j \in written THEN Upsert(db[j], entries[j]) ELSE db[j]]
      BY <1>2 DEF FlushCommit
    <2>2. CASE k \in written
      <3>1. k \in Present(entries)
        BY <1>t, <2>2 DEF FlushInvariant
      <3>2. db'[k].firstSeen = db[k].firstSeen
        BY <1>t, <2>1, <2>2, <3>1, UpsertFirstSeen
      <3>3. db'[k].n = db[k].n + entries[k].n /\ entries[k].n > 0
        BY <1>t, <1>2, <2>2, <3>1, CommitTypes, CountsAreNat
      <3>4. db[k].n \in Nat /\ entries[k].n \in Nat
        BY <1>t, CountsAreNat
      <3> QED BY <1>2, <3>2, <3>3, <3>4
    <2>3. CASE k \notin written
      BY <1>t, <2>1, <2>3
    <2> QED BY <2>2, <2>3
  <1>3. CASE Cleanup
    <2>1. PICK old \in SUBSET Keys : old = {j \in Present(db) : Outdated(j)}
      BY DEF Present
    <2>2. db' = [j \in Keys |-> IF j \in old THEN NoStat ELSE db[j]]
      BY <1>3, <2>1 DEF Cleanup
    <2>3. CASE k \in old
      BY <1>t, <2>1, <2>2, <2>3 DEF NoStat
    <2>4. CASE k \notin old
      BY <1>t, <2>2, <2>4
    <2> QED BY <2>3, <2>4
  <1>4. UNCHANGED db \/ FlushCommit \/ Cleanup
    BY DEF Next, Tick, AddOrUpdate, Flush, FlushBegin, FlushSetup, FlushSetupFails, FlushUpsert,
           FlushUpsertFails, FlushCommitFails, FlushClear, Maintenance, CleanupFails,
           VacuumBegin, VacuumFails, VacuumEnd, Crash, Stop, Restart
  <1> QED BY <1>1, <1>2, <1>3, <1>4

\* No upsert takes counts out of a row: a count shrinks only when its row is deleted,
\* and that only when the row's first line is older than the retention.
THEOREM DurableKept == Spec => DurableUntilExpired
  <1>1. ASSUME StoreInvariant, CountersMatchTheirBucket, [Next]_vars, NEW k \in Keys,
               db'[k].n < db[k].n
        PROVE  db'[k].n = 0 /\ db[k].firstSeen + Retention < now + BucketSize
    <2>1. db[k].n \in Nat /\ db'[k].n \in Nat /\ TypeOK
      <3>1. TypeOK /\ TypeOK'
        BY <1>1, TypeOKStep DEF StoreInvariant
      <3> QED BY <3>1 DEF TypeOK, Stat
    <2>2. k \in Present(db)
      BY <1>1, <2>1 DEF Present
    <2>3. db'[k].n = 0 /\ Outdated(k)
      BY <1>1, <2>1, <2>2, RowStep
    <2>4. db[k].firstSeen < k.bucketTS + BucketSize /\ db[k].firstSeen \in Nat
      BY <1>1, <2>1, <2>2, BoundsAssumption DEF CountersMatchTheirBucket, WellFormed, TypeOK, Stat, Time
    <2>5. now \in Nat
      BY <2>1, BoundsAssumption DEF TypeOK, Time
    <2> QED BY <2>3, <2>4, <2>5, KeyTypes, RetentionAssumption DEF Outdated
  <1>2. StoreInvariant /\ CountersMatchTheirBucket /\ [Next]_vars
          => [\A k \in Keys : db'[k].n < db[k].n =>
                db'[k].n = 0 /\ db[k].firstSeen + Retention < now + BucketSize]_vars
    BY <1>1
  <1> QED BY <1>2, CountersHold, PTL DEF Spec, DurableUntilExpired

\* As long as its row exists, a counter keeps the first_seen_ts of its first flush.
THEOREM FirstSeenNeverChanges == Spec => FirstSeenKept
  <1>1. StoreInvariant /\ CountersMatchTheirBucket /\ [Next]_vars
          => [\A k \in Present(db) : db'[k].n > 0 => db'[k].firstSeen = db[k].firstSeen]_vars
    BY RowStep
  <1> QED BY <1>1, CountersHold, PTL DEF Spec, FirstSeenKept
=============================================================================
