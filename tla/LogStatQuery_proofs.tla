-------------------------- MODULE LogStatQuery_proofs --------------------------
(***************************************************************************)
(* What is proved of LogStatQuery, for every set of sources, loggers and   *)
(* filters and every bound.  Patterns may be infinitely many; the maps and *)
(* the table hold finitely many keys of them.                              *)
(***************************************************************************)
EXTENDS LogStatQuery, LogStatStore_proofs, FiniteSetTheorems

USE DEF process, flushing, history, vars

----------------------------------------------------------------------------
(* The inductive invariant.                                                *)

QueryTyped ==
    /\ queryPc \in {"idle", "memory", "database", "answered"}
    /\ filter \in Filter
    /\ copied \in [Keys -> Stat]
    /\ answer \in SUBSET Row
    /\ failed \in BOOLEAN
    /\ queries \in Nat
    /\ atBegin \in [Keys -> Nat]
    /\ overlap \in SUBSET Keys

\* What a LIMIT compares its number with is finite.
FinitelyMany ==
    /\ IsFiniteSet(Present(entries)) /\ IsFiniteSet(Present(db))
    /\ IsFiniteSet(Present(copied))

\* How the copy of the map relates to what a read of the database would find now: the
\* lines of a key that were there when the query began are in one of the two, and only
\* a commit between the reads puts them into both.
ReadsFollow ==
    /\ queryPc = "memory" => \A k \in Keys : atBegin[k] <= accepted[k]
    /\ queryPc = "database" => \A k \in Keys :
          /\ copied[k].n <= accepted[k]
          /\ k \notin overlap => copied[k].n + db[k].n <= accepted[k]
          /\ filter.memory => atBegin[k] <= copied[k].n + db[k].n + lost[k] + expired[k]
          /\ k \in Present(copied) => k.bucketTS <= now

\* What an answer keeps while the store goes on.
AnswerKept ==
    /\ queryPc = "answered" => /\ \A k \in Keys : InAnswer(k) \in Nat
                               /\ \A r \in answer : r.key.bucketTS <= now
    /\ NothingMissing /\ TwiceOnlyByFlush /\ MetricsBucketIsComplete

QueryInv ==
    /\ StoreInvariant /\ CountersMatchTheirBucket
    /\ QueryTyped /\ FinitelyMany /\ ReadsFollow /\ AnswerKept

----------------------------------------------------------------------------
(* The operators of a query.                                               *)

LEMMA RowsFacts ==
    ASSUME NEW stats \in [Keys -> Stat], NEW from \in {"memory", "database"}
    PROVE  /\ Rows(from, stats) \subseteq Row
           /\ \A r \in Rows(from, stats) :
                r.from = from /\ r.key \in Present(stats) /\ r.stat = stats[r.key]
           /\ \A k \in Present(stats) : [from |-> from, key |-> k, stat |-> stats[k]] \in Rows(from, stats)
  BY DEF Rows, Present, Row

\* One row per key: finitely many keys have finitely many rows.
LEMMA RowsFinite ==
    ASSUME NEW stats \in [Keys -> Stat], NEW from \in {"memory", "database"},
           IsFiniteSet(Present(stats))
    PROVE  IsFiniteSet(Rows(from, stats))
  <1> DEFINE row == [k \in Present(stats) |-> [from |-> from, key |-> k, stat |-> stats[k]]]
  <1>1. row \in [Present(stats) -> Rows(from, stats)]
    BY DEF Rows
  <1>2. \A r \in Rows(from, stats) : \E k \in Present(stats) : row[k] = r
    BY DEF Rows
  <1>3. row \in Surjection(Present(stats), Rows(from, stats))
    BY <1>1, <1>2 DEF Surjection
  <1> QED BY <1>3, FS_Surjection

\* LIMIT answers some of the rows, and all of them unless there are more.
LEMMA LimitedFacts ==
    ASSUME NEW rows, NEW max \in Nat, NEW part \in Limited(rows, max)
    PROVE  /\ part \subseteq rows
           /\ max = 0 => part = rows
           /\ part = rows \/ (Cardinality(part) = max /\ max # 0)
  BY DEF Limited, Newest, kSubset

\* A query answers rows of the copy and rows of the database, all of which its filter
\* accepts.
LEMMA AnswerParts ==
    ASSUME NEW f \in Filter, NEW mem \in [Keys -> Stat], NEW stats \in [Keys -> Stat],
           NEW a \in QueryLogStats(f, mem, stats)
    PROVE  /\ a \in SUBSET Row
           /\ \A r \in a : Accepts(f, r.key)
           /\ \A r \in a : \/ f.memory /\ r \in Rows("memory", mem)
                           \/ f.database /\ r \in Selected(f, stats)
  <1> DEFINE own == MemoryRows(f, mem)
             reads == IF f.database THEN Limited(Selected(f, stats), f.max) ELSE {{}}
  <1>1. PICK read \in reads : a \in Truncated(own, Accepted(f, read), f.max)
    BY DEF QueryLogStats
  <1>2. read \subseteq IF f.database THEN Selected(f, stats) ELSE {}
    BY <1>1, LimitedFacts DEF Filter
  <1>3. a \subseteq own \cup Accepted(f, read)
    <2>1. CASE f.max > 0 /\ Cardinality(own) >= f.max
      BY <1>1, <2>1 DEF Truncated, kSubset
    <2>2. CASE ~(f.max > 0 /\ Cardinality(own) >= f.max)
      <3>1. PICK max : \E part \in Limited(Accepted(f, read), max) : a = own \cup part
        BY <1>1, <2>2 DEF Truncated
      <3> QED BY <3>1 DEF Limited, Newest, kSubset
    <2> QED BY <2>1, <2>2
  <1>4. /\ \A r \in own : f.memory /\ r \in Rows("memory", mem) /\ Accepts(f, r.key)
        /\ \A r \in Accepted(f, read) : r \in read /\ Accepts(f, r.key)
    BY DEF MemoryRows, Accepted
  <1>5. Rows("memory", mem) \subseteq Row /\ Selected(f, stats) \subseteq Row
    BY RowsFacts DEF Selected
  <1> HIDE DEF own, reads
  <1> QED BY <1>2, <1>3, <1>4, <1>5

\* Below its limit, a query whose two patterns agree answers all that its filter accepts.
LEMMA AnswerComplete ==
    ASSUME NEW f \in Filter, NEW mem \in [Keys -> Stat], NEW stats \in [Keys -> Stat],
           IsFiniteSet(Present(mem)), IsFiniteSet(Present(stats)),
           Exact(f), f.memory, f.database,
           NEW a \in QueryLogStats(f, mem, stats), f.max = 0 \/ Cardinality(a) < f.max
    PROVE  a = Accepted(f, Rows("memory", mem)) \cup Accepted(f, Rows("database", stats))
  <1> DEFINE own == MemoryRows(f, mem)
             rows == Selected(f, stats)
  <1>t. f.max \in Nat
    BY DEF Filter
  <1>o. own = Accepted(f, Rows("memory", mem))
    BY DEF MemoryRows
  <1>r. rows = Accepted(f, Rows("database", stats))
    BY DEF Selected, Accepted, Selects, Accepts, Exact
  <1>1. IsFiniteSet(own) /\ Cardinality(own) \in Nat
    <2>1. own \in SUBSET Rows("memory", mem)
      BY DEF MemoryRows, Accepted
    <2> QED BY <2>1, RowsFinite, FS_Subset, FS_CardinalityType
  <1>2. IsFiniteSet(rows)
    <2>1. rows \in SUBSET Rows("database", stats)
      BY DEF Selected
    <2> QED BY <2>1, RowsFinite, FS_Subset
  <1>3. PICK read \in Limited(rows, f.max) : a \in Truncated(own, Accepted(f, read), f.max)
    BY DEF QueryLogStats
  <1>4. /\ read \in SUBSET rows
        /\ f.max = 0 => read = rows
        /\ read = rows \/ (Cardinality(read) = f.max /\ f.max # 0)
    BY <1>t, <1>3, LimitedFacts
  <1>5. Accepted(f, read) = read
    BY <1>4, <1>r DEF Accepted
  <1>6. IsFiniteSet(read) /\ Cardinality(read) \in Nat
    BY <1>2, <1>4, FS_Subset, FS_CardinalityType
  <1>7. own \cap read = {}
    <2>1. \A r \in own : r.from = "memory"
      BY RowsFacts DEF MemoryRows, Accepted
    <2>2. \A r \in read : r.from = "database"
      BY <1>4, RowsFacts DEF Selected
    <2> QED BY <2>1, <2>2
  <1> HIDE DEF own, rows
  <1>8. ~(f.max > 0 /\ Cardinality(own) >= f.max)
    <2> SUFFICES ASSUME f.max > 0, Cardinality(own) >= f.max
                 PROVE  FALSE
      OBVIOUS
    <2>1. Cardinality(a) = f.max
      BY <1>3 DEF Truncated, kSubset
    <2> QED BY <1>t, <2>1
  <1> DEFINE left == IF f.max = 0 THEN 0 ELSE f.max - Cardinality(own)
  <1>9. PICK part \in Limited(read, left) : a = own \cup part
    BY <1>3, <1>5, <1>8 DEF Truncated
  <1>10. left \in Nat /\ (f.max # 0 => left > 0 /\ left + Cardinality(own) = f.max)
    BY <1>t, <1>1, <1>8
  <1> HIDE DEF left
  <1>11. /\ part \in SUBSET read
         /\ left = 0 => part = read
         /\ part = read \/ (Cardinality(part) = left /\ left # 0)
    BY <1>9, <1>10, LimitedFacts
  <1>12. Cardinality(a) = Cardinality(own) + Cardinality(part) /\ Cardinality(part) \in Nat
    <2>1. IsFiniteSet(part) /\ Cardinality(part) \in Nat
      BY <1>6, <1>11, FS_Subset, FS_CardinalityType
    <2>2. own \cap part = {}
      BY <1>7, <1>11
    <2>3. Cardinality(own \cup part) = Cardinality(own) + Cardinality(part) - Cardinality({})
      BY <1>1, <2>1, <2>2, FS_Union
    <2> QED BY <1>1, <1>9, <2>1, <2>3, FS_EmptySet
  <1>13. part = read /\ read = rows
    <2>1. CASE f.max = 0
      <3>1. left = 0
        BY <2>1 DEF left
      <3> QED BY <1>4, <1>11, <2>1, <3>1
    <2>2. CASE f.max # 0
      <3>1. Cardinality(own) + Cardinality(part) < f.max
        BY <1>12, <2>2
      <3>2. part = read
        BY <1>1, <1>10, <1>11, <1>12, <2>2, <3>1
      <3>3. Cardinality(read) # f.max
        BY <1>t, <1>1, <1>12, <3>1, <3>2
      <3> QED BY <1>4, <3>2, <3>3
    <2> QED BY <2>1, <2>2
  <1> QED BY <1>o, <1>r, <1>9, <1>13

----------------------------------------------------------------------------
(* Buckets.                                                                *)

\* A finite set of numbers has a maximum: of the sets of what is larger than one of its
\* members, a minimal one is empty.
LEMMA MaxIsLargest ==
    ASSUME NEW S \in SUBSET Nat, IsFiniteSet(S), S # {}
    PROVE  Max(S) \in S /\ \A y \in S : Max(S) >= y
  <1> DEFINE Above(x) == {y \in S : y > x}
             T == {Above(x) : x \in S}
  <1>1. T \subseteq FiniteSubsetsOf(S) /\ T # {}
    <2>1. \A x \in S : Above(x) \in SUBSET S
      OBVIOUS
    <2>2. \A U \in SUBSET S : IsFiniteSet(U)
      BY FS_Subset
    <2> QED BY <2>1, <2>2 DEF FiniteSubsetsOf
  <1>2. PICK U \in T : \A V \in T : <<V, U>> \notin StrictSubsetOrdering(S)
    BY <1>1, FS_StrictSubsetOrderingWellFounded, WFMin
  <1>3. PICK x \in S : U = Above(x)
    BY <1>2
  <1>4. ASSUME NEW y \in S, y > x PROVE FALSE
    <2>n. x \in Nat /\ y \in Nat /\ \A z \in S : z \in Nat
      OBVIOUS
    <2>a. Above(y) \subseteq Above(x)
      <3>1. ASSUME NEW z \in S, z > y PROVE z > x
        BY <1>4, <2>n, <3>1
      <3> QED BY <3>1
    <2>1. Above(y) \subseteq Above(x) /\ y \in Above(x) /\ y \notin Above(y)
      BY <1>4, <2>n, <2>a
    <2>2. <<Above(y), U>> \in StrictSubsetOrdering(S)
      BY <1>3, <2>1 DEF StrictSubsetOrdering
    <2> QED BY <1>2, <1>4, <2>2
  <1>5. x \in S /\ \A y \in S : x >= y
    BY <1>4
  <1> QED BY <1>5 DEF Max

\* Two buckets are a bucket's length apart.
LEMMA BucketsApart ==
    ASSUME NEW s \in Nat, NEW t \in Nat, BucketTime(s) < BucketTime(t)
    PROVE  BucketTime(s) + BucketSize <= BucketTime(t)
  <1>1. PICK x \in Nat, y \in Nat : x = s \div BucketSize /\ y = t \div BucketSize
    BY BucketSizeAssumption
  <1>2. BucketTime(s) = x * BucketSize /\ BucketTime(t) = y * BucketSize
    BY <1>1 DEF BucketTime
  <1>3. x < y
    BY <1>2, BucketSizeAssumption
  <1>4. (x + 1) * BucketSize <= y * BucketSize
    BY <1>3, BucketSizeAssumption
  <1>5. (x + 1) * BucketSize = x * BucketSize + BucketSize
    BY BucketSizeAssumption
  <1> QED BY <1>2, <1>4, <1>5

\* The bucket of /metrics ends no later than the newest bucket begins.
LEMMA TargetBucketEnds ==
    ASSUME NEW rows \in SUBSET Row, NEW t \in Nat, \A r \in rows : r.key.bucketTS <= t,
           Cardinality(BucketsOf(rows)) > 1
    PROVE  TargetBucket(rows) + BucketSize <= t
  <1> DEFINE bs == BucketsOf(rows)
             rest == bs \ {Max(bs)}
  <1>1. bs \in SUBSET Nat /\ bs \subseteq Buckets /\ \A b \in bs : b <= t
    <2>1. \A r \in rows : r.key \in Keys
      BY DEF Row
    <2>2. \A r \in rows : r.key.bucketTS \in Buckets /\ r.key.bucketTS \in Nat
      BY <2>1, KeyTypes DEF Keys
    <2> QED BY <2>2 DEF BucketsOf
  <1>2. IsFiniteSet(bs)
    BY <1>1, FS_BoundedSetOfNaturals
  <1>3. TargetBucket(rows) = Max(rest)
    BY DEF TargetBucket
  <1>c. Cardinality(bs) > 1
    OBVIOUS
  <1> HIDE DEF bs
  <1>4. bs # {}
    BY <1>c, FS_EmptySet
  <1>5. Max(bs) \in bs /\ \A b \in bs : Max(bs) >= b
    BY <1>1, <1>2, <1>4, MaxIsLargest
  <1>6. rest # {}
    <2> SUFFICES ASSUME rest = {} PROVE FALSE
      OBVIOUS
    <2>1. bs = {Max(bs)}
      BY <1>5
    <2>2. Cardinality(bs) = 1
      BY <2>1, FS_Singleton
    <2> QED BY <1>c, <2>2
  <1>7. rest \in SUBSET Nat /\ IsFiniteSet(rest)
    BY <1>1, <1>2, FS_Difference
  <1>8. Max(rest) \in rest
    BY <1>6, <1>7, MaxIsLargest
  <1> DEFINE b == Max(rest)
             m == Max(bs)
  <1>9. b \in Buckets /\ m \in Buckets /\ b \in Nat /\ m \in Nat /\ b < m /\ m <= t
    <2>1. b \in bs /\ b # m /\ m \in bs /\ m >= b
      BY <1>5, <1>8
    <2>2. b \in Nat /\ m \in Nat
      BY <1>1, <2>1
    <2> HIDE DEF b, m
    <2> QED BY <1>1, <2>1, <2>2
  <1> HIDE DEF b, m
  <1>10. b + BucketSize <= m
    <2>1. PICK x \in Nat, y \in Nat : b = BucketTime(x) /\ m = BucketTime(y)
      BY <1>9, BoundsAssumption DEF Buckets, Time
    <2> QED BY <1>9, <2>1, BucketsApart
  <1>11. b + BucketSize <= t
    BY <1>9, <1>10, BucketSizeAssumption
  <1> QED BY <1>3, <1>11 DEF b

----------------------------------------------------------------------------
(* What a read of the database answers.                                    *)

LEMMA ShareValue ==
    ASSUME NEW rows, NEW n \in Nat, \A r \in rows : r.stat.n = n
    PROVE  LET share == IF rows = {} THEN 0 ELSE (CHOOSE r \in rows : TRUE).stat.n IN
           /\ share \in {0, n}
           /\ rows # {} => share = n
  <1>1. rows # {} => (CHOOSE r \in rows : TRUE) \in rows
    OBVIOUS
  <1> QED BY <1>1

\* The shares of a key in an answer are what the two reads held of it, or nothing.
LEMMA AnsweredShares ==
    ASSUME QueryTyped, FinitelyMany, NEW stats \in [Keys -> Stat], IsFiniteSet(Present(stats)),
           answer' \in QueryLogStats(filter, copied, stats), NEW k \in Keys
    PROVE  /\ Share("memory", k)' \in {0, copied[k].n}
           /\ Share("database", k)' \in {0, stats[k].n}
           /\ /\ filter.memory /\ filter.database /\ Exact(filter)
              /\ filter.max = 0 \/ Cardinality(answer') < filter.max
              /\ Accepts(filter, k)
              => /\ Share("memory", k)' = copied[k].n
                 /\ Share("database", k)' = stats[k].n
  <1> DEFINE own == {r \in answer' : r.from = "memory" /\ r.key = k}
             read == {r \in answer' : r.from = "database" /\ r.key = k}
  <1>t. filter \in Filter /\ copied \in [Keys -> Stat]
    BY DEF QueryTyped
  <1>n. copied[k].n \in Nat /\ stats[k].n \in Nat
    BY <1>t DEF Stat
  <1>1. \A r \in answer' : \/ r \in Rows("memory", copied)
                           \/ r \in Rows("database", stats)
    BY <1>t, AnswerParts DEF Selected
  <1>2. /\ \A r \in own : r.stat.n = copied[k].n
        /\ \A r \in read : r.stat.n = stats[k].n
    BY <1>1, <1>t, RowsFacts
  <1>3. /\ Share("memory", k)' \in {0, copied[k].n}
        /\ own # {} => Share("memory", k)' = copied[k].n
    BY <1>n, <1>2, ShareValue DEF Share
  <1>4. /\ Share("database", k)' \in {0, stats[k].n}
        /\ read # {} => Share("database", k)' = stats[k].n
    BY <1>n, <1>2, ShareValue DEF Share
  <1>5. ASSUME filter.memory, filter.database, Exact(filter),
               filter.max = 0 \/ Cardinality(answer') < filter.max, Accepts(filter, k)
        PROVE  /\ Share("memory", k)' = copied[k].n
               /\ Share("database", k)' = stats[k].n
    <2>1. answer' = Accepted(filter, Rows("memory", copied))
                        \cup Accepted(filter, Rows("database", stats))
      BY <1>5, <1>t, AnswerComplete DEF FinitelyMany
    <2>2. /\ k \notin Present(copied) => copied[k].n = 0
          /\ k \notin Present(stats) => stats[k].n = 0
      BY <1>n DEF Present
    <2>3. Share("memory", k)' = copied[k].n
      <3>1. CASE k \in Present(copied)
        <4>1. [from |-> "memory", key |-> k, stat |-> copied[k]] \in own
          BY <1>t, <1>5, <2>1, <3>1, RowsFacts DEF Accepted
        <4> QED BY <1>3, <4>1
      <3> QED BY <1>3, <2>2, <3>1
    <2>4. Share("database", k)' = stats[k].n
      <3>1. CASE k \in Present(stats)
        <4>1. [from |-> "database", key |-> k, stat |-> stats[k]] \in read
          BY <1>5, <2>1, <3>1, RowsFacts DEF Accepted
        <4> QED BY <1>4, <4>1
      <3> QED BY <1>4, <2>2, <3>1
    <2> QED BY <2>3, <2>4
  <1> QED BY <1>3, <1>4, <1>5

----------------------------------------------------------------------------
(* The store beside a query.                                               *)

\* An error of the database of which only the count of errors tells.
LEMMA FaultKeepsStore ==
    ASSUME StoreInvariant, CountersMatchTheirBucket, Fault,
           UNCHANGED <<now, process, entries, db, flushing, maintPc, history>>
    PROVE  StoreInvariant' /\ CountersMatchTheirBucket'
  <1>1. faults' \in Nat /\ faults' # 0
    BY DEF Fault, StoreInvariant, TypeOK
  <1>2. TypeOK'
    BY <1>1 DEF StoreInvariant, TypeOK
  <1>3. FlushInvariant'
    BY <1>1 DEF StoreInvariant, FlushInvariant, Present
  <1>4. Conservation'
    BY DEF StoreInvariant, Conservation, Pending, Uncommitted
  <1>5. NoLossWithoutFailure'
    BY <1>1 DEF NoLossWithoutFailure
  <1>6. CountersMatchTheirBucket'
    BY DEF CountersMatchTheirBucket, WellFormed, Present
  <1> QED BY <1>2, <1>3, <1>4, <1>5, <1>6 DEF StoreInvariant

\* A step of the queries is a step of the store, leaves it alone, or adds an error.
LEMMA QueryStepOfStore ==
    ASSUME [QueryNext]_allVars
    PROVE  \/ [Next]_vars
           \/ Fault /\ UNCHANGED <<now, process, entries, db, flushing, maintPc, history>>
  BY DEF QueryNext, allVars, BeginQuery, CopyMemory, ReadDatabase, ReadDatabaseFails, Answered,
         QueryCrash, StoreStep, Next

LEMMA StoreKept ==
    StoreInvariant /\ CountersMatchTheirBucket /\ [QueryNext]_allVars
        => (StoreInvariant /\ CountersMatchTheirBucket)'
  <1> SUFFICES ASSUME StoreInvariant, CountersMatchTheirBucket, [QueryNext]_allVars
               PROVE  StoreInvariant' /\ CountersMatchTheirBucket'
    OBVIOUS
  <1>1. CASE [Next]_vars
    <2>1. StoreInvariant'
      BY <1>1, StoreInvariantStep
    <2>2. CountersMatchTheirBucket'
      BY <1>1, <2>1, CountersStep DEF StoreInvariant
    <2> QED BY <2>1, <2>2
  <1>2. CASE Fault /\ UNCHANGED <<now, process, entries, db, flushing, maintPc, history>>
    BY <1>2, FaultKeepsStore
  <1> QED BY <1>1, <1>2, QueryStepOfStore

\* Time and history only go on, and a row grows only by a commit of its key.
LEMMA StoreGoesOn ==
    ASSUME StoreInvariant, [Next]_vars, NEW k \in Keys
    PROVE  /\ now' >= now
           /\ accepted'[k] >= accepted[k] /\ lost'[k] >= lost[k] /\ expired'[k] >= expired[k]
           /\ db'[k].n + expired'[k] >= db[k].n + expired[k]
           /\ db'[k].n <= db[k].n \/ (FlushCommit /\ k \in written)
  <1>t. /\ TypeOK /\ now \in Nat
        /\ db[k].n \in Nat /\ entries[k].n \in Nat
        /\ accepted[k] \in Nat /\ lost[k] \in Nat /\ expired[k] \in Nat
    BY CountsAreNat, BoundsAssumption DEF StoreInvariant, TypeOK, Time
  <1>1. CASE UNCHANGED <<now, db, accepted, lost, expired>>
    BY <1>t, <1>1
  <1>2. CASE Tick
    BY <1>t, <1>2 DEF Tick
  <1>3. ASSUME NEW p \in Patterns, AddOrUpdate(p)
        PROVE  accepted'[k] >= accepted[k] /\ UNCHANGED <<now, db, lost, expired>>
    <2> DEFINE j == [pattern |-> p, bucketTS |-> BucketTime(now)]
    <2>1. j \in Keys
      BY KeyOfNow, <1>t DEF TypeOK
    <2>2. accepted' = [accepted EXCEPT ![j] = @ + 1] /\ UNCHANGED <<now, db, lost, expired>>
      BY <1>3 DEF AddOrUpdate
    <2> HIDE DEF j
    <2>3. accepted'[k] = accepted[k] + (IF k = j THEN 1 ELSE 0)
      BY <1>t, <2>1, <2>2 DEF TypeOK
    <2> QED BY <1>t, <2>2, <2>3
  <1>4. CASE FlushCommit
    <2>1. db'[k].n = db[k].n + (IF k \in written THEN entries[k].n ELSE 0)
      BY <1>t, <1>4, CommitTypes
    <2>2. UNCHANGED <<now, accepted, lost, expired>>
      BY <1>4 DEF FlushCommit
    <2> QED BY <1>t, <1>4, <2>1, <2>2
  <1>5. CASE Cleanup
    <2>1. db'[k].n + expired'[k] = db[k].n + expired[k]
      BY <1>t, <1>5, CleanupTypes
    <2>2. db'[k].n \in Nat /\ expired'[k] \in Nat
      BY <1>t, <1>5, CleanupTypes DEF Stat
    <2>3. UNCHANGED <<now, accepted, lost>>
      BY <1>5 DEF Cleanup
    <2>4. expired'[k] >= expired[k]
      <3>1. PICK old \in SUBSET Keys : expired' = [i \in Keys |->
                  IF i \in old THEN expired[i] + db[i].n ELSE expired[i]]
        BY <1>5 DEF Cleanup, Present
      <3>2. expired'[k] = IF k \in old THEN expired[k] + db[k].n ELSE expired[k]
        BY <3>1
      <3> QED BY <1>t, <3>2
    <2> QED BY <1>t, <2>1, <2>2, <2>3, <2>4
  <1>6. ASSUME NEW ks \in SUBSET Keys, GiveUp(ks), UNCHANGED <<now, db, accepted, expired>>
        PROVE  lost'[k] >= lost[k]
    <2>1. lost'[k] = lost[k] + (IF k \in ks THEN entries[k].n ELSE 0)
      BY <1>t, <1>6, GiveUpTypes
    <2> QED BY <1>t, <2>1
  <1>7. CASE FlushSetupFails \/ FlushCommitFails \/ FlushClear \/ Crash
    <2>1. UNCHANGED <<now, db, accepted, expired>>
      BY <1>7 DEF FlushSetupFails, FlushCommitFails, FlushClear, Crash, Stop
    <2>2. \E ks \in SUBSET Keys : GiveUp(ks)
      BY <1>7 DEF FlushSetupFails, FlushCommitFails, FlushClear, Crash, Stop, Uncommitted
    <2>3. lost'[k] >= lost[k]
      BY <1>6, <2>1, <2>2
    <2> QED BY <1>t, <2>1, <2>3
  <1>8. \/ UNCHANGED <<now, db, accepted, lost, expired>>
        \/ Tick \/ FlushCommit \/ Cleanup
        \/ FlushSetupFails \/ FlushCommitFails \/ FlushClear \/ Crash
        \/ \E p \in Patterns : AddOrUpdate(p)
    BY DEF Next, Flush, FlushBegin, FlushSetup, FlushUpsert, FlushUpsertFails,
           Maintenance, CleanupFails, VacuumBegin, VacuumFails, VacuumEnd, Restart
  <1>9. (\E p \in Patterns : AddOrUpdate(p)) =>
            accepted'[k] >= accepted[k] /\ UNCHANGED <<now, db, lost, expired>>
    BY <1>3
  <1> QED BY <1>t, <1>1, <1>2, <1>4, <1>5, <1>7, <1>8, <1>9

\* The map and the table grow by finitely many keys at a time.
LEMMA StoreStaysFinite ==
    ASSUME StoreInvariant, [Next]_vars,
           IsFiniteSet(Present(entries)), IsFiniteSet(Present(db))
    PROVE  IsFiniteSet(Present(entries)') /\ IsFiniteSet(Present(db)')
  <1>t. TypeOK /\ FlushInvariant
    BY DEF StoreInvariant
  <1>0. /\ Present(entries)' \in SUBSET Present(entries) => IsFiniteSet(Present(entries)')
        /\ Present(db)' \in SUBSET Present(db) => IsFiniteSet(Present(db)')
    BY FS_Subset
  <1>1. CASE UNCHANGED <<entries, db>>
    BY <1>1, <1>0 DEF Present
  <1>2. ASSUME NEW p \in Patterns, AddOrUpdate(p)
        PROVE  IsFiniteSet(Present(entries)') /\ IsFiniteSet(Present(db)')
    <2> DEFINE j == [pattern |-> p, bucketTS |-> BucketTime(now)]
    <2>1. j \in Keys
      BY KeyOfNow, <1>t DEF TypeOK
    <2>2. \A k \in Keys \ {j} : entries'[k] = entries[k]
      BY <1>t, <1>2, <2>1, LineAddsOne
    <2> HIDE DEF j
    <2>3. Present(entries)' \in SUBSET (Present(entries) \cup {j})
      BY <2>2 DEF Present
    <2>4. IsFiniteSet(Present(entries) \cup {j})
      BY FS_AddElement
    <2>5. Present(db)' = Present(db)
      BY <1>2 DEF AddOrUpdate, Present
    <2> QED BY <2>3, <2>4, <2>5, FS_Subset
  <1>3. CASE FlushCommit
    <2>1. written \in SUBSET Present(entries)
      BY <1>t DEF FlushInvariant
    <2>2. \A k \in Keys \ written : db'[k] = db[k]
      BY <1>3 DEF FlushCommit
    <2>3. Present(db)' \in SUBSET (Present(db) \cup Present(entries))
      BY <2>1, <2>2 DEF Present
    <2>4. IsFiniteSet(Present(db) \cup Present(entries))
      BY FS_Union
    <2>5. Present(entries)' = Present(entries)
      BY <1>3 DEF FlushCommit, Present
    <2> QED BY <2>3, <2>4, <2>5, FS_Subset
  <1>4. CASE Cleanup
    <2>1. PICK old \in SUBSET Keys : db' = [k \in Keys |-> IF k \in old THEN NoStat ELSE db[k]]
      BY <1>4 DEF Cleanup, Present
    <2>2. Present(db)' \in SUBSET Present(db)
      BY <2>1 DEF Present, NoStat
    <2>3. Present(entries)' = Present(entries)
      BY <1>4 DEF Cleanup, Present
    <2> QED BY <1>0, <2>2, <2>3
  <1>5. ASSUME ClearAndReturn, db' = db
        PROVE  IsFiniteSet(Present(entries)') /\ IsFiniteSet(Present(db)')
    <2>1. Present(entries)' \in SUBSET Present(entries)
      BY <1>5, ClearTypes DEF Present
    <2>2. Present(db)' = Present(db)
      BY <1>5 DEF Present
    <2> QED BY <1>0, <2>1, <2>2
  <1>6. FlushSetupFails \/ FlushCommitFails \/ FlushClear \/ Crash => ClearAndReturn /\ db' = db
    BY DEF FlushSetupFails, FlushCommitFails, FlushClear, Crash, Stop
  <1>7. \/ UNCHANGED <<entries, db>>
        \/ FlushCommit \/ Cleanup \/ FlushSetupFails \/ FlushCommitFails \/ FlushClear \/ Crash
        \/ \E p \in Patterns : AddOrUpdate(p)
    BY DEF Next, Tick, Flush, FlushBegin, FlushSetup, FlushUpsert, FlushUpsertFails,
           Maintenance, CleanupFails, VacuumBegin, VacuumFails, VacuumEnd, Restart
  <1> QED BY <1>1, <1>2, <1>3, <1>4, <1>5, <1>6, <1>7

----------------------------------------------------------------------------
(* The steps of a query.                                                   *)

LEMMA FiltersTyped ==
    ASSUME now \in Nat
    PROVE  NoFilter \in Filter /\ \A f \in Filters \cup {Recent} : f \in Filter
  <1>1. NoFilter \in Filter
    BY DEF NoFilter, Filter
  <1>2. (IF now < Hour THEN 0 ELSE now - Hour) \in Nat
    BY QueryBounds
  <1>3. Recent \in Filter
    BY <1>2, BoundsAssumption, QueryBounds DEF Recent, Filter
  <1> QED BY <1>1, <1>3, FiltersAssumption

\* The keys and what a filter makes of them do not change.
LEMMA SameKeys == Keys' = Keys /\ Row' = Row /\ Stat' = Stat
  BY DEF Keys, Row, Stat, Buckets, Time, BucketTime

LEMMA QueryTypedStep ==
    ASSUME QueryTyped, StoreInvariant, [QueryNext]_allVars
    PROVE  QueryTyped'
  <1>t. TypeOK /\ now \in Nat /\ MaxTime \in Nat
    BY BoundsAssumption DEF StoreInvariant, TypeOK, Time
  <1>k. [Keys -> Stat]' = [Keys -> Stat] /\ [Keys -> Nat]' = [Keys -> Nat]
    BY SameKeys
  <1>1. ASSUME NEW f \in Filters \cup {Recent}, BeginQuery(f) PROVE QueryTyped'
    <2>1. f \in Filter /\ accepted \in [Keys -> Nat]
      BY <1>t, FiltersTyped DEF TypeOK
    <2>2. filter' = f /\ atBegin' = accepted
      BY <1>1 DEF BeginQuery
    <2>3. queries' \in Nat /\ queryPc' = "memory"
      BY <1>1 DEF BeginQuery, QueryTyped
    <2>4. UNCHANGED <<copied, answer, failed, overlap>>
      BY <1>1 DEF BeginQuery
    <2> QED BY <2>1, <2>2, <2>3, <2>4, <1>k, SameKeys DEF QueryTyped
  <1>2. CASE CopyMemory
    <2>1. copied' \in [Keys -> Stat]
      BY <1>t, <1>2, EmptyTypes DEF CopyMemory, TypeOK
    <2>2. UNCHANGED <<filter, answer, failed, queries, atBegin, overlap>> /\ queryPc' = "database"
      BY <1>2 DEF CopyMemory
    <2> QED BY <2>1, <2>2, <1>k, SameKeys DEF QueryTyped
  <1>3. CASE ReadDatabase \/ ReadDatabaseFails
    <2>1. answer' \in QueryLogStats(filter, copied, db) \cup QueryLogStats(filter, copied, NoEntries)
      BY <1>3 DEF ReadDatabase, ReadDatabaseFails
    <2>2. db \in [Keys -> Stat] /\ NoEntries \in [Keys -> Stat]
      BY <1>t, EmptyTypes DEF TypeOK
    <2>3. answer' \in SUBSET Row
      BY <2>1, <2>2, AnswerParts DEF QueryTyped
    <2>4. /\ UNCHANGED <<filter, copied, queries, atBegin, overlap>> /\ queryPc' = "answered"
          /\ failed' \in {failed, TRUE}
      BY <1>3 DEF ReadDatabase, ReadDatabaseFails
    <2> QED BY <2>3, <2>4, <1>k, SameKeys DEF QueryTyped
  <1>4. CASE Forget
    <2>1. NoFilter \in Filter /\ NoEntries \in [Keys -> Stat] /\ NoCounts \in [Keys -> Nat]
      BY <1>t, FiltersTyped, EmptyTypes
    <2>2. /\ queryPc' = "idle" /\ filter' = NoFilter /\ copied' = NoEntries /\ answer' = {}
          /\ failed' = FALSE /\ atBegin' = NoCounts /\ overlap' = {} /\ queries' = queries
      BY <1>4 DEF Forget
    <2> QED BY <2>1, <2>2, <1>k, SameKeys DEF QueryTyped
  <1>5. CASE StoreStep
    <2>1. UNCHANGED <<queryPc, filter, copied, answer, failed, queries, atBegin>>
      BY <1>5 DEF StoreStep
    <2>2. overlap' \in SUBSET Keys
      BY <1>t, <1>5 DEF StoreStep, QueryTyped, TypeOK
    <2> QED BY <2>1, <2>2, <1>k, SameKeys DEF QueryTyped
  <1>6. CASE UNCHANGED allVars
    BY <1>6, <1>k, SameKeys DEF allVars, queryVars, QueryTyped
  <1> QED BY <1>1, <1>2, <1>3, <1>4, <1>5, <1>6 DEF QueryNext, Answered, QueryCrash

LEMMA FinitelyManyStep ==
    ASSUME StoreInvariant, FinitelyMany, [QueryNext]_allVars
    PROVE  FinitelyMany'
  <1>1. IsFiniteSet(Present(entries)') /\ IsFiniteSet(Present(db)')
    <2>1. CASE [Next]_vars
      BY <2>1, StoreStaysFinite DEF FinitelyMany
    <2>2. CASE UNCHANGED <<entries, db>>
      BY <2>2 DEF FinitelyMany, Present
    <2> QED BY <2>1, <2>2, QueryStepOfStore
  <1>2. copied' \in {copied, entries, NoEntries}
    BY DEF QueryNext, allVars, queryVars, BeginQuery, CopyMemory, ReadDatabase, ReadDatabaseFails,
           Answered, QueryCrash, Forget, StoreStep
  <1>3. Present(NoEntries) = {}
    BY EmptyTypes, BoundsAssumption DEF Present
  <1>4. IsFiniteSet({k \in Keys : copied'[k].n > 0})
    <2>1. CASE copied' = copied
      BY <2>1 DEF FinitelyMany, Present
    <2>2. CASE copied' = entries
      BY <2>2 DEF FinitelyMany, Present
    <2>3. CASE copied' = NoEntries
      BY <2>3, <1>3, FS_EmptySet DEF Present
    <2> QED BY <1>2, <2>1, <2>2, <2>3
  <1>5. IsFiniteSet(Present(copied)')
    BY <1>4, SameKeys DEF Present
  <1> QED BY <1>1, <1>5 DEF FinitelyMany

\* The copy is taken under the mutex, so that what it misses is in the table, lost or
\* expired.
LEMMA CopyFollows ==
    ASSUME StoreInvariant, CountersMatchTheirBucket, ReadsFollow, QueryTyped, CopyMemory
    PROVE  ReadsFollow'
  <1>1. ASSUME NEW k \in Keys
        PROVE  /\ copied'[k].n <= accepted[k]
               /\ copied'[k].n + db[k].n <= accepted[k]
               /\ filter.memory => atBegin[k] <= copied'[k].n + db[k].n + lost[k] + expired[k]
               /\ k \in Present(copied') => k.bucketTS <= now
    <2>1. accepted[k] = Pending(k) + db[k].n + lost[k] + expired[k] /\ TypeOK
      BY DEF StoreInvariant, Conservation
    <2>2. /\ entries[k].n \in Nat /\ db[k].n \in Nat /\ accepted[k] \in Nat
          /\ lost[k] \in Nat /\ expired[k] \in Nat /\ atBegin[k] \in Nat
      BY <2>1, CountsAreNat DEF QueryTyped
    <2>3. Pending(k) \in Nat
      BY <2>2 DEF Pending
    <2>4. atBegin[k] <= accepted[k]
      BY DEF CopyMemory, ReadsFollow
    <2>5. CASE filter.memory
      <3>1. copied' = entries /\ Pending(k) = entries[k].n
        BY <2>5 DEF CopyMemory, Unlocked, Pending, Uncommitted
      <3>2. k \in Present(entries) => k.bucketTS <= now
        <4>1. k \in Present(entries) => WellFormed(k, entries[k])
          BY DEF CountersMatchTheirBucket
        <4>2. now \in Nat /\ entries[k].firstSeen \in Nat /\ k.bucketTS \in Nat
          BY <2>1, KeyTypes, BoundsAssumption DEF TypeOK, Stat, Time
        <4> QED BY <4>1, <4>2 DEF WellFormed
      <3> QED BY <2>1, <2>2, <2>3, <2>4, <3>1, <3>2
    <2>6. CASE ~filter.memory
      <3>1. copied' = NoEntries
        BY <2>6 DEF CopyMemory
      <3>2. copied'[k].n = 0 /\ k \notin Present(copied')
        BY <3>1, EmptyTypes, BoundsAssumption DEF Present
      <3> QED BY <2>1, <2>2, <2>3, <2>6, <3>2
    <2> QED BY <2>5, <2>6
  <1>2. /\ queryPc' = "database"
        /\ UNCHANGED <<now, db, accepted, lost, expired, filter, atBegin>>
    BY DEF CopyMemory
  <1> QED BY <1>1, <1>2, SameKeys DEF ReadsFollow, Present

\* While the query waits for its reads, whatever the store does, only a commit takes a
\* key into both of them.
LEMMA StoreStepFollows ==
    ASSUME StoreInvariant, StoreInvariant', QueryTyped, ReadsFollow, [Next]_vars,
           UNCHANGED <<queryPc, filter, copied, atBegin>>,
           overlap \subseteq overlap',
           queryPc = "database" /\ FlushCommit => written \subseteq overlap'
    PROVE  ReadsFollow'
  <1>1. ASSUME NEW k \in Keys
        PROVE  /\ queryPc = "memory" => atBegin[k] <= accepted'[k]
               /\ queryPc = "database" =>
                    /\ copied[k].n <= accepted'[k]
                    /\ k \notin overlap' => copied[k].n + db'[k].n <= accepted'[k]
                    /\ filter.memory =>
                          atBegin[k] <= copied[k].n + db'[k].n + lost'[k] + expired'[k]
                    /\ k \in Present(copied) => k.bucketTS <= now'
    <2>1. /\ accepted'[k] >= accepted[k] /\ lost'[k] >= lost[k]
          /\ db'[k].n + expired'[k] >= db[k].n + expired[k]
          /\ db'[k].n <= db[k].n \/ (FlushCommit /\ k \in written)
      BY StoreGoesOn
    <2>2. now' >= now
      BY StoreGoesOn
    <2>3. /\ copied[k].n \in Nat /\ atBegin[k] \in Nat
          /\ db[k].n \in Nat /\ accepted[k] \in Nat /\ lost[k] \in Nat /\ expired[k] \in Nat
      BY CountsAreNat DEF QueryTyped, Stat, StoreInvariant
    <2>4. db'[k].n \in Nat /\ accepted'[k] \in Nat /\ lost'[k] \in Nat /\ expired'[k] \in Nat
      BY SameKeys DEF StoreInvariant, TypeOK, Stat
    <2>5. now \in Nat /\ now' \in Nat /\ k.bucketTS \in Nat
      BY KeyTypes, BoundsAssumption DEF StoreInvariant, TypeOK, Time
    <2>6. queryPc = "memory" => atBegin[k] <= accepted'[k]
      BY <2>1, <2>3, <2>4 DEF ReadsFollow
    <2>7. ASSUME queryPc = "database"
          PROVE  /\ copied[k].n <= accepted'[k]
                 /\ k \notin overlap' => copied[k].n + db'[k].n <= accepted'[k]
                 /\ filter.memory =>
                       atBegin[k] <= copied[k].n + db'[k].n + lost'[k] + expired'[k]
                 /\ k \in Present(copied) => k.bucketTS <= now'
      <3>1. /\ copied[k].n <= accepted[k]
            /\ k \notin overlap => copied[k].n + db[k].n <= accepted[k]
            /\ filter.memory => atBegin[k] <= copied[k].n + db[k].n + lost[k] + expired[k]
            /\ k \in Present(copied) => k.bucketTS <= now
        BY <2>7 DEF ReadsFollow
      <3>2. k \notin overlap' => db'[k].n <= db[k].n /\ k \notin overlap
        BY <2>1, <2>7
      <3>3. k \notin overlap' => copied[k].n + db'[k].n <= accepted'[k]
        BY <2>1, <2>3, <2>4, <3>1, <3>2
      <3> QED BY <2>1, <2>2, <2>3, <2>4, <2>5, <3>1, <3>3
    <2> QED BY <2>6, <2>7
  <1> QED BY <1>1, SameKeys DEF ReadsFollow, Present

----------------------------------------------------------------------------
(* The answer.                                                             *)

\* What a read of the database, or its failure, makes of ReadsFollow.
LEMMA ReadAnswers ==
    ASSUME StoreInvariant, CountersMatchTheirBucket, QueryTyped, FinitelyMany, ReadsFollow,
           ReadDatabase \/ ReadDatabaseFails
    PROVE  AnswerKept'
  <1>t. TypeOK /\ now \in Nat /\ MaxTime \in Nat
    BY BoundsAssumption DEF StoreInvariant, TypeOK, Time
  <1>0. /\ queryPc = "database" /\ queryPc' = "answered"
        /\ UNCHANGED <<now, accepted, lost, expired, filter, atBegin, overlap>>
    BY DEF ReadDatabase, ReadDatabaseFails
  <1>1. PICK stats \in [Keys -> Stat] :
            /\ answer' \in QueryLogStats(filter, copied, stats)
            /\ IsFiniteSet(Present(stats))
            /\ \A k \in Keys : stats[k].n <= db[k].n
            /\ \A k \in Present(stats) : k.bucketTS <= now
            /\ ~failed' => stats = db
    <2>1. CASE ReadDatabase
      <3>1. \A k \in Present(db) : k.bucketTS <= now
        <4>1. ASSUME NEW k \in Present(db) PROVE k.bucketTS <= now
          <5>1. WellFormed(k, db[k]) /\ k \in Keys
            BY DEF CountersMatchTheirBucket, Present
          <5>2. db[k].firstSeen \in Nat /\ k.bucketTS \in Nat
            BY <1>t, <5>1, KeyTypes DEF TypeOK, Stat, Time
          <5> QED BY <1>t, <5>1, <5>2 DEF WellFormed
        <4> QED BY <4>1
      <3>2. \A k \in Keys : db[k].n <= db[k].n
        BY <1>t, CountsAreNat
      <3>3. db \in [Keys -> Stat] /\ answer' \in QueryLogStats(filter, copied, db)
        BY <1>t, <2>1 DEF ReadDatabase, TypeOK
      <3> QED BY <3>1, <3>2, <3>3 DEF FinitelyMany
    <2>2. CASE ReadDatabaseFails
      <3>1. NoEntries \in [Keys -> Stat] /\ \A k \in Keys : NoEntries[k].n = 0
        BY <1>t, EmptyTypes
      <3>2. Present(NoEntries) = {} /\ IsFiniteSet(Present(NoEntries))
        BY <3>1, FS_EmptySet DEF Present
      <3>3. answer' \in QueryLogStats(filter, copied, NoEntries) /\ failed'
        BY <2>2 DEF ReadDatabaseFails
      <3>4. \A k \in Keys : NoEntries[k].n <= db[k].n
        BY <1>t, <3>1, CountsAreNat
      <3> QED BY <3>1, <3>2, <3>3, <3>4
    <2> QED BY <2>1, <2>2
  <1>2. /\ answer' \in SUBSET Row
        /\ \A r \in answer' : Accepts(filter, r.key)
        /\ \A r \in answer' : r \in Rows("memory", copied) \/ r \in Rows("database", stats)
    BY <1>1, AnswerParts DEF QueryTyped, Selected
  <1>3. \A r \in answer' : r.key.bucketTS <= now
    <2>1. ASSUME NEW r \in answer' PROVE r.key.bucketTS <= now
      <3>1. r.key \in Keys
        BY <1>2 DEF Row
      <3>2. r.key \in Present(copied) \/ r.key \in Present(stats)
        BY <1>1, <1>2, RowsFacts DEF QueryTyped
      <3> QED BY <1>0, <1>1, <3>1, <3>2 DEF ReadsFollow
    <2> QED BY <2>1
  <1>4. MetricsBucketIsComplete'
    <2>1. Cardinality(BucketsOf(answer')) > 1 => TargetBucket(answer') + BucketSize <= now
      BY <1>t, <1>2, <1>3, TargetBucketEnds
    <2> QED BY <1>0, <2>1 DEF MetricsBucketIsComplete
  <1>6. ASSUME NEW k \in Keys
        PROVE  /\ InAnswer(k)' \in Nat
               /\ k \notin overlap => InAnswer(k)' <= accepted[k]
               /\ /\ ~failed' /\ filter.memory /\ filter.database /\ Exact(filter)
                  /\ filter.max = 0 \/ Cardinality(answer') < filter.max
                  /\ Accepts(filter, k)
                  => InAnswer(k)' + lost[k] + expired[k] >= atBegin[k]
    <2> DEFINE m == Share("memory", k)'
               d == Share("database", k)'
    <2>1. /\ m \in {0, copied[k].n} /\ d \in {0, stats[k].n}
          /\ /\ filter.memory /\ filter.database /\ Exact(filter)
             /\ filter.max = 0 \/ Cardinality(answer') < filter.max
             /\ Accepts(filter, k)
             => m = copied[k].n /\ d = stats[k].n
      BY <1>1, AnsweredShares
    <2>2. InAnswer(k)' = m + d
      BY DEF InAnswer
    <2>3. /\ copied[k].n \in Nat /\ stats[k].n \in Nat /\ atBegin[k] \in Nat
          /\ db[k].n \in Nat /\ accepted[k] \in Nat /\ lost[k] \in Nat /\ expired[k] \in Nat
      BY <1>t, CountsAreNat DEF QueryTyped, Stat
    <2>4. /\ copied[k].n <= accepted[k]
          /\ k \notin overlap => copied[k].n + db[k].n <= accepted[k]
          /\ filter.memory => atBegin[k] <= copied[k].n + db[k].n + lost[k] + expired[k]
          /\ stats[k].n <= db[k].n
          /\ ~failed' => stats[k].n = db[k].n
      BY <1>0, <1>1 DEF ReadsFollow
    <2> HIDE DEF m, d
    <2>5. m + d \in Nat /\ m + d <= copied[k].n + stats[k].n
      BY <2>1, <2>3
    <2>6. k \notin overlap => m + d <= accepted[k]
      BY <2>3, <2>4, <2>5
    <2>7. ASSUME ~failed', filter.memory, filter.database, Exact(filter),
                 filter.max = 0 \/ Cardinality(answer') < filter.max, Accepts(filter, k)
          PROVE  m + d + lost[k] + expired[k] >= atBegin[k]
      <3>1. m = copied[k].n /\ d = db[k].n
        BY <2>1, <2>4, <2>7
      <3> QED BY <2>3, <2>4, <2>7, <3>1
    <2> QED BY <2>2, <2>5, <2>6, <2>7
  <1>7. TwiceOnlyByFlush'
    BY <1>0, <1>6, SameKeys DEF TwiceOnlyByFlush
  <1>8. NothingMissing'
    BY <1>0, <1>6, SameKeys DEF NothingMissing
  <1> QED BY <1>0, <1>3, <1>4, <1>6, <1>7, <1>8, SameKeys DEF AnswerKept

\* An answer stays right while the store goes on.
LEMMA StoreStepKeepsAnswer ==
    ASSUME StoreInvariant, StoreInvariant', QueryTyped, AnswerKept, [Next]_vars,
           UNCHANGED <<queryPc, filter, answer, failed, atBegin>>,
           overlap \subseteq overlap'
    PROVE  AnswerKept'
  <1>1. CASE queryPc # "answered"
    BY <1>1 DEF AnswerKept, NothingMissing, TwiceOnlyByFlush,
                MetricsBucketIsComplete
  <1>2. CASE queryPc = "answered"
    <2>1. \A k \in Keys : InAnswer(k)' = InAnswer(k) /\ InAnswer(k) \in Nat
      BY <1>2 DEF AnswerKept, InAnswer, Share
    <2>2. ASSUME NEW k \in Keys
          PROVE  /\ accepted[k] \in Nat /\ lost[k] \in Nat /\ expired[k] \in Nat
                 /\ accepted'[k] \in Nat /\ lost'[k] \in Nat /\ expired'[k] \in Nat
                 /\ atBegin[k] \in Nat
                 /\ accepted'[k] >= accepted[k] /\ lost'[k] >= lost[k] /\ expired'[k] >= expired[k]
      <3>1. /\ accepted[k] \in Nat /\ lost[k] \in Nat /\ expired[k] \in Nat /\ atBegin[k] \in Nat
        BY CountsAreNat DEF StoreInvariant, QueryTyped
      <3>2. accepted'[k] \in Nat /\ lost'[k] \in Nat /\ expired'[k] \in Nat
        BY SameKeys DEF StoreInvariant, TypeOK
      <3> QED BY <3>1, <3>2, StoreGoesOn
    <2>3. TwiceOnlyByFlush'
      <3>1. ASSUME NEW k \in Keys \ overlap' PROVE InAnswer(k) <= accepted'[k]
        <4>1. InAnswer(k) <= accepted[k] /\ k \in Keys
          BY <1>2, <3>1 DEF AnswerKept, TwiceOnlyByFlush
        <4> QED BY <2>1, <2>2, <4>1
      <3> QED BY <2>1, <3>1, SameKeys DEF TwiceOnlyByFlush
    <2>4. NothingMissing'
      <3>1. ASSUME ~failed, filter.memory, filter.database, Exact(filter),
                   filter.max = 0 \/ Cardinality(answer) < filter.max,
                   NEW k \in Keys, Accepts(filter, k)
            PROVE  InAnswer(k) + lost'[k] + expired'[k] >= atBegin[k]
        <4>1. InAnswer(k) + lost[k] + expired[k] >= atBegin[k]
          BY <1>2, <3>1 DEF AnswerKept, NothingMissing
        <4> QED BY <2>1, <2>2, <4>1
      <3> QED BY <2>1, <3>1, SameKeys DEF NothingMissing
    <2>6. MetricsBucketIsComplete' /\ \A r \in answer' : r.key.bucketTS <= now'
      <3>1. now \in Nat /\ BucketSize \in Nat
        BY BoundsAssumption, BucketSizeAssumption DEF StoreInvariant, TypeOK, Time
      <3>2. now' = now \/ now' = now + 1
        BY DEF Next, Tick, AddOrUpdate, Flush, FlushBegin, FlushSetup, FlushSetupFails, FlushUpsert,
               FlushUpsertFails, FlushCommit, FlushCommitFails, FlushClear, Maintenance, Cleanup,
               CleanupFails, VacuumBegin, VacuumFails, VacuumEnd, Crash, Stop, Restart
      <3>3. \A r \in answer : r.key.bucketTS <= now' /\ r.key \in Keys
        <4>1. ASSUME NEW r \in answer PROVE r.key.bucketTS <= now' /\ r.key \in Keys
          <5>1. r.key.bucketTS <= now
            BY <1>2 DEF AnswerKept
          <5>2. r.key \in Keys
            BY DEF QueryTyped, Row
          <5>3. r.key.bucketTS \in Nat
            BY <5>2, KeyTypes
          <5> QED BY <3>1, <3>2, <5>1, <5>2, <5>3
        <4> QED BY <4>1
      <3>4. Cardinality(BucketsOf(answer)) > 1 => TargetBucket(answer) + BucketSize <= now'
        BY <3>1, <3>2, <3>3, TargetBucketEnds DEF QueryTyped
      <3> QED BY <1>2, <3>3, <3>4 DEF MetricsBucketIsComplete
    <2> QED BY <1>2, <2>1, <2>3, <2>4, <2>6, SameKeys DEF AnswerKept
  <1> QED BY <1>1, <1>2

----------------------------------------------------------------------------
(* The invariant.                                                          *)

LEMMA QueryStepFollows ==
    ASSUME StoreInvariant, StoreInvariant', CountersMatchTheirBucket, QueryTyped, FinitelyMany,
           ReadsFollow, AnswerKept, [QueryNext]_allVars
    PROVE  ReadsFollow' /\ AnswerKept'
  <1>1. ASSUME queryPc' \in {"idle", "memory", "database"} PROVE AnswerKept'
    BY <1>1 DEF AnswerKept, NothingMissing, TwiceOnlyByFlush,
                MetricsBucketIsComplete
  <1>2. ASSUME queryPc' \in {"idle", "answered"} PROVE ReadsFollow'
    BY <1>2 DEF ReadsFollow
  <1>3. ASSUME NEW f \in Filters \cup {Recent}, BeginQuery(f) PROVE ReadsFollow' /\ AnswerKept'
    <2>1. queryPc' = "memory" /\ atBegin' = accepted /\ accepted' = accepted
      BY <1>3 DEF BeginQuery
    <2>2. \A k \in Keys : accepted[k] \in Nat
      BY DEF StoreInvariant, TypeOK
    <2> QED BY <1>1, <2>1, <2>2, SameKeys DEF ReadsFollow
  <1>4. CASE CopyMemory
    BY <1>1, <1>4, CopyFollows DEF CopyMemory
  <1>5. CASE ReadDatabase \/ ReadDatabaseFails
    BY <1>2, <1>5, ReadAnswers DEF ReadDatabase, ReadDatabaseFails
  <1>6. CASE Forget
    BY <1>1, <1>2, <1>6 DEF Forget
  <1>7. CASE StoreStep
    <2>1. [Next]_vars
      BY <1>7 DEF StoreStep, Next
    <2>2. /\ UNCHANGED <<queryPc, filter, copied, answer, failed, atBegin>>
          /\ overlap \subseteq overlap'
          /\ queryPc = "database" /\ FlushCommit => written \subseteq overlap'
      BY <1>7 DEF StoreStep, FlushCommit
    <2> QED BY <2>1, <2>2, StoreStepFollows, StoreStepKeepsAnswer
  <1>8. CASE UNCHANGED allVars
    <2>1. [Next]_vars /\ ~FlushCommit
      BY <1>8 DEF allVars, FlushCommit
    <2>2. UNCHANGED <<queryPc, filter, copied, answer, failed, atBegin, overlap>>
      BY <1>8 DEF allVars, queryVars
    <2> QED BY <2>1, <2>2, StoreStepFollows, StoreStepKeepsAnswer
  <1> QED BY <1>3, <1>4, <1>5, <1>6, <1>7, <1>8 DEF QueryNext, Answered, QueryCrash

LEMMA QueryInitHolds == QueryInit => QueryInv
  <1> SUFFICES ASSUME QueryInit PROVE QueryInv
    OBVIOUS
  <1>1. StoreInvariant /\ CountersMatchTheirBucket
    BY InitStoreInvariant, InitCounters DEF QueryInit
  <1>2. now \in Nat
    BY <1>1, BoundsAssumption DEF StoreInvariant, TypeOK, Time
  <1>3. QueryTyped
    BY <1>2, FiltersTyped, EmptyTypes, BoundsAssumption DEF QueryInit, QueryTyped
  <1>4. Present(NoEntries) = {}
    BY EmptyTypes, BoundsAssumption DEF Present
  <1>5. FinitelyMany
    BY <1>4, FS_EmptySet DEF QueryInit, Init, FinitelyMany
  <1>6. ReadsFollow /\ AnswerKept
    BY DEF QueryInit, ReadsFollow, AnswerKept, NothingMissing, TwiceOnlyByFlush,
           MetricsBucketIsComplete
  <1> QED BY <1>1, <1>3, <1>5, <1>6 DEF QueryInv

LEMMA QueryStepInv == QueryInv /\ [QueryNext]_allVars => QueryInv'
  <1> SUFFICES ASSUME QueryInv, [QueryNext]_allVars PROVE QueryInv'
    OBVIOUS
  <1>1. StoreInvariant' /\ CountersMatchTheirBucket'
    BY StoreKept DEF QueryInv
  <1>2. QueryTyped' /\ FinitelyMany'
    BY QueryTypedStep, FinitelyManyStep DEF QueryInv
  <1>3. ReadsFollow' /\ AnswerKept'
    BY <1>1, QueryStepFollows DEF QueryInv
  <1> QED BY <1>1, <1>2, <1>3 DEF QueryInv

\* Whatever the store does between the two reads of a handler, its copy, the table and
\* its answer stay related as QueryInv says, and the store keeps its own invariants
\* beside any number of queries.
THEOREM QueryInvariant == QuerySpec => []QueryInv
  BY QueryInitHolds, QueryStepInv, PTL DEF QuerySpec

\* QueryLogStats misses no line that was counted before the query began and still
\* existed at its end, although a flush may move lines between its two reads.
THEOREM NothingIsMissing == QuerySpec => []NothingMissing
  <1>1. QueryInv => NothingMissing
    BY DEF QueryInv, AnswerKept
  <1> QED BY <1>1, QueryInvariant, PTL

\* QueryLogStats answers more lines of a key than were counted only if a flush committed
\* that key between its two reads.
THEOREM TwiceByFlushAlone == QuerySpec => []TwiceOnlyByFlush
  <1>1. QueryInv => TwiceOnlyByFlush
    BY DEF QueryInv, AnswerKept
  <1> QED BY <1>1, QueryInvariant, PTL

\* With rows of several buckets, /metrics shows one that no line can join any more.
THEOREM MetricsBucketEnded == QuerySpec => []MetricsBucketIsComplete
  <1>1. QueryInv => MetricsBucketIsComplete
    BY DEF QueryInv, AnswerKept
  <1> QED BY <1>1, QueryInvariant, PTL
=============================================================================
