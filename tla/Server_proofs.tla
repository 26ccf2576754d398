------------------------------ MODULE Server_proofs ------------------------------
(***************************************************************************)
(* What is proved of Server, for all connections, patterns and bounds.     *)
(* Every step of the server is a step of the store or leaves it alone, so  *)
(* that what is proved of the store holds of the server.                   *)
(***************************************************************************)
EXTENDS Server, LogStatStore_proofs

USE DEF process, flushing, history, vars

----------------------------------------------------------------------------
(* The store in the server.                                                *)

LEMMA ServerStepIsStoreStep == [ServerNext]_allVars => [Next]_vars
  BY DEF ServerNext, allVars, Next, ServerTick, Accept, CloseConnection, UnparsableLine, HandleLine, AcceptFails,
         TickerFlush, FlushStep, FlushReturns, FlushProceeds, Flush, ServerMaintenance, SignalStep,
         Signal, CloseListener, PrintSummary, SignalFlush, SignalExit, Killed, Exit, ServerRestart

\* In the server the store keeps its inductive invariant, and with it the count of every line.
THEOREM StoreInServer == ServerSpec => []StoreInvariant
  BY InitStoreInvariant, StoreInvariantStep, ServerStepIsStoreStep, PTL DEF ServerSpec, ServerInit

----------------------------------------------------------------------------
(* Type correctness.                                                       *)

LEMMA ServerStepTyped ==
    ASSUME ServerTypeOK, TypeOK', [ServerNext]_allVars
    PROVE  ServerTypeOK'
  <1>1. conns' \in SUBSET Conns
    BY DEF ServerTypeOK, ServerNext, allVars, serverVars, ServerTick, Accept, CloseConnection, UnparsableLine,
           HandleLine, AcceptFails, TickerFlush, FlushStep, ServerMaintenance, SignalStep,
           Signal, CloseListener, PrintSummary, SignalFlush, SignalExit, Killed, Exit, ServerRestart
  <1>2. /\ listening' \in {TRUE, FALSE, listening}
        /\ sigPc' \in {sigPc, "waiting", "received", "closed", "summarised", "flushing", "flushed"}
        /\ flusher' \in {flusher, "none", "ticker", "signal"}
        /\ exited' \in {exited, "no", "graceful", "accept_error", "parse_error", "killed"}
        /\ atShutdown' \in {atShutdown, accepted}
    BY DEF ServerNext, allVars, serverVars, ServerTick, Accept, CloseConnection, UnparsableLine,
           HandleLine, AcceptFails, TickerFlush, FlushStep, ServerMaintenance, SignalStep,
           Signal, CloseListener, PrintSummary, SignalFlush, SignalExit, Killed, Exit, ServerRestart
  <1>3. atShutdown' \in [Keys -> Nat]
    BY <1>2 DEF ServerTypeOK, TypeOK
  <1>4. listening' \in BOOLEAN
    BY <1>2 DEF ServerTypeOK
  <1>5. /\ sigPc' \in {"waiting", "received", "closed", "summarised", "flushing", "flushed"}
        /\ flusher' \in {"none", "ticker", "signal"}
        /\ exited' \in {"no", "graceful", "accept_error", "parse_error", "killed"}
    BY <1>2 DEF ServerTypeOK
  <1>6. [Keys -> Nat]' = [Keys -> Nat] /\ (SUBSET Conns)' = SUBSET Conns
    BY DEF Keys, Buckets, Time, BucketTime
  <1> QED BY <1>1, <1>3, <1>4, <1>5, <1>6 DEF ServerTypeOK

\* Every variable of the server and of its store keeps its type.
THEOREM ServerTyped == ServerSpec => []ServerTypeOK
  <1>1. ServerInit => ServerTypeOK
    <2> SUFFICES ASSUME ServerInit
                 PROVE  ServerTypeOK
      OBVIOUS
    <2>1. TypeOK /\ NoCounts \in [Keys -> Nat]
      BY InitTypeOK, EmptyTypes, BoundsAssumption DEF ServerInit
    <2> QED BY <2>1 DEF ServerInit, ServerTypeOK
  <1>2. StoreInvariant => TypeOK
    BY DEF StoreInvariant
  <1> QED BY <1>1, <1>2, ServerStepTyped, StoreInServer, PTL DEF ServerSpec

----------------------------------------------------------------------------
(* What a shutdown's flush covers.                                         *)

Covered == \A k \in Keys : db[k].n + expired[k] >= atShutdown[k]

\* The flush of a shutdown holds the mutex from its count of the lines to its return, so that
\* no line is counted meanwhile; what it has covered stays covered.
ShutdownInvariant ==
    /\ flusher = "none" <=> flushPc = "idle"
    /\ sigPc = "flushing" <=> flusher = "signal"
    /\ exited # "no" => ~up
    /\ sigPc = "flushing" => atShutdown = accepted
    /\ sigPc = "flushed" /\ faults = 0 /\ crashes = 0 => Covered
    /\ ShutdownFlushCovers

\* What is durable or expired only grows.
LEMMA DurableGrows ==
    ASSUME StoreInvariant, [Next]_vars, NEW k \in Keys
    PROVE  db'[k].n + expired'[k] >= db[k].n + expired[k]
  <1>t. TypeOK /\ db[k].n \in Nat /\ expired[k] \in Nat /\ entries[k].n \in Nat
    BY CountsAreNat DEF StoreInvariant
  <1>1. CASE UNCHANGED <<db, expired>>
    BY <1>t, <1>1
  <1>2. CASE FlushCommit
    <2>1. expired' = expired
      BY <1>2 DEF FlushCommit
    <2>2. db'[k].n = db[k].n + (IF k \in written THEN entries[k].n ELSE 0)
      BY <1>t, <1>2, CommitTypes
    <2> QED BY <1>t, <2>1, <2>2
  <1>3. CASE Cleanup
    BY <1>t, <1>3, CleanupTypes
  <1>4. UNCHANGED <<db, expired>> \/ FlushCommit \/ Cleanup
    BY DEF Next, Tick, AddOrUpdate, Flush, FlushBegin, FlushSetup, FlushSetupFails, FlushUpsert,
           FlushUpsertFails, FlushCommitFails, FlushClear, Maintenance, CleanupFails,
           VacuumBegin, VacuumFails, VacuumEnd, Crash, Stop, Restart
  <1> QED BY <1>1, <1>2, <1>3, <1>4

LEMMA CoveredStays ==
    ASSUME ServerTypeOK, StoreInvariant, StoreInvariant', [Next]_vars,
           Covered, atShutdown' = atShutdown
    PROVE  Covered'
  <1>1. ASSUME NEW k \in Keys
        PROVE  db'[k].n + expired'[k] >= atShutdown'[k]
    <2>1. db'[k].n + expired'[k] >= db[k].n + expired[k]
      BY DurableGrows
    <2>2. db[k].n + expired[k] >= atShutdown[k]
      BY DEF Covered
    <2>3. db[k].n \in Nat /\ expired[k] \in Nat /\ atShutdown[k] \in Nat
      BY CountsAreNat DEF StoreInvariant, ServerTypeOK
    <2>4. db'[k].n \in Nat /\ expired'[k] \in Nat
      BY DEF StoreInvariant, TypeOK, Stat
    <2> QED BY <2>1, <2>2, <2>3, <2>4
  <1> QED BY <1>1 DEF Covered, Keys, Buckets, Time, BucketTime

\* faults and crashes never go back.
LEMMA FaultsGrow ==
    ASSUME TypeOK, [Next]_vars
    PROVE  /\ faults' = 0 => faults = 0
           /\ crashes' = 0 => crashes = 0
  <1>1. faults' \in {faults, faults + 1} /\ crashes' \in {crashes, crashes + 1}
    BY DEF Next, Tick, AddOrUpdate, Flush, FlushBegin, FlushSetup, FlushSetupFails, FlushUpsert,
           FlushUpsertFails, FlushCommit, FlushCommitFails, FlushClear, Maintenance, Cleanup,
           CleanupFails, VacuumBegin, VacuumFails, VacuumEnd, Crash, Stop, Restart, Fault
  <1>2. faults \in Nat /\ crashes \in Nat
    BY DEF TypeOK
  <1> QED BY <1>1, <1>2

\* A flush that returns without an error has written all that was counted.
LEMMA FlushCovers ==
    ASSUME StoreInvariant, StoreInvariant', FlushReturns, faults' = 0, crashes' = 0,
           atShutdown' = accepted
    PROVE  Covered'
  <1>1. FlushClear
    BY DEF FlushReturns, FlushSetupFails, FlushCommitFails, Fault, StoreInvariant, TypeOK
  <1>2. ASSUME NEW k \in Keys
        PROVE  db'[k].n + expired'[k] >= atShutdown'[k]
    <2>1. entries'[k].n = 0 /\ flushPc' = "idle"
      BY <1>1, ClearTypes DEF FlushClear
    <2>2. lost'[k] = 0
      BY DEF StoreInvariant, NoLossWithoutFailure
    <2>3. accepted'[k] = Pending(k)' + db'[k].n + lost'[k] + expired'[k]
      BY DEF StoreInvariant, Conservation
    <2>4. Pending(k)' = 0
      BY <2>1 DEF Pending
    <2>5. accepted' = accepted
      BY <1>1 DEF FlushClear
    <2>6. db'[k].n \in Nat /\ expired'[k] \in Nat /\ accepted'[k] \in Nat
      BY DEF StoreInvariant, TypeOK, Stat
    <2> QED BY <2>2, <2>3, <2>4, <2>5, <2>6
  <1> QED BY <1>2 DEF Covered, Keys, Buckets, Time, BucketTime

LEMMA ShutdownStep ==
    ASSUME ServerTypeOK, StoreInvariant, StoreInvariant', ShutdownInvariant, [ServerNext]_allVars
    PROVE  ShutdownInvariant'
  <1>s. [Next]_vars
    BY ServerStepIsStoreStep
  <1>f. (faults' = 0 => faults = 0) /\ (crashes' = 0 => crashes = 0)
    BY <1>s, FaultsGrow DEF ServerTypeOK
  \* The flushes: who is in FlushToDb, and what a shutdown's flush has written.
  <1>1. CASE TickerFlush
    <2>1. flushPc = "idle" /\ flushPc' = "setup" /\ flusher = "none" /\ sigPc # "flushing"
      BY <1>1 DEF TickerFlush, FlushBegin, Unlocked, ShutdownInvariant
    <2>2. Covered => Covered'
      BY <1>1, <1>s, CoveredStays DEF TickerFlush
    <2> QED BY <1>1, <2>1, <2>2, <1>f
            DEF TickerFlush, FlushBegin, ShutdownInvariant, ShutdownFlushCovers, Covered
  <1>2. CASE SignalFlush
    <2>1. flushPc = "idle" /\ flushPc' = "setup" /\ up /\ up' = up /\ accepted' = accepted
      BY <1>2 DEF SignalFlush, FlushBegin, Unlocked
    <2>2. exited = "no"
      BY <2>1 DEF ShutdownInvariant
    <2> QED BY <1>2, <2>1, <2>2 DEF SignalFlush, ShutdownInvariant, ShutdownFlushCovers
  <1>3. CASE FlushReturns /\ FlushStep
    <2>u. up /\ exited = "no"
      BY <1>3 DEF FlushReturns, FlushSetupFails, FlushCommitFails, FlushClear,
                  StoreInvariant, FlushInvariant, ShutdownInvariant
    <2>1. flushPc # "idle" /\ flushPc' = "idle" /\ up' = up /\ accepted' = accepted
      BY <1>3 DEF FlushReturns, FlushSetupFails, FlushCommitFails, FlushClear, ClearAndReturn
    <2>2. /\ flusher' = "none" /\ UNCHANGED <<exited, atShutdown>>
          /\ sigPc' = IF flusher = "signal" THEN "flushed" ELSE sigPc
      BY <1>3, <2>1 DEF FlushStep, FlushProceeds, FlushSetup, FlushCommit, FlushUpsert, FlushUpsertFails
    <2>3. Covered => Covered'
      BY <1>s, <2>2, CoveredStays
    <2>4. CASE flusher = "signal"
      <3>1. atShutdown' = accepted /\ sigPc' = "flushed" /\ sigPc = "flushing"
        BY <2>2, <2>4 DEF ShutdownInvariant
      <3>2. faults' = 0 /\ crashes' = 0 => Covered'
        BY <1>3, <3>1, FlushCovers
      <3> QED BY <2>u, <2>1, <2>2, <2>3, <3>1, <3>2, <1>f
              DEF ShutdownInvariant, ShutdownFlushCovers, Covered
    <2>5. CASE flusher # "signal"
      <3>1. sigPc' = sigPc /\ sigPc # "flushing"
        BY <2>2, <2>5 DEF ShutdownInvariant
      <3> QED BY <2>u, <2>1, <2>2, <2>3, <3>1, <1>f DEF ShutdownInvariant, ShutdownFlushCovers, Covered
    <2> QED BY <2>4, <2>5
  <1>4. CASE FlushProceeds /\ UNCHANGED serverVars
    <2>1. flushPc # "idle" /\ flushPc' # "idle" /\ up' = up /\ accepted' = accepted /\ crashes' = crashes
      BY <1>4 DEF FlushProceeds, FlushSetup, FlushCommit, FlushUpsert, FlushUpsertFails
    <2>2. Covered => Covered'
      BY <1>4, <1>s, CoveredStays DEF serverVars
    <2> QED BY <1>4, <2>1, <2>2, <1>f DEF serverVars, ShutdownInvariant, ShutdownFlushCovers, Covered
  \* A line is counted only while nobody is in FlushToDb.
  <1>5. ASSUME NEW c \in Conns, NEW p \in Patterns, HandleLine(c, p)
        PROVE  ShutdownInvariant'
    <2>1. /\ flushPc = "idle" /\ flushPc' = "idle" /\ up' = up
          /\ faults' = faults /\ crashes' = crashes /\ UNCHANGED serverVars
      BY <1>5 DEF HandleLine, AddOrUpdate, Unlocked
    <2>2. Covered => Covered'
      BY <2>1, <1>s, CoveredStays DEF serverVars
    <2> QED BY <2>1, <2>2 DEF serverVars, ShutdownInvariant, ShutdownFlushCovers, Covered
  \* The stops: the graceful one only after the flush of the shutdown.
  <1>6. ASSUME NEW how, Exit(how), how = "graceful" => sigPc = "flushed"
        PROVE  ShutdownInvariant'
    <2>1. /\ up' = FALSE /\ crashes' = crashes + 1 /\ flushPc' = "idle" /\ flusher' = "none"
          /\ sigPc' = "waiting" /\ exited' = how
          /\ UNCHANGED <<db, expired, atShutdown, faults>>
      BY <1>6 DEF Exit, Crash, Stop, ClearAndReturn
    <2>2. crashes' = 1 => crashes = 0
      BY <2>1 DEF ServerTypeOK, TypeOK
    <2>3. ASSUME how = "graceful", faults' = 0, crashes' = 1
          PROVE  Covered'
      <3>1. Covered
        BY <1>6, <2>1, <2>2, <2>3 DEF ShutdownInvariant
      <3> QED BY <1>s, <2>1, <3>1, CoveredStays
    <2> QED BY <2>1, <2>3 DEF ShutdownInvariant, ShutdownFlushCovers, Covered
  <1>7. CASE ServerRestart
    <2>1. flushPc' = flushPc /\ exited' = "no" /\ UNCHANGED <<sigPc, flusher, atShutdown, accepted, faults, crashes>>
      BY <1>7 DEF ServerRestart, Restart
    <2>2. Covered => Covered'
      BY <2>1, <1>s, CoveredStays
    <2> QED BY <2>1, <2>2 DEF ShutdownInvariant, ShutdownFlushCovers, Covered
  \* Nobody enters or leaves FlushToDb, counts a line, or stops.
  <1>8. CASE \/ ServerTick \/ ServerMaintenance \/ Signal \/ CloseListener \/ PrintSummary
             \/ \E c \in Conns : Accept(c) \/ CloseConnection(c)
             \/ UNCHANGED allVars
    <2>1. /\ UNCHANGED <<flushPc, accepted, up, crashes, faults, flusher, exited, atShutdown>>
          /\ sigPc' = sigPc \/ {sigPc, sigPc'} \cap {"flushing", "flushed"} = {}
      BY <1>8 DEF ServerTick, Tick, ServerMaintenance, Maintenance, Cleanup, CleanupFails, VacuumBegin,
             VacuumFails, VacuumEnd, Signal, CloseListener, PrintSummary, Accept, CloseConnection,
             allVars, serverVars
    <2>2. Covered => Covered'
      BY <2>1, <1>s, CoveredStays
    <2>3. /\ sigPc' = "flushing" <=> sigPc = "flushing"
          /\ sigPc' = "flushed" <=> sigPc = "flushed"
      BY <2>1
    <2> QED BY <2>1, <2>2, <2>3 DEF ShutdownInvariant, ShutdownFlushCovers, Covered
  <1>9. AcceptFails \/ (\E c \in Conns : UnparsableLine(c)) \/ SignalExit \/ Killed => ShutdownInvariant'
    BY <1>6 DEF AcceptFails, UnparsableLine, SignalExit, Killed
  <1>10. FlushStep => (FlushReturns /\ FlushStep) \/ (FlushProceeds /\ UNCHANGED serverVars)
    BY DEF FlushStep
  <1>11. (\E c \in Conns, p \in Patterns : HandleLine(c, p)) => ShutdownInvariant'
    BY <1>5
  <1>12. TickerFlush \/ FlushStep \/ SignalFlush \/ ServerRestart => ShutdownInvariant'
    BY <1>1, <1>2, <1>3, <1>4, <1>7, <1>10
  <1>13. \/ (\E c \in Conns : UnparsableLine(c)) \/ AcceptFails \/ SignalExit \/ Killed
         \/ (\E c \in Conns, p \in Patterns : HandleLine(c, p))
         \/ TickerFlush \/ FlushStep \/ SignalFlush \/ ServerRestart
         \/ ServerTick \/ ServerMaintenance \/ Signal \/ CloseListener \/ PrintSummary
         \/ (\E c \in Conns : Accept(c) \/ CloseConnection(c))
         \/ UNCHANGED allVars
    BY DEF ServerNext, SignalStep
  <1> HIDE DEF ShutdownInvariant
  <1> QED BY <1>8, <1>9, <1>11, <1>12, <1>13

\* main.go's promise: with SQLite well, the flush of a shutdown that reaches os.Exit(0) made
\* durable every line counted when it began, whatever the connections did meanwhile.
THEOREM ShutdownCovers == ServerSpec => []ShutdownFlushCovers
  <1>1. ServerInit => ShutdownInvariant
    BY DEF ServerInit, Init, ShutdownInvariant, ShutdownFlushCovers
  <1>2. ShutdownInvariant => ShutdownFlushCovers
    BY DEF ShutdownInvariant
  <1> QED BY <1>1, <1>2, ShutdownStep, ServerTyped, StoreInServer, PTL DEF ServerSpec
=============================================================================
