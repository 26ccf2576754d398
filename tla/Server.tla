--------------------------------- MODULE Server ---------------------------------
(***************************************************************************)
(* The process of main.go around the store: the accept loop and the        *)
(* goroutine of each TCP connection, the goroutine of the flush ticker,    *)
(* the goroutine of the signals and the maintenance goroutine, all on one  *)
(* LogStatStore.  Every step that reaches the store is a step of           *)
(* LogStatStore; this module adds who takes it and when.                   *)
(*                                                                         *)
(* The process ends through os.Exit or log.Fatal of any goroutine, at      *)
(* once and for all of them, or is killed.  Handing a counted line to the  *)
(* hub never blocks and does not reach the store: it is a step of the       *)
(* module WebSocketHub.                                                    *)
(***************************************************************************)
EXTENDS LogStatStore

CONSTANTS
    Conns,          \* TCP connections of log senders
    BadLines        \* whether a sender ever sends a line that is no JSON object

ASSUME BadLinesAssumption == BadLines \in BOOLEAN

VARIABLES
    listening,      \* the listener is open
    conns,          \* connections whose goroutine scans for lines
    sigPc,          \* where the signal goroutine stands
    flusher,        \* the goroutine that is inside FlushToDb
    exited,         \* how the last stop of the process came about
    atShutdown      \* history: lines counted when the last flush of a shutdown began

serverVars == <<listening, conns, sigPc, flusher, exited, atShutdown>>
allVars == <<vars, serverVars>>

ServerTypeOK ==
    /\ TypeOK
    /\ listening \in BOOLEAN
    /\ conns \in SUBSET Conns
    /\ sigPc \in {"waiting", "received", "closed", "summarised", "flushing", "flushed"}
    /\ flusher \in {"none", "ticker", "signal"}
    /\ exited \in {"no", "graceful", "accept_error", "parse_error", "killed"}
    /\ atShutdown \in [Keys -> Nat]

ServerInit ==
    /\ Init
    /\ listening = TRUE
    /\ conns = {}
    /\ sigPc = "waiting"
    /\ flusher = "none"
    /\ exited = "no"
    /\ atShutdown = NoCounts

----------------------------------------------------------------------------
(* The accept loop and the connections.                                    *)

Accept(c) ==
    /\ up /\ listening /\ c \notin conns
    /\ conns' = conns \cup {c}
    /\ UNCHANGED <<vars, listening, sigPc, flusher, exited, atShutdown>>

\* The goroutine of c scans a line and counts it, when it gets the store's mutex.
HandleLine(c, p) ==
    /\ c \in conns
    /\ AddOrUpdate(p)
    /\ UNCHANGED serverVars

\* The scanner of c ends, and with it the goroutine.
CloseConnection(c) ==
    /\ up /\ c \in conns
    /\ conns' = conns \ {c}
    /\ UNCHANGED <<vars, listening, sigPc, flusher, exited, atShutdown>>

\* The process ends with everything its goroutines hold.
Exit(how) ==
    /\ Crash
    /\ listening' = FALSE /\ conns' = {}
    /\ sigPc' = "waiting" /\ flusher' = "none"
    /\ exited' = how
    /\ UNCHANGED atShutdown

\* Accept returns the error of a closed listener: log.Fatal.
AcceptFails == up /\ ~listening /\ Exit("accept_error")

\* The goroutine of c scans a line json.Unmarshal refuses: log.Fatalf.
UnparsableLine(c) == BadLines /\ c \in conns /\ Exit("parse_error")

Killed == Exit("killed")

ServerRestart ==
    /\ Restart
    /\ listening' = TRUE
    /\ exited' = "no"
    /\ UNCHANGED <<conns, sigPc, flusher, atShutdown>>

----------------------------------------------------------------------------
(* FlushToDb, called by the ticker and by the signal goroutine.            *)

TickerFlush ==
    /\ FlushBegin
    /\ flusher' = "ticker"
    /\ UNCHANGED <<listening, conns, sigPc, exited, atShutdown>>

\* The steps of FlushToDb that return to the caller with the mutex released.
FlushReturns == FlushSetupFails \/ FlushCommitFails \/ FlushClear

FlushProceeds ==
    \/ FlushSetup \/ FlushCommit
    \/ \E k \in Keys : FlushUpsert(k) \/ FlushUpsertFails(k)

FlushStep ==
    \/ FlushProceeds /\ UNCHANGED serverVars
    \/ /\ FlushReturns
       /\ flusher' = "none"
       /\ sigPc' = IF flusher = "signal" THEN "flushed" ELSE sigPc
       /\ UNCHANGED <<listening, conns, exited, atShutdown>>

ServerMaintenance == Maintenance /\ UNCHANGED serverVars
ServerTick == Tick /\ UNCHANGED serverVars

----------------------------------------------------------------------------
(* The signal goroutine.                                                   *)

Signal ==
    /\ up /\ sigPc = "waiting"
    /\ sigPc' = "received"
    /\ UNCHANGED <<vars, listening, conns, flusher, exited, atShutdown>>

CloseListener ==
    /\ up /\ sigPc = "received"
    /\ listening' = FALSE
    /\ sigPc' = "closed"
    /\ UNCHANGED <<vars, conns, flusher, exited, atShutdown>>

\* PrintSummary reads the map under the mutex.
PrintSummary ==
    /\ up /\ sigPc = "closed" /\ Unlocked
    /\ sigPc' = "summarised"
    /\ UNCHANGED <<vars, listening, conns, flusher, exited, atShutdown>>

SignalFlush ==
    /\ sigPc = "summarised"
    /\ FlushBegin
    /\ flusher' = "signal" /\ sigPc' = "flushing"
    /\ atShutdown' = accepted
    /\ UNCHANGED <<listening, conns, exited>>

\* os.Exit(0) once FlushToDb has returned.
SignalExit_BeforeFlush == sigPc \in {"summarised", "flushing", "flushed"} /\ Exit("graceful")
SignalExit == sigPc = "flushed" /\ Exit("graceful")

----------------------------------------------------------------------------
SignalStep == Signal \/ CloseListener \/ PrintSummary \/ SignalFlush \/ SignalExit

ServerNext ==
    \/ ServerTick
    \/ \E c \in Conns : Accept(c) \/ CloseConnection(c) \/ UnparsableLine(c)
    \/ \E c \in Conns, p \in Patterns : HandleLine(c, p)
    \/ AcceptFails
    \/ TickerFlush \/ FlushStep
    \/ ServerMaintenance
    \/ SignalStep
    \/ Killed
    \/ ServerRestart

\* The ticker keeps firing and sync.RWMutex lets a waiting writer in, whoever else
\* wants it; a running flush goes on, its upserts between the VACUUMs that are
\* three hours apart; a VACUUM ends.
Fairness ==
    /\ SF_allVars(TickerFlush)
    /\ SF_allVars(FlushStep)
    /\ WF_allVars(VacuumEnd /\ UNCHANGED serverVars)

ServerSpec == ServerInit /\ [][ServerNext]_allVars /\ Fairness

----------------------------------------------------------------------------
(* Properties.                                                             *)

\* With SQLite well and no other stop than this one, a shutdown that reaches
\* os.Exit(0) has made durable every line counted when its flush began, although
\* connections keep counting lines until the process ends.
ShutdownFlushCovers ==
    exited = "graceful" /\ faults = 0 /\ crashes = 1 =>
        \A k \in Keys : db[k].n + expired[k] >= atShutdown[k]

\* A line never stays in memory only: the ticker's flush (or a shutdown, or the
\* loss of the process) settles it, whatever the maintenance and errors do.
PendingIsSettled == \A k \in Keys : Pending(k) > 0 ~> Pending(k) = 0

\* What main.go calls a graceful shutdown: a signal, with SQLite well and no line
\* refused, costs no line that was counted.
ShutdownIsGraceful ==
    exited \in {"graceful", "accept_error"} /\ faults = 0 /\ crashes = 1 =>
        \A k \in Keys : lost[k] = 0
=============================================================================
