---------------------------- MODULE WebSocketClient ----------------------------
(***************************************************************************)
(* One streaming client of websocket_client.go: the goroutines that share  *)
(* a Client struct.                                                        *)
(*                                                                         *)
(*   reader     readPump, which also runs UpdateSubscription and replies   *)
(*   writer     writePump                                                  *)
(*   tasks      one ProcessMessage goroutine per broadcast message         *)
(*   batchers   handleBatchTimeout, one goroutine per timer created        *)
(*                                                                         *)
(* The fields filter, subscription, rateLimiter and batchTimer are read    *)
(* and written without a lock, so each read and each write is a step.  A   *)
(* subscription is reduced to the levels it accepts, whether it limits the *)
(* rate and whether it batches; a client's subscriptions are numbered in   *)
(* the order in which it made them.                                        *)
(*                                                                         *)
(* A panic in a goroutine that this code starts ends the process.  A panic *)
(* in the reader is recovered by the library that called the handler,      *)
(* after the reader's deferred calls.                                      *)
(***************************************************************************)
EXTENDS Naturals, Sequences

CONSTANTS
    Clients,        \* WebSocket connections, each with its Client
    Levels,         \* log levels
    DefaultLevels,  \* levels of GetDefaultSubscription
    Subscriptions,  \* subscriptions a browser may send
    SendCap,        \* capacity of the channel c.send
    MaxMsgs,        \* bound: log messages broadcast
    MaxUpdates,     \* bound: accepted subscriptions per client
    MaxRequests     \* bound: other requests per client

Subscription == [levels : SUBSET Levels, limited : BOOLEAN, batched : BOOLEAN]

ASSUME LevelsAssumption == DefaultLevels \subseteq Levels
ASSUME SubscriptionsAssumption == Subscriptions \subseteq Subscription
ASSUME ClientBounds ==
    SendCap \in Nat \ {0} /\ MaxMsgs \in Nat /\ MaxUpdates \in Nat /\ MaxRequests \in Nat

VARIABLES
    client,         \* per connection: its Client struct and its goroutines
    logged,         \* levels of the messages logged so far
    panicked        \* the process has died of a panic

clientVars == <<client, logged, panicked>>

Msgs == 1 .. MaxMsgs
Default == [levels |-> DefaultLevels, limited |-> FALSE, batched |-> FALSE]

\* What sendMessage queues: a log message, a batch of them, or an answer.
Item == [type : {"log", "batch", "reply", "ack"}, msgs : SUBSET Msgs]
Log(m) == [type |-> "log", msgs |-> {m}]
Batch(ms) == [type |-> "batch", msgs |-> ms]
Answer(type) == [type |-> type, msgs |-> {}]

\* The goroutine started with a timer; waitsFor is the timer it waits for.
Batcher == [pc : {"top", "receive", "waiting", "flush", "check", "reset", "gone"}, waitsFor : Nat]

ReaderPc == {"none", "registering", "reading", "subscribe", "filter", "limiter", "timer",
             "clearTimer", "ack", "reply", "leaving", "closing", "gone"}
TaskPc == {"none", "match", "admit", "allow", "deliver",
           "filtered", "limited", "sent", "dropped", "batched"}

Client == [
    conn : {"none", "open", "closed"},
    send : Seq(Item),                       \* c.send
    sendClosed : BOOLEAN,
    subs : Seq(Subscription),               \* its subscriptions, the default first
    subscription : Nat, filter : Nat,       \* indexes into subs
    rateLimiter : BOOLEAN,                  \* c.rateLimiter is not nil
    batchTimer : Nat,                       \* number of the timer, 0 for nil
    timers : Seq({"running", "fired", "drained", "stopped"}),
    batchers : Seq(Batcher),                \* one per timer
    batchBuffer : SUBSET Msgs,
    dropped : Nat,                          \* c.messagesDropped
    reader : ReaderPc, requests : Nat,
    writer : {"none", "waiting", "writing", "gone"},
    hand : Seq(Item),                       \* received from c.send, not yet written
    tasks : [Msgs -> TaskPc],
    received : [Msgs -> Nat],               \* history: times a message reached the browser
    acked : Nat,                            \* history: last subscription acknowledged
    ackedAt : [Msgs -> Nat],                \* history: acked when a message was broadcast
    flushed : SUBSET Msgs]                  \* history: messages flushBatch took out

ClientTypeOK ==
    /\ client \in [Clients -> Client]
    /\ logged \in Seq(Levels)
    /\ panicked \in BOOLEAN
    /\ \A c \in Clients :
          /\ Len(client[c].send) <= SendCap /\ Len(client[c].hand) <= 1
          /\ {client[c].subscription, client[c].filter} \subseteq DOMAIN client[c].subs
          /\ client[c].batchTimer \in 0 .. Len(client[c].timers)
          /\ Len(client[c].timers) = Len(client[c].batchers)

\* NewClient, for every connection before it is made.
NewClient == [
    conn |-> "none", send |-> <<>>, sendClosed |-> FALSE,
    subs |-> <<Default>>, subscription |-> 1, filter |-> 1, rateLimiter |-> FALSE,
    batchTimer |-> 0, timers |-> <<>>, batchers |-> <<>>, batchBuffer |-> {},
    dropped |-> 0, reader |-> "none", requests |-> 0, writer |-> "none", hand |-> <<>>,
    tasks |-> [m \in Msgs |-> "none"], received |-> [m \in Msgs |-> 0],
    acked |-> 1, ackedAt |-> [m \in Msgs |-> 1], flushed |-> {}]

ClientInit ==
    /\ client = [c \in Clients |-> NewClient]
    /\ logged = <<>>
    /\ panicked = FALSE

\* The client c becomes cl, in a process that lives.
Becomes(c, cl) ==
    /\ ~panicked
    /\ client' = [client EXCEPT ![c] = cl]
    /\ UNCHANGED <<logged, panicked>>

Panic ==
    /\ ~panicked
    /\ panicked' = TRUE
    /\ UNCHANGED <<client, logged>>

HasRoom_OffByOne(cl) == Len(cl.send) <= SendCap
HasRoom(cl) == Len(cl.send) < SendCap

SendMessage_Uncounted(cl, item) ==
    IF HasRoom(cl) THEN [cl EXCEPT !.send = Append(@, item)] ELSE cl

\* sendMessage, on a channel that is open: a full channel drops the item.
SendMessage(cl, item) ==
    IF HasRoom(cl) THEN [cl EXCEPT !.send = Append(@, item)]
                   ELSE [cl EXCEPT !.dropped = @ + 1]

Batched(cl) == cl.subs[cl.subscription].batched

----------------------------------------------------------------------------
(* The connection, as the browser and the network move it.                 *)

PeerCloses(c) ==
    /\ client[c].conn = "open"
    /\ Becomes(c, [client[c] EXCEPT !.conn = "closed"])

----------------------------------------------------------------------------
(* readPump.                                                               *)

\* A request the filters can be compiled for; UpdateSubscription begins.
ReadSubscription(c, s) ==
    /\ client[c].conn = "open" /\ client[c].reader = "reading"
    /\ Len(client[c].subs) <= MaxUpdates
    /\ Becomes(c, [client[c] EXCEPT !.reader = "subscribe", !.subs = Append(@, s)])

\* ping, stats, an unknown action, or a subscription that is refused: one answer.
ReadRequest(c) ==
    /\ client[c].conn = "open" /\ client[c].reader = "reading"
    /\ client[c].requests < MaxRequests
    /\ Becomes(c, [client[c] EXCEPT !.reader = "reply", !.requests = @ + 1])

SetSubscription(c) ==
    /\ client[c].reader = "subscribe"
    /\ Becomes(c, [client[c] EXCEPT !.subscription = Len(client[c].subs), !.reader = "filter"])

SetFilter_Stale(c) ==
    /\ client[c].reader = "filter"
    /\ Becomes(c, [client[c] EXCEPT !.reader = "limiter"])

SetFilter(c) ==
    /\ client[c].reader = "filter"
    /\ Becomes(c, [client[c] EXCEPT !.filter = Len(client[c].subs), !.reader = "limiter"])

SetRateLimiter(c) ==
    LET cl == client[c] IN
    /\ cl.reader = "limiter"
    /\ Becomes(c, [cl EXCEPT !.rateLimiter = cl.subs[Len(cl.subs)].limited, !.reader = "timer"])

\* A timer and its goroutine are created if batching is on and there is none; the
\* timer is stopped if batching is off, and forgotten in the next step.
SetTimer(c) ==
    LET cl == client[c]
        on == cl.subs[Len(cl.subs)].batched
        starts == on /\ cl.batchTimer = 0
        stops == ~on /\ cl.batchTimer # 0
    IN
    /\ cl.reader = "timer"
    /\ \/ /\ starts
          /\ Becomes(c, [cl EXCEPT !.timers = Append(@, "running"),
                                   !.batchTimer = Len(cl.timers) + 1,
                                   !.batchers = Append(@, [pc |-> "top", waitsFor |-> 0]),
                                   !.reader = "ack"])
       \/ /\ stops
          /\ Becomes(c, [cl EXCEPT !.timers[cl.batchTimer] = "stopped",
                                   !.reader = "clearTimer"])
       \/ /\ ~starts /\ ~stops
          /\ Becomes(c, [cl EXCEPT !.reader = "ack"])

ClearTimer(c) ==
    /\ client[c].reader = "clearTimer"
    /\ Becomes(c, [client[c] EXCEPT !.batchTimer = 0, !.reader = "ack"])

\* The reader's own sendMessage; on a closed channel it panics, and leaves.
ReaderSends(c, item, then) ==
    LET cl == client[c] IN
    \/ /\ ~cl.sendClosed
       /\ Becomes(c, [SendMessage(then, item) EXCEPT !.reader = "reading"])
    \/ /\ cl.sendClosed
       /\ Becomes(c, [cl EXCEPT !.reader = "leaving"])

Acknowledge(c) ==
    /\ client[c].reader = "ack"
    /\ ReaderSends(c, Answer("ack"), [client[c] EXCEPT !.acked = Len(client[c].subs)])

Reply(c) ==
    /\ client[c].reader = "reply"
    /\ ReaderSends(c, Answer("reply"), client[c])

\* ReadJSON returns an error: the connection is closed or the frame is no JSON.
ReadFails(c) ==
    /\ client[c].reader = "reading"
    /\ Becomes(c, [client[c] EXCEPT !.reader = "leaving"])

\* The deferred conn.Close, after the rendezvous with the hub.
ReaderCloses(c) ==
    /\ client[c].reader = "closing"
    /\ Becomes(c, [client[c] EXCEPT !.conn = "closed", !.reader = "gone"])

ReaderStep(c) ==
    \/ SetSubscription(c) \/ SetFilter(c) \/ SetRateLimiter(c) \/ SetTimer(c) \/ ClearTimer(c)
    \/ Acknowledge(c) \/ Reply(c) \/ ReaderCloses(c)

----------------------------------------------------------------------------
(* writePump.                                                              *)

WriterReceives(c) ==
    /\ client[c].writer = "waiting" /\ client[c].send # <<>>
    /\ Becomes(c, [client[c] EXCEPT !.hand = <<Head(client[c].send)>>, !.send = Tail(@),
                                    !.writer = "writing"])

\* The channel is closed and empty: a close frame, and the deferred conn.Close.
WriterEnds(c) ==
    /\ client[c].writer = "waiting" /\ client[c].send = <<>> /\ client[c].sendClosed
    /\ Becomes(c, [client[c] EXCEPT !.writer = "gone", !.conn = "closed"])

WriterWrites(c) ==
    LET ms == client[c].hand[1].msgs IN
    /\ client[c].writer = "writing" /\ client[c].conn = "open"
    /\ Becomes(c, [client[c] EXCEPT
          !.received = [m \in Msgs |-> IF m \in ms THEN @[m] + 1 ELSE @[m]],
          !.hand = <<>>, !.writer = "waiting"])

WriteFails(c) ==
    /\ client[c].writer = "writing" /\ client[c].conn = "closed"
    /\ Becomes(c, [client[c] EXCEPT !.hand = <<>>, !.writer = "gone"])

WriterStep(c) == WriterReceives(c) \/ WriterEnds(c) \/ WriterWrites(c) \/ WriteFails(c)

----------------------------------------------------------------------------
(* ProcessMessage.                                                         *)

Match(c, m) ==
    LET cl == client[c] IN
    /\ cl.tasks[m] = "match"
    /\ Becomes(c, [cl EXCEPT !.tasks[m] =
          IF logged[m] \in cl.subs[cl.filter].levels THEN "admit" ELSE "filtered"])

\* The nil check of c.rateLimiter; Allow() loads the field a second time.
Admit(c, m) ==
    LET cl == client[c] IN
    /\ cl.tasks[m] = "admit"
    /\ Becomes(c, [cl EXCEPT !.tasks[m] = IF cl.rateLimiter THEN "allow" ELSE "deliver"])

\* Allow() grants a token.
Allow(c, m) ==
    /\ client[c].tasks[m] = "allow" /\ client[c].rateLimiter
    /\ Becomes(c, [client[c] EXCEPT !.tasks[m] = "deliver"])

Limit(c, m) ==
    /\ client[c].tasks[m] = "allow" /\ client[c].rateLimiter
    /\ Becomes(c, [client[c] EXCEPT !.tasks[m] = "limited", !.dropped = @ + 1])

\* UpdateSubscription has set the field to nil since the check.
AllowPanics(c, m) ==
    /\ client[c].tasks[m] = "allow" /\ ~client[c].rateLimiter
    /\ Panic

AddToBatch(c, m) ==
    /\ client[c].tasks[m] = "deliver" /\ Batched(client[c])
    /\ Becomes(c, [client[c] EXCEPT !.tasks[m] = "batched", !.batchBuffer = @ \cup {m}])

Deliver(c, m) ==
    LET cl == client[c] IN
    /\ cl.tasks[m] = "deliver" /\ ~Batched(cl) /\ ~cl.sendClosed
    /\ Becomes(c, [SendMessage(cl, Log(m)) EXCEPT
                      !.tasks[m] = IF HasRoom(cl) THEN "sent" ELSE "dropped"])

DeliverPanics(c, m) ==
    /\ client[c].tasks[m] = "deliver" /\ ~Batched(client[c]) /\ client[c].sendClosed
    /\ Panic

TaskStep(c, m) ==
    \/ Match(c, m) \/ Admit(c, m) \/ Allow(c, m) \/ Limit(c, m) \/ AllowPanics(c, m)
    \/ AddToBatch(c, m) \/ Deliver(c, m) \/ DeliverPanics(c, m)

----------------------------------------------------------------------------
(* handleBatchTimeout, the goroutine b of a client.                        *)

TimerFires(c, t) ==
    /\ client[c].timers[t] = "running"
    /\ Becomes(c, [client[c] EXCEPT !.timers[t] = "fired"])

\* The nil check of c.batchTimer.
BatcherTop(c, b) ==
    LET cl == client[c] IN
    /\ cl.batchers[b].pc = "top"
    /\ Becomes(c, [cl EXCEPT !.batchers[b].pc =
                      IF cl.batchTimer = 0 THEN "gone" ELSE "receive"])

\* The receive loads the pointer again; it may have become nil since the check.
BatcherReceives(c, b) ==
    LET cl == client[c] IN
    /\ cl.batchers[b].pc = "receive"
    /\ \/ /\ cl.batchTimer # 0
          /\ Becomes(c, [cl EXCEPT !.batchers[b] =
                [pc |-> "waiting", waitsFor |-> cl.batchTimer]])
       \/ /\ cl.batchTimer = 0
          /\ Panic

BatcherWakes(c, b) ==
    LET cl == client[c] IN
    /\ cl.batchers[b].pc = "waiting" /\ cl.timers[cl.batchers[b].waitsFor] = "fired"
    /\ Becomes(c, [cl EXCEPT !.timers[cl.batchers[b].waitsFor] = "drained",
                             !.batchers[b].pc = "flush"])

\* json.Unmarshal fills ServerMessage.Data with a map, never a *LogMessage, so the
\* batch that is sent holds no message, whatever was in the buffer.
BatchOf(buffer) == {}

\* flushBatch, under c.batchMutex.
FlushBatch(c, b) ==
    LET cl == client[c] IN
    /\ cl.batchers[b].pc = "flush"
    /\ \/ /\ cl.batchBuffer = {}
          /\ Becomes(c, [cl EXCEPT !.batchers[b].pc = "check"])
       \/ /\ cl.batchBuffer # {} /\ ~cl.sendClosed
          /\ Becomes(c, [SendMessage(cl, Batch(BatchOf(cl.batchBuffer))) EXCEPT
                            !.batchBuffer = {}, !.flushed = @ \cup cl.batchBuffer,
                            !.batchers[b].pc = "check"])
       \/ /\ cl.batchBuffer # {} /\ cl.sendClosed
          /\ Panic

BatcherChecks(c, b) ==
    /\ client[c].batchers[b].pc = "check"
    /\ Becomes(c, [client[c] EXCEPT !.batchers[b].pc =
                      IF Batched(client[c]) THEN "reset" ELSE "gone"])

\* c.batchTimer.Reset; the pointer may have become nil since the check.
BatcherResets(c, b) ==
    LET cl == client[c] IN
    /\ cl.batchers[b].pc = "reset"
    /\ \/ /\ cl.batchTimer # 0
          /\ Becomes(c, [cl EXCEPT !.timers[cl.batchTimer] = "running",
                                   !.batchers[b].pc = "top"])
       \/ /\ cl.batchTimer = 0
          /\ Panic

BatcherStep(c, b) ==
    BatcherTop(c, b) \/ BatcherReceives(c, b) \/ BatcherWakes(c, b) \/ FlushBatch(c, b)
        \/ BatcherChecks(c, b) \/ BatcherResets(c, b)
=============================================================================
