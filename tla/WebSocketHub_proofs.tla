-------------------------- MODULE WebSocketHub_proofs --------------------------
(***************************************************************************)
(* What is proved of WebSocketHub and of its clients, for every set of     *)
(* connections, levels and subscriptions and every capacity, limit and     *)
(* bound.  Nothing is assumed of the number of connections.                *)
(***************************************************************************)
EXTENDS WebSocketHub, WebSocketClient_proofs

----------------------------------------------------------------------------
(* The inductive invariant: that of each client, and what relates the      *)
(* clients to the hub.                                                     *)

\* The messages in the channel are different ones, in the order of their logging, and
\* no client has seen any of them.
BroadcastOrdered ==
    /\ Len(logged) <= MaxMsgs
    /\ \A i \in DOMAIN broadcast : broadcast[i] <= Len(logged)
    /\ \A i, j \in DOMAIN broadcast : i < j => broadcast[i] < broadcast[j]
    /\ \A c \in Clients : \A m \in Msgs : client[c].tasks[m] # "none" =>
          m <= Len(logged) /\ \A i \in DOMAIN broadcast : broadcast[i] # m

\* Where the reader of a client in the map, or in the hands of the hub, may be.
MapFollowsReaders ==
    /\ IsFiniteSet(registered)
    /\ \A c \in Clients :
          /\ client[c].conn = "none" => client[c].reader = "none"
          /\ client[c].reader \in {"none", "registering"} =>
                /\ c \notin registered /\ ~client[c].sendClosed
                /\ client[c].writer = "none"
          /\ hub = [op |-> "register", client |-> c] =>
                client[c].reader \notin {"none", "registering", "closing", "gone"}

HubInv ==
    /\ TypeOK
    /\ \A c \in Clients : ClientInv(client[c], logged)
    /\ BroadcastOrdered /\ MapFollowsReaders /\ MapMatchesChannels

----------------------------------------------------------------------------
(* The steps of one client.                                                *)

\* A step of a client's goroutines sets that client, or ends the process.
LEMMA ClientStepShape ==
    ASSUME NEW c \in Clients, ClientStep(c)
    PROVE  (Panic \/ \E cl : Becomes(c, cl)) /\ UNCHANGED hubVars
  <1>1. UNCHANGED hubVars
    BY DEF ClientStep
  <1>2. CASE PeerCloses(c) \/ ReadFails(c) \/ ReadRequest(c)
    BY <1>1, <1>2 DEF PeerCloses, ReadFails, ReadRequest
  <1>3. CASE \E s \in Subscriptions : ReadSubscription(c, s)
    BY <1>1, <1>3 DEF ReadSubscription
  <1>4. CASE ReaderStep(c)
    BY <1>1, <1>4 DEF ReaderStep, SetSubscription, SetFilter, SetRateLimiter, SetTimer,
                      ClearTimer, Acknowledge, Reply, ReaderSends, ReaderCloses
  <1>5. CASE WriterStep(c)
    BY <1>1, <1>5 DEF WriterStep, WriterReceives, WriterEnds, WriterWrites, WriteFails
  <1>6. CASE \E m \in Msgs : TaskStep(c, m)
    BY <1>1, <1>6 DEF TaskStep, Match, Admit, Allow, Limit, AllowPanics, AddToBatch, Deliver,
                      DeliverPanics
  <1>7. CASE \E t \in DOMAIN client[c].timers : TimerFires(c, t) \/ BatcherStep(c, t)
    BY <1>1, <1>7 DEF TimerFires, BatcherStep, BatcherTop, BatcherReceives, BatcherWakes, FlushBatch,
                      BatcherChecks, BatcherResets
  <1> QED BY <1>2, <1>3, <1>4, <1>5, <1>6, <1>7 DEF ClientStep

\* Every step of a client's goroutines keeps its part of the invariant.
LEMMA ClientStepKeeps ==
    ASSUME NEW c \in Clients, client \in [Clients -> Client], ClientInv(client[c], logged),
           ClientStep(c)
    PROVE  ClientInv(client'[c], logged) /\ MovesOn(client[c], client'[c])
  <1> DEFINE Kept == ClientInv(client'[c], logged) /\ MovesOn(client[c], client'[c])
  <1>1. ClientTyped(client[c])
    BY DEF ClientInv
  <1>2. ASSUME QuietStep(c)
        PROVE  Kept
    <2>1. ClientTyped(client'[c]) /\ Quiet(client[c], client'[c])
      BY <1>1, <1>2, ControlIsQuiet, UpdateIsQuiet, SetTimerIsQuiet, BatcherIsQuiet
         DEF QuietStep
    <2> QED BY <2>1, QuietKeeps
  <1>3. ASSUME Panic
        PROVE  Kept
    <2>1. client'[c] = client[c]
      BY <1>3 DEF Panic
    <2>2. MovesOn(client[c], client[c])
      BY DEF MovesOn
    <2> QED BY <2>1, <2>2
  <1>4. CASE PeerCloses(c) \/ ReadFails(c) \/ ReadRequest(c)
             \/ \E s \in Subscriptions : ReadSubscription(c, s)
    BY <1>2, <1>4, RequestKeeps, SubscriptionKeeps DEF QuietStep
  <1>5. CASE ReaderStep(c)
    <2>1. CASE SetFilter(c)
      BY <2>1, SetFilterKeeps
    <2>2. CASE Acknowledge(c) \/ Reply(c)
      <3>1. CASE client[c].sendClosed
        BY <1>2, <2>2, <3>1 DEF QuietStep
      <3>2. CASE ~client[c].sendClosed
        BY <2>2, <3>2, AnswerKeeps
      <3> QED BY <3>1, <3>2
    <2>3. CASE SetSubscription(c) \/ SetRateLimiter(c) \/ SetTimer(c) \/ ClearTimer(c)
               \/ ReaderCloses(c)
      BY <1>2, <2>3 DEF QuietStep
    <2> QED BY <1>5, <2>1, <2>2, <2>3 DEF ReaderStep
  <1>6. CASE WriterStep(c)
    BY <1>6, ReceiveKeeps, WriteKeeps DEF WriterStep
  <1>7. CASE \E m \in Msgs : TaskStep(c, m)
    <2>1. PICK m \in Msgs : TaskStep(c, m)
      BY <1>7
    <2>2. CASE AllowPanics(c, m) \/ DeliverPanics(c, m)
      BY <1>3, <2>2 DEF AllowPanics, DeliverPanics
    <2>3. CASE ~AllowPanics(c, m) /\ ~DeliverPanics(c, m)
      <3>1. client'[c] \in Client /\ TaskMoves(client[c], client'[c], m, logged)
        BY <2>1, <2>3, TaskEffect
      <3> QED BY <3>1, TaskKeeps
    <2> QED BY <2>2, <2>3
  <1>8. CASE \E t \in DOMAIN client[c].timers : TimerFires(c, t) \/ BatcherStep(c, t)
    <2>1. PICK t \in DOMAIN client[c].timers : TimerFires(c, t) \/ BatcherStep(c, t)
      BY <1>8
    <2>2. CASE TimerFires(c, t) \/ BatcherTop(c, t) \/ BatcherWakes(c, t) \/ BatcherChecks(c, t)
      BY <1>2, <2>2 DEF QuietStep
    <2>3. CASE FlushBatch(c, t)
      <3>1. CASE client[c].batchBuffer = {}
        BY <1>2, <2>3, <3>1 DEF QuietStep
      <3>2. CASE client[c].batchBuffer # {} /\ client[c].sendClosed
        BY <1>3, <2>3, <3>2 DEF FlushBatch
      <3>3. CASE client[c].batchBuffer # {} /\ ~client[c].sendClosed
        <4>1. FlushedBy(client[c], client'[c], t)
          BY <2>3, <3>3 DEF FlushBatch, FlushedBy, Becomes
        <4>2. t \in DOMAIN client[c].batchers
          <5>1. /\ client[c].timers \in Seq({"running", "fired", "drained", "stopped"})
                /\ client[c].batchers \in Seq(Batcher)
                /\ Len(client[c].timers) = Len(client[c].batchers)
            BY <1>1, ClientFields DEF ClientTyped
          <5> QED BY <5>1
        <4>3. client'[c] \in Client /\ Flushes(client[c], client'[c])
          BY <3>3, <4>1, <4>2, FlushEffect
        <4> QED BY <4>3, FlushKeeps
      <3> QED BY <3>1, <3>2, <3>3
    <2>4. CASE BatcherReceives(c, t) \/ BatcherResets(c, t)
      <3>1. CASE client[c].batchTimer = 0
        BY <1>3, <2>4, <3>1 DEF BatcherReceives, BatcherResets
      <3>2. CASE client[c].batchTimer # 0
        BY <1>2, <2>4, <3>2 DEF QuietStep
      <3> QED BY <3>1, <3>2
    <2> QED BY <2>1, <2>2, <2>3, <2>4 DEF BatcherStep
  <1> QED BY <1>4, <1>5, <1>6, <1>7, <1>8 DEF ClientStep

----------------------------------------------------------------------------
(* The steps of the hub.                                                   *)

\* What the hub and the connection set in a client.
HubSets(a, b) ==
    /\ SameTypes(a, b) /\ SameDrops(a, b) /\ SameFilter(a, b)
    /\ b.send = a.send /\ b.received = a.received
    /\ b.writer = a.writer \/ (a.writer = "none" /\ b.writer = "waiting")
    /\ b.reader \in {"limiter", "timer", "clearTimer", "ack"} => b.reader = a.reader

LEMMA HubSetsKeeps ==
    ASSUME NEW ls, NEW a, ClientInv(a, ls), NEW b \in Client, HubSets(a, b)
    PROVE  ClientInv(b, ls)
  <1>1. a \in Client /\ ClientTyped(a)
    BY DEF ClientInv, ClientTyped
  <1>2. ClientTyped(b)
    BY <1>1, TypesKept DEF HubSets
  <1>3. WriterHolds(b) /\ OnePlace(b) /\ SentIsKept(b)
    BY DEF HubSets, SameTypes, SameFilter, ClientInv, WriterHolds, OnePlace, SentIsKept,
           InQueue, QueuedOnce, InWriter
  <1>4. DropsCounted(b)
    BY <1>1, DropsKept DEF HubSets, ClientInv
  <1>5. FilterFollows(b, ls)
    BY FilterKept DEF HubSets, ClientInv
  <1> QED BY <1>2, <1>3, <1>4, <1>5 DEF ClientInv

\* The four ways in which they set it.
LEMMA HubSetsClient ==
    ASSUME NEW a \in Client, NEW b,
           \/ /\ a.reader = "none"
              /\ b = [a EXCEPT !.conn = "open", !.reader = "registering"]
           \/ /\ a.reader = "registering" /\ a.writer = "none"
              /\ b = [a EXCEPT !.reader = "reading", !.writer = "waiting"]
           \/ b = [a EXCEPT !.sendClosed = TRUE, !.conn = "closed"]
           \/ a.reader = "leaving" /\ b = [a EXCEPT !.reader = "closing"]
           \/ b = [a EXCEPT !.sendClosed = TRUE]
           \/ b = a
    PROVE  b \in Client /\ HubSets(a, b)
  <1>1. CASE a.reader = "none" /\ b = [a EXCEPT !.conn = "open", !.reader = "registering"]
    <2>1. b \in Client
      BY <1>1 DEF Client, ReaderPc
    <2>2. Answering(b) <= Answering(a)
      BY <1>1 DEF Client, Answering
    <2> QED BY <1>1, <2>1, <2>2 DEF Client, HubSets, SameTypes, SameDrops, SameFilter
  <1>2. CASE /\ a.reader = "registering" /\ a.writer = "none"
             /\ b = [a EXCEPT !.reader = "reading", !.writer = "waiting"]
    <2>1. b \in Client
      BY <1>2 DEF Client, ReaderPc
    <2>2. Answering(b) <= Answering(a)
      BY <1>2 DEF Client, Answering
    <2> QED BY <1>2, <2>1, <2>2 DEF Client, HubSets, SameTypes, SameDrops, SameFilter
  <1>3. CASE b = [a EXCEPT !.sendClosed = TRUE, !.conn = "closed"]
    <2>1. b \in Client
      BY <1>3 DEF Client
    <2>2. Answering(b) <= Answering(a)
      BY <1>3 DEF Client, Answering
    <2> QED BY <1>3, <2>1, <2>2 DEF Client, HubSets, SameTypes, SameDrops, SameFilter
  <1>4. CASE a.reader = "leaving" /\ b = [a EXCEPT !.reader = "closing"]
    <2>1. b \in Client
      BY <1>4 DEF Client, ReaderPc
    <2>2. Answering(b) <= Answering(a)
      BY <1>4 DEF Client, Answering
    <2> QED BY <1>4, <2>1, <2>2 DEF Client, HubSets, SameTypes, SameDrops, SameFilter
  <1>5. CASE b = [a EXCEPT !.sendClosed = TRUE]
    <2>1. b \in Client
      BY <1>5 DEF Client
    <2>2. Answering(b) <= Answering(a)
      BY <1>5 DEF Client, Answering
    <2> QED BY <1>5, <2>1, <2>2 DEF Client, HubSets, SameTypes, SameDrops, SameFilter
  <1>6. CASE b = a
    BY <1>6 DEF HubSets, SameTypes, SameDrops, SameFilter, Answering
  <1> QED BY <1>1, <1>2, <1>3, <1>4, <1>5, <1>6

\* The types of the clients, from those of each.
LEMMA ClientsTyped ==
    ASSUME client \in [Clients -> Client], logged \in Seq(Levels), panicked \in BOOLEAN,
           \A c \in Clients : ClientTyped(client[c])
    PROVE  ClientTypeOK
  BY DEF ClientTypeOK, ClientTyped

\* How a step of the hub or of the connection moves one client, for the messages in
\* the channel.
LEMMA OneClientOrdered ==
    ASSUME BroadcastOrdered, NEW c \in Clients, client \in [Clients -> Client],
           \A d \in Clients \ {c} : client'[d] = client[d],
           client'[c].tasks = client[c].tasks \/ MovesOn(client[c], client'[c]),
           logged' = logged, broadcast' = broadcast
    PROVE  BroadcastOrdered'
  <1>1. \A d \in Clients : \A m \in Msgs :
           client'[d].tasks[m] # "none" => client[d].tasks[m] # "none"
    BY DEF MovesOn
  <1>2. /\ Len(logged) <= MaxMsgs
        /\ \A i \in DOMAIN broadcast : broadcast[i] <= Len(logged)
        /\ \A i, j \in DOMAIN broadcast : i < j => broadcast[i] < broadcast[j]
    BY DEF BroadcastOrdered
  <1>3. \A d \in Clients : \A m \in Msgs : client'[d].tasks[m] # "none" =>
           m <= Len(logged) /\ \A i \in DOMAIN broadcast : broadcast[i] # m
    BY <1>1 DEF BroadcastOrdered
  <1>4. Len(logged') = Len(logged)
    OBVIOUS
  <1> QED BY <1>2, <1>3, <1>4 DEF BroadcastOrdered

LEMMA ClientStepInv ==
    ASSUME HubInv, NEW c \in Clients, ClientStep(c)
    PROVE  HubInv'
  <1>1. /\ client \in [Clients -> Client] /\ logged \in Seq(Levels) /\ panicked \in BOOLEAN
        /\ registered \subseteq Clients /\ hub \in Handling
        /\ broadcast \in Seq(Msgs) /\ Len(broadcast) <= BroadcastCap
    BY DEF HubInv, TypeOK, ClientTypeOK
  <1>2. ClientInv(client'[c], logged) /\ MovesOn(client[c], client'[c])
    BY <1>1, ClientStepKeeps DEF HubInv
  <1>3. (Panic \/ \E cl : Becomes(c, cl)) /\ UNCHANGED hubVars
    BY ClientStepShape
  <1>4. client'[c] \in Client
    BY <1>2 DEF ClientInv, ClientTyped
  <1>5. /\ logged' = logged /\ panicked' \in BOOLEAN /\ client' \in [Clients -> Client]
        /\ \A d \in Clients \ {c} : client'[d] = client[d]
    <2>1. CASE Panic
      BY <1>1, <2>1 DEF Panic
    <2>2. CASE \E cl : Becomes(c, cl)
      <3>1. PICK cl : Becomes(c, cl)
        BY <2>2
      <3>2. panicked' = panicked
        BY <3>1 DEF Becomes
      <3> QED BY <1>1, <1>4, <3>1, <3>2, BecomesOne
    <2> QED BY <1>3, <2>1, <2>2
  <1>6. registered' = registered /\ broadcast' = broadcast /\ hub' = hub
    BY <1>3 DEF hubVars
  <1>7. \A d \in Clients : ClientInv(client'[d], logged)
    BY <1>2, <1>5 DEF HubInv
  <1>8. TypeOK'
    <2>1. \A d \in Clients : ClientTyped(client'[d])
      BY <1>7 DEF ClientInv
    <2>2. ClientTypeOK'
      BY <1>1, <1>5, <2>1 DEF ClientTypeOK, ClientTyped
    <2> QED BY <1>1, <1>6, <2>2 DEF TypeOK
  <1>9. BroadcastOrdered'
    BY <1>1, <1>2, <1>5, <1>6, OneClientOrdered DEF HubInv
  <1>10. MapFollowsReaders'
    <2>1. \A d \in Clients \ {c} :
             /\ client'[d].conn = "none" => client'[d].reader = "none"
             /\ client'[d].reader \in {"none", "registering"} =>
                   /\ d \notin registered /\ ~client'[d].sendClosed
                   /\ client'[d].writer = "none"
             /\ hub = [op |-> "register", client |-> d] =>
                   client'[d].reader \notin {"none", "registering", "closing", "gone"}
      BY <1>5 DEF HubInv, MapFollowsReaders
    <2>2. /\ client'[c].conn = "none" => client'[c].reader = "none"
          /\ client'[c].reader \in {"none", "registering"} =>
                /\ c \notin registered /\ ~client'[c].sendClosed
                /\ client'[c].writer = "none"
          /\ hub = [op |-> "register", client |-> c] =>
                client'[c].reader \notin {"none", "registering", "closing", "gone"}
      BY <1>2 DEF HubInv, MapFollowsReaders, MovesOn
    <2> QED BY <1>6, <2>1, <2>2 DEF HubInv, MapFollowsReaders
  <1>11. MapMatchesChannels'
    <2>1. \A d \in Clients :
             /\ client'[d].sendClosed = client[d].sendClosed
             /\ client'[d].reader \in {"closing", "gone"} =>
                   client[d].reader \in {"closing", "gone"}
      BY <1>2, <1>5 DEF MovesOn
    <2>2. hub.op = "register" => hub.client \in Clients
      BY <1>1 DEF Handling, Idle
    <2> QED BY <1>1, <1>6, <2>1, <2>2 DEF HubInv, MapMatchesChannels
  <1> QED BY <1>5, <1>7, <1>8, <1>9, <1>10, <1>11 DEF HubInv

\* The parts of the invariant that speak of the clients, when the hub or a connection
\* sets one of them.
LEMMA HubSetsInv ==
    ASSUME HubInv, NEW c \in Clients, NEW cl, Becomes(c, cl),
           cl \in Client, HubSets(client[c], cl)
    PROVE  /\ \A d \in Clients : ClientInv(client'[d], logged')
           /\ ClientTypeOK' /\ (broadcast' = broadcast => BroadcastOrdered')
           /\ client'[c] = cl /\ \A d \in Clients \ {c} : client'[d] = client[d]
  <1>1. /\ client \in [Clients -> Client] /\ logged \in Seq(Levels) /\ panicked \in BOOLEAN
    BY DEF HubInv, TypeOK, ClientTypeOK
  <1>2. /\ client' \in [Clients -> Client] /\ logged' = logged /\ panicked' = panicked
        /\ client'[c] = cl /\ \A d \in Clients \ {c} : client'[d] = client[d]
    BY <1>1, BecomesOne
  <1>3. ClientInv(cl, logged)
    BY HubSetsKeeps DEF HubInv
  <1>4. \A d \in Clients : ClientInv(client'[d], logged)
    BY <1>2, <1>3 DEF HubInv
  <1>5. ClientTypeOK'
    BY <1>1, <1>2, <1>4 DEF ClientTypeOK, ClientInv, ClientTyped
  <1>6. client'[c].tasks = client[c].tasks
    BY <1>2 DEF HubSets, SameFilter
  <1>7. broadcast' = broadcast => BroadcastOrdered'
    BY <1>1, <1>2, <1>6, OneClientOrdered DEF HubInv
  <1> QED BY <1>2, <1>4, <1>5, <1>7

LEMMA ConnectInv ==
    ASSUME HubInv, NEW c \in Clients, Connect(c)
    PROVE  HubInv'
  <1> DEFINE cl == [client[c] EXCEPT !.conn = "open", !.reader = "registering"]
  <1>1. /\ client[c] \in Client /\ client[c].reader = "none" /\ c \notin registered
        /\ ~client[c].sendClosed /\ client[c].writer = "none"
        /\ hub # [op |-> "register", client |-> c]
    BY DEF HubInv, TypeOK, ClientTypeOK, MapFollowsReaders, Connect
  <1>2. cl \in Client /\ HubSets(client[c], cl)
    BY <1>1, HubSetsClient
  <1>3. Becomes(c, cl) /\ registered' = registered /\ broadcast' = broadcast /\ hub' = hub
    BY DEF Connect, hubVars
  <1>4. /\ cl.conn = "open" /\ cl.reader = "registering"
        /\ cl.sendClosed = client[c].sendClosed /\ cl.writer = client[c].writer
    BY <1>1 DEF Client
  <1> HIDE DEF cl
  <1>5. /\ \A d \in Clients : ClientInv(client'[d], logged')
        /\ ClientTypeOK' /\ BroadcastOrdered'
        /\ client'[c] = cl /\ \A d \in Clients \ {c} : client'[d] = client[d]
    BY <1>2, <1>3, HubSetsInv
  <1>6. TypeOK'
    BY <1>3, <1>5 DEF HubInv, TypeOK
  <1>7. MapFollowsReaders'
    BY <1>1, <1>3, <1>4, <1>5 DEF HubInv, MapFollowsReaders
  <1>8. MapMatchesChannels'
    <2>1. hub.op = "register" => hub.client \in Clients
      BY DEF HubInv, TypeOK, Handling, Idle
    <2>2. \A d \in Clients :
             /\ client'[d].sendClosed = client[d].sendClosed
             /\ client'[d].reader \in {"closing", "gone"} =>
                   client[d].reader \in {"closing", "gone"}
      BY <1>1, <1>4, <1>5
    <2>3. registered \subseteq Clients
      BY DEF HubInv, TypeOK
    <2> QED BY <1>3, <2>1, <2>2, <2>3 DEF HubInv, MapMatchesChannels
  <1> QED BY <1>5, <1>6, <1>7, <1>8 DEF HubInv

LEMMA ReceiveRegisterInv ==
    ASSUME HubInv, NEW c \in Clients, ReceiveRegister(c)
    PROVE  HubInv'
  <1> DEFINE cl == [client[c] EXCEPT !.reader = "reading", !.writer = "waiting"]
  <1>1. /\ client[c] \in Client /\ client[c].reader = "registering" /\ c \notin registered
        /\ ~client[c].sendClosed /\ client[c].writer = "none" /\ client[c].conn # "none"
    BY DEF HubInv, TypeOK, ClientTypeOK, MapFollowsReaders, ReceiveRegister
  <1>2. cl \in Client /\ HubSets(client[c], cl)
    BY <1>1, HubSetsClient
  <1>3. /\ Becomes(c, cl) /\ registered' = registered /\ broadcast' = broadcast
        /\ hub = Idle /\ hub' = [op |-> "register", client |-> c]
    BY DEF ReceiveRegister
  <1>4. /\ cl.reader = "reading" /\ cl.conn = client[c].conn
        /\ cl.sendClosed = client[c].sendClosed
    BY <1>1 DEF Client
  <1> HIDE DEF cl
  <1>5. /\ \A d \in Clients : ClientInv(client'[d], logged')
        /\ ClientTypeOK' /\ BroadcastOrdered'
        /\ client'[c] = cl /\ \A d \in Clients \ {c} : client'[d] = client[d]
    BY <1>2, <1>3, HubSetsInv
  <1>6. TypeOK'
    BY <1>3, <1>5 DEF HubInv, TypeOK, Handling
  <1>7. MapFollowsReaders'
    BY <1>1, <1>3, <1>4, <1>5 DEF HubInv, MapFollowsReaders
  <1>8. MapMatchesChannels'
    <2>1. \A d \in registered : client[d].reader \notin {"closing", "gone"}
      BY <1>3 DEF HubInv, MapMatchesChannels, Idle
    <2>2. registered \subseteq Clients
      BY DEF HubInv, TypeOK
    <2> QED BY <1>1, <1>3, <1>4, <1>5, <2>1, <2>2 DEF HubInv, MapMatchesChannels
  <1> QED BY <1>5, <1>6, <1>7, <1>8 DEF HubInv

LEMMA RegisterClientInv ==
    ASSUME HubInv, NEW c \in Clients, RegisterClient(c)
    PROVE  HubInv'
  <1> DEFINE full == Cardinality(registered) >= MaxClients
             cl == IF full THEN Rejected(client[c]) ELSE client[c]
  <1>1. /\ client[c] \in Client /\ hub = [op |-> "register", client |-> c]
        /\ client[c].reader \notin {"none", "registering", "closing", "gone"}
        /\ c \notin registered /\ ~client[c].sendClosed
        /\ IsFiniteSet(registered) /\ Cardinality(registered) <= MaxClients
        /\ registered \subseteq Clients
    BY DEF HubInv, TypeOK, ClientTypeOK, MapFollowsReaders, MapMatchesChannels, RegisterClient
  <1>2. cl \in Client /\ HubSets(client[c], cl)
    BY <1>1, HubSetsClient DEF Rejected
  <1>3. /\ Becomes(c, cl) /\ broadcast' = broadcast /\ hub' = Idle
        /\ registered' = IF full THEN registered ELSE registered \cup {c}
    BY DEF RegisterClient
  <1>4. /\ cl.reader = client[c].reader
        /\ full => cl.conn = "closed"
        /\ ~full => cl.conn = client[c].conn /\ ~cl.sendClosed
    BY <1>1 DEF Client, Rejected
  <1> HIDE DEF cl, full
  <1>5. /\ \A d \in Clients : ClientInv(client'[d], logged')
        /\ ClientTypeOK' /\ BroadcastOrdered'
        /\ client'[c] = cl /\ \A d \in Clients \ {c} : client'[d] = client[d]
    BY <1>2, <1>3, HubSetsInv
  <1>6. TypeOK'
    BY <1>3, <1>5 DEF HubInv, TypeOK, Handling
  <1>7. IsFiniteSet(registered') /\ Cardinality(registered') <= MaxClients
    <2>1. CASE full
      BY <1>1, <1>3, <2>1
    <2>2. CASE ~full
      <3>1. IsFiniteSet(registered \cup {c})
            /\ Cardinality(registered \cup {c}) = Cardinality(registered) + 1
        BY <1>1, FS_AddElement
      <3>2. Cardinality(registered) \in Nat /\ MaxClients \in Nat
        BY <1>1, FS_CardinalityType, HubAssumption
      <3>3. Cardinality(registered) < MaxClients
        BY <2>2, <3>2 DEF full
      <3> QED BY <1>3, <2>2, <3>1, <3>2, <3>3
    <2> QED BY <2>1, <2>2
  <1>8. MapFollowsReaders'
    <2>1. ASSUME NEW d \in Clients
          PROVE  /\ client'[d].conn = "none" => client'[d].reader = "none"
                 /\ client'[d].reader \in {"none", "registering"} =>
                       /\ d \notin registered' /\ ~client'[d].sendClosed
                       /\ client'[d].writer = "none"
      <3>1. CASE d = c
        BY <1>1, <1>4, <1>5, <3>1 DEF HubInv, MapFollowsReaders
      <3>2. CASE d # c
        BY <1>3, <1>5, <3>2 DEF HubInv, MapFollowsReaders
      <3> QED BY <3>1, <3>2
    <2>2. \A d \in Clients : hub' # [op |-> "register", client |-> d]
      BY <1>3 DEF Idle
    <2> QED BY <1>7, <2>1, <2>2 DEF MapFollowsReaders
  <1>9. MapMatchesChannels'
    <2>1. \A d \in registered :
             ~client[d].sendClosed /\ client[d].reader \notin {"closing", "gone"}
      BY <1>1 DEF HubInv, MapMatchesChannels
    <2>2. \A d \in registered' : /\ ~client'[d].sendClosed
                                 /\ client'[d].reader \notin {"closing", "gone"}
      BY <1>1, <1>3, <1>4, <1>5, <2>1
    <2>3. hub'.op # "register"
      BY <1>3 DEF Idle
    <2> QED BY <1>7, <2>2, <2>3 DEF MapMatchesChannels
  <1> QED BY <1>5, <1>6, <1>8, <1>9 DEF HubInv

LEMMA ReceiveUnregisterInv ==
    ASSUME HubInv, NEW c \in Clients, ReceiveUnregister(c)
    PROVE  HubInv'
  <1> DEFINE cl == [client[c] EXCEPT !.reader = "closing"]
  <1>1. client[c] \in Client /\ client[c].reader = "leaving" /\ client[c].conn # "none"
    BY DEF HubInv, TypeOK, ClientTypeOK, MapFollowsReaders, ReceiveUnregister
  <1>2. cl \in Client /\ HubSets(client[c], cl)
    BY <1>1, HubSetsClient
  <1>3. /\ Becomes(c, cl) /\ registered' = registered /\ broadcast' = broadcast
        /\ hub = Idle /\ hub' = [op |-> "unregister", client |-> c]
    BY DEF ReceiveUnregister
  <1>4. /\ cl.reader = "closing" /\ cl.conn = client[c].conn
        /\ cl.sendClosed = client[c].sendClosed
    BY <1>1 DEF Client
  <1> HIDE DEF cl
  <1>5. /\ \A d \in Clients : ClientInv(client'[d], logged')
        /\ ClientTypeOK' /\ BroadcastOrdered'
        /\ client'[c] = cl /\ \A d \in Clients \ {c} : client'[d] = client[d]
    BY <1>2, <1>3, HubSetsInv
  <1>6. TypeOK'
    BY <1>3, <1>5 DEF HubInv, TypeOK, Handling
  <1>7. MapFollowsReaders'
    BY <1>1, <1>3, <1>4, <1>5 DEF HubInv, MapFollowsReaders
  <1>8. MapMatchesChannels'
    <2>1. \A d \in registered : client[d].reader \notin {"closing", "gone"}
      BY <1>3 DEF HubInv, MapMatchesChannels, Idle
    <2>2. registered \subseteq Clients
      BY DEF HubInv, TypeOK
    <2> QED BY <1>3, <1>4, <1>5, <2>1, <2>2 DEF HubInv, MapMatchesChannels
  <1> QED BY <1>5, <1>6, <1>7, <1>8 DEF HubInv

LEMMA UnregisterClientInv ==
    ASSUME HubInv, NEW c \in Clients, UnregisterClient(c)
    PROVE  HubInv'
  <1> DEFINE cl == IF c \in registered THEN [client[c] EXCEPT !.sendClosed = TRUE]
                                       ELSE client[c]
  <1>1. /\ client[c] \in Client /\ hub = [op |-> "unregister", client |-> c]
        /\ IsFiniteSet(registered) /\ Cardinality(registered) <= MaxClients
        /\ registered \subseteq Clients
    BY DEF HubInv, TypeOK, ClientTypeOK, MapFollowsReaders, MapMatchesChannels
         , UnregisterClient
  <1>2. cl \in Client /\ HubSets(client[c], cl)
    BY <1>1, HubSetsClient
  <1>3. /\ Becomes(c, cl) /\ broadcast' = broadcast /\ hub' = Idle
        /\ registered' = registered \ {c}
    BY DEF UnregisterClient
  <1>4. /\ cl.reader = client[c].reader /\ cl.conn = client[c].conn
        /\ cl.writer = client[c].writer
        /\ c \notin registered => cl.sendClosed = client[c].sendClosed
    BY <1>1 DEF Client
  <1> HIDE DEF cl
  <1>5. /\ \A d \in Clients : ClientInv(client'[d], logged')
        /\ ClientTypeOK' /\ BroadcastOrdered'
        /\ client'[c] = cl /\ \A d \in Clients \ {c} : client'[d] = client[d]
    BY <1>2, <1>3, HubSetsInv
  <1>6. TypeOK'
    BY <1>3, <1>5 DEF HubInv, TypeOK, Handling
  <1>7. IsFiniteSet(registered') /\ Cardinality(registered') <= MaxClients
    <2>1. /\ IsFiniteSet(registered \ {c}) /\ Cardinality(registered \ {c}) \in Nat
          /\ Cardinality(registered \ {c}) <= Cardinality(registered)
          /\ Cardinality(registered) \in Nat /\ MaxClients \in Nat
      <3>1. registered \ {c} \subseteq registered
        OBVIOUS
      <3>2. /\ IsFiniteSet(registered \ {c})
            /\ Cardinality(registered \ {c}) <= Cardinality(registered)
        BY <1>1, <3>1, FS_Subset
      <3> QED BY <1>1, <3>2, FS_CardinalityType, HubAssumption
    <2> QED BY <1>1, <1>3, <2>1
  <1>8. MapFollowsReaders'
    <2>1. ASSUME NEW d \in Clients
          PROVE  /\ client'[d].conn = "none" => client'[d].reader = "none"
                 /\ client'[d].reader \in {"none", "registering"} =>
                       /\ d \notin registered' /\ ~client'[d].sendClosed
                       /\ client'[d].writer = "none"
      <3>1. CASE d = c
        BY <1>1, <1>3, <1>4, <1>5, <3>1 DEF HubInv, MapFollowsReaders
      <3>2. CASE d # c
        BY <1>3, <1>5, <3>2 DEF HubInv, MapFollowsReaders
      <3> QED BY <3>1, <3>2
    <2>2. \A d \in Clients : hub' # [op |-> "register", client |-> d]
      BY <1>3 DEF Idle
    <2> QED BY <1>7, <2>1, <2>2 DEF MapFollowsReaders
  <1>9. MapMatchesChannels'
    <2>1. \A d \in registered : /\ ~client[d].sendClosed
                                /\ client[d].reader \in {"closing", "gone"} => d = c
      BY <1>1 DEF HubInv, MapMatchesChannels
    <2>2. \A d \in registered' : /\ ~client'[d].sendClosed
                                 /\ client'[d].reader \notin {"closing", "gone"}
      BY <1>1, <1>3, <1>5, <2>1
    <2>3. hub'.op # "register"
      BY <1>3 DEF Idle
    <2> QED BY <1>7, <2>2, <2>3 DEF MapMatchesChannels
  <1> QED BY <1>5, <1>6, <1>8, <1>9 DEF HubInv

LEMMA BroadcastLogInv ==
    ASSUME HubInv, NEW l \in Levels, BroadcastLog(l)
    PROVE  HubInv'
  <1>1. /\ client \in [Clients -> Client] /\ logged \in Seq(Levels) /\ panicked \in BOOLEAN
        /\ broadcast \in Seq(Msgs) /\ Len(broadcast) <= BroadcastCap
        /\ Len(logged) \in Nat /\ Len(broadcast) \in Nat /\ MaxMsgs \in Nat
        /\ BroadcastCap \in Nat
    BY ClientBounds, HubAssumption DEF HubInv, TypeOK, ClientTypeOK
  <1>2. /\ Len(logged) < MaxMsgs /\ logged' = Append(logged, l)
        /\ broadcast' = IF Len(broadcast) < BroadcastCap
                        THEN Append(broadcast, Len(logged) + 1) ELSE broadcast
        /\ client' = client /\ panicked' = panicked /\ registered' = registered /\ hub' = hub
    BY DEF BroadcastLog
  <1>3. /\ logged' \in Seq(Levels) /\ Len(logged') = Len(logged) + 1
        /\ DOMAIN logged = 1 .. Len(logged) /\ DOMAIN logged' = 1 .. (Len(logged) + 1)
        /\ \A m \in DOMAIN logged : logged'[m] = logged[m]
    BY <1>1, <1>2
  <1>4. /\ broadcast' \in Seq(Msgs) /\ Len(broadcast') <= BroadcastCap
        /\ \A i \in DOMAIN broadcast' :
              \/ i \in DOMAIN broadcast /\ broadcast'[i] = broadcast[i]
              \/ i = Len(broadcast) + 1 /\ broadcast'[i] = Len(logged) + 1
        /\ DOMAIN broadcast = 1 .. Len(broadcast)
    <2>1. CASE Len(broadcast) < BroadcastCap
      <3>1. Len(logged) + 1 \in Msgs
        BY <1>1, <1>2 DEF Msgs
      <3>2. broadcast' = Append(broadcast, Len(logged) + 1)
        BY <1>2, <2>1
      <3>3. broadcast' \in Seq(Msgs) /\ Len(broadcast') <= BroadcastCap
        BY <1>1, <2>1, <3>1, <3>2
      <3>4. \A i \in DOMAIN broadcast' :
              \/ i \in DOMAIN broadcast /\ broadcast'[i] = broadcast[i]
              \/ i = Len(broadcast) + 1 /\ broadcast'[i] = Len(logged) + 1
        BY <1>1, <3>1, <3>2
      <3> QED BY <1>1, <3>3, <3>4
    <2>2. CASE ~(Len(broadcast) < BroadcastCap)
      BY <1>1, <1>2, <2>2
    <2> QED BY <2>1, <2>2
  <1>5. TypeOK'
    <2>1. ClientTypeOK'
      BY <1>2, <1>3 DEF HubInv, TypeOK, ClientTypeOK
    <2> QED BY <1>2, <1>4, <2>1 DEF HubInv, TypeOK
  <1>6. ASSUME NEW c \in Clients
        PROVE  ClientInv(client'[c], logged')
    <2> DEFINE a == client[c]
    <2>1. ClientInv(a, logged) /\ client'[c] = a
      BY <1>2 DEF HubInv
    <2>2. \A m \in Msgs : a.tasks[m] # "none" => m <= Len(logged)
      BY DEF HubInv, BroadcastOrdered
    <2> HIDE DEF a
    <2>3. \A m \in Msgs : m \in DOMAIN logged' /\ a.tasks[m] \in Accepting =>
             \E v \in a.ackedAt[m] .. Len(a.subs) : logged'[m] \in a.subs[v].levels
      <3> SUFFICES ASSUME NEW m \in Msgs, a.tasks[m] \in Accepting
                   PROVE  \E v \in a.ackedAt[m] .. Len(a.subs) : logged'[m] \in a.subs[v].levels
        OBVIOUS
      <3>1. m \in DOMAIN logged
        BY <1>1, <1>3, <2>2 DEF Msgs, Accepting
      <3> QED BY <1>3, <2>1, <3>1 DEF ClientInv, FilterFollows
    <2>4. FilterFollows(a, logged')
      BY <2>1, <2>3 DEF ClientInv, FilterFollows
    <2> QED BY <2>1, <2>4 DEF ClientInv
  <1>7. BroadcastOrdered'
    <2>1. \A i \in DOMAIN broadcast : broadcast[i] \in Nat /\ broadcast[i] <= Len(logged)
      BY <1>1 DEF HubInv, BroadcastOrdered, Msgs
    <2>2. \A i, j \in DOMAIN broadcast : i < j => broadcast[i] < broadcast[j]
      BY DEF HubInv, BroadcastOrdered
    <2>3. \A i \in DOMAIN broadcast' : broadcast'[i] <= Len(logged')
      BY <1>1, <1>3, <1>4, <2>1
    <2>4. \A i, j \in DOMAIN broadcast' : i < j => broadcast'[i] < broadcast'[j]
      BY <1>1, <1>4, <2>1, <2>2
    <2>5. ASSUME NEW c \in Clients, NEW m \in Msgs, client'[c].tasks[m] # "none"
          PROVE  m <= Len(logged') /\ \A i \in DOMAIN broadcast' : broadcast'[i] # m
      <3>1. m <= Len(logged) /\ \A i \in DOMAIN broadcast : broadcast[i] # m
        BY <1>2, <2>5 DEF HubInv, BroadcastOrdered
      <3>2. m \in Nat
        BY DEF Msgs
      <3> QED BY <1>1, <1>3, <1>4, <3>1, <3>2
    <2> QED BY <1>1, <1>2, <1>3, <2>3, <2>4, <2>5 DEF BroadcastOrdered
  <1>8. MapFollowsReaders' /\ MapMatchesChannels'
    BY <1>2 DEF HubInv, MapFollowsReaders, MapMatchesChannels
  <1> QED BY <1>5, <1>6, <1>7, <1>8 DEF HubInv

\* A message starts in a client that has not seen it.
Starts(a, b, m) == b = [a EXCEPT !.tasks[m] = "match", !.ackedAt[m] = a.acked]

LEMMA StartKeeps ==
    ASSUME NEW ls, NEW a, ClientInv(a, ls), NEW m \in Msgs, NEW b, Starts(a, b, m),
           a.tasks[m] = "none"
    PROVE  /\ b \in Client /\ ClientInv(b, ls)
           /\ b.conn = a.conn /\ b.reader = a.reader /\ b.writer = a.writer
           /\ b.sendClosed = a.sendClosed
           /\ \A n \in Msgs : b.tasks[n] # "none" => a.tasks[n] # "none" \/ n = m
  <1> DEFINE tasks == [a.tasks EXCEPT ![m] = "match"]
             ackedAt == [a.ackedAt EXCEPT ![m] = a.acked]
  <1>1. /\ a \in Client /\ ClientTyped(a) /\ a.tasks \in [Msgs -> TaskPc] /\ a.acked \in Nat
        /\ a.ackedAt \in [Msgs -> Nat] /\ a.received \in [Msgs -> Nat]
        /\ a.batchBuffer \cup a.flushed \subseteq Msgs
    BY ClientFields DEF ClientInv, ClientTyped
  <1>2. /\ tasks \in [Msgs -> TaskPc] /\ tasks[m] = "match"
        /\ \A n \in Msgs \ {m} : tasks[n] = a.tasks[n]
        /\ ackedAt \in [Msgs -> Nat] /\ ackedAt[m] = a.acked
        /\ \A n \in Msgs \ {m} : ackedAt[n] = a.ackedAt[n]
    BY <1>1 DEF TaskPc
  <1>3. b = [a EXCEPT !.tasks = tasks, !.ackedAt = ackedAt]
    BY DEF Starts
  <1> HIDE DEF tasks, ackedAt
  <1>4. b \in Client
    BY <1>1, <1>2, <1>3 DEF Client
  <1>5. /\ b.tasks = tasks /\ b.ackedAt = ackedAt /\ SameTypes(a, b) /\ b.send = a.send
        /\ b.received = a.received /\ b.writer = a.writer /\ b.dropped = a.dropped
        /\ b.requests = a.requests /\ b.flushed = a.flushed /\ b.batchBuffer = a.batchBuffer
        /\ b.acked = a.acked /\ b.reader = a.reader /\ b.conn = a.conn
        /\ b.sendClosed = a.sendClosed
    BY <1>1, <1>3 DEF Client, SameTypes
  <1>6. ClientTyped(b)
    BY <1>1, <1>4, <1>5, TypesKept
  <1>7. WriterHolds(b)
    BY <1>5 DEF ClientInv, WriterHolds, SameTypes
  <1>8. OnePlace(b) /\ SentIsKept(b)
    <2>1. \A n : /\ InQueue(b, n) <=> InQueue(a, n)
                 /\ InWriter(b, n) <=> InWriter(a, n)
                 /\ QueuedOnce(a, n) => QueuedOnce(b, n)
      BY <1>5 DEF SameTypes, InQueue, InWriter, QueuedOnce
    <2>2. ~InQueue(a, m) /\ ~InWriter(a, m) /\ ~(a.received[m] > 0)
      BY DEF ClientInv, OnePlace
    <2>3. OnePlace(b)
      BY <1>2, <1>5, <2>1, <2>2 DEF ClientInv, OnePlace
    <2>4. SentIsKept(b)
      BY <1>2, <1>5, <2>1 DEF ClientInv, SentIsKept
    <2> QED BY <2>3, <2>4
  <1>9. DropsCounted(b)
    <2>1. Losses(b) = Losses(a)
      BY <1>2, <1>5 DEF Losses
    <2>2. Answering(b) = Answering(a)
      BY <1>5 DEF Answering
    <2>3. m \notin a.batchBuffer \cup a.flushed
      BY DEF ClientInv, DropsCounted
    <2>4. \A n \in b.batchBuffer \cup b.flushed : b.tasks[n] = "batched"
      BY <1>1, <1>2, <1>5, <2>3 DEF ClientInv, DropsCounted
    <2>5. /\ Cardinality(Losses(b)) <= b.dropped
          /\ b.dropped + Answering(b) < Cardinality(Losses(b)) + b.requests + Len(b.subs)
                                            + Cardinality(b.flushed)
          /\ b.batchBuffer \cap b.flushed = {}
      BY <1>5, <2>1, <2>2 DEF ClientInv, DropsCounted, SameTypes
    <2> QED BY <2>4, <2>5 DEF DropsCounted
  <1>10. FilterFollows(b, ls)
    <2>1. \A n \in Msgs : 1 <= b.ackedAt[n] /\ b.ackedAt[n] <= b.acked
      BY <1>1, <1>2, <1>5 DEF ClientInv, FilterFollows
    <2>2. \A n \in Msgs : n \in DOMAIN ls /\ b.tasks[n] \in Accepting =>
             \E v \in b.ackedAt[n] .. Len(b.subs) : ls[n] \in b.subs[v].levels
      <3> SUFFICES ASSUME NEW n \in Msgs, n \in DOMAIN ls, b.tasks[n] \in Accepting
                   PROVE  \E v \in b.ackedAt[n] .. Len(b.subs) : ls[n] \in b.subs[v].levels
        OBVIOUS
      <3>1. n # m
        BY <1>2, <1>5 DEF Accepting
      <3> QED BY <1>2, <1>5, <3>1 DEF ClientInv, FilterFollows, SameTypes
    <2> QED BY <1>5, <2>1, <2>2 DEF ClientInv, FilterFollows, SameTypes
  <1>11. \A n \in Msgs : b.tasks[n] # "none" => a.tasks[n] # "none" \/ n = m
    BY <1>2, <1>5
  <1> QED BY <1>4, <1>5, <1>6, <1>7, <1>8, <1>9, <1>10, <1>11 DEF ClientInv

LEMMA BroadcastMessageInv ==
    ASSUME HubInv, BroadcastMessage
    PROVE  HubInv'
  <1> DEFINE m == Head(broadcast)
  <1>1. /\ client \in [Clients -> Client] /\ broadcast \in Seq(Msgs)
        /\ Len(broadcast) <= BroadcastCap /\ broadcast # <<>> /\ Len(broadcast) \in Nat
        /\ BroadcastCap \in Nat
    <2>1. client \in [Clients -> Client] /\ broadcast \in Seq(Msgs)
      BY DEF HubInv, TypeOK, ClientTypeOK
    <2>2. Len(broadcast) <= BroadcastCap /\ broadcast # <<>>
      BY DEF HubInv, TypeOK, BroadcastMessage
    <2> QED BY <2>1, <2>2, HubAssumption
  <1>2. /\ m \in Msgs /\ m = broadcast[1] /\ 1 \in DOMAIN broadcast
        /\ broadcast' = Tail(broadcast) /\ broadcast' \in Seq(Msgs)
        /\ Len(broadcast') <= BroadcastCap
        /\ \A i \in DOMAIN broadcast' : /\ i \in Nat /\ i + 1 \in DOMAIN broadcast
                                        /\ i >= 1 /\ broadcast'[i] = broadcast[i + 1]
    <2>1. broadcast' = Tail(broadcast)
      BY DEF BroadcastMessage
    <2>2. /\ m = broadcast[1] /\ 1 \in DOMAIN broadcast /\ Len(broadcast) >= 1
          /\ DOMAIN broadcast = 1 .. Len(broadcast)
      BY <1>1
    <2>3. Tail(broadcast) \in Seq(Msgs) /\ Len(Tail(broadcast)) = Len(broadcast) - 1
          /\ DOMAIN Tail(broadcast) = 1 .. (Len(broadcast) - 1)
          /\ \A i \in DOMAIN Tail(broadcast) : Tail(broadcast)[i] = broadcast[i + 1]
      BY <1>1
    <2>4. m \in Msgs
      BY <1>1, <2>2, ElementOfSeq
    <2> HIDE DEF m
    <2> QED BY <1>1, <2>1, <2>2, <2>3, <2>4
  <1>3. /\ logged' = logged /\ panicked' = panicked /\ registered' = registered /\ hub' = hub
        /\ client' = [c \in Clients |->
              IF c \in registered
              THEN [client[c] EXCEPT !.tasks[m] = "match", !.ackedAt[m] = client[c].acked]
              ELSE client[c]]
    BY DEF BroadcastMessage
  <1> HIDE DEF m
  <1>4. \A c \in Clients : client[c].tasks[m] = "none"
    BY <1>2 DEF HubInv, BroadcastOrdered
  <1>5. \A c \in Clients : Starts(client[c], client'[c], m) \/ client'[c] = client[c]
    BY <1>3 DEF Starts
  <1>6. ASSUME NEW c \in Clients
        PROVE  /\ client'[c] \in Client /\ ClientInv(client'[c], logged)
               /\ client'[c].conn = client[c].conn /\ client'[c].reader = client[c].reader
               /\ client'[c].writer = client[c].writer
               /\ client'[c].sendClosed = client[c].sendClosed
               /\ \A n \in Msgs : client'[c].tasks[n] # "none" =>
                     client[c].tasks[n] # "none" \/ n = m
    <2>1. ClientInv(client[c], logged) /\ client[c] \in Client
      BY <1>1 DEF HubInv
    <2>2. CASE Starts(client[c], client'[c], m)
      BY <1>2, <1>4, <2>1, <2>2, StartKeeps
    <2>3. CASE client'[c] = client[c]
      BY <2>1, <2>3
    <2> QED BY <1>5, <2>2, <2>3
  <1>7. TypeOK'
    <2>1. client' \in [Clients -> Client]
      BY <1>3, <1>6
    <2>2. ClientTypeOK'
      BY <1>3, <1>6, <2>1 DEF HubInv, TypeOK, ClientTypeOK, ClientInv, ClientTyped
    <2> QED BY <1>2, <1>3, <2>2 DEF HubInv, TypeOK
  <1>8. BroadcastOrdered'
    <2>1. /\ Len(logged) <= MaxMsgs
          /\ \A i \in DOMAIN broadcast : broadcast[i] \in Nat /\ broadcast[i] <= Len(logged)
          /\ \A i, j \in DOMAIN broadcast : i < j => broadcast[i] < broadcast[j]
      <3>1. \A i \in DOMAIN broadcast : broadcast[i] \in Nat
        <4>1. \A i \in 1 .. Len(broadcast) : broadcast[i] \in Msgs
          BY <1>1, ElementOfSeq
        <4> QED BY <1>1, <4>1 DEF Msgs
      <3> QED BY <3>1 DEF HubInv, BroadcastOrdered
    <2>2. \A i \in DOMAIN broadcast' : broadcast'[i] <= Len(logged')
      BY <1>2, <1>3, <2>1
    <2>3. \A i, j \in DOMAIN broadcast' : i < j => broadcast'[i] < broadcast'[j]
      <3> SUFFICES ASSUME NEW i \in DOMAIN broadcast', NEW j \in DOMAIN broadcast', i < j
                   PROVE  broadcast'[i] < broadcast'[j]
        OBVIOUS
      <3>1. i + 1 \in DOMAIN broadcast /\ j + 1 \in DOMAIN broadcast /\ i + 1 < j + 1
        BY <1>2
      <3> QED BY <1>2, <2>1, <3>1
    <2>4. \A i \in DOMAIN broadcast' : broadcast'[i] # m
      <3> SUFFICES ASSUME NEW i \in DOMAIN broadcast'
                   PROVE  broadcast'[i] # m
        OBVIOUS
      <3>1. i + 1 \in DOMAIN broadcast /\ 1 < i + 1 /\ broadcast'[i] = broadcast[i + 1]
        BY <1>2
      <3>2. broadcast[1] < broadcast[i + 1] /\ broadcast[1] \in Nat
        BY <1>2, <2>1, <3>1
      <3>3. broadcast[i + 1] \in Nat
        BY <2>1, <3>1
      <3> QED BY <1>2, <3>1, <3>2, <3>3
    <2>5. ASSUME NEW c \in Clients, NEW n \in Msgs, client'[c].tasks[n] # "none"
          PROVE  n <= Len(logged') /\ \A i \in DOMAIN broadcast' : broadcast'[i] # n
      <3>1. CASE n = m
        BY <1>2, <1>3, <2>1, <2>4, <3>1
      <3>2. CASE n # m
        <4>1. client[c].tasks[n] # "none"
          BY <1>6, <2>5, <3>2
        <4>2. n <= Len(logged) /\ \A i \in DOMAIN broadcast : broadcast[i] # n
          BY <4>1 DEF HubInv, BroadcastOrdered
        <4> QED BY <1>2, <1>3, <4>2
      <3> QED BY <3>1, <3>2
    <2> QED BY <1>3, <2>1, <2>2, <2>3, <2>5 DEF BroadcastOrdered
  <1>9. MapFollowsReaders'
    BY <1>3, <1>6 DEF HubInv, MapFollowsReaders
  <1>10. MapMatchesChannels'
    <2>1. hub.op = "register" => hub.client \in Clients
      BY DEF HubInv, TypeOK, Handling, Idle
    <2>2. registered \subseteq Clients
      BY DEF HubInv, TypeOK
    <2> QED BY <1>3, <1>6, <2>1, <2>2 DEF HubInv, MapMatchesChannels
  <1> QED BY <1>3, <1>6, <1>7, <1>8, <1>9, <1>10 DEF HubInv

----------------------------------------------------------------------------
(* The invariant is inductive.                                             *)

LEMMA NewClientInv ==
    ClientInv(NewClient, <<>>) /\ NewClient \in Client
  <1> DEFINE cl == NewClient
  <1>1. cl \in Client
    <2>1. <<>> \in Seq(Item) /\ <<>> \in Seq({"running", "fired", "drained", "stopped"})
          /\ <<>> \in Seq(Batcher)
      OBVIOUS
    <2>2. Default \in Subscription
      BY LevelsAssumption DEF Default, Subscription
    <2>3. <<Default>> \in Seq(Subscription)
      BY <2>2
    <2>4. /\ [m \in Msgs |-> "none"] \in [Msgs -> TaskPc]
          /\ [m \in Msgs |-> 0] \in [Msgs -> Nat] /\ [m \in Msgs |-> 1] \in [Msgs -> Nat]
      BY DEF TaskPc
    <2> QED BY <2>1, <2>3, <2>4 DEF NewClient, Client, ReaderPc
  <1>2. /\ cl.send = <<>> /\ cl.hand = <<>> /\ cl.subs = <<Default>> /\ cl.subscription = 1
        /\ cl.filter = 1 /\ cl.batchTimer = 0 /\ cl.timers = <<>> /\ cl.batchers = <<>>
        /\ cl.batchBuffer = {} /\ cl.flushed = {} /\ cl.dropped = 0 /\ cl.requests = 0
        /\ cl.reader = "none" /\ cl.writer = "none" /\ cl.acked = 1
        /\ cl.tasks = [m \in Msgs |-> "none"] /\ cl.received = [m \in Msgs |-> 0]
        /\ cl.ackedAt = [m \in Msgs |-> 1]
    BY DEF NewClient
  <1>3. /\ Len(<<>>) = 0 /\ DOMAIN <<>> = {} /\ Len(<<Default>>) = 1
        /\ DOMAIN <<Default>> = {1}
    OBVIOUS
  <1> HIDE DEF cl
  <1>4. ClientTyped(cl)
    BY <1>1, <1>2, <1>3, ClientBounds DEF ClientTyped
  <1>5. WriterHolds(cl) /\ OnePlace(cl) /\ SentIsKept(cl)
    BY <1>2, <1>3 DEF WriterHolds, OnePlace, SentIsKept, InQueue, QueuedOnce, InWriter
  <1>6. DropsCounted(cl)
    <2>1. Losses(cl) = {} /\ Answering(cl) = 0
      BY <1>2 DEF Losses, Answering
    <2>2. Cardinality({}) = 0
      BY FS_EmptySet
    <2> QED BY <1>2, <1>3, <2>1, <2>2 DEF DropsCounted
  <1>7. FilterFollows(cl, <<>>)
    BY <1>2, <1>3 DEF FilterFollows
  <1> QED BY <1>1, <1>4, <1>5, <1>6, <1>7 DEF ClientInv, cl

LEMMA HubInit == Init => HubInv
  <1> SUFFICES ASSUME Init
               PROVE  HubInv
    OBVIOUS
  <1>1. /\ client = [c \in Clients |-> NewClient] /\ logged = <<>> /\ panicked = FALSE
        /\ registered = {} /\ broadcast = <<>> /\ hub = Idle
    BY DEF Init, ClientInit
  <1>2. \A c \in Clients : client[c] \in Client /\ ClientInv(client[c], logged)
    BY <1>1, NewClientInv
  <1>3. client \in [Clients -> Client]
    BY <1>1, NewClientInv
  <1>4. ClientTypeOK
    <2>1. \A c \in Clients : ClientTyped(client[c])
      BY <1>2 DEF ClientInv
    <2>2. logged \in Seq(Levels) /\ panicked \in BOOLEAN
      <3>1. <<>> \in Seq(Levels)
        OBVIOUS
      <3> QED BY <1>1, <3>1
    <2> QED BY <1>3, <2>1, <2>2, ClientsTyped
  <1>5. TypeOK
    BY <1>1, <1>4, HubAssumption DEF TypeOK, Handling
  <1>6. /\ \A c \in Clients : /\ client[c].conn = "none" /\ client[c].reader = "none"
                              /\ ~client[c].sendClosed /\ client[c].writer = "none"
                              /\ \A m \in Msgs : client[c].tasks[m] = "none"
    BY <1>1 DEF NewClient
  <1>7. BroadcastOrdered
    <2>1. Len(logged) = 0 /\ DOMAIN broadcast = {} /\ MaxMsgs \in Nat
      BY <1>1, ClientBounds
    <2> QED BY <1>6, <2>1 DEF BroadcastOrdered
  <1>8. IsFiniteSet(registered) /\ Cardinality(registered) = 0 /\ MaxClients \in Nat
    BY <1>1, FS_EmptySet, HubAssumption
  <1>9. MapFollowsReaders /\ MapMatchesChannels
    BY <1>1, <1>6, <1>8 DEF MapFollowsReaders, MapMatchesChannels, Idle
  <1> QED BY <1>2, <1>5, <1>7, <1>9 DEF HubInv

LEMMA HubStepInv == HubInv /\ [Next]_vars => HubInv'
  <1> SUFFICES ASSUME HubInv, [Next]_vars
               PROVE  HubInv'
    OBVIOUS
  <1>1. ASSUME NEW c \in Clients, Connect(c) \/ ClientStep(c)
        PROVE  HubInv'
    BY <1>1, ConnectInv, ClientStepInv
  <1>2. ASSUME NEW l \in Levels, BroadcastLog(l)
        PROVE  HubInv'
    BY <1>2, BroadcastLogInv
  <1>3. CASE HubStep
    BY <1>3, ReceiveRegisterInv, RegisterClientInv, ReceiveUnregisterInv,
       UnregisterClientInv, BroadcastMessageInv DEF HubStep
  <1>4. CASE UNCHANGED vars
    <2>1. /\ client' = client /\ logged' = logged /\ panicked' = panicked
          /\ registered' = registered /\ broadcast' = broadcast /\ hub' = hub
      BY <1>4 DEF vars, clientVars, hubVars
    <2> QED BY <2>1 DEF HubInv, TypeOK, ClientTypeOK, BroadcastOrdered, MapFollowsReaders,
                        MapMatchesChannels
  <1> QED BY <1>1, <1>2, <1>3, <1>4 DEF Next

\* Whatever the hub, the pumps, the message goroutines and the batch goroutines do
\* between two locks, each client's record and the hub's map and channels stay related
\* as HubInv says: the invariant the theorems below are read off.
THEOREM HubInvariant == Spec => []HubInv
  <1>1. HubInv /\ [Next]_vars => HubInv'
    BY HubStepInv
  <1> QED BY HubInit, <1>1, PTL DEF Spec

----------------------------------------------------------------------------
(* What it implies.                                                        *)

\* Every variable of the hub and every field of a client keeps its type, whichever
\* goroutine replaces it without a lock (UpdateSubscription, ProcessMessage).
THEOREM HubTypes == Spec => []TypeOK
  <1>1. HubInv => TypeOK
    BY DEF HubInv
  <1> QED BY <1>1, HubInvariant, PTL

\* registerClient and unregisterClient: the clients in the map are those whose channel is
\* open, they are no more than the limit, and no channel is closed twice, although the
\* rendezvous of a client with the hub and its handling are two steps.
THEOREM MapSafe == Spec => []MapMatchesChannels
  <1>1. HubInv => MapMatchesChannels
    BY DEF HubInv
  <1> QED BY <1>1, HubInvariant, PTL

\* A set none of whose elements differ has one at most.
LEMMA AtMostOneElement ==
    ASSUME NEW S, \A i, j \in S : i = j
    PROVE  Cardinality(S) \in Nat /\ Cardinality(S) <= 1 /\ (S = {} => Cardinality(S) = 0)
  <1>1. CASE S = {}
    BY <1>1, FS_EmptySet
  <1>2. CASE S # {}
    <2>1. PICK i \in S : TRUE
      BY <1>2
    <2>2. \A j \in S : j = i
      OBVIOUS
    <2>3. S = {i}
      <3>1. S \subseteq {i}
        BY <2>2
      <3>2. i \in S
        BY <2>1
      <3> QED BY <3>1, <3>2
    <2>4. Cardinality({i}) = 1
      BY FS_Singleton
    <2> QED BY <1>2, <2>3, <2>4
  <1> QED BY <1>1, <1>2

\* broadcastMessage, ProcessMessage and the pumps: a browser reads a message once at
\* most, and none that is still queued or in the writer's hand.
THEOREM OnceAtMost == Spec => []AtMostOnce
  <1>1. HubInv => AtMostOnce
    <2> SUFFICES ASSUME HubInv, NEW c \in Clients, NEW m \in Msgs
                 PROVE  Copies(client[c], m) <= 1
      BY DEF AtMostOnce
    <2> DEFINE cl == client[c]
               queued == {i \in DOMAIN cl.send : m \in cl.send[i].msgs}
               written == {i \in DOMAIN cl.hand : m \in cl.hand[i].msgs}
    <2>1. cl \in Client /\ ClientTyped(cl) /\ OnePlace(cl)
      BY DEF HubInv, ClientInv, ClientTyped
    <2>2. /\ QueuedOnce(cl, m) /\ (InQueue(cl, m) => ~InWriter(cl, m) /\ cl.received[m] = 0)
          /\ (InWriter(cl, m) => cl.received[m] = 0) /\ cl.received[m] <= 1
      BY <2>1 DEF OnePlace
    <2>3. cl.received[m] \in Nat
      BY <2>1, ClientFields
    <2>4. \A i, j \in queued : i = j
      BY <2>2 DEF QueuedOnce
    <2>5. \A i, j \in written : i = j
      <3>1. cl.hand \in Seq(Item) /\ Len(cl.hand) <= 1
        BY <2>1, ClientFields DEF ClientTyped
      <3>2. \A i, j \in DOMAIN cl.hand : i = j
        BY <3>1
      <3> QED BY <3>2
    <2>6. (queued = {} <=> ~InQueue(cl, m)) /\ (written = {} <=> ~InWriter(cl, m))
      BY DEF InQueue, InWriter
    <2> HIDE DEF cl
    <2>7. Copies(cl, m) = Cardinality(queued) + Cardinality(written) + cl.received[m]
      BY DEF Copies
    <2> HIDE DEF queued, written
    <2>8. /\ Cardinality(queued) \in Nat /\ Cardinality(queued) <= 1
          /\ (queued = {} => Cardinality(queued) = 0)
          /\ Cardinality(written) \in Nat /\ Cardinality(written) <= 1
          /\ (written = {} => Cardinality(written) = 0)
      BY <2>4, <2>5, AtMostOneElement
    <2>9. Copies(cl, m) <= 1
      <3>1. CASE InQueue(cl, m)
        BY <2>2, <2>3, <2>6, <2>7, <2>8, <3>1
      <3>2. CASE ~InQueue(cl, m) /\ InWriter(cl, m)
        BY <2>2, <2>3, <2>6, <2>7, <2>8, <3>2
      <3>3. CASE ~InQueue(cl, m) /\ ~InWriter(cl, m)
        BY <2>2, <2>3, <2>6, <2>7, <2>8, <3>3
      <3> QED BY <3>1, <3>2, <3>3
    <2> QED BY <2>9 DEF cl
  <1> QED BY <1>1, HubInvariant, PTL

\* sendMessage and the pumps: every message a client was due is queued, written, read,
\* or counted as dropped; none disappears without a trace while the client is served.
THEOREM NothingLostSilently == Spec => []NoSilentLoss
  <1>1. HubInv => NoSilentLoss
    <2> SUFFICES ASSUME HubInv, NEW c \in Clients
                 PROVE  LET cl == client[c] IN
                        /\ Cardinality(Losses(cl)) <= cl.dropped
                        /\ cl.dropped <= Cardinality(Losses(cl)) + cl.requests
                                            + Len(cl.subs) - 1 + Cardinality(cl.flushed)
                        /\ \A m \in Msgs : cl.tasks[m] = "sent" =>
                              \/ m \in Queued(cl) \cup InHand(cl)
                              \/ cl.received[m] > 0 \/ cl.writer = "gone"
      BY DEF NoSilentLoss, Losses
    <2> DEFINE cl == client[c]
    <2>1. cl \in Client /\ ClientTyped(cl) /\ DropsCounted(cl) /\ SentIsKept(cl)
      BY DEF HubInv, ClientInv, ClientTyped
    <2> HIDE DEF cl
    <2>2. Cardinality(Losses(cl)) <= cl.dropped
      BY <2>1 DEF DropsCounted
    <2>3. cl.dropped <= Cardinality(Losses(cl)) + cl.requests + Len(cl.subs) - 1
                           + Cardinality(cl.flushed)
      <3> DEFINE lost == Cardinality(Losses(cl))
                 subs == Len(cl.subs)
                 flushed == Cardinality(cl.flushed)
                 owed == Answering(cl)
                 dropped == cl.dropped
                 requests == cl.requests
      <3>1. /\ lost \in Nat /\ subs \in Nat \ {0} /\ flushed \in Nat
            /\ owed \in Nat /\ dropped \in Nat /\ requests \in Nat
        BY <2>1, ClientFields, SetsOfMessages, LastSubscription DEF Answering
      <3>2. dropped + owed < lost + requests + subs + flushed
        BY <2>1 DEF DropsCounted
      <3> HIDE DEF lost, subs, flushed, owed, dropped, requests
      <3>3. dropped <= lost + requests + subs - 1 + flushed
        BY <3>1, <3>2
      <3> QED BY <3>3 DEF lost, subs, flushed, dropped, requests
    <2>4. ASSUME NEW m \in Msgs, cl.tasks[m] = "sent"
          PROVE  \/ m \in Queued(cl) \cup InHand(cl)
                 \/ cl.received[m] > 0 \/ cl.writer = "gone"
      <3>1. InQueue(cl, m) => m \in Queued(cl)
        BY DEF InQueue, Queued
      <3>2. InWriter(cl, m) => m \in InHand(cl)
        BY DEF InWriter, InHand
      <3> QED BY <2>1, <2>4, <3>1, <3>2 DEF SentIsKept
    <2> QED BY <2>2, <2>3, <2>4 DEF cl
  <1> QED BY <1>1, HubInvariant, PTL

\* UpdateSubscription and ProcessMessage: a message broadcast after a subscription was
\* acknowledged passes that filter or a later one, although the fields are replaced one
\* by one under goroutines that read them.
THEOREM AcknowledgedFilter == Spec => []AcknowledgedFilterApplies
  <1>1. HubInv => AcknowledgedFilterApplies
    <2> SUFFICES ASSUME HubInv, NEW c \in Clients, NEW m \in DOMAIN logged,
                        client[c].tasks[m] \in Accepting
                 PROVE  \E v \in client[c].ackedAt[m] .. Len(client[c].subs) :
                           logged[m] \in client[c].subs[v].levels
      BY DEF AcknowledgedFilterApplies, Accepting
    <2>1. m \in Msgs
      <3>1. logged \in Seq(Levels) /\ Len(logged) <= MaxMsgs /\ MaxMsgs \in Nat
        BY ClientBounds DEF HubInv, TypeOK, ClientTypeOK, BroadcastOrdered
      <3> QED BY <3>1 DEF Msgs
    <2> QED BY <2>1 DEF HubInv, ClientInv, FilterFollows
  <1> QED BY <1>1, HubInvariant, PTL

=============================================================================
