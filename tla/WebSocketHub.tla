------------------------------ MODULE WebSocketHub ------------------------------
(***************************************************************************)
(* The hub of websocket_hub.go with the clients it serves and the handler  *)
(* of websocket_handler.go that makes them: one goroutine runs the select  *)
(* of Hub.Run, the clients' readers meet it on the unbuffered channels     *)
(* register and unregister, and the log ingestion feeds broadcast.         *)
(*                                                                         *)
(* A rendezvous and the hub's handling of it are two steps: the reader     *)
(* goes on as soon as the hub has received.                                *)
(***************************************************************************)
EXTENDS WebSocketClient, FiniteSets

CONSTANTS
    MaxClients,     \* h.maxClients
    BroadcastCap    \* capacity of the channel h.broadcast

ASSUME HubAssumption == MaxClients \in Nat /\ BroadcastCap \in Nat \ {0}

VARIABLES
    registered,     \* h.clients
    broadcast,      \* h.broadcast: the messages queued
    hub             \* what Run is handling

hubVars == <<registered, broadcast, hub>>
vars == <<clientVars, hubVars>>

Idle == [op |-> "select"]
Handling == {Idle} \cup [op : {"register", "unregister"}, client : Clients]

TypeOK ==
    /\ ClientTypeOK
    /\ registered \subseteq Clients
    /\ broadcast \in Seq(Msgs) /\ Len(broadcast) <= BroadcastCap
    /\ hub \in Handling

Init ==
    /\ ClientInit
    /\ registered = {}
    /\ broadcast = <<>>
    /\ hub = Idle

----------------------------------------------------------------------------
\* A browser connects and its handler reaches h.register.
Connect(c) ==
    /\ client[c].conn = "none"
    /\ Becomes(c, [client[c] EXCEPT !.conn = "open", !.reader = "registering"])
    /\ UNCHANGED hubVars

\* BroadcastLog: a full channel drops the message for every client.
BroadcastLog(l) ==
    /\ ~panicked
    /\ Len(logged) < MaxMsgs
    /\ logged' = Append(logged, l)
    /\ broadcast' = IF Len(broadcast) < BroadcastCap THEN Append(broadcast, Len(logged) + 1)
                                                     ELSE broadcast
    /\ UNCHANGED <<client, panicked, registered, hub>>

\* Run receives from h.register; the handler starts both pumps.
ReceiveRegister(c) ==
    /\ hub = Idle /\ client[c].reader = "registering"
    /\ hub' = [op |-> "register", client |-> c]
    /\ Becomes(c, [client[c] EXCEPT !.reader = "reading", !.writer = "waiting"])
    /\ UNCHANGED <<registered, broadcast>>

\* registerClient: over the limit the client's channel and connection are closed.
Rejected(cl) == [cl EXCEPT !.sendClosed = TRUE, !.conn = "closed"]

RegisterClient_OffByOne(c) ==
    LET full == Cardinality(registered) > MaxClients IN
    /\ hub = [op |-> "register", client |-> c]
    /\ hub' = Idle
    /\ registered' = IF full THEN registered ELSE registered \cup {c}
    /\ Becomes(c, IF full THEN Rejected(client[c]) ELSE client[c])
    /\ UNCHANGED broadcast

RegisterClient(c) ==
    LET full == Cardinality(registered) >= MaxClients IN
    /\ hub = [op |-> "register", client |-> c]
    /\ hub' = Idle
    /\ registered' = IF full THEN registered ELSE registered \cup {c}
    /\ Becomes(c, IF full THEN Rejected(client[c]) ELSE client[c])
    /\ UNCHANGED broadcast

\* Run receives from h.unregister; the reader goes on to close the connection.
ReceiveUnregister(c) ==
    /\ hub = Idle /\ client[c].reader = "leaving"
    /\ hub' = [op |-> "unregister", client |-> c]
    /\ Becomes(c, [client[c] EXCEPT !.reader = "closing"])
    /\ UNCHANGED <<registered, broadcast>>

\* unregisterClient: a client that is not in the map (any more) is left alone.
UnregisterClient_KeepsChannel(c) ==
    /\ hub = [op |-> "unregister", client |-> c]
    /\ hub' = Idle
    /\ registered' = registered \ {c}
    /\ Becomes(c, client[c])
    /\ UNCHANGED broadcast

UnregisterClient(c) ==
    /\ hub = [op |-> "unregister", client |-> c]
    /\ hub' = Idle
    /\ registered' = registered \ {c}
    /\ Becomes(c, IF c \in registered THEN [client[c] EXCEPT !.sendClosed = TRUE] ELSE client[c])
    /\ UNCHANGED broadcast

BroadcastMessage_Peeks ==
    LET m == Head(broadcast) IN
    /\ ~panicked
    /\ hub = Idle /\ broadcast # <<>>
    /\ client' = [c \in Clients |->
          IF c \in registered
          THEN [client[c] EXCEPT !.tasks[m] = "match", !.ackedAt[m] = client[c].acked]
          ELSE client[c]]
    /\ UNCHANGED <<logged, panicked, registered, broadcast, hub>>

\* broadcastMessage: one ProcessMessage goroutine per registered client.
BroadcastMessage ==
    LET m == Head(broadcast) IN
    /\ ~panicked
    /\ hub = Idle /\ broadcast # <<>>
    /\ broadcast' = Tail(broadcast)
    /\ client' = [c \in Clients |->
          IF c \in registered
          THEN [client[c] EXCEPT !.tasks[m] = "match", !.ackedAt[m] = client[c].acked]
          ELSE client[c]]
    /\ UNCHANGED <<logged, panicked, registered, hub>>

----------------------------------------------------------------------------
ClientStep(c) ==
    /\ \/ PeerCloses(c) \/ ReadFails(c) \/ ReadRequest(c)
       \/ \E s \in Subscriptions : ReadSubscription(c, s)
       \/ ReaderStep(c) \/ WriterStep(c)
       \/ \E m \in Msgs : TaskStep(c, m)
       \/ \E t \in DOMAIN client[c].timers : TimerFires(c, t) \/ BatcherStep(c, t)
    /\ UNCHANGED hubVars

HubStep ==
    \/ \E c \in Clients : ReceiveRegister(c) \/ RegisterClient(c)
                            \/ ReceiveUnregister(c) \/ UnregisterClient(c)
    \/ BroadcastMessage

Next ==
    \/ \E c \in Clients : Connect(c) \/ ClientStep(c)
    \/ \E l \in Levels : BroadcastLog(l)
    \/ HubStep

\* Every goroutine that can go on does, and the hub's select, which draws among the
\* ready channels, lets every one of them in some day.  A reader that waits for its
\* browser goes on once the connection is closed.
Fairness ==
    /\ \A c \in Clients :
          /\ WF_vars(ReaderStep(c) /\ UNCHANGED hubVars)
          /\ WF_vars(client[c].conn = "closed" /\ ReadFails(c) /\ UNCHANGED hubVars)
          /\ WF_vars(WriterStep(c) /\ UNCHANGED hubVars)
          /\ SF_vars(ReceiveRegister(c)) /\ SF_vars(ReceiveUnregister(c))
          /\ WF_vars(RegisterClient(c)) /\ WF_vars(UnregisterClient(c))
          /\ \A m \in Msgs : WF_vars(TaskStep(c, m) /\ UNCHANGED hubVars)
    /\ WF_vars(BroadcastMessage)

Spec == Init /\ [][Next]_vars
FairSpec == Spec /\ Fairness

----------------------------------------------------------------------------
(* Properties.                                                             *)

\* The hub's map, the limit and the channels agree at every step of the hub and of
\* the readers: only a client whose channel is open and whose reader the hub has not
\* finished with is in the map, and the map keeps to the limit.  So no channel is
\* ever closed twice.
MapMatchesChannels ==
    /\ Cardinality(registered) <= MaxClients
    /\ \A c \in registered :
          /\ ~client[c].sendClosed
          /\ client[c].reader \in {"closing", "gone"} => hub = [op |-> "unregister", client |-> c]
    /\ hub.op = "register" => hub.client \notin registered /\ ~client[hub.client].sendClosed

\* Messages of c that are on their way to the browser.
Queued(cl) == UNION {cl.send[i].msgs : i \in DOMAIN cl.send}
InHand(cl) == UNION {cl.hand[i].msgs : i \in DOMAIN cl.hand}

Copies(cl, m) ==
    Cardinality({i \in DOMAIN cl.send : m \in cl.send[i].msgs})
        + Cardinality({i \in DOMAIN cl.hand : m \in cl.hand[i].msgs}) + cl.received[m]

\* However the goroutines of a message interleave with the pumps, with batches and
\* with the end of the client, its browser gets a message once at most.
AtMostOnce == \A c \in Clients : \A m \in Msgs : Copies(client[c], m) <= 1

\* A message that passed the filter and the limiter of a client that does not batch
\* is on its way or with the browser, or counted as dropped, until its writer ends.
NoSilentLoss ==
    \A c \in Clients :
        LET cl == client[c]
            losses == {m \in Msgs : cl.tasks[m] \in {"limited", "dropped"}} IN
        /\ Cardinality(losses) <= cl.dropped
        /\ cl.dropped <= Cardinality(losses) + cl.requests + Len(cl.subs) - 1
                            + Cardinality(cl.flushed)
        /\ \A m \in Msgs : cl.tasks[m] = "sent" =>
              m \in Queued(cl) \cup InHand(cl) \/ cl.received[m] > 0 \/ cl.writer = "gone"

\* Once a subscription has been acknowledged, a message broadcast afterwards reaches
\* the queue only if that subscription or a later one accepts its level, although
\* the filter is replaced without a lock under the goroutines that use it.
AcknowledgedFilterApplies ==
    \A c \in Clients : \A m \in DOMAIN logged :
        LET cl == client[c] IN
        cl.tasks[m] \in {"admit", "allow", "deliver", "limited", "sent", "dropped", "batched"} =>
            \E v \in cl.ackedAt[m] .. Len(cl.subs) : logged[m] \in cl.subs[v].levels

\* A connection that is gone, whoever closed it and whatever its goroutines were
\* doing, ends in a client that is in no map and whose pumps have returned, as long
\* as the process lives.
ClosedClientIsReleased ==
    \A c \in Clients :
        client[c].conn = "closed" ~>
            \/ c \notin registered /\ client[c].reader = "gone" /\ client[c].writer = "gone"
            \/ panicked

\* unregisterClient removes a client from the hub, and ProcessMessage runs in a
\* goroutine of its own so as not to disturb other clients: neither ends the process.
NeverPanics == ~panicked
=============================================================================
