------------------------- MODULE WebSocketClient_proofs -------------------------
(***************************************************************************)
(* What is proved of one client: every step of its goroutines keeps        *)
(* ClientInv, and moves it in the ways MovesOn lists.  WebSocketHub_proofs *)
(* completes this with the steps of the hub.                               *)
(***************************************************************************)
EXTENDS WebSocketClient, FiniteSetTheorems, SequenceTheorems, TLAPS

----------------------------------------------------------------------------
(* The invariant of one client, one part per question.                     *)

\* The values of one client.
ClientTyped(cl) ==
    /\ cl \in Client
    /\ Len(cl.send) <= SendCap /\ Len(cl.hand) <= 1
    /\ {cl.subscription, cl.filter} \subseteq DOMAIN cl.subs
    /\ cl.batchTimer \in 0 .. Len(cl.timers)
    /\ Len(cl.timers) = Len(cl.batchers)

\* The writer has an item in hand exactly while it writes.
WriterHolds(cl) == Len(cl.hand) = IF cl.writer = "writing" THEN 1 ELSE 0

InQueue(cl, m) == \E i \in DOMAIN cl.send : m \in cl.send[i].msgs
QueuedOnce(cl, m) ==
    \A i, j \in DOMAIN cl.send : m \in cl.send[i].msgs /\ m \in cl.send[j].msgs => i = j
InWriter(cl, m) == \E i \in DOMAIN cl.hand : m \in cl.hand[i].msgs

\* A message is in one place of the client at most, and only once its goroutine has
\* queued it.
OnePlace(cl) ==
    \A m \in Msgs :
        /\ QueuedOnce(cl, m)
        /\ InQueue(cl, m) => ~InWriter(cl, m) /\ cl.received[m] = 0
        /\ InWriter(cl, m) => cl.received[m] = 0
        /\ cl.received[m] <= 1
        /\ InQueue(cl, m) \/ InWriter(cl, m) \/ cl.received[m] > 0 => cl.tasks[m] = "sent"

\* A message its goroutine has queued is somewhere, until the writer ends.
SentIsKept(cl) ==
    \A m \in Msgs : cl.tasks[m] = "sent" =>
        InQueue(cl, m) \/ InWriter(cl, m) \/ cl.received[m] > 0 \/ cl.writer = "gone"

\* The reader owes the answer to a request or to a subscription.
Answering(cl) ==
    IF cl.reader \in {"subscribe", "filter", "limiter", "timer", "clearTimer", "ack", "reply"}
    THEN 1 ELSE 0

Losses(cl) == {m \in Msgs : cl.tasks[m] \in {"limited", "dropped"}}

\* What messagesDropped counts: each lost message, and at most each answer given and
\* each batch flushed.  A message is flushed once.
DropsCounted(cl) ==
    /\ Cardinality(Losses(cl)) <= cl.dropped
    /\ cl.dropped + Answering(cl) < Cardinality(Losses(cl)) + cl.requests + Len(cl.subs)
                                        + Cardinality(cl.flushed)
    /\ cl.batchBuffer \cap cl.flushed = {}
    /\ \A m \in cl.batchBuffer \cup cl.flushed : cl.tasks[m] = "batched"

Accepting == {"admit", "allow", "deliver", "limited", "sent", "dropped", "batched"}

\* The filter in force is never older than the subscription acknowledged last, and
\* the levels in ls are those of the messages logged.
FilterFollows(cl, ls) ==
    /\ 1 <= cl.acked /\ cl.acked <= cl.filter
    /\ cl.reader \in {"limiter", "timer", "clearTimer", "ack"} => cl.filter = Len(cl.subs)
    /\ \A m \in Msgs : 1 <= cl.ackedAt[m] /\ cl.ackedAt[m] <= cl.acked
    /\ \A m \in Msgs : m \in DOMAIN ls /\ cl.tasks[m] \in Accepting =>
          \E v \in cl.ackedAt[m] .. Len(cl.subs) : ls[m] \in cl.subs[v].levels

ClientInv(cl, ls) ==
    /\ ClientTyped(cl) /\ WriterHolds(cl) /\ OnePlace(cl) /\ SentIsKept(cl)
    /\ DropsCounted(cl) /\ FilterFollows(cl, ls)

----------------------------------------------------------------------------
(* The steps of one client.                                                *)

\* Which fields a step leaves alone, for the parts of the invariant that depend on them.
SameTypes(a, b) ==
    /\ b.hand = a.hand /\ b.subs = a.subs /\ b.timers = a.timers
    /\ b.subscription = a.subscription /\ b.filter = a.filter
    /\ b.batchTimer = a.batchTimer /\ Len(b.batchers) = Len(a.batchers)

SameQueues(a, b) ==
    /\ b.send = a.send /\ b.hand = a.hand /\ b.received = a.received /\ b.tasks = a.tasks
    /\ b.writer = a.writer

SameDrops(a, b) ==
    /\ b.tasks = a.tasks /\ b.dropped = a.dropped /\ b.requests = a.requests
    /\ b.subs = a.subs /\ b.flushed = a.flushed /\ b.batchBuffer = a.batchBuffer
    /\ Answering(b) <= Answering(a)

SameFilter(a, b) ==
    /\ b.tasks = a.tasks /\ b.subs = a.subs /\ b.filter = a.filter
    /\ b.acked = a.acked /\ b.ackedAt = a.ackedAt

LEMMA BecomesOne ==
    ASSUME client \in [Clients -> Client], NEW c \in Clients, NEW cl, Becomes(c, cl)
    PROVE  /\ client'[c] = cl /\ logged' = logged /\ panicked' = panicked
           /\ \A d \in Clients \ {c} : client'[d] = client[d]
           /\ cl \in Client => client' \in [Clients -> Client]
  BY DEF Becomes

LEMMA ClientFields ==
    ASSUME NEW cl \in Client
    PROVE  /\ cl.conn \in {"none", "open", "closed"}
           /\ cl.send \in Seq(Item) /\ cl.hand \in Seq(Item) /\ cl.sendClosed \in BOOLEAN
           /\ cl.subs \in Seq(Subscription) /\ cl.subscription \in Nat /\ cl.filter \in Nat
           /\ cl.rateLimiter \in BOOLEAN /\ cl.batchTimer \in Nat
           /\ cl.timers \in Seq({"running", "fired", "drained", "stopped"})
           /\ cl.batchers \in Seq(Batcher)
           /\ cl.batchBuffer \in SUBSET Msgs /\ cl.flushed \in SUBSET Msgs
           /\ cl.dropped \in Nat /\ cl.requests \in Nat /\ cl.acked \in Nat
           /\ cl.reader \in ReaderPc /\ cl.writer \in {"none", "waiting", "writing", "gone"}
           /\ cl.tasks \in [Msgs -> TaskPc]
           /\ cl.received \in [Msgs -> Nat] /\ cl.ackedAt \in [Msgs -> Nat]
  BY DEF Client

LEMMA SetsOfMessages ==
    ASSUME NEW a \in Client
    PROVE  /\ IsFiniteSet(Losses(a)) /\ Cardinality(Losses(a)) \in Nat
           /\ IsFiniteSet(a.flushed) /\ Cardinality(a.flushed) \in Nat
  <1>1. IsFiniteSet(Msgs)
    BY ClientBounds, FS_Interval DEF Msgs
  <1>2. Losses(a) \in SUBSET Msgs /\ a.flushed \in SUBSET Msgs
    BY ClientFields DEF Losses
  <1>3. IsFiniteSet(Losses(a)) /\ IsFiniteSet(a.flushed)
    BY <1>1, <1>2, FS_Subset
  <1> QED BY <1>3, FS_CardinalityType

LEMMA SeqExcept ==
    ASSUME NEW S, NEW s \in Seq(S), NEW i, NEW e \in S
    PROVE  [s EXCEPT ![i] = e] \in Seq(S) /\ Len([s EXCEPT ![i] = e]) = Len(s)
  <1>1. CASE i \in 1 .. Len(s)
    BY <1>1, ExceptSeq
  <1>2. CASE i \notin 1 .. Len(s)
    <2>1. s \in [1 .. Len(s) -> S]
      BY LenProperties
    <2>2. [s EXCEPT ![i] = e] = s
      BY <1>2, <2>1
    <2> QED BY <2>2
  <1> QED BY <1>1, <1>2

LEMMA TypesKept ==
    ASSUME NEW a, ClientTyped(a), NEW b \in Client, SameTypes(a, b),
           b.send = a.send \/ Len(b.send) <= SendCap
    PROVE  ClientTyped(b)
  BY DEF ClientTyped, SameTypes

LEMMA QueuesKept ==
    ASSUME NEW a, NEW b, SameQueues(a, b)
    PROVE  /\ WriterHolds(a) => WriterHolds(b)
           /\ OnePlace(a) => OnePlace(b)
           /\ SentIsKept(a) => SentIsKept(b)
  BY DEF SameQueues, WriterHolds, OnePlace, SentIsKept, InQueue, QueuedOnce, InWriter

LEMMA DropsKept ==
    ASSUME NEW a \in Client, NEW b, SameDrops(a, b), DropsCounted(a)
    PROVE  DropsCounted(b)
  <1>1. Losses(b) = Losses(a)
    BY DEF SameDrops, Losses
  <1>2. /\ a.dropped \in Nat /\ a.requests \in Nat /\ Len(a.subs) \in Nat
        /\ Cardinality(Losses(a)) \in Nat /\ Cardinality(a.flushed) \in Nat
    BY ClientFields, SetsOfMessages
  <1>3. Answering(a) \in Nat /\ Answering(b) \in Nat
    BY DEF Answering
  <1>4. /\ Cardinality(Losses(b)) <= b.dropped
        /\ b.dropped + Answering(a) < Cardinality(Losses(b)) + b.requests + Len(b.subs)
                                          + Cardinality(b.flushed)
    BY <1>1 DEF SameDrops, DropsCounted
  <1>5. b.dropped + Answering(b) < Cardinality(Losses(b)) + b.requests + Len(b.subs)
                                      + Cardinality(b.flushed)
    BY <1>1, <1>2, <1>3, <1>4 DEF SameDrops
  <1> QED BY <1>4, <1>5 DEF SameDrops, DropsCounted

LEMMA FilterKept ==
    ASSUME NEW a, NEW b, SameFilter(a, b), NEW ls, FilterFollows(a, ls),
           b.reader \in {"limiter", "timer", "clearTimer", "ack"} =>
              a.reader \in {"limiter", "timer", "clearTimer", "ack"}
    PROVE  FilterFollows(b, ls)
  BY DEF SameFilter, FilterFollows

\* How a step of the client moves it between the hub's operations.
MovesOn(a, b) ==
    /\ b.sendClosed = a.sendClosed /\ b.conn \in {a.conn, "closed"}
    /\ \/ b.reader = a.reader
       \/ /\ a.reader \notin {"none", "registering", "leaving", "closing", "gone"}
          /\ b.reader \notin {"none", "registering", "closing", "gone"}
       \/ a.reader = "closing" /\ b.reader = "gone"
    /\ a.writer = "none" => b.writer = "none"
    /\ \A m \in Msgs : b.tasks[m] # "none" => a.tasks[m] # "none"

\* The reader's steps that neither read a request nor set the filter.
ReaderGoes(a, b) ==
    \/ b.reader = a.reader
    \/ a.reader \in {"reading", "ack", "reply"} /\ b.reader = "leaving"
    \/ a.reader = "closing" /\ b.reader = "gone"
    \/ a.reader = "subscribe" /\ b.reader = "filter"
    \/ a.reader = "limiter" /\ b.reader = "timer"
    \/ a.reader = "timer" /\ b.reader \in {"clearTimer", "ack"}
    \/ a.reader = "clearTimer" /\ b.reader = "ack"

\* Messages, counters and subscriptions stay as they are.
Quiet(a, b) ==
    /\ SameQueues(a, b) /\ SameFilter(a, b)
    /\ b.dropped = a.dropped /\ b.requests = a.requests
    /\ b.flushed = a.flushed /\ b.batchBuffer = a.batchBuffer
    /\ b.sendClosed = a.sendClosed /\ b.conn \in {a.conn, "closed"}
    /\ ReaderGoes(a, b)

LEMMA QuietKeeps ==
    ASSUME NEW ls, NEW a, ClientInv(a, ls), NEW b, ClientTyped(b), Quiet(a, b)
    PROVE  ClientInv(b, ls) /\ MovesOn(a, b)
  <1>1. a \in Client
    BY DEF ClientInv, ClientTyped
  <1>2. WriterHolds(b) /\ OnePlace(b) /\ SentIsKept(b)
    BY QueuesKept DEF Quiet, ClientInv
  <1>3. DropsCounted(b)
    <2>1. Answering(b) <= Answering(a)
      BY DEF Quiet, ReaderGoes, Answering
    <2>2. SameDrops(a, b)
      BY <2>1 DEF Quiet, SameDrops, SameFilter
    <2> QED BY <1>1, <2>2, DropsKept DEF ClientInv
  <1>4. FilterFollows(b, ls)
    <2>1. b.reader \in {"limiter", "timer", "clearTimer", "ack"} =>
              a.reader \in {"limiter", "timer", "clearTimer", "ack"}
      BY DEF Quiet, ReaderGoes
    <2> QED BY <2>1, FilterKept DEF Quiet, ClientInv
  <1>5. MovesOn(a, b)
    BY DEF Quiet, ReaderGoes, MovesOn, SameFilter, SameQueues
  <1> QED BY <1>2, <1>3, <1>4, <1>5 DEF ClientInv

\* The steps that are quiet, by the fields they set.
QuietStep(c) ==
    \/ PeerCloses(c) \/ ReadFails(c) \/ ReaderCloses(c)
    \/ SetSubscription(c) \/ SetRateLimiter(c) \/ SetTimer(c) \/ ClearTimer(c)
    \/ client[c].sendClosed /\ (Acknowledge(c) \/ Reply(c))
    \/ \E t \in DOMAIN client[c].timers :
          \/ TimerFires(c, t) \/ BatcherTop(c, t) \/ BatcherWakes(c, t) \/ BatcherChecks(c, t)
          \/ client[c].batchTimer # 0 /\ (BatcherReceives(c, t) \/ BatcherResets(c, t))
          \/ client[c].batchBuffer = {} /\ FlushBatch(c, t)

USE DEF SameQueues, SameFilter

\* Steps that set the reader, the connection and nothing of a type that matters.
LEMMA ControlIsQuiet ==
    ASSUME NEW c \in Clients, client \in [Clients -> Client], ClientTyped(client[c]),
           \/ PeerCloses(c) \/ ReadFails(c) \/ ReaderCloses(c)
           \/ client[c].sendClosed /\ (Acknowledge(c) \/ Reply(c))
    PROVE  ClientTyped(client'[c]) /\ Quiet(client[c], client'[c])
  <1> DEFINE a == client[c]
             b == client'[c]
  <1>0. a \in Client
    OBVIOUS
  <1>1. \/ a.conn = "open" /\ b = [a EXCEPT !.conn = "closed"]
        \/ a.reader \in {"reading", "ack", "reply"} /\ b = [a EXCEPT !.reader = "leaving"]
        \/ a.reader = "closing" /\ b = [a EXCEPT !.conn = "closed", !.reader = "gone"]
    BY DEF PeerCloses, ReadFails, ReaderCloses, Acknowledge, Reply, ReaderSends, Becomes
  <1> HIDE DEF b
  <1>2. b \in Client /\ SameTypes(a, b) /\ b.send = a.send
    <2>1. CASE b = [a EXCEPT !.conn = "closed"]
      BY <1>0, <2>1 DEF Client, SameTypes
    <2>2. CASE b = [a EXCEPT !.reader = "leaving"]
      BY <1>0, <2>2 DEF Client, ReaderPc, SameTypes
    <2>3. CASE b = [a EXCEPT !.conn = "closed", !.reader = "gone"]
      BY <1>0, <2>3 DEF Client, ReaderPc, SameTypes
    <2> QED BY <1>1, <2>1, <2>2, <2>3
  <1>3. Quiet(a, b)
    BY <1>0, <1>1 DEF Client, Quiet, ReaderGoes
  <1> QED BY <1>2, <1>3, TypesKept DEF b

\* The last subscription of the client.
LEMMA LastSubscription ==
    ASSUME NEW a, ClientTyped(a)
    PROVE  /\ Len(a.subs) \in DOMAIN a.subs /\ Len(a.subs) \in Nat \ {0}
           /\ a.subs[Len(a.subs)] \in Subscription
           /\ a.subs[Len(a.subs)].limited \in BOOLEAN
  <1>1. a.subs \in Seq(Subscription)
    BY ClientFields DEF ClientTyped
  <1>2. Len(a.subs) \in 1 .. Len(a.subs) /\ DOMAIN a.subs = 1 .. Len(a.subs)
    BY <1>1 DEF ClientTyped
  <1>3. a.subs[Len(a.subs)] \in Subscription
    BY <1>1, <1>2, ElementOfSeq
  <1> QED BY <1>2, <1>3 DEF Subscription

LEMMA UpdateIsQuiet ==
    ASSUME NEW c \in Clients, client \in [Clients -> Client], ClientTyped(client[c]),
           SetSubscription(c) \/ SetRateLimiter(c) \/ ClearTimer(c)
    PROVE  ClientTyped(client'[c]) /\ Quiet(client[c], client'[c])
  <1> DEFINE a == client[c]
             b == client'[c]
  <1>0. a \in Client /\ Len(a.subs) \in DOMAIN a.subs /\ Len(a.subs) \in Nat
        /\ a.subs[Len(a.subs)].limited \in BOOLEAN /\ Len(a.timers) \in Nat
    BY LastSubscription, ClientFields DEF ClientTyped
  <1>1. CASE SetSubscription(c)
    <2>1. a.reader = "subscribe"
          /\ b = [a EXCEPT !.subscription = Len(a.subs), !.reader = "filter"]
      BY <1>1 DEF SetSubscription, Becomes
    <2> HIDE DEF b
    <2>2. b \in Client
      BY <1>0, <2>1 DEF Client, ReaderPc
    <2>3. /\ b.send = a.send /\ b.hand = a.hand /\ b.subs = a.subs /\ b.timers = a.timers
          /\ b.subscription = Len(a.subs) /\ b.filter = a.filter
          /\ b.batchTimer = a.batchTimer /\ b.batchers = a.batchers
      BY <1>0, <2>1 DEF Client
    <2>4. ClientTyped(b)
      BY <1>0, <2>2, <2>3 DEF ClientTyped
    <2>5. Quiet(a, b)
      BY <1>0, <2>1 DEF Client, Quiet, ReaderGoes
    <2> QED BY <2>4, <2>5 DEF b
  <1>2. CASE SetRateLimiter(c)
    <2>1. a.reader = "limiter"
          /\ b = [a EXCEPT !.rateLimiter = a.subs[Len(a.subs)].limited, !.reader = "timer"]
      BY <1>2 DEF SetRateLimiter, Becomes
    <2> HIDE DEF b
    <2>2. b \in Client /\ SameTypes(a, b) /\ b.send = a.send
      BY <1>0, <2>1 DEF Client, ReaderPc, SameTypes
    <2>3. Quiet(a, b)
      BY <1>0, <2>1 DEF Client, Quiet, ReaderGoes
    <2> QED BY <2>2, <2>3, TypesKept DEF b
  <1>3. CASE ClearTimer(c)
    <2>1. a.reader = "clearTimer" /\ b = [a EXCEPT !.batchTimer = 0, !.reader = "ack"]
      BY <1>3 DEF ClearTimer, Becomes
    <2> HIDE DEF b
    <2>2. b \in Client
      BY <1>0, <2>1 DEF Client, ReaderPc
    <2>3. /\ b.send = a.send /\ b.hand = a.hand /\ b.subs = a.subs /\ b.timers = a.timers
          /\ b.subscription = a.subscription /\ b.filter = a.filter
          /\ b.batchTimer = 0 /\ b.batchers = a.batchers
      BY <1>0, <2>1 DEF Client
    <2>4. ClientTyped(b)
      BY <1>0, <2>2, <2>3 DEF ClientTyped
    <2>5. Quiet(a, b)
      BY <1>0, <2>1 DEF Client, Quiet, ReaderGoes
    <2> QED BY <2>4, <2>5 DEF b
  <1> QED BY <1>1, <1>2, <1>3

Timer == {"running", "fired", "drained", "stopped"}

LEMMA TimersExcept ==
    ASSUME NEW a, ClientTyped(a), NEW i
    PROVE  /\ a.timers \in Seq(Timer) /\ a.batchers \in Seq(Batcher)
           /\ \A e \in Timer : [a.timers EXCEPT ![i] = e] \in Seq(Timer)
                               /\ Len([a.timers EXCEPT ![i] = e]) = Len(a.timers)
           /\ \A p \in Batcher : [a.batchers EXCEPT ![i] = p] \in Seq(Batcher)
                                 /\ Len([a.batchers EXCEPT ![i] = p]) = Len(a.timers)
  <1>1. /\ a.timers \in Seq(Timer) /\ a.batchers \in Seq(Batcher)
        /\ Len(a.batchers) = Len(a.timers)
    BY ClientFields DEF ClientTyped, Timer
  <1>2. ASSUME NEW e \in Timer
        PROVE  [a.timers EXCEPT ![i] = e] \in Seq(Timer)
               /\ Len([a.timers EXCEPT ![i] = e]) = Len(a.timers)
    <2> DEFINE s == a.timers
    <2>1. s \in Seq(Timer)
      BY <1>1
    <2> HIDE DEF s
    <2>2. [s EXCEPT ![i] = e] \in Seq(Timer) /\ Len([s EXCEPT ![i] = e]) = Len(s)
      BY <2>1, SeqExcept
    <2> QED BY <2>2 DEF s
  <1>3. ASSUME NEW p \in Batcher
        PROVE  [a.batchers EXCEPT ![i] = p] \in Seq(Batcher)
               /\ Len([a.batchers EXCEPT ![i] = p]) = Len(a.batchers)
    <2> DEFINE s == a.batchers
    <2>1. s \in Seq(Batcher)
      BY <1>1
    <2> HIDE DEF s
    <2>2. [s EXCEPT ![i] = p] \in Seq(Batcher) /\ Len([s EXCEPT ![i] = p]) = Len(s)
      BY <2>1, SeqExcept
    <2> QED BY <2>2 DEF s
  <1> QED BY <1>1, <1>2, <1>3

\* b is what a becomes with these timers, their goroutines, and this reader.
TimersSet(a, b) ==
    \E timers \in Seq(Timer), batchers \in Seq(Batcher), n \in Nat, pc \in ReaderPc :
       /\ n <= Len(timers) /\ Len(timers) = Len(batchers)
       /\ b = [a EXCEPT !.timers = timers, !.batchers = batchers, !.batchTimer = n,
                        !.reader = pc]

LEMMA TimersTyped ==
    ASSUME NEW a, ClientTyped(a), NEW b, TimersSet(a, b), ReaderGoes(a, b)
    PROVE  ClientTyped(b) /\ Quiet(a, b)
  <1>0. PICK timers \in Seq(Timer), batchers \in Seq(Batcher), n \in Nat, pc \in ReaderPc :
           /\ n <= Len(timers) /\ Len(timers) = Len(batchers)
           /\ b = [a EXCEPT !.timers = timers, !.batchers = batchers, !.batchTimer = n,
                            !.reader = pc]
    BY DEF TimersSet
  <1>1. a \in Client
    BY DEF ClientTyped
  <1>2. b \in Client
    BY <1>0, <1>1 DEF Client, Timer
  <1>3. /\ b.timers = timers /\ b.batchers = batchers /\ b.batchTimer = n
        /\ b.send = a.send /\ b.hand = a.hand /\ b.subs = a.subs
        /\ b.subscription = a.subscription /\ b.filter = a.filter
    BY <1>0, <1>1 DEF Client
  <1>4. ClientTyped(b)
    BY <1>0, <1>2, <1>3 DEF ClientTyped
  <1>5. /\ SameQueues(a, b) /\ SameFilter(a, b)
        /\ b.dropped = a.dropped /\ b.requests = a.requests
        /\ b.flushed = a.flushed /\ b.batchBuffer = a.batchBuffer
        /\ b.sendClosed = a.sendClosed /\ b.conn = a.conn
    BY <1>0, <1>1 DEF Client
  <1> QED BY <1>4, <1>5 DEF Quiet

LEMMA SetTimerIsQuiet ==
    ASSUME NEW c \in Clients, client \in [Clients -> Client], ClientTyped(client[c]),
           SetTimer(c)
    PROVE  ClientTyped(client'[c]) /\ Quiet(client[c], client'[c])
  <1> DEFINE a == client[c]
             b == client'[c]
  <1> SUFFICES \E timers \in Seq(Timer), batchers \in Seq(Batcher),
                  n \in Nat, pc \in {"clearTimer", "ack"} :
                  /\ n <= Len(timers) /\ Len(timers) = Len(batchers) /\ a.reader = "timer"
                  /\ b = [a EXCEPT !.timers = timers, !.batchers = batchers, !.batchTimer = n,
                                   !.reader = pc]
    <2>1. a.reader = "timer" /\ b.reader \in {"clearTimer", "ack"}
      BY DEF Client
    <2>2. TimersSet(a, b)
      <3>1. PICK timers \in Seq(Timer), batchers \in Seq(Batcher),
                 n \in Nat, pc \in {"clearTimer", "ack"} :
                  /\ n <= Len(timers) /\ Len(timers) = Len(batchers) /\ a.reader = "timer"
                  /\ b = [a EXCEPT !.timers = timers, !.batchers = batchers, !.batchTimer = n,
                                   !.reader = pc]
        OBVIOUS
      <3> HIDE DEF a, b
      <3> pc \in ReaderPc
        BY DEF ReaderPc
      <3> SUFFICES \E ts \in Seq(Timer), bs \in Seq(Batcher), k \in Nat, r \in ReaderPc :
                      /\ k <= Len(ts) /\ Len(ts) = Len(bs)
                      /\ b = [a EXCEPT !.timers = ts, !.batchers = bs, !.batchTimer = k,
                                       !.reader = r]
        BY DEF TimersSet
      <3> WITNESS timers \in Seq(Timer), batchers \in Seq(Batcher), n \in Nat, pc \in ReaderPc
      <3> QED BY <3>1
    <2> HIDE DEF b
    <2>3. ReaderGoes(a, b)
      BY <2>1 DEF ReaderGoes
    <2> QED BY <2>2, <2>3, TimersTyped DEF b
  <1>0. /\ a \in Client /\ a.timers \in Seq(Timer)
        /\ a.batchers \in Seq(Batcher) /\ Len(a.timers) = Len(a.batchers)
        /\ a.batchTimer \in Nat /\ a.batchTimer <= Len(a.timers) /\ Len(a.timers) \in Nat
    BY ClientFields DEF ClientTyped, Timer
  <1>1. a.reader = "timer"
    BY DEF SetTimer
  <1>2. CASE b = [a EXCEPT !.timers = Append(@, "running"),
                           !.batchTimer = Len(a.timers) + 1,
                           !.batchers = Append(@, [pc |-> "top", waitsFor |-> 0]),
                           !.reader = "ack"]
    <2> DEFINE timers == Append(a.timers, "running")
               batchers == Append(a.batchers, [pc |-> "top", waitsFor |-> 0])
    <2>1. /\ timers \in Seq(Timer) /\ batchers \in Seq(Batcher) /\ Len(a.timers) + 1 \in Nat
          /\ Len(timers) = Len(a.timers) + 1 /\ Len(batchers) = Len(a.timers) + 1
      BY <1>0 DEF Batcher, Timer
    <2>2. b = [a EXCEPT !.timers = timers, !.batchers = batchers,
                        !.batchTimer = Len(a.timers) + 1, !.reader = "ack"]
      BY <1>0, <1>2 DEF Client
    <2>3. Len(a.timers) + 1 <= Len(timers) /\ Len(timers) = Len(batchers)
      BY <1>0, <2>1
    <2> HIDE DEF timers, batchers, b
    <2> QED BY <1>1, <2>1, <2>2, <2>3
  <1>3. CASE b = [a EXCEPT !.timers[a.batchTimer] = "stopped", !.reader = "clearTimer"]
    <2> DEFINE timers == [a.timers EXCEPT ![a.batchTimer] = "stopped"]
    <2>1. timers \in Seq(Timer) /\ Len(timers) = Len(a.timers)
      BY TimersExcept DEF Timer
    <2>2. b = [a EXCEPT !.timers = timers, !.reader = "clearTimer"]
      BY <1>0, <1>3
    <2> HIDE DEF timers, b
    <2>3. b = [a EXCEPT !.timers = timers, !.batchers = a.batchers,
                        !.batchTimer = a.batchTimer, !.reader = "clearTimer"]
      BY <1>0, <2>2 DEF Client
    <2> QED BY <1>0, <1>1, <2>1, <2>3
  <1>4. CASE b = [a EXCEPT !.reader = "ack"]
    <2> HIDE DEF b
    <2>1. b = [a EXCEPT !.timers = a.timers, !.batchers = a.batchers,
                        !.batchTimer = a.batchTimer, !.reader = "ack"]
      BY <1>0, <1>4 DEF Client
    <2> QED BY <1>0, <1>1, <2>1
  <1> QED BY <1>2, <1>3, <1>4 DEF SetTimer, Becomes

\* What the goroutines of the batches do to the timers and to themselves.
LEMMA BatcherIsQuiet ==
    ASSUME NEW c \in Clients, client \in [Clients -> Client], ClientTyped(client[c]),
           NEW t \in DOMAIN client[c].timers,
           \/ TimerFires(c, t) \/ BatcherTop(c, t) \/ BatcherWakes(c, t) \/ BatcherChecks(c, t)
           \/ client[c].batchTimer # 0 /\ (BatcherReceives(c, t) \/ BatcherResets(c, t))
           \/ client[c].batchBuffer = {} /\ FlushBatch(c, t)
    PROVE  ClientTyped(client'[c]) /\ Quiet(client[c], client'[c])
  <1> DEFINE a == client[c]
             b == client'[c]
  <1>0. /\ a \in Client /\ a.timers \in Seq(Timer) /\ a.batchers \in Seq(Batcher)
        /\ Len(a.timers) = Len(a.batchers) /\ a.batchTimer \in Nat
        /\ a.batchTimer \in 0 .. Len(a.timers) /\ a.reader \in ReaderPc
    BY ClientFields DEF ClientTyped, Timer
  <1>1. t \in 1 .. Len(a.batchers)
    BY <1>0
  <1>2. a.batchers[t] \in Batcher
    BY <1>0, <1>1, ElementOfSeq
  <1>3. \A pc \in {"top", "receive", "waiting", "flush", "check", "reset", "gone"} :
           [a.batchers[t] EXCEPT !.pc = pc] \in Batcher
    BY <1>2 DEF Batcher
  <1> DEFINE Reached ==
               \E timers \in Seq(Timer), batchers \in Seq(Batcher) :
                  /\ Len(timers) = Len(a.timers) /\ Len(batchers) = Len(a.timers)
                  /\ b = [a EXCEPT !.timers = timers, !.batchers = batchers]
  <1> SUFFICES Reached
    <2>1. PICK timers \in Seq(Timer), batchers \in Seq(Batcher) :
                  /\ Len(timers) = Len(a.timers) /\ Len(batchers) = Len(a.timers)
                  /\ b = [a EXCEPT !.timers = timers, !.batchers = batchers]
      OBVIOUS
    <2> HIDE DEF b
    <2>2. b.reader = a.reader
          /\ b = [a EXCEPT !.timers = timers, !.batchers = batchers,
                           !.batchTimer = a.batchTimer, !.reader = a.reader]
      BY <1>0, <2>1 DEF Client
    <2>3. TimersSet(a, b)
      <3> DEFINE n == a.batchTimer
                 pc == a.reader
      <3> n \in Nat /\ pc \in ReaderPc
        BY <1>0
      <3>2. /\ n <= Len(timers) /\ Len(timers) = Len(batchers)
            /\ b = [a EXCEPT !.timers = timers, !.batchers = batchers, !.batchTimer = n,
                             !.reader = pc]
        BY <1>0, <2>1, <2>2
      <3> HIDE DEF a, b, n, pc
      <3> SUFFICES \E ts \in Seq(Timer), bs \in Seq(Batcher), k \in Nat, r \in ReaderPc :
                      /\ k <= Len(ts) /\ Len(ts) = Len(bs)
                      /\ b = [a EXCEPT !.timers = ts, !.batchers = bs, !.batchTimer = k,
                                       !.reader = r]
        BY DEF TimersSet
      <3> WITNESS timers \in Seq(Timer), batchers \in Seq(Batcher), n \in Nat, pc \in ReaderPc
      <3> QED BY <3>2
    <2>4. ReaderGoes(a, b)
      BY <2>2 DEF ReaderGoes
    <2> QED BY <2>3, <2>4, TimersTyped DEF b
  <1>4. CASE TimerFires(c, t)
    <2> DEFINE timers == [a.timers EXCEPT ![t] = "fired"]
    <2>1. timers \in Seq(Timer) /\ Len(timers) = Len(a.timers)
      BY TimersExcept DEF Timer
    <2>2. b = [a EXCEPT !.timers = timers]
      BY <1>4 DEF TimerFires, Becomes
    <2> HIDE DEF timers, b
    <2>3. b = [a EXCEPT !.timers = timers, !.batchers = a.batchers]
      BY <1>0, <2>2 DEF Client
    <2> QED BY <1>0, <2>1, <2>3
  <1>5. ASSUME NEW p \in Batcher, b = [a EXCEPT !.batchers = [@ EXCEPT ![t] = p]]
        PROVE  Reached
    <2> DEFINE batchers == [a.batchers EXCEPT ![t] = p]
    <2>1. batchers \in Seq(Batcher) /\ Len(batchers) = Len(a.timers)
      BY TimersExcept
    <2>2. b = [a EXCEPT !.batchers = batchers]
      BY <1>5
    <2> HIDE DEF batchers, b
    <2>3. b = [a EXCEPT !.timers = a.timers, !.batchers = batchers]
      BY <1>0, <2>2 DEF Client
    <2> QED BY <1>0, <2>1, <2>3
  <1>6. CASE a.batchTimer # 0 /\ BatcherReceives(c, t)
    <2> DEFINE p == [pc |-> "waiting", waitsFor |-> a.batchTimer]
    <2>1. p \in Batcher
      BY <1>0 DEF Batcher
    <2>2. b = [a EXCEPT !.batchers = [@ EXCEPT ![t] = p]]
      BY <1>6 DEF BatcherReceives, Becomes
    <2> HIDE DEF p, b
    <2> QED BY <1>5, <2>1, <2>2
  <1>7. CASE BatcherTop(c, t) \/ BatcherChecks(c, t)
             \/ (a.batchBuffer = {} /\ FlushBatch(c, t))
    <2>1. \E pc \in {"receive", "reset", "gone", "check"} :
             b = [a EXCEPT !.batchers = [@ EXCEPT ![t] = [a.batchers[t] EXCEPT !.pc = pc]]]
      BY <1>7 DEF BatcherTop, BatcherChecks, FlushBatch, Becomes
    <2> HIDE DEF b
    <2> QED BY <1>3, <1>5, <2>1
  <1>8. ASSUME NEW e \in Timer, NEW i, NEW pc \in {"flush", "top"},
               b = [a EXCEPT !.timers = [a.timers EXCEPT ![i] = e],
                             !.batchers = [a.batchers EXCEPT
                                              ![t] = [a.batchers[t] EXCEPT !.pc = pc]]]
        PROVE  Reached
    <2> DEFINE timers == [a.timers EXCEPT ![i] = e]
               batchers == [a.batchers EXCEPT ![t] = [a.batchers[t] EXCEPT !.pc = pc]]
    <2>1. timers \in Seq(Timer) /\ Len(timers) = Len(a.timers)
      BY TimersExcept
    <2>2. batchers \in Seq(Batcher) /\ Len(batchers) = Len(a.timers)
      BY <1>3, TimersExcept
    <2>3. b = [a EXCEPT !.timers = timers, !.batchers = batchers]
      BY <1>8
    <2> HIDE DEF timers, batchers, b
    <2> QED BY <2>1, <2>2, <2>3
  <1>9. CASE BatcherWakes(c, t)
    <2>1. b = [a EXCEPT !.timers = [@ EXCEPT ![a.batchers[t].waitsFor] = "drained"],
                        !.batchers = [@ EXCEPT ![t] = [a.batchers[t] EXCEPT !.pc = "flush"]]]
      BY <1>9 DEF BatcherWakes, Becomes
    <2> HIDE DEF b
    <2> QED BY <1>8, <2>1 DEF Timer
  <1>10. CASE a.batchTimer # 0 /\ BatcherResets(c, t)
    <2>1. b = [a EXCEPT !.timers = [a.timers EXCEPT ![a.batchTimer] = "running"],
                        !.batchers = [a.batchers EXCEPT
                                         ![t] = [a.batchers[t] EXCEPT !.pc = "top"]]]
      BY <1>10 DEF BatcherResets, Becomes
    <2> DEFINE timers == [a.timers EXCEPT ![a.batchTimer] = "running"]
               batchers == [a.batchers EXCEPT ![t] = [a.batchers[t] EXCEPT !.pc = "top"]]
    <2>2. timers \in Seq(Timer) /\ Len(timers) = Len(a.timers)
      BY TimersExcept DEF Timer
    <2>3. batchers \in Seq(Batcher) /\ Len(batchers) = Len(a.timers)
      BY <1>3, TimersExcept
    <2>4. b = [a EXCEPT !.timers = timers, !.batchers = batchers]
      BY <2>1
    <2> HIDE DEF timers, batchers, b
    <2> QED BY <2>2, <2>3, <2>4
  <1> QED BY <1>4, <1>6, <1>7, <1>9, <1>10

\* b is what a becomes by queueing the item, or by dropping and counting it.
Queues(a, b, item) ==
    \/ HasRoom(a) /\ b.send = Append(a.send, item) /\ b.dropped = a.dropped
    \/ ~HasRoom(a) /\ b.send = a.send /\ b.dropped = a.dropped + 1

LEMMA SendMessageEffect ==
    ASSUME NEW a \in Client, NEW item \in Item
    PROVE  /\ SendMessage(a, item) \in Client
           /\ Queues(a, SendMessage(a, item), item)
           /\ SendMessage(a, item) = [a EXCEPT !.send = SendMessage(a, item).send,
                                               !.dropped = SendMessage(a, item).dropped]
  <1>1. a.send \in Seq(Item) /\ a.dropped \in Nat
    BY ClientFields
  <1>2. Append(a.send, item) \in Seq(Item) /\ a.dropped + 1 \in Nat
    BY <1>1
  <1>3. CASE HasRoom(a)
    <2>1. SendMessage(a, item) = [a EXCEPT !.send = Append(a.send, item)]
      BY <1>3 DEF SendMessage
    <2> QED BY <1>2, <1>3, <2>1 DEF Queues, Client
  <1>4. CASE ~HasRoom(a)
    <2>1. SendMessage(a, item) = [a EXCEPT !.dropped = a.dropped + 1]
      BY <1>4 DEF SendMessage
    <2> QED BY <1>2, <1>4, <2>1 DEF Queues, Client
  <1> QED BY <1>3, <1>4

LEMMA ItemTypes ==
    /\ \A m \in Msgs : Log(m) \in Item /\ Log(m).msgs = {m}
    /\ \A type \in {"reply", "ack"} : Answer(type) \in Item /\ Answer(type).msgs = {}
    /\ \A ms : Batch(BatchOf(ms)) \in Item /\ Batch(BatchOf(ms)).msgs = {}
  BY DEF Item, Log, Answer, Batch, BatchOf

LEMMA ReaderSet ==
    ASSUME NEW a \in Client, NEW pc \in ReaderPc
    PROVE  [a EXCEPT !.reader = pc] \in Client
  BY DEF Client

LEMMA QueuesTyped ==
    ASSUME NEW a, ClientTyped(a), NEW b \in Client, NEW item \in Item, Queues(a, b, item),
           SameTypes(a, b)
    PROVE  ClientTyped(b)
  <1>1. a.send \in Seq(Item) /\ Len(a.send) \in Nat /\ SendCap \in Nat
    BY ClientBounds, ClientFields DEF ClientTyped
  <1>2. b.send = a.send \/ Len(b.send) <= SendCap
    BY <1>1 DEF Queues, HasRoom
  <1> QED BY <1>2, TypesKept

\* Everything but the fields of sendMessage, acked and the reader.
SameRest(a, b) ==
    /\ b.conn = a.conn /\ b.sendClosed = a.sendClosed /\ b.writer = a.writer /\ b.hand = a.hand
    /\ b.subs = a.subs /\ b.subscription = a.subscription /\ b.filter = a.filter
    /\ b.batchTimer = a.batchTimer /\ b.timers = a.timers
    /\ Len(b.batchers) = Len(a.batchers)
    /\ b.requests = a.requests /\ b.received = a.received /\ b.ackedAt = a.ackedAt

\* The reader sends an item and reads on.
ReadsOn(then, b, item) == b = [SendMessage(then, item) EXCEPT !.reader = "reading"]

LEMMA ReaderSendsEffect ==
    ASSUME NEW then \in Client, NEW item \in Item, NEW b, ReadsOn(then, b, item)
    PROVE  /\ b \in Client /\ SameRest(then, b) /\ Queues(then, b, item)
           /\ b.reader = "reading" /\ b.acked = then.acked /\ b.tasks = then.tasks
           /\ b.flushed = then.flushed /\ b.batchBuffer = then.batchBuffer
  <1> DEFINE sent == SendMessage(then, item)
  <1>1. /\ sent \in Client /\ Queues(then, sent, item)
        /\ sent = [then EXCEPT !.send = sent.send, !.dropped = sent.dropped]
    BY SendMessageEffect
  <1>2. b = [sent EXCEPT !.reader = "reading"]
    BY DEF ReadsOn
  <1> HIDE DEF sent
  <1>3. /\ SameRest(then, sent) /\ sent.acked = then.acked /\ sent.tasks = then.tasks
        /\ sent.flushed = then.flushed /\ sent.batchBuffer = then.batchBuffer
    BY <1>1 DEF Client, SameRest
  <1>4. b \in Client
    <2>1. sent \in Client /\ "reading" \in ReaderPc
      BY <1>1 DEF ReaderPc
    <2> QED BY <1>2, <2>1, ReaderSet
  <1>5. b.reader = "reading" /\ SameRest(sent, b)
    BY <1>1, <1>2 DEF Client, SameRest
  <1>6. /\ b.send = sent.send /\ b.dropped = sent.dropped /\ b.acked = sent.acked
        /\ b.tasks = sent.tasks /\ b.flushed = sent.flushed
        /\ b.batchBuffer = sent.batchBuffer
    BY <1>1, <1>2 DEF Client
  <1>7. Queues(then, b, item) /\ SameRest(then, b)
    BY <1>1, <1>3, <1>5, <1>6 DEF Queues, HasRoom, SameRest
  <1> QED BY <1>3, <1>4, <1>5, <1>6, <1>7

LEMMA AnswerEffect ==
    ASSUME NEW c \in Clients, client \in [Clients -> Client], ~client[c].sendClosed,
           Acknowledge(c) \/ Reply(c)
    PROVE  LET a == client[c]
               b == client'[c]
           IN  /\ b \in Client /\ SameRest(a, b) /\ b.tasks = a.tasks
               /\ b.flushed = a.flushed /\ b.batchBuffer = a.batchBuffer
               /\ \E item \in Item : item.msgs = {} /\ Queues(a, b, item)
               /\ a.reader \in {"ack", "reply"} /\ b.reader = "reading"
               /\ b.acked = IF a.reader = "ack" THEN Len(a.subs) ELSE a.acked
  <1> DEFINE a == client[c]
             b == client'[c]
  <1>0. a \in Client /\ Len(a.subs) \in Nat
    BY ClientFields
  <1>1. CASE Acknowledge(c)
    <2> DEFINE then == [a EXCEPT !.acked = Len(a.subs)]
               item == Answer("ack")
    <2>1. /\ then \in Client /\ then.acked = Len(a.subs) /\ then.send = a.send
          /\ then.dropped = a.dropped /\ SameRest(a, then) /\ then.tasks = a.tasks
          /\ then.flushed = a.flushed /\ then.batchBuffer = a.batchBuffer
      BY <1>0 DEF Client, SameRest
    <2>2. a.reader = "ack" /\ ReadsOn(then, b, item)
      BY <1>1, <1>0 DEF ReadsOn, Acknowledge, ReaderSends, Becomes
    <2>3. item \in Item /\ item.msgs = {}
      BY ItemTypes
    <2> HIDE DEF item, then, b
    <2>4. /\ b \in Client /\ SameRest(then, b) /\ Queues(then, b, item)
          /\ b.reader = "reading" /\ b.acked = then.acked /\ b.tasks = then.tasks
          /\ b.flushed = then.flushed /\ b.batchBuffer = then.batchBuffer
      BY <2>1, <2>2, <2>3, ReaderSendsEffect
    <2>5. Queues(a, b, item) /\ SameRest(a, b)
      BY <2>1, <2>4 DEF Queues, HasRoom, SameRest
    <2> QED BY <2>1, <2>2, <2>3, <2>4, <2>5 DEF b
  <1>2. CASE Reply(c)
    <2> DEFINE item == Answer("reply")
    <2>2. a.reader = "reply" /\ ReadsOn(a, b, item)
      BY <1>2, <1>0 DEF ReadsOn, Reply, ReaderSends, Becomes
    <2>3. item \in Item /\ item.msgs = {}
      BY ItemTypes
    <2> HIDE DEF item, a, b
    <2>4. /\ b \in Client /\ SameRest(a, b) /\ Queues(a, b, item)
          /\ b.reader = "reading" /\ b.acked = a.acked /\ b.tasks = a.tasks
          /\ b.flushed = a.flushed /\ b.batchBuffer = a.batchBuffer
      BY <1>0, <2>2, <2>3, ReaderSendsEffect
    <2> QED BY <2>2, <2>3, <2>4 DEF a, b
  <1> QED BY <1>1, <1>2

\* What an item that is queued adds to the queue.
LEMMA QueueGrows ==
    ASSUME NEW a, ClientTyped(a), NEW b, NEW item \in Item, Queues(a, b, item), NEW m
    PROVE  /\ InQueue(b, m) <=> InQueue(a, m) \/ (HasRoom(a) /\ m \in item.msgs)
           /\ QueuedOnce(a, m) /\ (m \in item.msgs => ~InQueue(a, m)) => QueuedOnce(b, m)
  <1>1. a.send \in Seq(Item) /\ Len(a.send) \in Nat
    BY ClientFields DEF ClientTyped
  <1>2. CASE ~HasRoom(a)
    BY <1>2 DEF Queues, InQueue, QueuedOnce
  <1>3. CASE HasRoom(a)
    <2>1. /\ DOMAIN b.send = 1 .. (Len(a.send) + 1) /\ DOMAIN a.send = 1 .. Len(a.send)
          /\ \A i \in DOMAIN a.send : b.send[i] = a.send[i]
          /\ b.send[Len(a.send) + 1] = item
      BY <1>1, <1>3 DEF Queues
    <2>2. \A i \in DOMAIN b.send : i \in DOMAIN a.send \/ i = Len(a.send) + 1
      BY <1>1, <2>1
    <2>3. \A i \in DOMAIN a.send : i \in DOMAIN b.send /\ i # Len(a.send) + 1
      BY <1>1, <2>1
    <2>4. Len(a.send) + 1 \in DOMAIN b.send
      BY <1>1, <2>1
    <2>5. InQueue(b, m) <=> InQueue(a, m) \/ m \in item.msgs
      BY <2>1, <2>2, <2>3, <2>4 DEF InQueue
    <2>6. QueuedOnce(a, m) /\ (m \in item.msgs => ~InQueue(a, m)) => QueuedOnce(b, m)
      BY <2>1, <2>2 DEF InQueue, QueuedOnce
    <2> QED BY <1>3, <2>5, <2>6
  <1> QED BY <1>2, <1>3

\* An item without messages, queued or dropped, leaves every message where it is.
LEMMA EmptyItemQueued ==
    ASSUME NEW a, ClientTyped(a), NEW b, NEW item \in Item, item.msgs = {},
           Queues(a, b, item), b.hand = a.hand, b.received = a.received,
           b.tasks = a.tasks, b.writer = a.writer,
           WriterHolds(a), OnePlace(a), SentIsKept(a)
    PROVE  WriterHolds(b) /\ OnePlace(b) /\ SentIsKept(b)
  <1>1. \A m : (InQueue(b, m) <=> InQueue(a, m)) /\ (QueuedOnce(a, m) => QueuedOnce(b, m))
    BY QueueGrows
  <1>2. \A m : InWriter(b, m) <=> InWriter(a, m)
    BY DEF InWriter
  <1>3. WriterHolds(b)
    BY DEF WriterHolds
  <1>4. OnePlace(b)
    BY <1>1, <1>2 DEF OnePlace
  <1>5. SentIsKept(b)
    BY <1>1, <1>2 DEF SentIsKept
  <1> QED BY <1>3, <1>4, <1>5

LEMMA AnswerKeeps ==
    ASSUME NEW ls, NEW c \in Clients, client \in [Clients -> Client],
           ClientInv(client[c], ls), ~client[c].sendClosed, Acknowledge(c) \/ Reply(c)
    PROVE  ClientInv(client'[c], ls) /\ MovesOn(client[c], client'[c])
  <1> DEFINE a == client[c]
             b == client'[c]
  <1>1. PICK item \in Item : item.msgs = {} /\ Queues(a, b, item)
    BY AnswerEffect
  <1>2. /\ b \in Client /\ SameRest(a, b) /\ b.tasks = a.tasks
        /\ b.flushed = a.flushed /\ b.batchBuffer = a.batchBuffer
        /\ a.reader \in {"ack", "reply"} /\ b.reader = "reading"
        /\ b.acked = IF a.reader = "ack" THEN Len(a.subs) ELSE a.acked
    BY AnswerEffect
  <1>3. a \in Client /\ ClientTyped(a) /\ ClientInv(a, ls)
    BY DEF ClientInv
  <1> HIDE DEF a, b
  <1>4. ClientTyped(b)
    <2>1. SameTypes(a, b)
      BY <1>2 DEF SameRest, SameTypes
    <2> QED BY <1>1, <1>2, <1>3, <2>1, QueuesTyped
  <1>5. WriterHolds(b) /\ OnePlace(b) /\ SentIsKept(b)
    BY <1>1, <1>2, <1>3, EmptyItemQueued DEF SameRest, ClientInv
  <1>6. DropsCounted(b)
    <2>1. Losses(b) = Losses(a)
      BY <1>2 DEF Losses
    <2>2. /\ a.dropped \in Nat /\ a.requests \in Nat /\ Len(a.subs) \in Nat
          /\ Cardinality(Losses(a)) \in Nat /\ Cardinality(a.flushed) \in Nat
      BY <1>3, ClientFields, SetsOfMessages
    <2>3. Answering(a) = 1 /\ Answering(b) = 0
      BY <1>2 DEF Answering
    <2>4. b.dropped \in {a.dropped, a.dropped + 1}
      BY <1>1 DEF Queues
    <2>5. /\ Cardinality(Losses(a)) <= a.dropped
          /\ a.dropped + Answering(a) < Cardinality(Losses(a)) + a.requests + Len(a.subs)
                                            + Cardinality(a.flushed)
      BY <1>3 DEF ClientInv, DropsCounted
    <2>6. b.requests = a.requests /\ b.subs = a.subs /\ b.flushed = a.flushed
      BY <1>2 DEF SameRest
    <2>7. /\ Cardinality(Losses(b)) <= b.dropped
          /\ b.dropped + Answering(b) < Cardinality(Losses(b)) + b.requests + Len(b.subs)
                                            + Cardinality(b.flushed)
      BY <2>1, <2>2, <2>3, <2>4, <2>5, <2>6
    <2> QED BY <1>2, <1>3, <2>7 DEF ClientInv, DropsCounted
  <1>7. FilterFollows(b, ls)
    <2>1. /\ b.filter = a.filter /\ b.subs = a.subs /\ b.ackedAt = a.ackedAt
          /\ a.filter \in Nat /\ a.acked \in Nat /\ a.ackedAt \in [Msgs -> Nat]
      BY <1>2, <1>3, ClientFields DEF SameRest
    <2>2. /\ 1 <= a.acked /\ a.acked <= a.filter
          /\ a.reader = "ack" => a.filter = Len(a.subs)
          /\ \A m \in Msgs : 1 <= a.ackedAt[m] /\ a.ackedAt[m] <= a.acked
      BY <1>3 DEF ClientInv, FilterFollows
    <2>3. b.acked \in Nat /\ a.acked <= b.acked /\ b.acked <= a.filter
      BY <1>2, <2>1, <2>2
    <2>4. /\ 1 <= b.acked /\ b.acked <= b.filter
          /\ \A m \in Msgs : 1 <= b.ackedAt[m] /\ b.ackedAt[m] <= b.acked
      BY <2>1, <2>2, <2>3
    <2> QED BY <1>2, <1>3, <2>1, <2>4 DEF ClientInv, FilterFollows
  <1>8. MovesOn(a, b)
    BY <1>2 DEF SameRest, MovesOn
  <1> QED BY <1>4, <1>5, <1>6, <1>7, <1>8 DEF ClientInv, a, b

\* What a step of ProcessMessage may do to its message and to the client, with the
\* levels logged.
TaskMoves(a, b, m, ls) ==
    /\ SameRest(a, b) /\ b.acked = a.acked /\ b.reader = a.reader /\ b.flushed = a.flushed
    /\ a.tasks[m] \in {"match", "admit", "allow", "deliver"}
    /\ a.tasks[m] = "match" => b.tasks[m] = "filtered" \/ ls[m] \in a.subs[a.filter].levels
    /\ b.tasks = [a.tasks EXCEPT ![m] = b.tasks[m]]
    /\ \/ /\ b.tasks[m] \in {"admit", "allow", "filtered", "deliver"}
          /\ b.send = a.send /\ b.dropped = a.dropped /\ b.batchBuffer = a.batchBuffer
       \/ /\ b.tasks[m] \in {"limited", "dropped"}
          /\ b.send = a.send /\ b.dropped = a.dropped + 1 /\ b.batchBuffer = a.batchBuffer
       \/ /\ b.tasks[m] = "sent"
          /\ HasRoom(a) /\ Queues(a, b, Log(m)) /\ b.batchBuffer = a.batchBuffer
       \/ /\ b.tasks[m] = "batched"
          /\ b.send = a.send /\ b.dropped = a.dropped
          /\ b.batchBuffer = a.batchBuffer \cup {m}

\* The client a with one task in another state, and these fields.
TaskBecomes(a, b, m, pc, dropped, buffer) ==
    b = [a EXCEPT !.tasks[m] = pc, !.dropped = dropped, !.batchBuffer = buffer]

TaskIs(a, b, m, pc, dropped, buffer) ==
    /\ SameRest(a, b) /\ b.acked = a.acked /\ b.reader = a.reader
    /\ b.flushed = a.flushed /\ b.send = a.send
    /\ b.tasks = [a.tasks EXCEPT ![m] = b.tasks[m]] /\ b.tasks[m] = pc
    /\ b.dropped = dropped /\ b.batchBuffer = buffer

LEMMA TaskSet ==
    ASSUME NEW a \in Client, NEW b, NEW m \in Msgs, NEW pc \in TaskPc,
           NEW dropped \in Nat, NEW buffer \in SUBSET Msgs,
           TaskBecomes(a, b, m, pc, dropped, buffer)
    PROVE  b \in Client /\ TaskIs(a, b, m, pc, dropped, buffer)
  <1> DEFINE tasks == [a.tasks EXCEPT ![m] = pc]
  <1>1. tasks \in [Msgs -> TaskPc] /\ tasks[m] = pc
    BY ClientFields
  <1>2. b = [a EXCEPT !.tasks = tasks, !.dropped = dropped, !.batchBuffer = buffer]
    BY DEF TaskBecomes
  <1>3. tasks = [a.tasks EXCEPT ![m] = tasks[m]]
    BY <1>1
  <1> HIDE DEF tasks
  <1>4. b \in Client
    BY <1>1, <1>2 DEF Client
  <1>5. b.tasks = tasks
    BY <1>1, <1>2 DEF Client
  <1>6. /\ SameRest(a, b) /\ b.acked = a.acked /\ b.reader = a.reader
        /\ b.flushed = a.flushed /\ b.send = a.send
        /\ b.dropped = dropped /\ b.batchBuffer = buffer
    BY <1>1, <1>2 DEF Client, SameRest
  <1> QED BY <1>1, <1>3, <1>4, <1>5, <1>6 DEF TaskIs

LEMMA TaskEffect ==
    ASSUME NEW c \in Clients, client \in [Clients -> Client], NEW m \in Msgs,
           TaskStep(c, m), ~AllowPanics(c, m), ~DeliverPanics(c, m)
    PROVE  client'[c] \in Client /\ TaskMoves(client[c], client'[c], m, logged)
  <1> DEFINE a == client[c]
             b == client'[c]
  <1>0. a \in Client /\ a.dropped \in Nat /\ a.dropped + 1 \in Nat
        /\ a.batchBuffer \in SUBSET Msgs /\ a.batchBuffer \cup {m} \in SUBSET Msgs
    BY ClientFields
  <1>1. CASE Match(c, m)
    <2> DEFINE pc == IF logged[m] \in a.subs[a.filter].levels THEN "admit" ELSE "filtered"
    <2>1. a.tasks[m] = "match"
          /\ TaskBecomes(a, b, m, pc, a.dropped, a.batchBuffer)
      BY <1>0, <1>1 DEF Match, Becomes, TaskBecomes, Client
    <2>2. pc \in TaskPc /\ pc \in {"admit", "filtered"}
          /\ (pc = "filtered" \/ logged[m] \in a.subs[a.filter].levels)
      BY DEF TaskPc
    <2> HIDE DEF pc, a, b
    <2>3. b \in Client /\ TaskIs(a, b, m, pc, a.dropped, a.batchBuffer)
      BY <1>0, <2>1, <2>2, TaskSet
    <2>4. TaskMoves(a, b, m, logged)
      BY <2>1, <2>2, <2>3 DEF TaskMoves, TaskIs
    <2> QED BY <2>3, <2>4 DEF a, b
  <1>2. CASE Admit(c, m) \/ Allow(c, m)
    <2> DEFINE pc == IF a.tasks[m] = "admit" /\ a.rateLimiter THEN "allow" ELSE "deliver"
    <2>1. a.tasks[m] \in {"admit", "allow"}
          /\ TaskBecomes(a, b, m, pc, a.dropped, a.batchBuffer)
      <3>1. CASE Admit(c, m)
        BY <1>0, <3>1 DEF Admit, Becomes, TaskBecomes, Client
      <3>2. CASE Allow(c, m)
        BY <1>0, <3>2 DEF Allow, Becomes, TaskBecomes, Client
      <3> QED BY <1>2, <3>1, <3>2
    <2>2. pc \in TaskPc /\ pc \in {"allow", "deliver"}
      BY DEF TaskPc
    <2> HIDE DEF pc, a, b
    <2>3. b \in Client /\ TaskIs(a, b, m, pc, a.dropped, a.batchBuffer)
      BY <1>0, <2>1, <2>2, TaskSet
    <2>4. TaskMoves(a, b, m, logged)
      BY <2>1, <2>2, <2>3 DEF TaskMoves, TaskIs
    <2> QED BY <2>3, <2>4 DEF a, b
  <1>3. CASE Limit(c, m)
    <2>1. a.tasks[m] = "allow"
          /\ TaskBecomes(a, b, m, "limited", a.dropped + 1, a.batchBuffer)
      BY <1>0, <1>3 DEF Limit, Becomes, TaskBecomes, Client
    <2>2. "limited" \in TaskPc
      BY DEF TaskPc
    <2> HIDE DEF a, b
    <2>3. b \in Client /\ TaskIs(a, b, m, "limited", a.dropped + 1, a.batchBuffer)
      BY <1>0, <2>1, <2>2, TaskSet
    <2>4. TaskMoves(a, b, m, logged)
      BY <2>1, <2>2, <2>3 DEF TaskMoves, TaskIs
    <2> QED BY <2>3, <2>4 DEF a, b
  <1>4. CASE AddToBatch(c, m)
    <2>1. a.tasks[m] = "deliver"
          /\ TaskBecomes(a, b, m, "batched", a.dropped, a.batchBuffer \cup {m})
      BY <1>0, <1>4 DEF AddToBatch, Becomes, TaskBecomes, Client
    <2>2. "batched" \in TaskPc
      BY DEF TaskPc
    <2> HIDE DEF a, b
    <2>3. b \in Client /\ TaskIs(a, b, m, "batched", a.dropped, a.batchBuffer \cup {m})
      BY <1>0, <2>1, <2>2, TaskSet
    <2>4. TaskMoves(a, b, m, logged)
      BY <2>1, <2>2, <2>3 DEF TaskMoves, TaskIs
    <2> QED BY <2>3, <2>4 DEF a, b
  <1>5. CASE Deliver(c, m)
    <2> DEFINE item == Log(m)
               sent == SendMessage(a, item)
               pc == IF HasRoom(a) THEN "sent" ELSE "dropped"
    <2>1. a.tasks[m] = "deliver" /\ b = [sent EXCEPT !.tasks[m] = pc]
      BY <1>5 DEF Deliver, Becomes
    <2>2. pc \in TaskPc
      BY DEF TaskPc
    <2>3. item \in Item
      BY ItemTypes
    <2> HIDE DEF item, sent, pc, a, b
    <2>4. /\ sent \in Client /\ Queues(a, sent, item)
          /\ sent = [a EXCEPT !.send = sent.send, !.dropped = sent.dropped]
      BY <1>0, <2>3, SendMessageEffect DEF sent
    <2>5. /\ SameRest(a, sent) /\ sent.acked = a.acked /\ sent.tasks = a.tasks
          /\ sent.flushed = a.flushed /\ sent.batchBuffer = a.batchBuffer
          /\ sent.reader = a.reader
      BY <1>0, <2>4 DEF Client, SameRest
    <2>6. sent.dropped \in Nat /\ sent.batchBuffer \in SUBSET Msgs
      BY <2>4, ClientFields
    <2>7. TaskBecomes(sent, b, m, pc, sent.dropped, sent.batchBuffer)
      BY <2>1, <2>4 DEF TaskBecomes, Client
    <2>8. b \in Client /\ TaskIs(sent, b, m, pc, sent.dropped, sent.batchBuffer)
      BY <2>2, <2>4, <2>6, <2>7, TaskSet
    <2>9. SameRest(a, b) /\ Queues(a, b, item)
      BY <2>4, <2>5, <2>8 DEF Queues, SameRest, TaskIs
    <2>10. TaskMoves(a, b, m, logged)
      <3>1. /\ b.acked = a.acked /\ b.reader = a.reader /\ b.flushed = a.flushed
            /\ b.tasks = [a.tasks EXCEPT ![m] = b.tasks[m]] /\ b.tasks[m] = pc
            /\ b.batchBuffer = a.batchBuffer
        BY <2>5, <2>8 DEF TaskIs
      <3>2. CASE HasRoom(a)
        BY <2>1, <2>9, <3>1, <3>2 DEF TaskMoves, pc, item
      <3>3. CASE ~HasRoom(a)
        BY <2>1, <2>9, <3>1, <3>3 DEF TaskMoves, Queues, pc
      <3> QED BY <3>2, <3>3
    <2> QED BY <2>8, <2>10 DEF a, b
  <1> QED BY <1>1, <1>2, <1>3, <1>4, <1>5 DEF TaskStep

\* The lost messages after a step of one message's goroutine.
LEMMA LossesAfter ==
    ASSUME NEW a \in Client, NEW b \in Client, NEW m \in Msgs,
           a.tasks[m] \in {"match", "admit", "allow", "deliver"},
           b.tasks = [a.tasks EXCEPT ![m] = b.tasks[m]]
    PROVE  Cardinality(Losses(b)) = IF b.tasks[m] \in {"limited", "dropped"}
                                    THEN Cardinality(Losses(a)) + 1
                                    ELSE Cardinality(Losses(a))
  <1>1. a.tasks \in [Msgs -> TaskPc] /\ IsFiniteSet(Losses(a))
    BY ClientFields, SetsOfMessages
  <1>2. CASE b.tasks[m] \in {"limited", "dropped"}
    <2>1. Losses(b) = Losses(a) \cup {m} /\ m \notin Losses(a)
      BY <1>1, <1>2 DEF Losses
    <2> QED BY <1>1, <1>2, <2>1, FS_AddElement
  <1>3. CASE b.tasks[m] \notin {"limited", "dropped"}
    <2>1. Losses(b) = Losses(a)
      BY <1>1, <1>3 DEF Losses
    <2> QED BY <1>3, <2>1
  <1> QED BY <1>2, <1>3

LEMMA TaskKeeps ==
    ASSUME NEW ls, NEW a, ClientInv(a, ls), NEW b \in Client, NEW m \in Msgs,
           TaskMoves(a, b, m, ls)
    PROVE  ClientInv(b, ls) /\ MovesOn(a, b)
  <1>1. a \in Client /\ ClientTyped(a)
    BY DEF ClientInv, ClientTyped
  <1>2. /\ a.tasks \in [Msgs -> TaskPc] /\ b.tasks \in [Msgs -> TaskPc]
        /\ a.dropped \in Nat /\ a.requests \in Nat /\ Len(a.subs) \in Nat
        /\ a.send \in Seq(Item) /\ Len(a.send) \in Nat /\ SendCap \in Nat
        /\ a.received \in [Msgs -> Nat] /\ a.filter \in Nat /\ a.acked \in Nat
        /\ a.ackedAt \in [Msgs -> Nat]
    BY <1>1, ClientFields, ClientBounds
  <1>3. /\ a.tasks[m] \in {"match", "admit", "allow", "deliver"}
        /\ \A n \in Msgs \ {m} : b.tasks[n] = a.tasks[n]
    BY <1>2 DEF TaskMoves
  <1>4. ClientTyped(b)
    <2>1. SameTypes(a, b)
      BY DEF TaskMoves, SameRest, SameTypes
    <2>2. b.send = a.send \/ Len(b.send) <= SendCap
      BY <1>2 DEF TaskMoves, Queues, HasRoom
    <2> QED BY <1>1, <2>1, <2>2, TypesKept
  <1>5. /\ b.hand = a.hand /\ b.received = a.received /\ b.writer = a.writer
        /\ b.subs = a.subs /\ b.filter = a.filter /\ b.acked = a.acked
        /\ b.ackedAt = a.ackedAt /\ b.requests = a.requests /\ b.flushed = a.flushed
        /\ b.reader = a.reader
    BY DEF TaskMoves, SameRest
  <1>6. WriterHolds(b)
    BY <1>5 DEF ClientInv, WriterHolds
  <1>7. \A n : InWriter(b, n) <=> InWriter(a, n)
    BY <1>5 DEF InWriter
  <1>8. ~InQueue(a, m) /\ ~InWriter(a, m) /\ a.received[m] = 0
    <2>1. InQueue(a, m) \/ InWriter(a, m) \/ a.received[m] > 0 => a.tasks[m] = "sent"
      BY DEF ClientInv, OnePlace
    <2>2. a.received[m] \in Nat
      BY <1>2
    <2> QED BY <1>3, <2>1, <2>2
  <1>9. OnePlace(b) /\ SentIsKept(b)
    <2>1. CASE b.tasks[m] = "sent"
      <3>1. Queues(a, b, Log(m)) /\ HasRoom(a) /\ Log(m) \in Item /\ Log(m).msgs = {m}
        BY <2>1, ItemTypes DEF TaskMoves
      <3>2. \A n : /\ InQueue(b, n) <=> InQueue(a, n) \/ n = m
                   /\ QueuedOnce(a, n) /\ (n = m => ~InQueue(a, n)) => QueuedOnce(b, n)
        BY <1>1, <3>1, QueueGrows
      <3>3. OnePlace(b)
        BY <1>3, <1>5, <1>7, <1>8, <2>1, <3>2 DEF ClientInv, OnePlace
      <3>4. SentIsKept(b)
        <4> SUFFICES ASSUME NEW n \in Msgs, b.tasks[n] = "sent"
                     PROVE  \/ InQueue(b, n) \/ InWriter(b, n)
                            \/ b.received[n] > 0 \/ b.writer = "gone"
          BY DEF SentIsKept
        <4>1. CASE n = m
          BY <3>2, <4>1
        <4>2. CASE n # m
          <5>1. a.tasks[n] = "sent"
            BY <1>3, <4>2
          <5>2. InQueue(a, n) \/ InWriter(a, n) \/ a.received[n] > 0 \/ a.writer = "gone"
            BY <5>1 DEF ClientInv, SentIsKept
          <5> QED BY <1>5, <1>7, <3>2, <5>2
        <4> QED BY <4>1, <4>2
      <3> QED BY <3>3, <3>4
    <2>2. CASE b.tasks[m] # "sent"
      <3>1. b.send = a.send
        BY <2>2 DEF TaskMoves
      <3>2. \A n : (InQueue(b, n) <=> InQueue(a, n)) /\ (QueuedOnce(a, n) => QueuedOnce(b, n))
        BY <3>1 DEF InQueue, QueuedOnce
      <3>3. OnePlace(b)
        BY <1>3, <1>5, <1>7, <1>8, <3>2 DEF ClientInv, OnePlace
      <3>4. SentIsKept(b)
        <4> SUFFICES ASSUME NEW n \in Msgs, b.tasks[n] = "sent"
                     PROVE  \/ InQueue(b, n) \/ InWriter(b, n)
                            \/ b.received[n] > 0 \/ b.writer = "gone"
          BY DEF SentIsKept
        <4>1. CASE n = m
          BY <2>2, <3>2, <4>1
        <4>2. CASE n # m
          <5>1. a.tasks[n] = "sent"
            BY <1>3, <4>2
          <5>2. InQueue(a, n) \/ InWriter(a, n) \/ a.received[n] > 0 \/ a.writer = "gone"
            BY <5>1 DEF ClientInv, SentIsKept
          <5> QED BY <1>5, <1>7, <3>2, <5>2
        <4> QED BY <4>1, <4>2
      <3> QED BY <3>3, <3>4
    <2> QED BY <2>1, <2>2
  <1>10. DropsCounted(b)
    <2>1. /\ Cardinality(Losses(a)) \in Nat /\ Cardinality(a.flushed) \in Nat
          /\ Cardinality(Losses(b)) = IF b.tasks[m] \in {"limited", "dropped"}
                                      THEN Cardinality(Losses(a)) + 1
                                      ELSE Cardinality(Losses(a))
      BY <1>1, <1>3, SetsOfMessages, LossesAfter DEF TaskMoves
    <2>2. Answering(b) = Answering(a) /\ Answering(a) \in Nat
      BY <1>5 DEF Answering
    <2>3. b.dropped = IF b.tasks[m] \in {"limited", "dropped"} THEN a.dropped + 1
                                                               ELSE a.dropped
      BY DEF TaskMoves, Queues
    <2>4. /\ Cardinality(Losses(a)) <= a.dropped
          /\ a.dropped + Answering(a) < Cardinality(Losses(a)) + a.requests + Len(a.subs)
                                            + Cardinality(a.flushed)
      BY DEF ClientInv, DropsCounted
    <2>5. /\ Cardinality(Losses(b)) <= b.dropped
          /\ b.dropped + Answering(b) < Cardinality(Losses(b)) + b.requests + Len(b.subs)
                                            + Cardinality(b.flushed)
      <3> HIDE DEF Losses, Answering
      <3>1. CASE b.tasks[m] \in {"limited", "dropped"}
        <4>1. Cardinality(Losses(b)) = Cardinality(Losses(a)) + 1 /\ b.dropped = a.dropped + 1
          BY <2>1, <2>3, <3>1
        <4>2. Cardinality(Losses(a)) \in Nat /\ Cardinality(a.flushed) \in Nat
          BY <2>1
        <4>3. /\ b.requests = a.requests /\ Len(b.subs) = Len(a.subs)
              /\ Cardinality(b.flushed) = Cardinality(a.flushed)
              /\ Answering(b) = Answering(a)
          BY <1>5, <2>2
        <4>4. /\ a.dropped \in Nat /\ a.requests \in Nat /\ Len(a.subs) \in Nat
              /\ Answering(a) \in Nat
          BY <1>2, <2>2
        <4>5. Cardinality(Losses(b)) <= b.dropped
          BY <2>4, <4>1, <4>2, <4>4
        <4>6. b.dropped + Answering(b) < Cardinality(Losses(b)) + b.requests + Len(b.subs)
                                            + Cardinality(b.flushed)
          <5> DEFINE lost == Cardinality(Losses(a))
                     subs == Len(a.subs)
                     flushed == Cardinality(a.flushed)
                     owed == Answering(a)
                     dropped == a.dropped
                     requests == a.requests
          <5>1. /\ lost \in Nat /\ subs \in Nat /\ flushed \in Nat /\ owed \in Nat
                /\ dropped \in Nat /\ requests \in Nat
                /\ dropped + owed < lost + requests + subs + flushed
            BY <2>4, <4>2, <4>4
          <5>2. (Cardinality(Losses(b)) = lost + 1 /\ b.dropped = dropped + 1
                /\ b.requests = requests /\ Len(b.subs) = subs
                /\ Cardinality(b.flushed) = flushed /\ Answering(b) = owed)
            BY <4>1, <4>3
          <5> HIDE DEF lost, subs, flushed, owed, dropped, requests
          <5>3. (dropped + 1) + owed < (lost + 1) + requests + subs + flushed
            BY <5>1
          <5> QED BY <5>2, <5>3
        <4> QED BY <4>5, <4>6
      <3>2. CASE b.tasks[m] \notin {"limited", "dropped"}
        BY <1>2, <1>5, <2>1, <2>2, <2>3, <2>4, <3>2
      <3> QED BY <3>1, <3>2
    <2>6. b.batchBuffer \cap b.flushed = {}
          /\ \A n \in b.batchBuffer \cup b.flushed : b.tasks[n] = "batched"
      <3>1. /\ a.batchBuffer \cap a.flushed = {}
            /\ \A n \in a.batchBuffer \cup a.flushed : a.tasks[n] = "batched"
        BY DEF ClientInv, DropsCounted
      <3>2. m \notin a.batchBuffer \cup a.flushed
        BY <1>3, <3>1
      <3>3. a.batchBuffer \cup a.flushed \subseteq Msgs
        BY <1>1, ClientFields
      <3>4. \/ b.batchBuffer = a.batchBuffer
            \/ b.batchBuffer = a.batchBuffer \cup {m} /\ b.tasks[m] = "batched"
        BY DEF TaskMoves
      <3> QED BY <1>3, <1>5, <3>1, <3>2, <3>3, <3>4
    <2> QED BY <2>5, <2>6 DEF DropsCounted
  <1>11. FilterFollows(b, ls)
    <2>1. /\ 1 <= a.acked /\ a.acked <= a.filter /\ a.filter \in DOMAIN a.subs
          /\ \A n \in Msgs : a.ackedAt[n] <= a.acked
      BY <1>1 DEF ClientInv, FilterFollows, ClientTyped
    <2>2. a.ackedAt[m] \in Nat /\ a.ackedAt[m] <= a.filter /\ a.filter <= Len(a.subs)
      <3>1. a.subs \in Seq(Subscription)
        BY <1>1, ClientFields
      <3>2. a.filter \in 1 .. Len(a.subs)
        BY <2>1, <3>1
      <3>3. a.ackedAt[m] \in Nat /\ a.ackedAt[m] <= a.acked
        BY <1>2, <2>1
      <3> QED BY <1>2, <2>1, <3>2, <3>3
    <2>3. a.filter \in a.ackedAt[m] .. Len(a.subs)
      BY <1>2, <2>2
    <2>4. ASSUME m \in DOMAIN ls, b.tasks[m] \in Accepting
          PROVE  \E v \in a.ackedAt[m] .. Len(a.subs) : ls[m] \in a.subs[v].levels
      <3>1. CASE a.tasks[m] = "match"
        BY <2>3, <2>4, <3>1 DEF TaskMoves, Accepting
      <3>2. CASE a.tasks[m] # "match"
        BY <1>3, <2>4, <3>2 DEF ClientInv, FilterFollows, Accepting
      <3> QED BY <3>1, <3>2
    <2>5. \A n \in Msgs : n \in DOMAIN ls /\ b.tasks[n] \in Accepting =>
             \E v \in a.ackedAt[n] .. Len(a.subs) : ls[n] \in a.subs[v].levels
      <3> SUFFICES ASSUME NEW n \in Msgs, n \in DOMAIN ls, b.tasks[n] \in Accepting
                   PROVE  \E v \in a.ackedAt[n] .. Len(a.subs) : ls[n] \in a.subs[v].levels
        OBVIOUS
      <3>1. CASE n = m
        BY <2>4, <3>1
      <3>2. CASE n # m
        BY <1>3, <3>2 DEF ClientInv, FilterFollows
      <3> QED BY <3>1, <3>2
    <2> QED BY <1>5, <2>5 DEF ClientInv, FilterFollows
  <1>12. MovesOn(a, b)
    BY <1>3 DEF TaskMoves, SameRest, MovesOn
  <1> QED BY <1>4, <1>6, <1>9, <1>10, <1>11, <1>12 DEF ClientInv

\* What a flush of a batch that is not empty does.
Flushes(a, b) ==
    /\ SameRest(a, b) /\ b.acked = a.acked /\ b.reader = a.reader /\ b.tasks = a.tasks
    /\ a.batchBuffer # {} /\ b.batchBuffer = {} /\ b.flushed = a.flushed \cup a.batchBuffer
    /\ \E item \in Item : item.msgs = {} /\ Queues(a, b, item)

FlushedBy(a, b, t) ==
    b = [SendMessage(a, Batch(BatchOf(a.batchBuffer))) EXCEPT
            !.batchBuffer = {}, !.flushed = @ \cup a.batchBuffer, !.batchers[t].pc = "check"]

LEMMA BatchersSet ==
    ASSUME NEW a \in Client, NEW t \in DOMAIN a.batchers
    PROVE  /\ [a.batchers EXCEPT ![t].pc = "check"] \in Seq(Batcher)
           /\ Len([a.batchers EXCEPT ![t].pc = "check"]) = Len(a.batchers)
  <1> DEFINE s == a.batchers
             p == [s[t] EXCEPT !.pc = "check"]
  <1>1. s \in Seq(Batcher) /\ t \in 1 .. Len(s)
    BY ClientFields
  <1>2. s[t] \in Batcher
    BY <1>1, ElementOfSeq
  <1>3. p \in Batcher
    BY <1>2 DEF Batcher
  <1>4. [s EXCEPT ![t].pc = "check"] = [s EXCEPT ![t] = p]
    OBVIOUS
  <1> HIDE DEF s, p
  <1>5. [s EXCEPT ![t] = p] \in Seq(Batcher) /\ Len([s EXCEPT ![t] = p]) = Len(s)
    BY <1>1, <1>3, SeqExcept
  <1> QED BY <1>4, <1>5 DEF s

LEMMA FlushEffect ==
    ASSUME NEW a \in Client, NEW b, NEW t \in DOMAIN a.batchers, a.batchBuffer # {},
           FlushedBy(a, b, t)
    PROVE  b \in Client /\ Flushes(a, b)
  <1> DEFINE item == Batch(BatchOf(a.batchBuffer))
             sent == SendMessage(a, item)
             batchers == [sent.batchers EXCEPT ![t].pc = "check"]
             flushed == sent.flushed \cup a.batchBuffer
  <1>1. item \in Item /\ item.msgs = {}
    BY ItemTypes
  <1>2. b = [sent EXCEPT !.batchBuffer = {}, !.flushed = flushed, !.batchers = batchers]
    BY DEF FlushedBy
  <1> HIDE DEF item, sent
  <1>3. /\ sent \in Client /\ Queues(a, sent, item)
        /\ sent = [a EXCEPT !.send = sent.send, !.dropped = sent.dropped]
    BY <1>1, SendMessageEffect DEF sent
  <1>4. /\ SameRest(a, sent) /\ sent.acked = a.acked /\ sent.tasks = a.tasks
        /\ sent.flushed = a.flushed /\ sent.reader = a.reader /\ sent.batchers = a.batchers
    BY <1>3 DEF Client, SameRest
  <1>5. batchers \in Seq(Batcher) /\ Len(batchers) = Len(a.batchers)
    BY <1>4, BatchersSet
  <1>6. flushed \in SUBSET Msgs /\ flushed = a.flushed \cup a.batchBuffer
    BY <1>4, ClientFields
  <1> HIDE DEF batchers, flushed
  <1>7. b \in Client
    BY <1>2, <1>3, <1>5, <1>6 DEF Client
  <1>8. /\ b.acked = sent.acked /\ b.reader = sent.reader /\ b.tasks = sent.tasks
        /\ b.batchBuffer = {} /\ b.flushed = flushed /\ b.batchers = batchers
        /\ b.send = sent.send /\ b.dropped = sent.dropped
    BY <1>2, <1>3 DEF Client
  <1>9. SameRest(a, b)
    <2>1. /\ b.conn = sent.conn /\ b.sendClosed = sent.sendClosed /\ b.writer = sent.writer
          /\ b.hand = sent.hand /\ b.subs = sent.subs /\ b.subscription = sent.subscription
          /\ b.filter = sent.filter /\ b.batchTimer = sent.batchTimer
          /\ b.timers = sent.timers /\ b.requests = sent.requests
          /\ b.received = sent.received /\ b.ackedAt = sent.ackedAt
      BY <1>2, <1>3 DEF Client
    <2> QED BY <1>4, <1>5, <1>8, <2>1 DEF SameRest
  <1>10. Queues(a, b, item)
    BY <1>3, <1>8 DEF Queues
  <1> QED BY <1>1, <1>4, <1>6, <1>7, <1>8, <1>9, <1>10 DEF Flushes

LEMMA FlushKeeps ==
    ASSUME NEW ls, NEW a, ClientInv(a, ls), NEW b \in Client, Flushes(a, b)
    PROVE  ClientInv(b, ls) /\ MovesOn(a, b)
  <1>1. a \in Client /\ ClientTyped(a)
    BY DEF ClientInv, ClientTyped
  <1>2. PICK item \in Item : item.msgs = {} /\ Queues(a, b, item)
    BY DEF Flushes
  <1>3. /\ SameRest(a, b) /\ b.acked = a.acked /\ b.reader = a.reader /\ b.tasks = a.tasks
        /\ a.batchBuffer # {} /\ b.batchBuffer = {} /\ b.flushed = a.flushed \cup a.batchBuffer
    BY DEF Flushes
  <1>4. ClientTyped(b)
    <2>1. SameTypes(a, b)
      BY <1>3 DEF SameRest, SameTypes
    <2> QED BY <1>1, <1>2, <2>1, QueuesTyped
  <1>5. WriterHolds(b) /\ OnePlace(b) /\ SentIsKept(b)
    BY <1>1, <1>2, <1>3, EmptyItemQueued DEF SameRest, ClientInv
  <1>6. Cardinality(a.flushed) + 1 <= Cardinality(b.flushed)
    <2>1. PICK m \in a.batchBuffer : TRUE
      BY <1>3
    <2>2. m \notin a.flushed
      BY <2>1 DEF ClientInv, DropsCounted
    <2>3. IsFiniteSet(a.flushed) /\ IsFiniteSet(b.flushed) /\ Cardinality(a.flushed) \in Nat
      BY <1>1, SetsOfMessages
    <2>4. Cardinality(a.flushed \cup {m}) = Cardinality(a.flushed) + 1
      BY <2>2, <2>3, FS_AddElement
    <2>5. a.flushed \cup {m} \subseteq b.flushed
      BY <1>3, <2>1
    <2>6. Cardinality(a.flushed \cup {m}) <= Cardinality(b.flushed)
      BY <2>3, <2>5, FS_Subset
    <2> QED BY <2>4, <2>6
  <1>7. DropsCounted(b)
    <2> DEFINE lost == Cardinality(Losses(a))
               subs == Len(a.subs)
               owed == Answering(a)
               dropped == a.dropped
               requests == a.requests
               flushed == Cardinality(a.flushed)
               flushed2 == Cardinality(b.flushed)
    <2>1. /\ lost \in Nat /\ subs \in Nat /\ flushed \in Nat /\ flushed2 \in Nat
          /\ owed \in Nat /\ dropped \in Nat /\ requests \in Nat
      BY <1>1, ClientFields, SetsOfMessages DEF Answering
    <2>2. lost <= dropped /\ dropped + owed < lost + requests + subs + flushed
      BY DEF ClientInv, DropsCounted
    <2>3. Cardinality(Losses(b)) = lost
      BY <1>3 DEF Losses
    <2>4. b.dropped = dropped \/ b.dropped = dropped + 1
      BY <1>2 DEF Queues
    <2>5. (b.requests = requests /\ Len(b.subs) = subs /\ Answering(b) = owed)
      BY <1>3 DEF SameRest, Answering
    <2>6. flushed + 1 <= flushed2
      BY <1>6
    <2> HIDE DEF lost, subs, owed, dropped, requests, flushed, flushed2
    <2>7. /\ lost <= dropped + 1
          /\ dropped + owed < lost + requests + subs + flushed2
          /\ dropped + 1 + owed < lost + requests + subs + flushed2
      BY <2>1, <2>2, <2>6
    <2>8. /\ Cardinality(Losses(b)) <= b.dropped
          /\ b.dropped + Answering(b) < Cardinality(Losses(b)) + b.requests + Len(b.subs)
                                            + flushed2
      BY <2>2, <2>3, <2>4, <2>5, <2>7
    <2>9. /\ b.batchBuffer \cap b.flushed = {}
          /\ \A m \in b.batchBuffer \cup b.flushed : b.tasks[m] = "batched"
      BY <1>3 DEF ClientInv, DropsCounted
    <2> QED BY <2>8, <2>9 DEF DropsCounted, flushed2
  <1>8. FilterFollows(b, ls)
    <2>1. SameFilter(a, b)
      BY <1>3 DEF SameRest
    <2> QED BY <1>3, <2>1, FilterKept DEF ClientInv
  <1>9. MovesOn(a, b)
    BY <1>3 DEF SameRest, MovesOn
  <1> QED BY <1>4, <1>5, <1>7, <1>8, <1>9 DEF ClientInv

\* The reader's steps that owe an answer from then on.
LEMMA RequestKeeps ==
    ASSUME NEW ls, NEW c \in Clients, client \in [Clients -> Client],
           ClientInv(client[c], ls), ReadRequest(c)
    PROVE  ClientInv(client'[c], ls) /\ MovesOn(client[c], client'[c])
  <1> DEFINE a == client[c]
             b == client'[c]
  <1>1. a \in Client /\ ClientTyped(a) /\ ClientInv(a, ls) /\ a.requests \in Nat
    BY ClientFields DEF ClientInv
  <1>2. a.reader = "reading" /\ b = [a EXCEPT !.requests = a.requests + 1, !.reader = "reply"]
    BY <1>1 DEF ReadRequest, Becomes, Client
  <1> HIDE DEF a, b
  <1>3. b \in Client
    <2> DEFINE n == a.requests + 1
    <2>1. n \in Nat /\ b = [a EXCEPT !.requests = n, !.reader = "reply"]
      BY <1>1, <1>2
    <2> HIDE DEF n
    <2> QED BY <1>1, <2>1 DEF Client, ReaderPc
  <1>4. /\ SameQueues(a, b) /\ SameFilter(a, b) /\ SameTypes(a, b)
        /\ b.dropped = a.dropped /\ b.requests = a.requests + 1
        /\ b.flushed = a.flushed /\ b.batchBuffer = a.batchBuffer
        /\ b.sendClosed = a.sendClosed /\ b.conn = a.conn /\ b.reader = "reply"
    BY <1>1, <1>2 DEF Client, SameTypes
  <1>5. ClientTyped(b)
    BY <1>1, <1>3, <1>4, TypesKept
  <1>6. WriterHolds(b) /\ OnePlace(b) /\ SentIsKept(b)
    BY <1>1, <1>4, QueuesKept DEF ClientInv
  <1>7. DropsCounted(b)
    <2>1. Losses(b) = Losses(a) /\ Answering(a) = 0 /\ Answering(b) = 1
      BY <1>2, <1>4 DEF Losses, Answering
    <2>2. /\ a.dropped \in Nat /\ Len(a.subs) \in Nat
          /\ Cardinality(Losses(a)) \in Nat /\ Cardinality(a.flushed) \in Nat
      BY <1>1, ClientFields, SetsOfMessages
    <2>3. /\ Cardinality(Losses(a)) <= a.dropped
          /\ a.dropped + Answering(a) < Cardinality(Losses(a)) + a.requests + Len(a.subs)
                                            + Cardinality(a.flushed)
      BY <1>1 DEF ClientInv, DropsCounted
    <2>4. /\ Cardinality(Losses(b)) <= b.dropped
          /\ b.dropped + Answering(b) < Cardinality(Losses(b)) + b.requests + Len(b.subs)
                                            + Cardinality(b.flushed)
      BY <1>1, <1>4, <2>1, <2>2, <2>3
    <2> QED BY <1>1, <1>4, <2>4 DEF ClientInv, DropsCounted
  <1>8. FilterFollows(b, ls)
    BY <1>1, <1>4, FilterKept DEF ClientInv
  <1>9. MovesOn(a, b)
    BY <1>2, <1>4 DEF MovesOn
  <1> QED BY <1>5, <1>6, <1>7, <1>8, <1>9 DEF ClientInv, a, b

LEMMA SubscriptionKeeps ==
    ASSUME NEW ls, NEW c \in Clients, client \in [Clients -> Client],
           ClientInv(client[c], ls), NEW s \in Subscriptions, ReadSubscription(c, s)
    PROVE  ClientInv(client'[c], ls) /\ MovesOn(client[c], client'[c])
  <1> DEFINE a == client[c]
             b == client'[c]
             subs == Append(a.subs, s)
  <1>1. /\ a \in Client /\ ClientTyped(a) /\ ClientInv(a, ls)
        /\ a.subs \in Seq(Subscription) /\ Len(a.subs) \in Nat
    BY ClientFields DEF ClientInv
  <1>2. /\ subs \in Seq(Subscription) /\ Len(subs) = Len(a.subs) + 1
        /\ DOMAIN a.subs = 1 .. Len(a.subs) /\ DOMAIN subs = 1 .. (Len(a.subs) + 1)
        /\ \A v \in DOMAIN a.subs : v \in DOMAIN subs /\ subs[v] = a.subs[v]
    BY <1>1, SubscriptionsAssumption
  <1>3. a.reader = "reading" /\ b = [a EXCEPT !.subs = subs, !.reader = "subscribe"]
    BY <1>1 DEF ReadSubscription, Becomes, Client
  <1> HIDE DEF a, b, subs
  <1>4. b \in Client
    BY <1>1, <1>2, <1>3 DEF Client, ReaderPc
  <1>5. /\ SameQueues(a, b) /\ b.subs = subs /\ b.reader = "subscribe"
        /\ b.dropped = a.dropped /\ b.requests = a.requests
        /\ b.flushed = a.flushed /\ b.batchBuffer = a.batchBuffer
        /\ b.sendClosed = a.sendClosed /\ b.conn = a.conn
        /\ b.filter = a.filter /\ b.acked = a.acked /\ b.ackedAt = a.ackedAt
    BY <1>1, <1>3 DEF Client
  <1>6. ClientTyped(b)
    <2>1. /\ b.subscription = a.subscription /\ b.batchTimer = a.batchTimer
          /\ b.timers = a.timers /\ b.batchers = a.batchers
      BY <1>1, <1>3 DEF Client
    <2> QED BY <1>1, <1>2, <1>4, <1>5, <2>1 DEF ClientTyped
  <1>7. WriterHolds(b) /\ OnePlace(b) /\ SentIsKept(b)
    BY <1>1, <1>5, QueuesKept DEF ClientInv
  <1>8. DropsCounted(b)
    <2>1. Losses(b) = Losses(a) /\ Answering(a) = 0 /\ Answering(b) = 1
      BY <1>3, <1>5 DEF Losses, Answering
    <2>2. /\ a.dropped \in Nat /\ a.requests \in Nat
          /\ Cardinality(Losses(a)) \in Nat /\ Cardinality(a.flushed) \in Nat
      BY <1>1, ClientFields, SetsOfMessages
    <2>3. /\ Cardinality(Losses(a)) <= a.dropped
          /\ a.dropped + Answering(a) < Cardinality(Losses(a)) + a.requests + Len(a.subs)
                                            + Cardinality(a.flushed)
      BY <1>1 DEF ClientInv, DropsCounted
    <2>4. Len(b.subs) = Len(a.subs) + 1
      BY <1>2, <1>5
    <2>5. /\ Cardinality(Losses(b)) <= b.dropped
          /\ b.dropped + Answering(b) < Cardinality(Losses(b)) + b.requests + Len(b.subs)
                                            + Cardinality(b.flushed)
      BY <1>1, <1>5, <2>1, <2>2, <2>3, <2>4
    <2> QED BY <1>1, <1>5, <2>5 DEF ClientInv, DropsCounted
  <1>9. FilterFollows(b, ls)
    <2>1. \A m \in Msgs : m \in DOMAIN ls /\ b.tasks[m] \in Accepting =>
             \E v \in b.ackedAt[m] .. Len(b.subs) : ls[m] \in b.subs[v].levels
      <3> SUFFICES ASSUME NEW m \in Msgs, m \in DOMAIN ls, a.tasks[m] \in Accepting
                   PROVE  \E v \in a.ackedAt[m] .. Len(subs) : ls[m] \in subs[v].levels
        BY <1>5
      <3>1. PICK v \in a.ackedAt[m] .. Len(a.subs) : ls[m] \in a.subs[v].levels
        BY <1>1 DEF ClientInv, FilterFollows
      <3>2. a.ackedAt[m] \in Nat /\ 1 <= a.ackedAt[m]
        BY <1>1, ClientFields DEF ClientInv, FilterFollows
      <3>3. v \in DOMAIN a.subs /\ v \in a.ackedAt[m] .. Len(subs)
        BY <1>1, <1>2, <3>1, <3>2
      <3> QED BY <1>2, <3>1, <3>3
    <2>2. /\ 1 <= b.acked /\ b.acked <= b.filter
          /\ \A m \in Msgs : 1 <= b.ackedAt[m] /\ b.ackedAt[m] <= b.acked
      BY <1>1, <1>5 DEF ClientInv, FilterFollows
    <2> QED BY <1>5, <2>1, <2>2 DEF FilterFollows
  <1>10. MovesOn(a, b)
    BY <1>3, <1>5 DEF MovesOn
  <1> QED BY <1>6, <1>7, <1>8, <1>9, <1>10 DEF ClientInv, a, b

LEMMA SetFilterKeeps ==
    ASSUME NEW ls, NEW c \in Clients, client \in [Clients -> Client],
           ClientInv(client[c], ls), SetFilter(c)
    PROVE  ClientInv(client'[c], ls) /\ MovesOn(client[c], client'[c])
  <1> DEFINE a == client[c]
             b == client'[c]
  <1>1. /\ a \in Client /\ ClientTyped(a) /\ ClientInv(a, ls)
        /\ a.subs \in Seq(Subscription) /\ Len(a.subs) \in Nat
        /\ Len(a.subs) \in DOMAIN a.subs /\ a.filter \in DOMAIN a.subs
    BY ClientFields, LastSubscription DEF ClientInv, ClientTyped
  <1>2. a.reader = "filter" /\ b = [a EXCEPT !.filter = Len(a.subs), !.reader = "limiter"]
    BY <1>1 DEF SetFilter, Becomes
  <1> HIDE DEF a, b
  <1>3. b \in Client
    BY <1>1, <1>2 DEF Client, ReaderPc
  <1>4. /\ SameQueues(a, b) /\ b.subs = a.subs /\ b.reader = "limiter"
        /\ b.dropped = a.dropped /\ b.requests = a.requests
        /\ b.flushed = a.flushed /\ b.batchBuffer = a.batchBuffer
        /\ b.sendClosed = a.sendClosed /\ b.conn = a.conn
        /\ b.filter = Len(a.subs) /\ b.acked = a.acked /\ b.ackedAt = a.ackedAt
    BY <1>1, <1>2 DEF Client
  <1>5. ClientTyped(b)
    <2>1. /\ b.subscription = a.subscription /\ b.batchTimer = a.batchTimer
          /\ b.timers = a.timers /\ b.batchers = a.batchers
      BY <1>1, <1>2 DEF Client
    <2> QED BY <1>1, <1>3, <1>4, <2>1 DEF ClientTyped
  <1>6. WriterHolds(b) /\ OnePlace(b) /\ SentIsKept(b)
    BY <1>1, <1>4, QueuesKept DEF ClientInv
  <1>7. DropsCounted(b)
    <2>1. SameDrops(a, b)
      BY <1>2, <1>4 DEF SameDrops, Answering
    <2> QED BY <1>1, <2>1, DropsKept DEF ClientInv
  <1>8. FilterFollows(b, ls)
    <2>1. a.acked \in Nat /\ a.acked <= a.filter /\ a.filter \in 1 .. Len(a.subs)
      BY <1>1, ClientFields DEF ClientInv, FilterFollows
    <2>2. a.acked <= Len(a.subs)
      BY <1>1, <2>1
    <2> QED BY <1>1, <1>4, <2>2 DEF ClientInv, FilterFollows
  <1>9. MovesOn(a, b)
    BY <1>2, <1>4 DEF MovesOn
  <1> QED BY <1>5, <1>6, <1>7, <1>8, <1>9 DEF ClientInv, a, b

\* What the writer's steps leave alone.
WriterOnly(a, b) ==
    /\ SameFilter(a, b) /\ b.dropped = a.dropped /\ b.requests = a.requests
    /\ b.flushed = a.flushed /\ b.batchBuffer = a.batchBuffer
    /\ b.sendClosed = a.sendClosed /\ b.conn \in {a.conn, "closed"} /\ b.reader = a.reader
    /\ b.subscription = a.subscription /\ b.batchTimer = a.batchTimer
    /\ b.timers = a.timers /\ b.batchers = a.batchers
    /\ a.writer # "none" /\ b.tasks = a.tasks

LEMMA WriterKeeps ==
    ASSUME NEW ls, NEW a, ClientInv(a, ls), NEW b \in Client, WriterOnly(a, b),
           Len(b.send) <= SendCap, WriterHolds(b), OnePlace(b), SentIsKept(b)
    PROVE  ClientInv(b, ls) /\ MovesOn(a, b)
  <1>1. a \in Client /\ ClientTyped(a)
    BY DEF ClientInv, ClientTyped
  <1>2. ClientTyped(b)
    <2>1. Len(b.hand) <= 1
      BY DEF WriterHolds
    <2> QED BY <1>1, <2>1 DEF WriterOnly, ClientTyped
  <1>3. DropsCounted(b)
    <2>1. SameDrops(a, b)
      <3>1. Answering(b) <= Answering(a)
        BY DEF WriterOnly, Answering
      <3> QED BY <3>1 DEF WriterOnly, SameDrops
    <2> QED BY <1>1, <2>1, DropsKept DEF ClientInv
  <1>4. FilterFollows(b, ls)
    BY FilterKept DEF WriterOnly, ClientInv
  <1>5. MovesOn(a, b)
    BY DEF WriterOnly, MovesOn
  <1> QED BY <1>2, <1>3, <1>4, <1>5 DEF ClientInv

\* The writer takes the first item of the queue in hand.
LEMMA ReceiveKeeps ==
    ASSUME NEW ls, NEW c \in Clients, client \in [Clients -> Client],
           ClientInv(client[c], ls), WriterReceives(c)
    PROVE  ClientInv(client'[c], ls) /\ MovesOn(client[c], client'[c])
  <1> DEFINE a == client[c]
             b == client'[c]
             first == <<Head(a.send)>>
             rest == Tail(a.send)
  <1>1. /\ a \in Client /\ ClientTyped(a) /\ ClientInv(a, ls)
        /\ a.send \in Seq(Item) /\ Len(a.send) \in Nat /\ Len(a.send) <= SendCap
        /\ a.hand \in Seq(Item)
    BY ClientFields DEF ClientInv, ClientTyped
  <1>2. /\ a.writer = "waiting" /\ a.send # <<>>
        /\ b = [a EXCEPT !.hand = first, !.send = rest, !.writer = "writing"]
    BY <1>1 DEF WriterReceives, Becomes
  <1>3. /\ first \in Seq(Item) /\ Len(first) = 1 /\ DOMAIN first = {1}
        /\ first[1] = a.send[1]
        /\ rest \in Seq(Item) /\ Len(rest) = Len(a.send) - 1
        /\ DOMAIN a.send = 1 .. Len(a.send) /\ Len(a.send) >= 1
        /\ DOMAIN rest = 1 .. (Len(a.send) - 1)
        /\ \A i \in DOMAIN rest : rest[i] = a.send[i + 1]
    BY <1>1, <1>2
  <1> HIDE DEF a, b, first, rest
  <1>4. b \in Client
    BY <1>1, <1>2, <1>3 DEF Client
  <1>5. WriterOnly(a, b) /\ b.received = a.received
        /\ b.hand = first /\ b.send = rest /\ b.writer = "writing" /\ b.tasks = a.tasks
    BY <1>1, <1>2 DEF Client, WriterOnly
  <1>6. Len(b.send) <= SendCap /\ WriterHolds(b)
    BY <1>1, <1>3, <1>5, ClientBounds DEF WriterHolds
  <1>7. \A m : ~InWriter(a, m)
    <2>1. Len(a.hand) = 0
      BY <1>1, <1>2 DEF ClientInv, WriterHolds
    <2>2. DOMAIN a.hand = {}
      BY <1>1, <2>1
    <2> QED BY <2>2 DEF InWriter
  <1>8. \A m : InWriter(b, m) <=> m \in a.send[1].msgs
    BY <1>3, <1>5 DEF InWriter
  <1>9. \A m : InQueue(b, m) <=> \E i \in DOMAIN a.send : i # 1 /\ m \in a.send[i].msgs
    <2> SUFFICES ASSUME NEW m
                 PROVE  InQueue(b, m) <=> \E i \in DOMAIN a.send : i # 1 /\ m \in a.send[i].msgs
      OBVIOUS
    <2>1. ASSUME InQueue(b, m)
          PROVE  \E i \in DOMAIN a.send : i # 1 /\ m \in a.send[i].msgs
      <3>1. PICK i \in DOMAIN rest : m \in rest[i].msgs
        BY <1>5, <2>1 DEF InQueue
      <3>2. i + 1 \in DOMAIN a.send /\ i + 1 # 1 /\ rest[i] = a.send[i + 1]
        BY <1>1, <1>3
      <3> QED BY <3>1, <3>2
    <2>2. ASSUME NEW i \in DOMAIN a.send, i # 1, m \in a.send[i].msgs
          PROVE  InQueue(b, m)
      <3>1. i - 1 \in DOMAIN rest /\ (i - 1) + 1 = i
        BY <1>1, <1>3, <2>2
      <3>2. m \in rest[i - 1].msgs
        BY <1>3, <2>2, <3>1
      <3> QED BY <1>5, <3>1, <3>2 DEF InQueue
    <2> QED BY <2>1, <2>2
  <1>10. \A m : QueuedOnce(a, m) => QueuedOnce(b, m)
    <2> SUFFICES ASSUME NEW m, QueuedOnce(a, m), NEW i \in DOMAIN rest, NEW j \in DOMAIN rest,
                        m \in rest[i].msgs, m \in rest[j].msgs
                 PROVE  i = j
      BY <1>5 DEF QueuedOnce
    <2>1. i + 1 \in DOMAIN a.send /\ j + 1 \in DOMAIN a.send /\ i \in Nat /\ j \in Nat
      BY <1>1, <1>3
    <2>2. i + 1 = j + 1
      BY <1>3, <2>1 DEF QueuedOnce
    <2> QED BY <2>1, <2>2
  <1>11. 1 \in DOMAIN a.send
    BY <1>1, <1>3
  <1>12. \A m : InQueue(b, m) \/ InWriter(b, m) <=> InQueue(a, m)
    BY <1>8, <1>9, <1>11 DEF InQueue
  <1>13. OnePlace(b)
    <2>1. \A m \in Msgs : InQueue(b, m) => ~InWriter(b, m)
      BY <1>1, <1>8, <1>9, <1>11 DEF ClientInv, OnePlace, QueuedOnce
    <2> QED BY <1>1, <1>5, <1>10, <1>12, <2>1 DEF ClientInv, OnePlace
  <1>14. SentIsKept(b)
    BY <1>1, <1>2, <1>5, <1>7, <1>12 DEF ClientInv, SentIsKept
  <1>15. ClientInv(b, ls) /\ MovesOn(a, b)
    BY <1>1, <1>4, <1>5, <1>6, <1>13, <1>14, WriterKeeps
  <1> QED BY <1>15 DEF a, b

\* The writer has written, has failed, or ends with the channel.
LEMMA WriteKeeps ==
    ASSUME NEW ls, NEW c \in Clients, client \in [Clients -> Client],
           ClientInv(client[c], ls), WriterWrites(c) \/ WriteFails(c) \/ WriterEnds(c)
    PROVE  ClientInv(client'[c], ls) /\ MovesOn(client[c], client'[c])
  <1> DEFINE a == client[c]
             b == client'[c]
             ms == a.hand[1].msgs
             received == [m \in Msgs |-> IF m \in ms THEN a.received[m] + 1 ELSE a.received[m]]
  <1>1. /\ a \in Client /\ ClientTyped(a) /\ ClientInv(a, ls)
        /\ a.hand \in Seq(Item) /\ Len(a.hand) \in Nat /\ Len(a.send) <= SendCap
        /\ a.received \in [Msgs -> Nat]
    BY ClientFields DEF ClientInv, ClientTyped
  <1>2. received \in [Msgs -> Nat]
    BY <1>1
  <1>3. \/ /\ a.writer = "writing"
           /\ b = [a EXCEPT !.received = received, !.hand = <<>>, !.writer = "waiting"]
        \/ a.writer = "writing" /\ b = [a EXCEPT !.hand = <<>>, !.writer = "gone"]
        \/ a.writer = "waiting" /\ b = [a EXCEPT !.writer = "gone", !.conn = "closed"]
    BY <1>1 DEF WriterWrites, WriteFails, WriterEnds, Becomes
  <1>4. <<>> \in Seq(Item) /\ Len(<<>>) = 0 /\ DOMAIN <<>> = {}
    OBVIOUS
  <1> HIDE DEF a, b, received
  <1>5. b \in Client /\ WriterOnly(a, b) /\ b.send = a.send /\ b.tasks = a.tasks
    <2>0. a.writer # "none"
      BY <1>3
    <2>1. CASE b = [a EXCEPT !.received = received, !.hand = <<>>, !.writer = "waiting"]
      BY <1>1, <1>2, <1>4, <2>0, <2>1 DEF Client, WriterOnly
    <2>2. CASE b = [a EXCEPT !.hand = <<>>, !.writer = "gone"]
      BY <1>1, <1>4, <2>0, <2>2 DEF Client, WriterOnly
    <2>3. CASE b = [a EXCEPT !.writer = "gone", !.conn = "closed"]
      BY <1>1, <2>0, <2>3 DEF Client, WriterOnly
    <2> QED BY <1>3, <2>1, <2>2, <2>3
  <1>6. \A m : (InQueue(b, m) <=> InQueue(a, m)) /\ (QueuedOnce(a, m) => QueuedOnce(b, m))
    BY <1>5 DEF InQueue, QueuedOnce
  <1>7. WriterHolds(b) /\ \A m : ~InWriter(b, m)
    <2>1. b.hand \in Seq(Item) /\ Len(b.hand) = 0 /\ b.writer # "writing"
      <3>1. CASE a.writer = "writing"
        <4>1. b.hand = <<>> /\ b.writer # "writing"
          BY <1>1, <1>3, <3>1 DEF Client
        <4> QED BY <1>4, <4>1
      <3>2. CASE a.writer = "waiting"
        <4>1. b.hand = a.hand /\ b.writer # "writing"
          BY <1>1, <1>3, <3>2 DEF Client
        <4> QED BY <1>1, <3>2, <4>1 DEF ClientInv, WriterHolds
      <3> QED BY <1>3, <3>1, <3>2
    <2>2. DOMAIN b.hand = {}
      BY <2>1
    <2> QED BY <2>1, <2>2 DEF WriterHolds, InWriter
  <1>8. \/ b.writer = "gone" /\ b.received = a.received
        \/ /\ a.writer = "writing" /\ b.received = received
           /\ \A m \in Msgs : InWriter(a, m) <=> m \in ms
    <2>1. CASE a.writer = "writing" /\ b.writer # "gone"
      <3>1. b.received = received
        BY <1>1, <1>3, <2>1 DEF Client
      <3>2. DOMAIN a.hand = {1}
        BY <1>1, <2>1 DEF ClientInv, WriterHolds
      <3> QED BY <2>1, <3>1, <3>2 DEF InWriter
    <2>2. CASE b.writer = "gone"
      BY <1>1, <1>3, <2>2 DEF Client
    <2> QED BY <1>1, <1>3, <2>1, <2>2 DEF Client
  <1>9. OnePlace(b) /\ SentIsKept(b)
    <2>1. CASE b.writer = "gone" /\ b.received = a.received
      BY <1>1, <1>5, <1>6, <1>7, <2>1 DEF ClientInv, OnePlace, SentIsKept
    <2>2. CASE /\ a.writer = "writing" /\ b.received = received
               /\ \A m \in Msgs : InWriter(a, m) <=> m \in ms
      <3>1. \A m \in Msgs : /\ a.received[m] \in Nat
                            /\ b.received[m] = IF InWriter(a, m) THEN a.received[m] + 1
                                                                 ELSE a.received[m]
        BY <1>1, <2>2 DEF received
      <3>2. OnePlace(b)
        BY <1>1, <1>5, <1>6, <1>7, <3>1 DEF ClientInv, OnePlace
      <3>3. SentIsKept(b)
        BY <1>1, <1>5, <1>6, <2>2, <3>1 DEF ClientInv, SentIsKept
      <3> QED BY <3>2, <3>3
    <2> QED BY <1>8, <2>1, <2>2
  <1>10. ClientInv(b, ls) /\ MovesOn(a, b)
    BY <1>1, <1>5, <1>7, <1>9, WriterKeeps
  <1> QED BY <1>10 DEF a, b

=============================================================================
