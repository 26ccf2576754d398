---------------------------- MODULE StreamPage_proofs ----------------------------
(***************************************************************************)
(* What is proved of StreamPage, for all settings, bounds and clocks.  A   *)
(* step of the page is a step of the client or none, so that what is       *)
(* proved of the client holds on the page.                                 *)
(***************************************************************************)
EXTENDS StreamPage, LogStreamClient_proofs, SequenceTheorems, FiniteSetTheorems

----------------------------------------------------------------------------
(* The client on the page.                                                 *)

LEMMA PageStepIsClientStep == [StreamPageNext]_allVars => [StreamNext]_streamVars
  BY DEF StreamPageNext, allVars, StreamNext, Receive, Tick, ClearMessages, Clock, TabHides, TabShows,
         PageOpens, TimerFires, PageConnects, ConnectCallback, SocketSettles, ConnectionLost,
         Disconnects, Applies, Alone

\* The client's invariants, on the page.
THEOREM ClientOnPage ==
    StreamPageSpec => [](StreamTypeOK /\ ConnectedMeansOpen /\ SubscriptionInForce)
  <1>1. StreamPageInit => StreamInit
    BY DEF StreamPageInit
  <1>2. StreamInit => StreamTypeOK /\ ConnectedMeansOpen /\ SubscriptionInvariant
    BY StreamInitTyped DEF StreamInit, ConnectedMeansOpen, SubscriptionInvariant,
                           SubscriptionInForce, InUse, StoredIsSaved
  <1>3. SubscriptionInvariant => SubscriptionInForce
    BY DEF SubscriptionInvariant
  <1> QED BY <1>1, <1>2, <1>3, StreamStepTyped, ConnectedMeansOpenStep, SubscriptionStep,
             PageStepIsClientStep, PTL DEF StreamPageSpec

----------------------------------------------------------------------------
(* Type correctness of the page.                                           *)

LEMMA BucketTimeTyped ==
    ASSUME display \in Filters, NEW m \in Message
    PROVE  BucketTime(m) \in 0 .. MaxTime
  <1>1. BucketSize[display] \in Nat \ {0} /\ m.time \in 0 .. MaxTime /\ MaxTime \in Nat
    BY StreamPageAssumption DEF StreamPageAssumption, Message
  <1>2. ASSUME NEW t \in Nat, NEW n \in Nat \ {0}
        PROVE  (t \div n) * n \in 0 .. t
    BY <1>2, SMT
  <1>3. m.time \in Nat /\ m.time <= MaxTime
    BY <1>1
  <1>4. (m.time \div BucketSize[display]) * BucketSize[display] \in 0 .. m.time
    BY <1>1, <1>2, <1>3
  <1>5. BucketTime(m) \in 0 .. m.time
    BY <1>4 DEF BucketTime
  <1> QED BY <1>1, <1>3, <1>5

LEMMA CountInTyped ==
    ASSUME NEW s \in Seq(Message), NEW b
    PROVE  CountIn(b, s) \in Nat
  <1>1. IsFiniteSet(1 .. Len(s)) /\ Len(s) \in Nat
    BY FS_Interval, LenProperties
  <1>2. DOMAIN s = 1 .. Len(s)
    BY LenProperties
  <1>3. {i \in DOMAIN s : BucketTime(s[i]) = b} \subseteq 1 .. Len(s)
    BY <1>2
  <1> QED BY <1>1, <1>3, FS_Subset, FS_CardinalityType DEF CountIn

LEMMA TrimmedTyped ==
    ASSUME display \in Filters, NEW s \in Seq(Message)
    PROVE  Trimmed(s) \in Seq(Message)
  <1> DEFINE extra == Len(s) - MaxMessages[display]
  <1>1. MaxMessages[display] \in Nat /\ Len(s) \in Nat
    BY StreamPageAssumption, LenProperties DEF StreamPageAssumption
  <1>2. CASE extra > 0
    <2>1. \A i \in extra + 1 .. Len(s) : s[i] \in Message
      BY <1>1, <1>2, ElementOfSeq
    <2>2. SubSeq(s, extra + 1, Len(s)) \in Seq(Message)
      BY <1>1, <2>1, SubSeqProperties
    <2> QED BY <1>1, <1>2, <2>2 DEF Trimmed, LastOf
  <1>3. CASE ~(extra > 0)
    BY <1>1, <1>3 DEF Trimmed, LastOf
  <1> QED BY <1>2, <1>3

\* What each part of a step does to the page's variables.
PageTyped ==
    /\ messageBuffer \in Seq(Message) /\ messages \in Seq(Message) /\ received \in Seq(Message)
    /\ DOMAIN chartData \subseteq 0 .. MaxTime
    /\ \A b \in DOMAIN chartData : chartData[b] \in Nat
    /\ now \in 0 .. MaxTime

\* What arrives is a sequence of messages, added to the buffer and to what came in.
LEMMA ReceiveAppends ==
    ASSUME PageTyped, NEW s \in Sockets, Receive(s)
    PROVE  \E batch \in Seq(Message) : /\ messageBuffer' = messageBuffer \o batch
                                       /\ received' = received \o batch
  <1>1. PICK m \in Incoming(s) : /\ messageBuffer' = messageBuffer \o <<m>>
                                 /\ received' = received \o <<m>>
    BY DEF Receive
  <1>2. Len(received) \in Nat /\ Len(received) < MaxReceived /\ MaxReceived \in Nat /\ MaxTime \in Nat
    BY StreamPageAssumption, LenProperties DEF StreamPageAssumption, PageTyped, Receive
  <1>3. m \in Message
    <2>1. CASE m \in {[id |-> Len(received) + 1, time |-> t] : t \in 0 .. now}
      <3>1. PICK t \in 0 .. now : m = [id |-> Len(received) + 1, time |-> t]
        BY <2>1
      <3>2. Len(received) + 1 \in 1 .. MaxReceived /\ t \in 0 .. MaxTime
        BY <1>2 DEF PageTyped
      <3> QED BY <3>1, <3>2 DEF Message
    <2>2. CASE m \in ToSet(received)
      BY <2>2, ElementOfSeq, LenProperties DEF ToSet, PageTyped
    <2> QED BY <1>1, <2>1, <2>2 DEF Incoming
  <1>4. <<m>> \in Seq(Message)
    BY <1>3
  <1> QED BY <1>1, <1>4

LEMMA ReceiveTyped ==
    ASSUME PageTyped, NEW s \in Sockets, Receive(s)
    PROVE  PageTyped'
  <1>1. PICK batch \in Seq(Message) : /\ messageBuffer' = messageBuffer \o batch
                                      /\ received' = received \o batch
    BY ReceiveAppends
  <1>2. messageBuffer \o batch \in Seq(Message) /\ received \o batch \in Seq(Message)
    BY ConcatProperties DEF PageTyped
  <1> QED BY <1>1, <1>2 DEF Receive, PageTyped

LEMMA TickTyped ==
    ASSUME PageTyped, display \in Filters, Tick
    PROVE  PageTyped'
  <1> DEFINE kept == {b \in DOMAIN chartData \cup {BucketTime(m) : m \in ToSet(messageBuffer)} :
                         b >= now - Window[display]}
  <1>1. chartData' = [b \in kept |-> CountIn(b, messageBuffer)
                          + (IF b \in DOMAIN chartData THEN chartData[b] ELSE 0)]
    BY DEF Tick
  <1>2. \A b : CountIn(b, messageBuffer) \in Nat
    BY CountInTyped DEF PageTyped
  <1>3. ToSet(messageBuffer) \subseteq Message
    BY ElementOfSeq, LenProperties DEF ToSet, PageTyped
  <1>4. kept \subseteq 0 .. MaxTime
    BY <1>3, BucketTimeTyped DEF PageTyped
  <1>5. DOMAIN chartData' \subseteq 0 .. MaxTime
    BY <1>1, <1>4
  <1>6. \A b \in DOMAIN chartData' : chartData'[b] \in Nat
    BY <1>1, <1>2 DEF PageTyped
  <1>7. messages' \in Seq(Message)
    BY TrimmedTyped, ConcatProperties DEF Tick, PageTyped
  <1>8. messageBuffer' \in Seq(Message)
    BY EmptySeq DEF Tick
  <1> QED BY <1>5, <1>6, <1>7, <1>8 DEF Tick, PageTyped

LEMMA PageStepTyped ==
    StreamPageTypeOK /\ [StreamPageNext]_allVars => StreamPageTypeOK'
  <1> SUFFICES ASSUME StreamPageTypeOK, [StreamPageNext]_allVars
               PROVE  StreamPageTypeOK'
    OBVIOUS
  <1>1. StreamTypeOK'
    BY StreamStepTyped, PageStepIsClientStep DEF StreamPageTypeOK
  <1>2. PageTyped'
    <2>1. PageTyped
      BY DEF StreamPageTypeOK, PageTyped
    <2>2. ASSUME NEW s \in Sockets, Receive(s)
          PROVE  PageTyped'
      BY <2>1, <2>2, ReceiveTyped
    <2>3. CASE Tick
      BY <2>1, <2>3, TickTyped DEF StreamPageTypeOK
    <2>4. CASE ClearMessages
      <3>1. <<>> \in Seq(Message) /\ DOMAIN <<>> = {}
        BY EmptySeq
      <3> QED BY <2>1, <2>4, <3>1 DEF ClearMessages, PageTyped
    <2>5. CASE Clock
      <3>1. now' \in 0 .. MaxTime
        BY <2>1, <2>5, StreamPageAssumption DEF Clock, PageTyped, StreamPageAssumption
      <3> QED BY <2>1, <2>5, <3>1 DEF Clock, displayVars, PageTyped
    <2>6. CASE UNCHANGED <<displayVars, now>>
      BY <2>1, <2>6 DEF displayVars, PageTyped
    <2>7. (\E s \in Sockets : Receive(s)) \/ Tick \/ ClearMessages \/ Clock
            \/ UNCHANGED <<displayVars, now>>
      BY DEF StreamPageNext, allVars, pageVars, TabHides, TabShows, PageOpens, TimerFires, PageConnects,
             ConnectCallback, SocketSettles, ConnectionLost, Disconnects, Applies, Alone, Rest
    <2> QED BY <2>2, <2>3, <2>4, <2>5, <2>6, <2>7
  <1>3. display' \in Filters /\ updating' \in BOOLEAN /\ hidden' \in BOOLEAN
    <2>1. form' \in Filters
      BY <1>1 DEF StreamTypeOK
    <2>2. /\ display' \in {display, form'} /\ updating' \in {updating, TRUE, FALSE}
          /\ hidden' \in {hidden, TRUE, FALSE}
      BY DEF StreamPageNext, allVars, pageVars, Receive, Tick, ClearMessages, Clock, TabHides, TabShows,
             PageOpens, TimerFires, PageConnects, ConnectCallback, SocketSettles, ConnectionLost,
             Disconnects, Applies, Alone, Rest, StartUpdates, StopUpdates, LoadSettings, KeepSettings
    <2> QED BY <2>1, <2>2 DEF StreamPageTypeOK
  <1>4. resized' \in BOOLEAN
    BY DEF StreamPageTypeOK, StreamPageNext, allVars, pageVars, Receive, Tick, ClearMessages, Clock, TabHides,
           TabShows, PageOpens, TimerFires, PageConnects, ConnectCallback, SocketSettles,
           ConnectionLost, Disconnects, Applies, Alone, Rest, StartUpdates, StopUpdates,
           LoadSettings, KeepSettings
  <1> QED BY <1>1, <1>2, <1>3, <1>4 DEF PageTyped, StreamPageTypeOK

LEMMA PageInitTyped == StreamPageInit => StreamPageTypeOK
  <1> SUFFICES ASSUME StreamPageInit
               PROVE  StreamPageTypeOK
    OBVIOUS
  <1>1. <<>> \in Seq(Message) /\ DOMAIN <<>> = {}
    BY EmptySeq
  <1>2. 0 \in 0 .. MaxTime /\ DefaultFilter \in Filters
    BY StreamPageAssumption, StreamAssumption DEF StreamPageAssumption, StreamAssumption
  <1>3. StreamTypeOK
    BY StreamInitTyped DEF StreamPageInit
  <1> QED BY <1>1, <1>2, <1>3 DEF StreamPageInit, StreamPageTypeOK

\* Every variable of the page and of its client keeps its type.
THEOREM StreamPageTyped == StreamPageSpec => []StreamPageTypeOK
  BY PageInitTyped, PageStepTyped, PTL DEF StreamPageSpec

\* The page's client takes itself for connected only over an open socket.
THEOREM PageConnectedOverOpenSocket == StreamPageSpec => []ConnectedMeansOpen
  BY ClientOnPage, PTL

----------------------------------------------------------------------------
(* The updates of a connected client in a visible tab.                     *)

LEMMA UpdatesRunStep ==
    StreamPageTypeOK /\ UpdatesRun /\ [StreamPageNext]_allVars => UpdatesRun'
  <1> SUFFICES ASSUME StreamPageTypeOK, UpdatesRun, [StreamPageNext]_allVars, connected', ~hidden'
               PROVE  updating' \/ callbacks' > 0
    BY DEF UpdatesRun
  <1>c. callbacks \in Nat /\ updating \in BOOLEAN
    BY DEF StreamPageTypeOK, StreamTypeOK
  \* The socket that connects the client leaves a callback behind.
  <1>1. ASSUME NEW s \in Sockets, SocketOpens(s)
        PROVE  callbacks' > 0
    BY <1>1, <1>c DEF SocketOpens
  <1>2. ASSUME NEW s \in Sockets, SocketCloses(s)
        PROVE  FALSE
    BY <1>2 DEF SocketCloses
  \* The callback may be the last one, and starts the updates.
  <1>3. CASE ConnectCallback
    BY <1>3 DEF ConnectCallback, CallbackFires, StartUpdates, connectionVars
  <1>4. CASE TabShows
    BY <1>4 DEF TabShows, StartUpdates, streamVars, connectionVars
  <1>5. CASE EndConnection
    BY <1>5 DEF EndConnection
  <1>6. CASE connected /\ ~hidden /\ UNCHANGED <<updating, callbacks>>
    BY <1>6 DEF UpdatesRun
  <1>7. CASE BeginConnection
    BY <1>7 DEF BeginConnection
  <1>8. \/ \E s \in Sockets : SocketOpens(s) \/ SocketCloses(s)
        \/ ConnectCallback \/ TabShows \/ EndConnection \/ BeginConnection
        \/ connected /\ ~hidden /\ UNCHANGED <<updating, callbacks>>
    BY DEF StreamPageNext, allVars, pageVars, streamVars, Receive, Tick, ClearMessages, Clock, TabHides,
           PageOpens, TimerFires, PageConnects, SocketSettles, ConnectionLost, Disconnects,
           Applies, Alone, Rest, KeepSettings, OpenPage, AutoConnect, ClickConnect,
           ClickDisconnect, ClickApply, Edit, ReconnectFires, connectionVars
  <1> QED BY <1>1, <1>2, <1>3, <1>4, <1>5, <1>6, <1>7, <1>8

\* Whichever sockets close late and however often the tab is hidden, no connected client in a
\* visible tab is left without the interval that shows its messages.
THEOREM UpdatesGoOn == StreamPageSpec => []UpdatesRun
  <1>1. StreamPageInit => UpdatesRun
    BY DEF StreamPageInit, StreamInit, UpdatesRun
  <1> QED BY <1>1, UpdatesRunStep, StreamPageTyped, PTL DEF StreamPageSpec

----------------------------------------------------------------------------
(* The list and the buffer are the newest messages.                        *)

LEMMA EndOf ==
    ASSUME NEW S, NEW s \in Seq(S), NEW d \in 0 .. Len(s)
    PROVE  /\ SubSeq(s, d + 1, Len(s)) \in Seq(S)
           /\ Len(SubSeq(s, d + 1, Len(s))) = Len(s) - d
           /\ \A i \in 1 .. Len(s) - d : SubSeq(s, d + 1, Len(s))[i] = s[d + i]
  <1> DEFINE n == Len(s)
             first == d + 1
             end == SubSeq(s, first, n)
  <1>1. n \in Nat /\ d \in Nat /\ d <= n
    BY LenProperties
  <1>2. first \in Int /\ n \in Int
    BY <1>1
  <1>3. \A i \in first .. n : s[i] \in S
    BY <1>1, ElementOfSeq
  <1>4. first = d + 1
    OBVIOUS
  <1> HIDE DEF n, first
  <1>5. /\ end \in Seq(S)
        /\ Len(end) = IF first <= n THEN n - first + 1 ELSE 0
        /\ \A i \in 1 .. n - first + 1 : end[i] = s[first + i - 1]
    BY <1>2, <1>3, SubSeqProperties
  <1> HIDE DEF end
  <1>6. Len(end) = n - d
    <2>1. CASE first <= n
      BY <1>1, <1>4, <1>5, <2>1
    <2>2. CASE ~(first <= n)
      BY <1>1, <1>4, <1>5, <2>2
    <2> QED BY <2>1, <2>2
  <1>7. ASSUME NEW i \in 1 .. n - d
        PROVE  end[i] = s[d + i]
    <2>1. i \in 1 .. n - first + 1 /\ first + i - 1 = d + i
      BY <1>1, <1>4
    <2> QED BY <1>5, <2>1
  <1> QED BY <1>5, <1>6, <1>7 DEF end, first, n

LEMMA EndOfConcat ==
    ASSUME NEW S, NEW s \in Seq(S), NEW t \in Seq(S), NEW d \in 0 .. Len(s)
    PROVE  SubSeq(s, d + 1, Len(s)) \o t = SubSeq(s \o t, d + 1, Len(s \o t))
  <1> DEFINE whole == s \o t
             a == SubSeq(s, d + 1, Len(s)) \o t
             b == SubSeq(whole, d + 1, Len(whole))
  <1>1. Len(s) \in Nat /\ Len(t) \in Nat
    BY LenProperties
  <1>2. /\ whole \in Seq(S) /\ Len(whole) = Len(s) + Len(t)
        /\ \A i \in 1 .. Len(s) + Len(t) : whole[i] = IF i <= Len(s) THEN s[i] ELSE t[i - Len(s)]
    BY ConcatProperties
  <1> HIDE DEF whole
  <1>3. /\ SubSeq(s, d + 1, Len(s)) \in Seq(S)
        /\ Len(SubSeq(s, d + 1, Len(s))) = Len(s) - d
        /\ \A i \in 1 .. Len(s) - d : SubSeq(s, d + 1, Len(s))[i] = s[d + i]
    BY EndOf
  <1>4. /\ a \in Seq(S) /\ Len(a) = Len(s) - d + Len(t)
        /\ \A i \in 1 .. Len(s) - d + Len(t) :
              a[i] = IF i <= Len(s) - d THEN SubSeq(s, d + 1, Len(s))[i] ELSE t[i - (Len(s) - d)]
    <2> DEFINE head == SubSeq(s, d + 1, Len(s))
    <2>1. head \in Seq(S) /\ Len(head) = Len(s) - d
      BY <1>3
    <2> HIDE DEF head
    <2>2. /\ head \o t \in Seq(S) /\ Len(head \o t) = Len(head) + Len(t)
          /\ \A i \in 1 .. Len(head) + Len(t) :
                (head \o t)[i] = IF i <= Len(head) THEN head[i] ELSE t[i - Len(head)]
      BY <2>1, ConcatProperties
    <2>3. /\ head \o t \in Seq(S) /\ Len(head \o t) = Len(s) - d + Len(t)
          /\ \A i \in 1 .. Len(s) - d + Len(t) :
                (head \o t)[i] = IF i <= Len(s) - d THEN head[i] ELSE t[i - (Len(s) - d)]
      BY <2>1, <2>2
    <2> QED BY <2>3 DEF head
  <1>5. /\ b \in Seq(S) /\ Len(b) = Len(s) + Len(t) - d
        /\ \A i \in 1 .. Len(s) + Len(t) - d : b[i] = whole[d + i]
    <2>1. d \in 0 .. Len(whole) /\ whole \in Seq(S)
      BY <1>1, <1>2
    <2>2. /\ b \in Seq(S) /\ Len(b) = Len(whole) - d
          /\ \A i \in 1 .. Len(whole) - d : b[i] = whole[d + i]
      BY <2>1, EndOf
    <2> QED BY <1>2, <2>2
  <1> HIDE DEF a, b
  <1>d. d \in Nat /\ d <= Len(s)
    BY <1>1
  <1>6. ASSUME NEW i \in 1 .. Len(a)
        PROVE  a[i] = b[i]
    <2>1. i \in Nat /\ i >= 1 /\ i <= Len(s) - d + Len(t) /\ b[i] = whole[d + i]
      BY <1>1, <1>d, <1>4, <1>5
    <2>2. d + i \in 1 .. Len(s) + Len(t)
      BY <1>1, <1>d, <2>1
    <2>3. CASE i <= Len(s) - d
      <3>1. i \in 1 .. Len(s) - d /\ d + i <= Len(s)
        BY <1>1, <1>d, <2>1, <2>3
      <3>2. a[i] = s[d + i]
        BY <1>3, <1>4, <2>3, <3>1
      <3>3. \A j \in 1 .. Len(s) + Len(t) : j <= Len(s) => whole[j] = s[j]
        BY <1>2
      <3>4. whole[d + i] = s[d + i]
        BY <2>2, <3>1, <3>3
      <3> QED BY <2>1, <3>2, <3>4
    <2>4. CASE ~(i <= Len(s) - d)
      <3>1. ~(d + i <= Len(s)) /\ i - (Len(s) - d) = d + i - Len(s)
        BY <1>1, <1>d, <2>1, <2>4
      <3>2. a[i] = t[i - (Len(s) - d)]
        BY <1>4, <2>4
      <3>3. \A j \in 1 .. Len(s) + Len(t) : ~(j <= Len(s)) => whole[j] = t[j - Len(s)]
        BY <1>2
      <3>4. whole[d + i] = t[d + i - Len(s)]
        BY <2>2, <3>1, <3>3
      <3> QED BY <2>1, <3>1, <3>2, <3>4
    <2> QED BY <2>3, <2>4
  <1>7. a = b
    BY <1>1, <1>4, <1>5, <1>6, SeqEqual
  <1> QED BY <1>7 DEF a, b, whole

LEMMA EndOfEnd ==
    ASSUME NEW S, NEW s \in Seq(S), NEW d \in 0 .. Len(s), NEW e \in 0 .. Len(s) - d
    PROVE  LET end == SubSeq(s, d + 1, Len(s))
           IN  SubSeq(end, e + 1, Len(end)) = SubSeq(s, d + e + 1, Len(s))
  <1> DEFINE end == SubSeq(s, d + 1, Len(s))
  <1>1. Len(s) \in Nat
    BY LenProperties
  <1>2. Len(end) = Len(s) - d /\ end \in Seq(S)
    BY EndOf
  <1>3. CASE e = Len(s) - d
    <2>1. SubSeq(end, e + 1, Len(end)) = <<>>
      BY <1>1, <1>2, <1>3, SubSeqEmpty
    <2>2. SubSeq(s, d + e + 1, Len(s)) = <<>>
      BY <1>1, <1>3, SubSeqEmpty
    <2> QED BY <2>1, <2>2
  <1>4. CASE e < Len(s) - d
    <2>1. /\ d + 1 \in 1 .. Len(s) /\ Len(s) \in 1 .. Len(s)
          /\ e + 1 \in 1 .. Len(s) - (d + 1) + 1 /\ Len(end) \in 1 .. Len(s) - (d + 1) + 1
      BY <1>1, <1>2, <1>4
    <2>2. SubSeq(end, e + 1, Len(end)) = SubSeq(s, d + 1 + (e + 1) - 1, d + 1 + Len(end) - 1)
      BY <2>1, SubSeqOfSubSeq
    <2>3. d + 1 + (e + 1) - 1 = d + e + 1 /\ d + 1 + Len(end) - 1 = Len(s)
      <3>1. d \in Nat /\ e \in Nat
        BY <1>1
      <3> HIDE DEF end
      <3> QED BY <1>1, <1>2, <3>1
    <2> QED BY <2>2, <2>3
  <1>5. e = Len(s) - d \/ e < Len(s) - d
    BY <1>1
  <1> QED BY <1>3, <1>4, <1>5

Newest(dropped) ==
    /\ messages \o messageBuffer = SubSeq(received, dropped + 1, Len(received))
    /\ dropped = 0 \/ \E f \in Filters : Len(messages) >= MaxMessages[f]

LEMMA ReceiveKeepsNewest ==
    ASSUME PageTyped, NEW dropped \in 0 .. Len(received), Newest(dropped),
           NEW s \in Sockets, Receive(s)
    PROVE  dropped \in 0 .. Len(received') /\ Newest(dropped)'
  <1>1. PICK batch \in Seq(Message) : /\ messageBuffer' = messageBuffer \o batch
                                      /\ received' = received \o batch
    BY ReceiveAppends
  <1>2. messages \in Seq(Message) /\ messageBuffer \in Seq(Message) /\ received \in Seq(Message)
    BY DEF PageTyped
  <1>3. Len(received') = Len(received) + Len(batch) /\ Len(batch) \in Nat /\ Len(received) \in Nat
    BY <1>1, <1>2, ConcatProperties, LenProperties
  <1>4. messages \o (messageBuffer \o batch) = SubSeq(received', dropped + 1, Len(received'))
    <2>1. messages \o (messageBuffer \o batch) = (messages \o messageBuffer) \o batch
      BY <1>2, ConcatAssociative
    <2>2. messages \o messageBuffer = SubSeq(received, dropped + 1, Len(received))
      BY DEF Newest
    <2>3. SubSeq(received, dropped + 1, Len(received)) \o batch
             = SubSeq(received \o batch, dropped + 1, Len(received \o batch))
      BY <1>2, EndOfConcat
    <2> QED BY <1>1, <2>1, <2>2, <2>3
  <1>5. dropped \in 0 .. Len(received')
    BY <1>3
  <1>6. messages' = messages
    BY DEF Receive
  <1>7. Newest(dropped)'
    BY <1>1, <1>4, <1>6 DEF Newest
  <1> QED BY <1>5, <1>7

LEMMA TickKeepsNewest ==
    ASSUME PageTyped, display \in Filters, NEW dropped \in 0 .. Len(received), Newest(dropped), Tick
    PROVE  \E more \in 0 .. Len(received') : Newest(more)'
  <1> DEFINE list == messages \o messageBuffer
             extra == Len(list) - MaxMessages[display]
  <1>1. messages \in Seq(Message) /\ messageBuffer \in Seq(Message) /\ received \in Seq(Message)
    BY DEF PageTyped
  <1>2. /\ list \in Seq(Message) /\ Len(list) = Len(messages) + Len(messageBuffer)
        /\ Len(messages) \in Nat /\ Len(messageBuffer) \in Nat /\ Len(received) \in Nat
    BY <1>1, ConcatProperties, LenProperties
  <1>3. list = SubSeq(received, dropped + 1, Len(received))
    BY DEF Newest
  <1>4. messages' = Trimmed(list) /\ messageBuffer' = <<>> /\ received' = received
    BY DEF Tick
  <1>5. MaxMessages[display] \in Nat \ {0} /\ dropped \in Nat /\ dropped <= Len(received)
    BY <1>2, StreamPageAssumption DEF StreamPageAssumption
  <1>6. Len(list) = Len(received) - dropped
    <2>1. dropped \in 0 .. Len(received)
      BY <1>2, <1>5
    <2> QED BY <1>1, <1>3, <2>1, EndOf
  <1> HIDE DEF list
  <1>7. CASE extra > 0
    <2>1. messages' = SubSeq(list, extra + 1, Len(list))
      BY <1>2, <1>4, <1>5, <1>7 DEF Trimmed, LastOf
    <2>2. extra \in 0 .. Len(received) - dropped
      BY <1>2, <1>5, <1>6, <1>7
    <2>3. messages' = SubSeq(received, dropped + extra + 1, Len(received))
      BY <1>1, <1>3, <2>1, <2>2, EndOfEnd
    <2>4. messages' \in Seq(Message) /\ Len(messages') = MaxMessages[display]
      <3>1. extra \in 0 .. Len(list)
        BY <1>6, <2>2
      <3>2. messages' \in Seq(Message) /\ Len(messages') = Len(list) - extra
        BY <1>2, <2>1, <3>1, EndOf
      <3> QED BY <1>2, <1>5, <3>2
    <2>5. messages' \o messageBuffer' = messages'
      BY <1>4, <2>4, ConcatEmptySeq
    <2>6. PICK more \in 0 .. Len(received') : more = dropped + extra
      BY <1>2, <1>4, <1>5, <2>2
    <2>7. \E f \in Filters : Len(messages') >= MaxMessages[f]
      BY <1>5, <2>4
    <2>8. Newest(more)'
      BY <1>4, <2>3, <2>5, <2>6, <2>7 DEF Newest
    <2> QED BY <2>8
  <1>8. CASE ~(extra > 0)
    <2>1. messages' = list
      BY <1>2, <1>4, <1>5, <1>8 DEF Trimmed, LastOf
    <2>2. messages' \o messageBuffer' = SubSeq(received', dropped + 1, Len(received'))
      BY <1>2, <1>3, <1>4, <2>1, ConcatEmptySeq
    <2>3. Len(messages') >= Len(messages)
      BY <1>2, <2>1
    <2>4. dropped = 0 \/ \E f \in Filters : Len(messages') >= MaxMessages[f]
      <3>1. ASSUME NEW f \in Filters, Len(messages) >= MaxMessages[f]
            PROVE  Len(messages') >= MaxMessages[f]
        <4>1. MaxMessages[f] \in Nat
          BY StreamPageAssumption DEF StreamPageAssumption
        <4>2. Len(messages') \in Nat
          BY <1>2, <2>1
        <4> QED BY <1>2, <2>3, <3>1, <4>1, <4>2
      <3> QED BY <3>1 DEF Newest
    <2> QED BY <1>4, <2>2, <2>4 DEF Newest
  <1> QED BY <1>7, <1>8

LEMMA NewestKeptStep ==
    StreamPageTypeOK /\ NewestKept /\ [StreamPageNext]_allVars => NewestKept'
  <1> SUFFICES ASSUME StreamPageTypeOK, NewestKept, [StreamPageNext]_allVars
               PROVE  \E more \in 0 .. Len(received') : Newest(more)'
    BY DEF NewestKept, Newest
  <1>1. PICK dropped \in 0 .. Len(received) : Newest(dropped)
    BY DEF NewestKept, Newest
  <1>2. PageTyped /\ display \in Filters
    BY DEF StreamPageTypeOK, PageTyped
  <1>3. ASSUME NEW s \in Sockets, Receive(s)
        PROVE  \E more \in 0 .. Len(received') : Newest(more)'
    BY <1>1, <1>2, <1>3, ReceiveKeepsNewest
  <1>4. CASE Tick
    BY <1>1, <1>2, <1>4, TickKeepsNewest
  <1>5. CASE ClearMessages
    <2>1. messages' = <<>> /\ messageBuffer' = <<>> /\ received' = <<>>
      BY <1>5 DEF ClearMessages
    <2>2. Len(<<>>) = 0 /\ <<>> \in Seq(Message)
      BY EmptySeq
    <2>3. <<>> \o <<>> = <<>>
      BY <2>2, ConcatEmptySeq
    <2>4. SubSeq(<<>>, 1, 0) = <<>>
      BY SubSeqEmpty
    <2>5. Newest(0)' /\ 0 \in 0 .. Len(received')
      BY <2>1, <2>2, <2>3, <2>4 DEF Newest
    <2> QED BY <2>5
  <1>6. CASE UNCHANGED displayVars
    BY <1>1, <1>6 DEF displayVars, Newest
  <1>7. (\E s \in Sockets : Receive(s)) \/ Tick \/ ClearMessages \/ UNCHANGED displayVars
    BY DEF StreamPageNext, allVars, pageVars, Clock, TabHides, TabShows, PageOpens, TimerFires, PageConnects,
           ConnectCallback, SocketSettles, ConnectionLost, Disconnects, Applies, Alone, Rest
  <1> QED BY <1>3, <1>4, <1>5, <1>6, <1>7

\* Through every reconnection, hiding and change of the settings, the list and the buffer
\* hold the newest messages, none of them missing or twice.
THEOREM NewestAreKept == StreamPageSpec => []NewestKept
  <1>1. StreamPageInit => NewestKept
    <2> SUFFICES ASSUME StreamPageInit
                 PROVE  NewestKept
      OBVIOUS
    <2>1. messages = <<>> /\ messageBuffer = <<>> /\ received = <<>>
      BY DEF StreamPageInit
    <2>2. Len(<<>>) = 0 /\ <<>> \in Seq(Message)
      BY EmptySeq
    <2>3. <<>> \o <<>> = <<>> /\ SubSeq(<<>>, 1, 0) = <<>>
      BY <2>2, ConcatEmptySeq, SubSeqEmpty
    <2> QED BY <2>1, <2>2, <2>3 DEF NewestKept
  <1> QED BY <1>1, NewestKeptStep, StreamPageTyped, PTL DEF StreamPageSpec

----------------------------------------------------------------------------
(* The chart.                                                              *)

\* What the chart holds of the messages that have left the buffer: inside the window a
\* bucket for each message and no others, with as many messages as there were.
ChartFollows ==
    /\ received = Processed \o messageBuffer
    /\ Processed = <<>> => chartData = <<>>
    /\ ~resized => \A b \in 0 .. MaxTime : b >= now - Window[display] =>
          /\ b \in DOMAIN chartData <=> \E i \in DOMAIN Processed : BucketTime(Processed[i]) = b
          /\ b \in DOMAIN chartData => chartData[b] = CountIn(b, Processed)

ChartInv == ChartFollows /\ Processed \in Seq(Message)

\* What goes before the buffer is what has left it.
LEMMA ProcessedIs ==
    ASSUME NEW done \in Seq(Message), NEW rest \in Seq(Message)
    PROVE  SubSeq(done \o rest, 1, Len(done \o rest) - Len(rest)) = done
  <1> DEFINE whole == done \o rest
             part == SubSeq(whole, 1, Len(whole) - Len(rest))
  <1>1. Len(done) \in Nat /\ Len(rest) \in Nat
    BY LenProperties
  <1>2. /\ whole \in Seq(Message) /\ Len(whole) = Len(done) + Len(rest)
        /\ \A i \in 1 .. Len(done) + Len(rest) :
              whole[i] = IF i <= Len(done) THEN done[i] ELSE rest[i - Len(done)]
    BY ConcatProperties
  <1> HIDE DEF whole
  <1>3. Len(whole) - Len(rest) = Len(done)
    BY <1>1, <1>2
  <1>4. \A i \in 1 .. Len(done) : whole[i] \in Message
    <2>1. \A i \in 1 .. Len(done) : done[i] \in Message
      BY ElementOfSeq
    <2> QED BY <1>1, <1>2, <2>1
  <1>5. /\ part \in Seq(Message) /\ Len(part) = Len(done)
        /\ \A i \in 1 .. Len(done) : part[i] = whole[i]
    <2>1. part = SubSeq(whole, 1, Len(done))
      BY <1>3
    <2> HIDE DEF part
    <2>2. /\ SubSeq(whole, 1, Len(done)) \in Seq(Message)
          /\ Len(SubSeq(whole, 1, Len(done))) = IF 1 <= Len(done) THEN Len(done) - 1 + 1 ELSE 0
          /\ \A i \in 1 .. Len(done) - 1 + 1 : SubSeq(whole, 1, Len(done))[i] = whole[1 + i - 1]
      BY <1>1, <1>4, SubSeqProperties
    <2> QED BY <1>1, <2>1, <2>2
  <1> HIDE DEF part
  <1>6. \A i \in 1 .. Len(part) : part[i] = done[i]
    BY <1>1, <1>2, <1>5
  <1>7. part = done
    BY <1>5, <1>6, SeqEqual
  <1> QED BY <1>7 DEF part, whole

\* Where the messages of bucket b are in s.
In(b, s) == {i \in DOMAIN s : BucketTime(s[i]) = b}

\* Two sequences, one after the other, have the messages of both in a bucket.
LEMMA CountOfConcat ==
    ASSUME NEW s \in Seq(Message), NEW t \in Seq(Message), NEW b
    PROVE  CountIn(b, s \o t) = CountIn(b, s) + CountIn(b, t)
  <1> DEFINE whole == s \o t
             shift == [i \in In(b, t) |-> Len(s) + i]
             tail == {Len(s) + i : i \in In(b, t)}
  <1>1. /\ Len(s) \in Nat /\ Len(t) \in Nat
        /\ DOMAIN s = 1 .. Len(s) /\ DOMAIN t = 1 .. Len(t)
    BY LenProperties
  <1>2. /\ DOMAIN whole = 1 .. Len(s) + Len(t)
        /\ \A i \in 1 .. Len(s) + Len(t) : whole[i] = IF i <= Len(s) THEN s[i] ELSE t[i - Len(s)]
    BY ConcatProperties, LenProperties
  <1> HIDE DEF whole
  <1>3. \A i \in In(b, t) : i \in 1 .. Len(t)
    BY <1>1 DEF In
  <1>4. IsFiniteSet(In(b, s)) /\ IsFiniteSet(In(b, t))
    <2>1. In(b, s) \subseteq 1 .. Len(s) /\ In(b, t) \subseteq 1 .. Len(t)
      BY <1>1 DEF In
    <2>2. IsFiniteSet(1 .. Len(s)) /\ IsFiniteSet(1 .. Len(t))
      BY <1>1, FS_Interval
    <2>3. IsFiniteSet(In(b, s))
      BY <2>1, <2>2, FS_Subset
    <2>4. IsFiniteSet(In(b, t))
      BY <2>1, <2>2, FS_Subset
    <2> QED BY <2>3, <2>4
  <1>5. IsFiniteSet(tail) /\ Cardinality(tail) = Cardinality(In(b, t))
    <2>1. shift \in [In(b, t) -> tail]
      OBVIOUS
    <2>2. \A i, j \in In(b, t) : shift[i] = shift[j] => i = j
      BY <1>1, <1>3
    <2>3. \A z \in tail : \E i \in In(b, t) : shift[i] = z
      OBVIOUS
    <2>4. DOMAIN shift = In(b, t)
      OBVIOUS
    <2> HIDE DEF shift, tail
    <2>5. shift \in Bijection(In(b, t), tail)
      BY <2>1, <2>2, <2>3, <2>4 DEF Bijection, Injection, Surjection, IsInjective
    <2> QED BY <1>4, <2>5, FS_Bijection DEF ExistsBijection
  <1>6. In(b, whole) = In(b, s) \cup tail
    <2>1. ASSUME NEW i \in In(b, whole) PROVE i \in In(b, s) \cup tail
      <3>1. i \in 1 .. Len(s) + Len(t) /\ BucketTime(whole[i]) = b
        BY <1>2, <2>1 DEF In
      <3>2. CASE i <= Len(s)
        BY <1>1, <1>2, <3>1, <3>2 DEF In
      <3>3. CASE ~(i <= Len(s))
        <4>1. i - Len(s) \in 1 .. Len(t) /\ Len(s) + (i - Len(s)) = i
          BY <1>1, <3>1, <3>3
        <4>2. i - Len(s) \in In(b, t)
          BY <1>1, <1>2, <3>1, <3>3, <4>1 DEF In
        <4> QED BY <4>1, <4>2
      <3> QED BY <3>2, <3>3
    <2>2. ASSUME NEW i \in In(b, s) PROVE i \in In(b, whole)
      <3>1. i \in 1 .. Len(s) /\ BucketTime(s[i]) = b
        BY <1>1 DEF In
      <3>2. i \in 1 .. Len(s) + Len(t) /\ i <= Len(s)
        BY <1>1, <3>1
      <3> QED BY <1>2, <3>1, <3>2 DEF In
    <2>3. ASSUME NEW i \in In(b, t) PROVE Len(s) + i \in In(b, whole)
      <3>1. i \in 1 .. Len(t) /\ BucketTime(t[i]) = b
        BY <1>1 DEF In
      <3>2. /\ Len(s) + i \in 1 .. Len(s) + Len(t)
            /\ ~(Len(s) + i <= Len(s)) /\ Len(s) + i - Len(s) = i
        BY <1>1, <3>1
      <3> QED BY <1>2, <3>1, <3>2 DEF In
    <2> QED BY <2>1, <2>2, <2>3
  <1>7. In(b, s) \cap tail = {}
    BY <1>1, <1>3 DEF In
  <1> HIDE DEF tail
  <1>8. Cardinality(In(b, s) \cup tail)
           = Cardinality(In(b, s)) + Cardinality(tail) - Cardinality({})
    BY <1>4, <1>5, <1>7, FS_Union
  <1>9. /\ Cardinality(In(b, s)) \in Nat /\ Cardinality(tail) \in Nat /\ Cardinality({}) = 0
    BY <1>4, <1>5, FS_CardinalityType, FS_EmptySet
  <1>10. Cardinality(In(b, whole)) = Cardinality(In(b, s)) + Cardinality(In(b, t))
    BY <1>5, <1>6, <1>8, <1>9
  <1>11. \A q : CountIn(b, q) = Cardinality(In(b, q))
    BY DEF CountIn, In
  <1> QED BY <1>10, <1>11 DEF whole

\* A bucket without messages counts none.
LEMMA CountOfNone ==
    ASSUME NEW s, NEW b, ~\E i \in DOMAIN s : BucketTime(s[i]) = b
    PROVE  CountIn(b, s) = 0
  <1>1. {i \in DOMAIN s : BucketTime(s[i]) = b} = {}
    OBVIOUS
  <1> QED BY <1>1, FS_EmptySet DEF CountIn

LEMMA BucketsOfConcat ==
    ASSUME NEW s \in Seq(Message), NEW t \in Seq(Message), NEW b
    PROVE  (\E i \in DOMAIN (s \o t) : BucketTime((s \o t)[i]) = b)
              <=> \/ \E i \in DOMAIN s : BucketTime(s[i]) = b
                  \/ b \in {BucketTime(m) : m \in ToSet(t)}
  <1> DEFINE whole == s \o t
  <1>1. /\ Len(s) \in Nat /\ Len(t) \in Nat
        /\ DOMAIN s = 1 .. Len(s) /\ DOMAIN t = 1 .. Len(t)
    BY LenProperties
  <1>2. /\ DOMAIN whole = 1 .. Len(s) + Len(t)
        /\ \A i \in 1 .. Len(s) + Len(t) : whole[i] = IF i <= Len(s) THEN s[i] ELSE t[i - Len(s)]
    BY ConcatProperties, LenProperties
  <1> HIDE DEF whole
  <1>3. ASSUME NEW i \in DOMAIN whole, BucketTime(whole[i]) = b
        PROVE  \/ \E j \in DOMAIN s : BucketTime(s[j]) = b
               \/ \E j \in DOMAIN t : BucketTime(t[j]) = b
    <2>1. CASE i <= Len(s)
      BY <1>1, <1>2, <1>3, <2>1
    <2>2. CASE ~(i <= Len(s))
      <3>1. i - Len(s) \in DOMAIN t /\ whole[i] = t[i - Len(s)]
        BY <1>1, <1>2, <2>2
      <3> QED BY <1>3, <3>1
    <2> QED BY <2>1, <2>2
  <1>4. ASSUME NEW i \in DOMAIN s, BucketTime(s[i]) = b
        PROVE  \E j \in DOMAIN whole : BucketTime(whole[j]) = b
    <2>1. i \in DOMAIN whole /\ whole[i] = s[i]
      BY <1>1, <1>2
    <2> QED BY <1>4, <2>1
  <1>5. ASSUME NEW i \in DOMAIN t, BucketTime(t[i]) = b
        PROVE  \E j \in DOMAIN whole : BucketTime(whole[j]) = b
    <2>1. /\ Len(s) + i \in 1 .. Len(s) + Len(t)
          /\ ~(Len(s) + i <= Len(s)) /\ Len(s) + i - Len(s) = i
      BY <1>1
    <2>2. Len(s) + i \in DOMAIN whole /\ whole[Len(s) + i] = t[i]
      BY <1>2, <2>1
    <2> QED BY <1>5, <2>2
  <1>6. b \in {BucketTime(m) : m \in ToSet(t)} <=> \E j \in DOMAIN t : BucketTime(t[j]) = b
    BY DEF ToSet
  <1> QED BY <1>3, <1>4, <1>5, <1>6 DEF whole

LEMMA ReceiveKeepsChart ==
    ASSUME PageTyped, ChartFollows, Processed \in Seq(Message), NEW s \in Sockets, Receive(s)
    PROVE  ChartFollows' /\ Processed' \in Seq(Message)
  <1>1. PICK batch \in Seq(Message) : /\ messageBuffer' = messageBuffer \o batch
                                      /\ received' = received \o batch
    BY ReceiveAppends
  <1> DEFINE done == Processed
  <1>2. messageBuffer \in Seq(Message) /\ received = done \o messageBuffer
    BY DEF PageTyped, ChartFollows
  <1>3. done \in Seq(Message)
    OBVIOUS
  <1> HIDE DEF done
  <1>4. messageBuffer' \in Seq(Message) /\ received' = done \o messageBuffer'
    BY <1>1, <1>2, <1>3, ConcatAssociative, ConcatProperties
  <1>5. Processed' = done
    BY <1>3, <1>4, ProcessedIs DEF Processed
  <1>6. UNCHANGED <<chartData, display, now, resized>>
    BY DEF Receive
  <1> QED BY <1>3, <1>4, <1>5, <1>6 DEF ChartFollows, CountIn, BucketTime, done

LEMMA TickKeepsChart ==
    ASSUME PageTyped, display \in Filters, ChartFollows, Processed \in Seq(Message), Tick
    PROVE  ChartFollows' /\ Processed' \in Seq(Message)
  <1> DEFINE done == Processed
             kept == {b \in DOMAIN chartData \cup {BucketTime(m) : m \in ToSet(messageBuffer)} :
                         b >= now - Window[display]}
  <1>1. messageBuffer \in Seq(Message) /\ done \in Seq(Message) /\ received = done \o messageBuffer
    BY DEF PageTyped, ChartFollows
  <1>2. /\ chartData' = [b \in kept |-> CountIn(b, messageBuffer)
                            + (IF b \in DOMAIN chartData THEN chartData[b] ELSE 0)]
        /\ messageBuffer' = <<>> /\ messageBuffer # <<>>
        /\ UNCHANGED <<received, display, now, resized>>
    BY DEF Tick
  <1>3. received \in Seq(Message) /\ received \o <<>> = received /\ <<>> \in Seq(Message)
    BY ConcatEmptySeq, EmptySeq DEF PageTyped
  <1>4. Processed' = received
    BY <1>2, <1>3, ProcessedIs DEF Processed
  <1>5. received # <<>>
    <2>1. /\ Len(received) = Len(done) + Len(messageBuffer) /\ Len(done) \in Nat
          /\ Len(messageBuffer) \in Nat
      BY <1>1, ConcatProperties, LenProperties
    <2>2. Len(messageBuffer) # 0
      BY <1>1, <1>2, EmptySeq
    <2> QED BY <1>1, <2>1, <2>2, EmptySeq
  <1>6. ASSUME ~resized, NEW b \in 0 .. MaxTime, b >= now - Window[display]
        PROVE  /\ b \in kept <=> \E i \in DOMAIN received : BucketTime(received[i]) = b
               /\ b \in kept => CountIn(b, messageBuffer)
                                  + (IF b \in DOMAIN chartData THEN chartData[b] ELSE 0)
                                = CountIn(b, received)
    <2>1. /\ b \in DOMAIN chartData <=> \E i \in DOMAIN done : BucketTime(done[i]) = b
          /\ b \in DOMAIN chartData => chartData[b] = CountIn(b, done)
      BY <1>6 DEF ChartFollows
    <2>2. b \in kept <=> b \in DOMAIN chartData \cup {BucketTime(m) : m \in ToSet(messageBuffer)}
      BY <1>6
    <2> HIDE DEF done, kept
    <2>3. (\E i \in DOMAIN received : BucketTime(received[i]) = b)
             <=> \/ \E i \in DOMAIN done : BucketTime(done[i]) = b
                 \/ b \in {BucketTime(m) : m \in ToSet(messageBuffer)}
      <3>1. (\E i \in DOMAIN (done \o messageBuffer) : BucketTime((done \o messageBuffer)[i]) = b)
               <=> \/ \E i \in DOMAIN done : BucketTime(done[i]) = b
                   \/ b \in {BucketTime(m) : m \in ToSet(messageBuffer)}
        BY <1>1, BucketsOfConcat
      <3> QED BY <1>1, <3>1
    <2>4. CountIn(b, received) = CountIn(b, done) + CountIn(b, messageBuffer)
      BY <1>1, CountOfConcat
    <2>5. (IF b \in DOMAIN chartData THEN chartData[b] ELSE 0) = CountIn(b, done)
      BY <2>1, CountOfNone
    <2>6. CountIn(b, done) \in Nat /\ CountIn(b, messageBuffer) \in Nat
      BY <1>1, CountInTyped
    <2> QED BY <2>1, <2>2, <2>3, <2>4, <2>5, <2>6
  <1> HIDE DEF done, kept
  <1>7. ASSUME NEW b, NEW q PROVE CountIn(b, q)' = CountIn(b, q)
    BY <1>2 DEF CountIn, BucketTime
  <1>8. ASSUME NEW m PROVE BucketTime(m)' = BucketTime(m)
    BY <1>2 DEF BucketTime
  <1>9. (received = Processed \o messageBuffer)' /\ (Processed = <<>> => chartData = <<>>)'
    BY <1>2, <1>3, <1>4, <1>5
  <1>10. ASSUME ~resized', NEW b \in 0 .. MaxTime, b >= now' - Window[display']
         PROVE  /\ b \in DOMAIN chartData' <=> \E i \in DOMAIN received : BucketTime(received[i]) = b
                /\ b \in DOMAIN chartData' => chartData'[b] = CountIn(b, received)
    BY <1>2, <1>6, <1>10
  <1>11. ASSUME ~resized', NEW b \in 0 .. MaxTime, b >= now' - Window[display']
         PROVE  /\ b \in DOMAIN chartData' <=> \E i \in DOMAIN received : BucketTime(received[i])' = b
                /\ b \in DOMAIN chartData' => chartData'[b] = CountIn(b, received)'
    BY <1>2, <1>7, <1>8, <1>10, <1>11
  <1> QED BY <1>2, <1>3, <1>4, <1>9, <1>11 DEF ChartFollows

\* Nothing received, nothing shown.
LEMMA EmptyChartFollows ==
    received = <<>> /\ messageBuffer = <<>> /\ chartData = <<>> => ChartInv
  <1> SUFFICES ASSUME received = <<>>, messageBuffer = <<>>, chartData = <<>>
               PROVE  ChartFollows /\ Processed \in Seq(Message)
    BY DEF ChartInv
  <1>1. /\ <<>> \in Seq(Message) /\ Len(<<>>) = 0 /\ DOMAIN <<>> = {}
        /\ <<>> \o <<>> = <<>>
    BY EmptySeq, ConcatEmptySeq
  <1>2. Processed = <<>>
    BY <1>1, ProcessedIs DEF Processed
  <1> QED BY <1>1, <1>2 DEF ChartFollows

\* Time takes buckets out of the window, and the settings count anew or were not yet in use.
LEMMA SettingsKeepChart ==
    ASSUME StreamPageTypeOK, ChartFollows, Processed \in Seq(Message),
           UNCHANGED displayVars, now' >= now, now' \in 0 .. MaxTime,
           \/ LoadSettings /\ form' \in Filters
           \/ KeepSettings
    PROVE  ChartFollows' /\ Processed' \in Seq(Message)
  <1> DEFINE done == Processed
  <1>1. UNCHANGED <<received, messageBuffer, chartData>> /\ Processed' = Processed
    BY DEF displayVars, Processed
  <1>2. received = done \o messageBuffer /\ (done = <<>> => chartData = <<>>) /\ done \in Seq(Message)
    BY DEF ChartFollows
  <1>3. ASSUME ~resized', NEW b \in 0 .. MaxTime, b >= now' - Window[display']
        PROVE  /\ b \in DOMAIN chartData <=> \E i \in DOMAIN done : BucketTime(done[i])' = b
               /\ b \in DOMAIN chartData => chartData[b] = CountIn(b, done)'
    <2>1. CASE received = <<>>
      <3>1. done = <<>>
        <4>1. /\ Len(received) = Len(done) + Len(messageBuffer) /\ Len(done) \in Nat
              /\ Len(messageBuffer) \in Nat
          BY <1>2, ConcatProperties, LenProperties DEF StreamPageTypeOK
        <4>2. Len(received) = 0
          BY <2>1, EmptySeq
        <4>3. Len(done) = 0
          BY <4>1, <4>2
        <4> QED BY <1>2, <4>3, EmptySeq
      <3>2. DOMAIN done = {} /\ DOMAIN chartData = {}
        BY <1>2, <3>1, EmptySeq
      <3> HIDE DEF done
      <3> QED BY <3>2
    <2>2. CASE received # <<>>
      <3>1. /\ ~resized /\ BucketSize[display'] = BucketSize[display]
            /\ Window[display'] = Window[display]
        <4>1. CASE KeepSettings
          BY <1>3, <4>1 DEF KeepSettings
        <4>2. CASE LoadSettings
          <5>1. /\ display' = form'
                /\ ~resized /\ ~(\/ BucketSize[form'] # BucketSize[display]
                                \/ Window[form'] # Window[display])
            BY <1>3, <2>2, <4>2, Zenon DEF LoadSettings
          <5> QED BY <5>1, Zenon
        <4> QED BY <4>1, <4>2
      <3>4. b >= now - Window[display]
        <4>1. now \in Nat /\ now' \in Nat /\ Window[display] \in Nat /\ b \in Nat
          BY StreamPageAssumption DEF StreamPageAssumption, StreamPageTypeOK
        <4> QED BY <1>3, <3>1, <4>1
      <3>5. /\ b \in DOMAIN chartData <=> \E i \in DOMAIN done : BucketTime(done[i]) = b
            /\ b \in DOMAIN chartData => chartData[b] = CountIn(b, done)
        BY <3>1, <3>4 DEF ChartFollows
      <3>6. done' = done
        BY <1>1
      <3> HIDE DEF done
      <3>7. \A i : BucketTime(done[i])' = BucketTime(done[i])
        BY <3>1, <3>6 DEF BucketTime
      <3>8. CountIn(b, done)' = CountIn(b, done)
        BY <3>1, <3>6 DEF CountIn, BucketTime
      <3> QED BY <3>5, <3>7, <3>8
    <2> QED BY <2>1, <2>2
  <1> QED BY <1>1, <1>2, <1>3 DEF ChartFollows

LEMMA ChartStep ==
    StreamPageTypeOK /\ ChartInv /\ [StreamPageNext]_allVars => ChartInv'
  <1> SUFFICES ASSUME StreamPageTypeOK, ChartInv, [StreamPageNext]_allVars
               PROVE  ChartInv'
    OBVIOUS
  <1>1. PageTyped /\ display \in Filters /\ ChartFollows /\ Processed \in Seq(Message)
    BY DEF StreamPageTypeOK, PageTyped, ChartInv
  <1>2. ASSUME NEW s \in Sockets, Receive(s)
        PROVE  ChartInv'
    BY <1>1, <1>2, ReceiveKeepsChart DEF ChartInv
  <1>3. CASE Tick
    BY <1>1, <1>3, TickKeepsChart DEF ChartInv
  <1>4. CASE ClearMessages
    <2>1. (received = <<>> /\ messageBuffer = <<>> /\ chartData = <<>>)'
      BY <1>4 DEF ClearMessages
    <2> QED BY <2>1, EmptyChartFollows, PTL
  <1>5. form' \in Filters /\ now' \in 0 .. MaxTime /\ now \in 0 .. MaxTime
    BY PageStepTyped DEF StreamPageTypeOK, StreamTypeOK
  <1>6. CASE Clock
    <2>1. UNCHANGED displayVars /\ KeepSettings /\ now' = now + 1
      BY <1>6 DEF Clock, KeepSettings
    <2>2. now' >= now
      BY <1>5, <2>1
    <2> QED BY <1>1, <1>5, <2>1, <2>2, SettingsKeepChart DEF ChartInv
  <1>7. CASE UNCHANGED <<displayVars, now>> /\ (LoadSettings \/ KeepSettings)
    <2>1. now' >= now
      BY <1>5, <1>7
    <2>2. UNCHANGED displayVars /\ (LoadSettings \/ KeepSettings)
      BY <1>7
    <2> QED BY <1>1, <1>5, <2>1, <2>2, SettingsKeepChart DEF ChartInv
  <1>8. \/ \E s \in Sockets : Receive(s)
        \/ Tick \/ ClearMessages \/ Clock
        \/ UNCHANGED <<displayVars, now>> /\ (LoadSettings \/ KeepSettings)
    BY DEF StreamPageNext, allVars, pageVars, TabHides, TabShows, PageOpens, TimerFires, PageConnects,
           ConnectCallback, SocketSettles, ConnectionLost, Disconnects, Applies, Alone, Rest,
           StartUpdates, StopUpdates, KeepSettings
  <1> QED BY <1>2, <1>3, <1>4, <1>6, <1>7, <1>8

\* However late messages come and however many the list has dropped, a bucket of the window
\* counts all of them, as long as the chart's settings stay.
THEOREM ChartCounts == StreamPageSpec => []ChartCountsAll
  <1>1. StreamPageInit => ChartInv
    BY EmptyChartFollows DEF StreamPageInit, ChartInv
  <1>2. StreamPageTypeOK /\ ChartInv => ChartCountsAll
    <2> SUFFICES ASSUME StreamPageTypeOK, ChartInv, ~resized,
                        NEW m \in ToSet(Processed), BucketTime(m) >= now - Window[display]
                 PROVE  /\ BucketTime(m) \in DOMAIN chartData
                        /\ chartData[BucketTime(m)] = CountIn(BucketTime(m), Processed)
      BY DEF ChartCountsAll
    <2>1. PICK i \in DOMAIN Processed : m = Processed[i]
      BY DEF ToSet
    <2>2. m \in Message
      BY <2>1, ElementOfSeq, LenProperties DEF ChartInv
    <2>3. BucketTime(m) \in 0 .. MaxTime
      BY <2>2, BucketTimeTyped DEF StreamPageTypeOK
    <2> QED BY <2>1, <2>3 DEF ChartInv, ChartFollows
  <1> QED BY <1>1, <1>2, ChartStep, StreamPageTyped, PTL DEF StreamPageSpec
=============================================================================
