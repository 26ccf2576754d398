------------------------- MODULE LogStreamClient_proofs -------------------------
(***************************************************************************)
(* What is proved of LogStreamClient, for every set of settings and every  *)
(* number of sockets, attempts, clicks and openings.                       *)
(***************************************************************************)
EXTENDS LogStreamClient, TLAPS

----------------------------------------------------------------------------
(* Type correctness.                                                       *)

LEMMA StreamInitTyped == StreamInit => StreamTypeOK
  <1> SUFFICES ASSUME StreamInit PROVE StreamTypeOK
    OBVIOUS
  <1>1. 0 \in 0 .. MaxSockets /\ 0 \in 0 .. MaxReconnectAttempts /\ 0 \in 0 .. MaxClicks
          /\ 0 \in 0 .. MaxOpens /\ 0 \in Nat /\ DefaultFilter \in Filters /\ None \in Settings
    BY StreamAssumption DEF StreamAssumption, Settings
  <1>2. /\ sockets \in [Sockets -> {"gone", "connecting", "open", "closing"}]
        /\ subscribed \in [Sockets -> Settings]
    BY <1>1 DEF StreamInit
  <1> QED BY <1>1, <1>2 DEF StreamInit, StreamTypeOK

LEMMA ConnectTyped ==
    ASSUME StreamTypeOK, Connect
    PROVE  /\ sockets' \in [Sockets -> {"gone", "connecting", "open", "closing"}]
           /\ ws' \in 0 .. MaxSockets
           /\ status' \in {"connecting", "connected", "disconnected", "failed"}
  BY StreamAssumption DEF StreamAssumption, Connect, StreamTypeOK, Sockets

LEMMA EndConnectionTyped ==
    ASSUME StreamTypeOK, EndConnection
    PROVE  /\ sockets' \in [Sockets -> {"gone", "connecting", "open", "closing"}]
           /\ ws' \in 0 .. MaxSockets
           /\ status' \in {"connecting", "connected", "disconnected", "failed"}
           /\ connected' \in BOOLEAN /\ wanted' \in BOOLEAN
           /\ reconnectAttempts' \in 0 .. MaxReconnectAttempts
  <1>1. MaxReconnectAttempts \in 0 .. MaxReconnectAttempts /\ 0 \in 0 .. MaxSockets
    BY StreamAssumption DEF StreamAssumption
  <1>2. sockets' \in [Sockets -> {"gone", "connecting", "open", "closing"}]
    BY DEF EndConnection, StreamTypeOK
  <1> QED BY <1>1, <1>2 DEF EndConnection, StreamTypeOK

LEMMA AttemptReconnectTyped ==
    ASSUME StreamTypeOK, AttemptReconnect
    PROVE  /\ reconnectAttempts' \in 0 .. MaxReconnectAttempts /\ reconnects' \in Nat
           /\ status' \in {"connecting", "connected", "disconnected", "failed"}
  BY StreamAssumption DEF StreamAssumption, AttemptReconnect, GiveUp, TryAgainLater, StreamTypeOK

LEMMA SendTyped ==
    ASSUME StreamTypeOK, NEW f \in Settings, Send(f)
    PROVE  subscribed' \in [Sockets -> Settings]
  BY DEF Send, StreamTypeOK

LEMMA ApplyFiltersTyped ==
    ASSUME StreamTypeOK, NEW f \in Filters, ApplyFilters(f)
    PROVE  /\ subscribed' \in [Sockets -> Settings] /\ lastSubscription' \in Settings
           /\ form' \in Filters /\ saved' \in Settings /\ missed' \in BOOLEAN
  <1>1. form' \in Filters /\ saved' \in Settings /\ missed' \in BOOLEAN
    BY DEF ApplyFilters, Settings
  <1>2. CASE connected /\ ws # 0
    <2>1. lastSubscription' = f /\ Send(f) /\ f \in Settings
      BY <1>2 DEF ApplyFilters, UpdateSubscription, Settings
    <2> QED BY <1>1, <2>1, SendTyped
  <1>3. CASE ~(connected /\ ws # 0)
    BY <1>1, <1>3 DEF ApplyFilters, UpdateSubscription, StreamTypeOK
  <1> QED BY <1>1, <1>2, <1>3

LEMMA StreamStepTyped == StreamTypeOK /\ [StreamNext]_streamVars => StreamTypeOK'
  <1> SUFFICES ASSUME StreamTypeOK, [StreamNext]_streamVars
               PROVE  StreamTypeOK'
    OBVIOUS
  <1> USE StreamAssumption DEF StreamAssumption
  <1>1. CASE OpenPage
    BY <1>1 DEF connectionVars, boundVars, OpenPage, StreamTypeOK, Settings
  <1>2. CASE AutoConnect
    <2>1. CASE wanted
      BY <1>2, <2>1 DEF connectionVars, settingVars, boundVars, AutoConnect, StreamTypeOK
    <2>2. CASE BeginConnection
      BY <1>2, <2>2, ConnectTyped DEF connectionVars, settingVars, boundVars, AutoConnect, BeginConnection, StreamTypeOK
    <2>3. CASE EndConnection
      BY <1>2, <2>3, EndConnectionTyped DEF connectionVars, settingVars, boundVars, AutoConnect, StreamTypeOK
    <2> QED BY <1>2, <2>1, <2>2, <2>3 DEF AutoConnect
  <1>3. CASE ClickConnect
    BY <1>3, ConnectTyped DEF connectionVars, settingVars, boundVars, ClickConnect, BeginConnection, Click, StreamTypeOK
  <1>4. CASE ClickDisconnect
    BY <1>4, EndConnectionTyped DEF connectionVars, settingVars, boundVars, ClickDisconnect, StreamTypeOK
  <1>5. CASE ClickApply
    <2>1. PICK f \in {form, ResetFilter} : ApplyFilters(f)
      BY <1>5 DEF ClickApply
    <2>2. f \in Filters
      BY DEF StreamTypeOK
    <2> QED BY <1>5, <2>1, <2>2, ApplyFiltersTyped DEF connectionVars, settingVars, boundVars, ClickApply, Click, StreamTypeOK
  <1>6. CASE \E f \in Filters : Edit(f)
    BY <1>6 DEF connectionVars, settingVars, boundVars, Edit, Click, StreamTypeOK
  <1>7. ASSUME NEW s \in Sockets, SocketOpens(s)
        PROVE  StreamTypeOK'
    BY <1>7 DEF connectionVars, settingVars, boundVars, SocketOpens, StreamTypeOK
  <1>8. ASSUME NEW s \in Sockets, SocketCloses(s)
        PROVE  StreamTypeOK'
    BY <1>8, AttemptReconnectTyped DEF connectionVars, settingVars, boundVars, SocketCloses, StreamTypeOK, Settings
  <1>9. CASE ReconnectFires
    <2>1. /\ sockets' \in [Sockets -> {"gone", "connecting", "open", "closing"}]
          /\ ws' \in 0 .. MaxSockets
          /\ status' \in {"connecting", "connected", "disconnected", "failed"}
      BY <1>9, ConnectTyped DEF connectionVars, settingVars, boundVars, ReconnectFires, StreamTypeOK
    <2> QED BY <1>9, <2>1 DEF connectionVars, settingVars, boundVars, ReconnectFires, StreamTypeOK
  <1>10. CASE CallbackFires
    <2>1. /\ subscribed' \in [Sockets -> Settings] /\ lastSubscription' \in Settings
          /\ form' \in Filters /\ saved' \in Settings /\ missed' \in BOOLEAN
      <3>1. CASE connected /\ Resends
        BY <1>10, <3>1, SendTyped DEF CallbackFires, StreamTypeOK
      <3>2. CASE connected /\ ~Resends
        BY <1>10, <3>2, ApplyFiltersTyped DEF CallbackFires, StreamTypeOK
      <3>3. CASE ~connected
        BY <1>10, <3>3 DEF CallbackFires, settingVars, StreamTypeOK
      <3> QED BY <3>1, <3>2, <3>3
    <2> QED BY <1>10, <2>1 DEF connectionVars, settingVars, boundVars, CallbackFires, StreamTypeOK
  <1>11. CASE UNCHANGED streamVars
    BY <1>11 DEF connectionVars, settingVars, boundVars, streamVars, StreamTypeOK
  <1> QED BY <1>1, <1>2, <1>3, <1>4, <1>5, <1>6, <1>7, <1>8, <1>9, <1>10, <1>11 DEF StreamNext

\* Every variable of the client keeps its type.
THEOREM StreamTyped == StreamSpec => []StreamTypeOK
  BY StreamInitTyped, StreamStepTyped, PTL DEF StreamSpec

----------------------------------------------------------------------------
(* The client takes itself for connected only over an open socket.         *)

LEMMA ConnectedMeansOpenStep ==
    StreamTypeOK /\ ConnectedMeansOpen /\ [StreamNext]_streamVars => ConnectedMeansOpen'
  <1> SUFFICES ASSUME StreamTypeOK, ConnectedMeansOpen, [StreamNext]_streamVars, connected'
               PROVE  \E s \in Sockets : sockets'[s] = "open"
    BY DEF ConnectedMeansOpen
  <1>1. ASSUME NEW s \in Sockets, SocketOpens(s)
        PROVE  sockets'[s] = "open"
    BY <1>1 DEF SocketOpens, StreamTypeOK
  <1>2. ASSUME NEW s \in Sockets, SocketCloses(s)
        PROVE  FALSE
    BY <1>2 DEF SocketCloses
  <1>3. CASE connected /\ sockets' = sockets
    BY <1>3 DEF ConnectedMeansOpen
  \* A step that makes or closes sockets leaves the client not connected.
  <1>4. \/ connected /\ sockets' = sockets
        \/ \E s \in Sockets : SocketOpens(s) \/ SocketCloses(s)
    BY DEF StreamNext, streamVars, connectionVars, OpenPage, AutoConnect, BeginConnection, EndConnection,
           ClickConnect, ClickDisconnect, ClickApply, Edit, ReconnectFires, CallbackFires
  <1> QED BY <1>1, <1>2, <1>3, <1>4

\* Whichever sockets fail, close late or are replaced, one of them is open while the
\* client says that it is connected.
THEOREM ConnectedOverOpenSocket == StreamSpec => []ConnectedMeansOpen
  <1>1. StreamInit => ConnectedMeansOpen
    BY DEF StreamInit, ConnectedMeansOpen
  <1> QED BY <1>1, ConnectedMeansOpenStep, StreamTyped, PTL DEF StreamSpec

----------------------------------------------------------------------------
(* The subscription in force.                                              *)

\* What was applied last is what is stored, unless it was missed or nothing is stored.
StoredIsSaved == ~missed /\ lastSubscription # None => lastSubscription = saved

SubscriptionInvariant == SubscriptionInForce /\ StoredIsSaved

LEMMA ApplyFiltersInForce ==
    ASSUME StreamTypeOK, StoredIsSaved, NEW f \in Filters, ApplyFilters(f)
    PROVE  /\ StoredIsSaved'
           /\ connected /\ ws # 0 =>
                 /\ lastSubscription' = f /\ saved' = f
                 /\ sockets[ws] = "open" /\ f \notin Refused => subscribed'[ws] = f
  <1>1. CASE connected /\ ws # 0
    <2>1. lastSubscription' = f /\ saved' = f /\ Send(f)
      BY <1>1 DEF ApplyFilters, UpdateSubscription
    <2>2. sockets[ws] = "open" /\ f \notin Refused => subscribed'[ws] = f
      BY <1>1, <2>1, StreamAssumption DEF StreamAssumption, Send, StreamTypeOK, Sockets
    <2> QED BY <2>1, <2>2 DEF StoredIsSaved
  <1>2. CASE ~(connected /\ ws # 0)
    <2>1. lastSubscription' = lastSubscription
      BY <1>2 DEF ApplyFilters, UpdateSubscription
    <2>2. lastSubscription # None => missed'
      BY <1>2 DEF ApplyFilters
    <2> QED BY <1>2, <2>1, <2>2 DEF StoredIsSaved
  <1> QED BY <1>1, <1>2

LEMMA SubscriptionStep ==
    StreamTypeOK /\ SubscriptionInvariant /\ [StreamNext]_streamVars => SubscriptionInvariant'
  <1> SUFFICES ASSUME StreamTypeOK, SubscriptionInvariant, [StreamNext]_streamVars
               PROVE  SubscriptionInvariant'
    OBVIOUS
  <1> USE StreamAssumption DEF StreamAssumption
  <1>1. CASE ClickApply
    <2>1. PICK f \in {form, ResetFilter} : ApplyFilters(f)
      BY <1>1 DEF ClickApply
    <2>2. f \in Filters /\ f # None
      BY DEF StreamTypeOK
    <2> QED BY <1>1, <2>1, <2>2, ApplyFiltersInForce
            DEF ClickApply, connectionVars, SubscriptionInvariant, SubscriptionInForce, InUse
  <1>2. CASE CallbackFires
    <2>1. CASE connected /\ Resends
      BY <1>2, <2>1 DEF CallbackFires, connectionVars, Resends, Send, SubscriptionInvariant, SubscriptionInForce, InUse,
                        StoredIsSaved, StreamTypeOK, Sockets
    <2>2. CASE connected /\ ~Resends
      <3>1. ApplyFilters(form) /\ form \in Filters /\ form # None
        BY <1>2, <2>2 DEF CallbackFires, StreamTypeOK
      <3> QED BY <1>2, <3>1, ApplyFiltersInForce
              DEF CallbackFires, connectionVars, SubscriptionInvariant, SubscriptionInForce, InUse
    <2>3. CASE ~connected
      BY <1>2, <2>3 DEF CallbackFires, connectionVars, settingVars, SubscriptionInvariant, SubscriptionInForce, InUse,
                        StoredIsSaved
    <2> QED BY <2>1, <2>2, <2>3
  <1>3. ASSUME NEW s \in Sockets, SocketOpens(s)
        PROVE  SubscriptionInvariant'
    <2>1. callbacks' # 0
      BY <1>3 DEF SocketOpens, StreamTypeOK
    <2> QED BY <1>3, <2>1 DEF SocketOpens, settingVars, SubscriptionInvariant, SubscriptionInForce, InUse, StoredIsSaved
  <1>4. ASSUME NEW s \in Sockets, SocketCloses(s)
        PROVE  SubscriptionInvariant'
    BY <1>4 DEF SocketCloses, settingVars, SubscriptionInvariant, SubscriptionInForce, InUse, StoredIsSaved
  \* The others change neither the settings nor, of a client that stays connected, the sockets.
  <1>5. CASE /\ UNCHANGED <<lastSubscription, saved, missed>>
             /\ ~connected' \/ UNCHANGED <<connected, ws, callbacks, sockets, subscribed>>
    BY <1>5 DEF SubscriptionInvariant, SubscriptionInForce, InUse, StoredIsSaved
  <1>6. CASE \/ OpenPage \/ AutoConnect \/ ClickConnect \/ ClickDisconnect \/ ReconnectFires
             \/ (\E f \in Filters : Edit(f)) \/ UNCHANGED streamVars
    BY <1>5, <1>6 DEF streamVars, connectionVars, settingVars, boundVars, OpenPage, AutoConnect, BeginConnection, EndConnection,
                      ClickConnect, ClickDisconnect, Edit, ReconnectFires
  <1> QED BY <1>1, <1>2, <1>3, <1>4, <1>6 DEF StreamNext

\* Once the connect callbacks have run, the server filters by what the client has stored,
\* unless it refuses that, and what is stored is what was saved last, unless that was
\* saved without a connection while older settings were stored.
THEOREM SubscriptionHolds == StreamSpec => []SubscriptionInForce
  <1>1. StreamInit => SubscriptionInvariant
    BY DEF StreamInit, SubscriptionInvariant, SubscriptionInForce, InUse, StoredIsSaved
  <1>2. SubscriptionInvariant => SubscriptionInForce
    BY DEF SubscriptionInvariant
  <1> QED BY <1>1, <1>2, SubscriptionStep, StreamTyped, PTL DEF StreamSpec
=============================================================================
