----------------------------- MODULE LogStreamClient -----------------------------
(***************************************************************************)
(* The browser's side of the stream: the class LogStreamClient of          *)
(* stream.js with the opening of the page, toggleConnection and the form's *)
(* settings around it.                                                     *)
(*                                                                         *)
(* One thread runs the user's clicks, the events of the sockets and the    *)
(* timers, each to its end.  The handlers of a socket change the fields of *)
(* the one client, whichever socket they belong to.  Timers are never      *)
(* cancelled and carry nothing of their own, so that how many there are is *)
(* all there is to know of them.                                           *)
(*                                                                         *)
(* The server refuses settings with a pattern that does not compile and    *)
(* goes on with the filter it had; its answer changes nothing in the page. *)
(***************************************************************************)
EXTENDS Integers

CONSTANTS
    Filters,                \* settings of the filter form
    DefaultFilter,          \* the settings of the markup
    ResetFilter,            \* the settings of resetFilters
    Refused,                \* settings the server cannot compile
    MaxReconnectAttempts,   \* this.maxReconnectAttempts
    MaxSockets,             \* bound: sockets that live at the same time
    MaxClicks,              \* bound: clicks on Connect, edits, Apply and Reset
    MaxOpens                \* bound: sockets that open

None == "none"

ASSUME StreamAssumption ==
    /\ None \notin Filters
    /\ DefaultFilter \in Filters /\ ResetFilter \in Filters /\ Refused \subseteq Filters
    /\ MaxReconnectAttempts \in Nat
    /\ MaxSockets \in Nat \ {0} /\ MaxClicks \in Nat /\ MaxOpens \in Nat

VARIABLES
    sockets,            \* the WebSocket objects, by their state
    subscribed,         \* what the server filters by on each, once it has read all that
                        \* was sent; None is its default
    ws,                 \* this.ws, 0 for null
    connected,          \* this.connected
    status,             \* what updateStatus shows; "failed" is its "Connection failed"
    reconnectAttempts,  \* this.reconnectAttempts
    lastSubscription,   \* this.lastSubscription
    form,               \* the settings in the form
    saved,              \* the settings in localStorage
    missed,             \* history: the last settings were applied without a connection,
                        \* and older ones are stored
    page,               \* streamPageInitialized, and the timer of the auto-connect
    reconnects,         \* timers of attemptReconnect that have not fired
    callbacks,          \* timers of the connect callback that have not fired
    wanted,             \* the button reads Disconnect
    clicks,             \* clicks so far
    opens               \* sockets opened so far

connectionVars == <<sockets, ws, connected, status, reconnectAttempts, wanted>>
settingVars == <<lastSubscription, form, saved, missed>>
boundVars == <<clicks, opens>>

streamVars == <<connectionVars, subscribed, settingVars, page, reconnects, callbacks, boundVars>>

Sockets == 1 .. MaxSockets
Settings == Filters \cup {None}

StreamTypeOK ==
    /\ sockets \in [Sockets -> {"gone", "connecting", "open", "closing"}]
    /\ subscribed \in [Sockets -> Settings]
    /\ ws \in 0 .. MaxSockets
    /\ connected \in BOOLEAN
    /\ status \in {"connecting", "connected", "disconnected", "failed"}
    /\ reconnectAttempts \in 0 .. MaxReconnectAttempts
    /\ lastSubscription \in Settings
    /\ form \in Filters /\ saved \in Settings /\ missed \in BOOLEAN
    /\ page \in {"closed", "opening", "ready"}
    /\ reconnects \in Nat /\ callbacks \in Nat
    /\ wanted \in BOOLEAN
    /\ clicks \in 0 .. MaxClicks /\ opens \in 0 .. MaxOpens

StreamInit ==
    /\ sockets = [s \in Sockets |-> "gone"]
    /\ subscribed = [s \in Sockets |-> None]
    /\ ws = 0 /\ connected = FALSE /\ status = "disconnected" /\ reconnectAttempts = 0
    /\ lastSubscription = None
    /\ form = DefaultFilter /\ saved \in Settings /\ missed = FALSE
    /\ page = "closed"
    /\ reconnects = 0 /\ callbacks = 0
    /\ wanted = FALSE /\ clicks = 0 /\ opens = 0

Click == page # "closed" /\ clicks < MaxClicks /\ clicks' = clicks + 1

----------------------------------------------------------------------------
(* The connection.                                                         *)

\* connect: a new WebSocket replaces this.ws, which may go on living; or the
\* constructor throws, and nothing is tried again.
Connect ==
    \/ \E s \in Sockets :
          /\ sockets[s] = "gone" /\ \A t \in 1 .. s - 1 : sockets[t] # "gone"
          /\ sockets' = [sockets EXCEPT ![s] = "connecting"]
          /\ ws' = s /\ status' = "connecting"
    \/ UNCHANGED <<sockets, ws>> /\ status' = "failed"

\* toggleConnection of a client that is not connected.
BeginConnection ==
    /\ ~connected
    /\ Connect
    /\ wanted' = TRUE
    /\ UNCHANGED <<connected, reconnectAttempts>>

\* toggleConnection of one that is: disconnect; the socket's close event comes later.
EndConnection ==
    /\ connected
    /\ reconnectAttempts' = MaxReconnectAttempts
    /\ sockets' = [s \in Sockets |->
          IF s = ws /\ sockets[s] # "gone" THEN "closing" ELSE sockets[s]]
    /\ ws' = 0 /\ connected' = FALSE /\ status' = "disconnected"
    /\ wanted' = FALSE

ClickConnect ==
    /\ Click
    /\ BeginConnection
    /\ UNCHANGED <<subscribed, settingVars, page, reconnects, callbacks, opens>>

ClickDisconnect ==
    /\ page # "closed"
    /\ EndConnection
    /\ UNCHANGED <<subscribed, settingVars, page, reconnects, callbacks, boundVars>>

\* The page is shown for the first time: the saved settings, if any, fill the form.
OpenPage ==
    /\ page = "closed" /\ page' = "opening"
    /\ form' = IF saved = None THEN form ELSE saved
    /\ UNCHANGED <<connectionVars, subscribed, lastSubscription, saved, missed,
                   reconnects, callbacks, boundVars>>

\* The timer of the auto-connect toggles the connection if the button reads Connect, be
\* the client connected by then or not.
AutoConnect ==
    /\ page = "opening" /\ page' = "ready"
    /\ IF wanted THEN UNCHANGED connectionVars ELSE BeginConnection \/ EndConnection
    /\ UNCHANGED <<subscribed, settingVars, reconnects, callbacks, boundVars>>

\* onopen, and the timer the connect callback sets.
SocketOpens(s) ==
    /\ sockets[s] = "connecting"
    /\ opens < MaxOpens /\ opens' = opens + 1
    /\ sockets' = [sockets EXCEPT ![s] = "open"]
    /\ connected' = TRUE /\ status' = "connected" /\ reconnectAttempts' = 0
    /\ callbacks' = callbacks + 1
    /\ UNCHANGED <<ws, wanted, subscribed, settingVars, page, reconnects, clicks>>

GiveUp == status' = "disconnected" /\ UNCHANGED <<reconnectAttempts, reconnects>>

TryAgainLater ==
    /\ reconnectAttempts' = reconnectAttempts + 1 /\ reconnects' = reconnects + 1
    /\ status' = "connecting"

AttemptReconnect_OneMore ==
    IF reconnectAttempts > MaxReconnectAttempts THEN GiveUp ELSE TryAgainLater

AttemptReconnect_OneLess ==
    IF reconnectAttempts + 1 >= MaxReconnectAttempts THEN GiveUp ELSE TryAgainLater

AttemptReconnect ==
    IF reconnectAttempts >= MaxReconnectAttempts THEN GiveUp ELSE TryAgainLater

SocketCloses_OwnOnly(s) ==
    /\ sockets[s] # "gone"
    /\ sockets' = [sockets EXCEPT ![s] = "gone"]
    /\ subscribed' = [subscribed EXCEPT ![s] = None]
    /\ IF s = ws THEN connected' = FALSE /\ AttemptReconnect
                 ELSE UNCHANGED <<connected, status, reconnectAttempts, reconnects>>
    /\ UNCHANGED <<ws, wanted, settingVars, page, callbacks, boundVars>>

\* onclose, of a socket that failed to open, lost its connection or was closed.
SocketCloses(s) ==
    /\ sockets[s] # "gone"
    /\ sockets' = [sockets EXCEPT ![s] = "gone"]
    /\ subscribed' = [subscribed EXCEPT ![s] = None]
    /\ connected' = FALSE
    /\ AttemptReconnect
    /\ UNCHANGED <<ws, wanted, settingVars, page, callbacks, boundVars>>

ReconnectFires ==
    /\ reconnects > 0 /\ reconnects' = reconnects - 1
    /\ IF connected THEN UNCHANGED <<sockets, ws, status>> ELSE Connect
    /\ UNCHANGED <<connected, reconnectAttempts, wanted, subscribed, settingVars, page,
                   callbacks, boundVars>>

----------------------------------------------------------------------------
\* send of this.ws throws on a socket that is connecting; on one that is closing or
\* closed what is sent is dropped.
SendThrows == sockets[ws] = "connecting"

\* What is sent over an open socket is what the server filters by, unless it refuses it.
Send(f) ==
    subscribed' = [s \in Sockets |->
        IF s = ws /\ sockets[s] = "open" /\ f \notin Refused THEN f ELSE subscribed[s]]

UpdateSubscription_NotStored(f) ==
    IF connected /\ ws # 0
    THEN Send(f) /\ UNCHANGED lastSubscription
    ELSE UNCHANGED <<lastSubscription, subscribed>>

\* updateSubscription: stored before it is sent, and kept when it is refused.
UpdateSubscription(f) ==
    IF connected /\ ws # 0
    THEN lastSubscription' = f /\ Send(f)
    ELSE UNCHANGED <<lastSubscription, subscribed>>

\* applyFilters with settings f in the form, which are saved in either case.
ApplyFilters(f) ==
    /\ UpdateSubscription(f)
    /\ form' = f /\ saved' = f
    /\ missed' = (~(connected /\ ws # 0) /\ lastSubscription # None)

Edit(f) ==
    /\ Click
    /\ f # form /\ form' = f
    /\ UNCHANGED <<connectionVars, subscribed, lastSubscription, saved, missed, page,
                   reconnects, callbacks, opens>>

\* The buttons Apply and Reset; what Reset removes from localStorage is saved again.
ClickApply ==
    /\ Click
    /\ \E f \in {form, ResetFilter} : ApplyFilters(f)
    /\ UNCHANGED <<connectionVars, page, reconnects, callbacks, opens>>

\* resendLastSubscription returns true.
Resends == lastSubscription # None /\ ws # 0 /\ ~SendThrows

\* The connect callback, 100 ms later: the last subscription, or else the form's.
CallbackFires ==
    /\ callbacks > 0 /\ callbacks' = callbacks - 1
    /\ CASE connected /\ Resends  -> Send(lastSubscription)
                                     /\ UNCHANGED <<lastSubscription, form, saved, missed>>
         [] connected /\ ~Resends -> ApplyFilters(form)
         [] OTHER                 -> UNCHANGED <<subscribed, settingVars>>
    /\ UNCHANGED <<connectionVars, page, reconnects, boundVars>>

----------------------------------------------------------------------------
StreamNext ==
    \/ OpenPage \/ AutoConnect
    \/ ClickConnect \/ ClickDisconnect \/ ClickApply
    \/ \E f \in Filters : Edit(f)
    \/ \E s \in Sockets : SocketOpens(s) \/ SocketCloses(s)
    \/ ReconnectFires \/ CallbackFires

\* Timers fire, and an attempt to connect or to close ends, one way or the other.
StreamFairness ==
    /\ WF_streamVars(AutoConnect)
    /\ WF_streamVars(ReconnectFires)
    /\ WF_streamVars(CallbackFires)
    /\ \A s \in Sockets :
          WF_streamVars(sockets[s] # "open" /\ (SocketOpens(s) \/ SocketCloses(s)))

StreamSpec == StreamInit /\ [][StreamNext]_streamVars /\ StreamFairness

----------------------------------------------------------------------------
(* Properties.                                                             *)

\* Whatever sockets come and go behind it, the client takes itself for connected only
\* while one of its sockets is open.
ConnectedMeansOpen == connected => \E s \in Sockets : sockets[s] = "open"

\* The socket in use is open, and the connect callbacks have run.
InUse == connected /\ ws # 0 /\ callbacks = 0 /\ sockets[ws] = "open"

\* The server of the socket in use filters by what the client has stored as its last
\* subscription, after reconnections, late closes and replaced sockets too, unless the
\* server refuses it.  What is stored is what the user applied last, with one exception:
\* settings applied without a connection do not replace older ones that are stored.
SubscriptionInForce ==
    InUse => /\ lastSubscription # None
             /\ lastSubscription \notin Refused => subscribed[ws] = lastSubscription
             /\ ~missed => lastSubscription = saved

\* Nothing is under way any more, and the page says so: every attempt has been made and
\* has failed, or the WebSocket could not be constructed.
GivenUp ==
    /\ reconnects = 0 /\ \A s \in Sockets : sockets[s] # "connecting"
    /\ \/ status = "disconnected" /\ reconnectAttempts = MaxReconnectAttempts
       \/ status = "failed"

\* A user who wants a connection is not left waiting, whichever socket a close event
\* belongs to: there will be a connection, or all the attempts will have been made.
ConnectionSettles == wanted ~> (connected \/ ~wanted \/ GivenUp)

\* disconnect prevents reconnection: no socket is made until the user asks for one.
DisconnectPreventsReconnection ==
    [][ws' # ws /\ ws' # 0 => wanted']_streamVars
=============================================================================
