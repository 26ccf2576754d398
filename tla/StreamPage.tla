------------------------------- MODULE StreamPage -------------------------------
(***************************************************************************)
(* The stream page of stream.js around the client of LogStreamClient: the  *)
(* messages of its sockets go into a buffer, which an interval empties     *)
(* into the list and the chart.  The interval starts in the connect        *)
(* callback, ends at a disconnect and while the tab is hidden.             *)
(*                                                                         *)
(* The table is drawn again after every change of the list, with the last  *)
(* of its messages, and the interval of requestStats runs with the other   *)
(* one.  A message is its time; the chart counts messages, without their   *)
(* levels.                                                                 *)
(***************************************************************************)
EXTENDS LogStreamClient, SequencesExt

CONSTANTS
    MaxMessages,    \* MaxMessages[f]: the settings' length of the list
    BucketSize,     \* BucketSize[f], Window[f]: the settings' chart
    Window,
    MaxRows,        \* the rows updateTable draws, 1000
    MaxReceived,    \* bound: messages received since the last Clear
    MaxTime         \* bound: the clock

ASSUME StreamPageAssumption ==
    /\ MaxMessages \in [Filters -> Nat \ {0}]
    /\ BucketSize \in [Filters -> Nat \ {0}] /\ Window \in [Filters -> Nat]
    /\ MaxRows \in Nat \ {0}
    /\ MaxReceived \in Nat /\ MaxTime \in Nat

VARIABLES
    messageBuffer, messages,
    chartData,      \* messages by bucket
    display,        \* the settings whose maxMessages, chartBucketSize and chartWindow hold
    updating,       \* updateTimer and statsTimer are set
    hidden,         \* document.hidden
    now,            \* Date.now()
    received,       \* history: what came in since the last Clear
    resized         \* history: the chart's settings have changed since then

displayVars == <<messageBuffer, messages, chartData, received>>
pageVars == <<displayVars, display, updating, hidden, now, resized>>

Message == [id : 1 .. MaxReceived, time : 0 .. MaxTime]

StreamPageTypeOK ==
    /\ StreamTypeOK
    /\ messageBuffer \in Seq(Message) /\ messages \in Seq(Message) /\ received \in Seq(Message)
    /\ DOMAIN chartData \subseteq 0 .. MaxTime /\ \A b \in DOMAIN chartData : chartData[b] \in Nat
    /\ display \in Filters
    /\ updating \in BOOLEAN /\ hidden \in BOOLEAN /\ resized \in BOOLEAN
    /\ now \in 0 .. MaxTime

StreamPageInit ==
    /\ StreamInit
    /\ messageBuffer = <<>> /\ messages = <<>> /\ chartData = <<>> /\ received = <<>>
    /\ display = DefaultFilter /\ resized = FALSE
    /\ updating = FALSE /\ hidden \in BOOLEAN
    /\ now = 0

----------------------------------------------------------------------------
(* Messages and their display.                                             *)

\* A line that is new to the page, or, while two sockets are open, one that has come in
\* before: the server sends it over each, and the page compares nothing.
Incoming(s) ==
    LET Fresh    == {[id |-> Len(received) + 1, time |-> t] : t \in 0 .. now}
        Repeated == {m \in ToSet(received) : \E other \in Sockets \ {s} : sockets[other] = "open"}
    IN  Fresh \cup Repeated

\* A message arrives on an open socket of the page, this.ws or not.  Those of a batch are
\* pushed one after the other.
Receive(s) ==
    /\ sockets[s] = "open"
    /\ Len(received) < MaxReceived
    /\ \E m \in Incoming(s) :
          messageBuffer' = messageBuffer \o <<m>> /\ received' = received \o <<m>>
    /\ UNCHANGED <<streamVars, messages, chartData, display, updating, hidden, now, resized>>

BucketTime(m) == (m.time \div BucketSize[display]) * BucketSize[display]

CountIn(b, batch) == Cardinality({i \in DOMAIN batch : BucketTime(batch[i]) = b})

LastOf(n, list) == IF Len(list) > n THEN SubSeq(list, Len(list) - n + 1, Len(list)) ELSE list

Trimmed(list) == LastOf(MaxMessages[display], list)

\* updateTable, at every tick and Clear.
Table == LastOf(MaxRows, messages)

Tick_ChartOfBuffer ==
    /\ updating /\ messageBuffer # <<>>
    /\ messages' = Trimmed(messages \o messageBuffer)
    /\ LET kept == {BucketTime(m) : m \in ToSet(messageBuffer)}
       IN  chartData' = [b \in kept |-> CountIn(b, messageBuffer)]
    /\ messageBuffer' = <<>>
    /\ UNCHANGED <<streamVars, received, display, updating, hidden, now, resized>>

\* The interval: processMessageBuffer, which does nothing to an empty buffer.
Tick ==
    /\ updating /\ messageBuffer # <<>>
    /\ messages' = Trimmed(messages \o messageBuffer)
    /\ LET kept == {b \in DOMAIN chartData \cup {BucketTime(m) : m \in ToSet(messageBuffer)} :
                       b >= now - Window[display]}
       IN  chartData' = [b \in kept |-> CountIn(b, messageBuffer)
                            + (IF b \in DOMAIN chartData THEN chartData[b] ELSE 0)]
    /\ messageBuffer' = <<>>
    /\ UNCHANGED <<streamVars, received, display, updating, hidden, now, resized>>

ClearMessages_BufferKept ==
    /\ page # "closed"
    /\ messages' = <<>> /\ chartData' = <<>>
    /\ received' = <<>> /\ resized' = FALSE
    /\ UNCHANGED <<streamVars, messageBuffer, display, updating, hidden, now>>

\* The button Clear, which empties the buffer with the list.
ClearMessages ==
    /\ page # "closed"
    /\ messageBuffer' = <<>> /\ messages' = <<>> /\ chartData' = <<>>
    /\ received' = <<>> /\ resized' = FALSE
    /\ UNCHANGED <<streamVars, display, updating, hidden, now>>

Clock ==
    /\ now < MaxTime /\ now' = now + 1
    /\ UNCHANGED <<streamVars, displayVars, display, updating, hidden, resized>>

----------------------------------------------------------------------------
(* Settings and updates.                                                   *)

\* loadSettings: what the form says now, applied or not.
LoadSettings ==
    /\ display' = form'
    /\ resized' = (resized \/ /\ received # <<>>
                              /\ \/ BucketSize[form'] # BucketSize[display]
                                 \/ Window[form'] # Window[display])

KeepSettings == UNCHANGED <<display, resized>>

StartUpdates == updating' = TRUE /\ LoadSettings
StopUpdates == updating' = FALSE /\ KeepSettings

\* visibilitychange.
TabHides ==
    /\ ~hidden /\ hidden' = TRUE
    /\ StopUpdates
    /\ UNCHANGED <<streamVars, displayVars, now>>

TabShows_NotResumed ==
    /\ hidden /\ hidden' = FALSE
    /\ UNCHANGED updating /\ KeepSettings
    /\ UNCHANGED <<streamVars, displayVars, now>>

TabShows ==
    /\ hidden /\ hidden' = FALSE
    /\ UNCHANGED streamVars
    /\ IF connected THEN StartUpdates ELSE UNCHANGED updating /\ KeepSettings
    /\ UNCHANGED <<displayVars, now>>

----------------------------------------------------------------------------
(* The client's steps, with what the page does in them.                    *)

Rest == UNCHANGED <<displayVars, hidden, now>>

PageOpens == OpenPage /\ LoadSettings /\ UNCHANGED updating /\ Rest

PageConnects ==
    /\ AutoConnect
    /\ IF wanted \/ ~connected THEN UNCHANGED updating /\ KeepSettings ELSE StopUpdates
    /\ Rest

Disconnects == ClickDisconnect /\ StopUpdates /\ Rest

Applies == ClickApply /\ LoadSettings /\ UNCHANGED updating /\ Rest

ConnectCallback_FirstOnly ==
    /\ CallbackFires
    /\ IF connected /\ ~Resends THEN StartUpdates ELSE UNCHANGED updating /\ KeepSettings
    /\ Rest

ConnectCallback ==
    /\ CallbackFires
    /\ IF connected THEN StartUpdates ELSE UNCHANGED updating /\ KeepSettings
    /\ Rest

\* Steps in which the page has no part.  A close leaves the interval running.
Alone(step) == step /\ UNCHANGED pageVars

TimerFires == PageConnects \/ ConnectCallback \/ Alone(ReconnectFires)

\* A socket that is connecting opens or fails, one that is closing closes.
SocketSettles == \E s \in Sockets : sockets[s] # "open" /\ Alone(SocketOpens(s) \/ SocketCloses(s))

ConnectionLost == \E s \in Sockets : sockets[s] = "open" /\ Alone(SocketCloses(s))

----------------------------------------------------------------------------
StreamPageNext ==
    \/ \E s \in Sockets : Receive(s)
    \/ Tick \/ ClearMessages \/ Clock \/ TabHides \/ TabShows
    \/ PageOpens \/ TimerFires \/ SocketSettles \/ ConnectionLost
    \/ Disconnects \/ Applies \/ Alone(ClickConnect) \/ \E f \in Filters : Alone(Edit(f))

allVars == <<streamVars, pageVars>>

\* The interval and the timers fire, and attempts to connect or to close end.
StreamPageFairness ==
    WF_allVars(Tick) /\ WF_allVars(TimerFires) /\ WF_allVars(SocketSettles)

StreamPageSpec == StreamPageInit /\ [][StreamPageNext]_allVars /\ StreamPageFairness

----------------------------------------------------------------------------
(* Properties.                                                             *)

Processed == SubSeq(received, 1, Len(received) - Len(messageBuffer))

\* However often the connection changes, the tab is hidden and the settings change, the
\* page has dropped and repeated no arrival since the last Clear: the list and after it the
\* buffer are the newest arrivals in their order, all of them unless the list is as long as
\* some settings allow.  (A line that arrives over two sockets is two arrivals.)
NewestKept ==
    \E dropped \in 0 .. Len(received) :
        /\ messages \o messageBuffer = SubSeq(received, dropped + 1, Len(received))
        /\ dropped = 0 \/ \E f \in Filters : Len(messages) >= MaxMessages[f]

\* As long as the chart's settings stay, each bucket inside the window counts all the
\* messages that have left the buffer, the late ones and those the list has dropped too.
ChartCountsAll ==
    ~resized => \A b \in {BucketTime(m) : m \in ToSet(Processed)} :
        b >= now - Window[display] => /\ b \in DOMAIN chartData
                                      /\ chartData[b] = CountIn(b, Processed)

\* Whatever closes, reopens and hides, a client that is connected in a visible tab has
\* its updates running or about to be started by a connect callback.
UpdatesRun == connected /\ ~hidden => updating \/ callbacks > 0

\* Arrival i is in the buffer, is drawn in the table, or has so many behind it that the
\* list or the table has no place for it.
Waiting(i) == Len(received) - Len(messageBuffer) < i /\ i <= Len(received)
Drawn(i) == i <= Len(received) /\ received[i] \in ToSet(Table)
Outrun(i) == Len(received) - i >= MaxRows \/ Len(received) - i >= MaxMessages[display]

Cleared(i) == Len(received) < i

\* What waits in the buffer comes to be a row of the table, unless newer messages take its
\* place, the user clears it away, the connection ends or the tab is hidden before.
MessagesShown ==
    \A i \in 1 .. MaxReceived :
        Waiting(i) ~> (Drawn(i) \/ Outrun(i) \/ Cleared(i) \/ ~connected \/ hidden)
=============================================================================
