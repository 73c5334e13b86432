-------------------------------- MODULE Hmi --------------------------------
(***************************************************************************)
(* The Qt client (app/qt_hmi/main.cpp) with a server behind it: its        *)
(* labels, its two timers, its socket and the buffer of a line received in *)
(* part.                                                                   *)
(*                                                                         *)
(* The server is what its own modules promise: key events come from the    *)
(* window of KeyEventWindow, which KeyEvents implements; requests are      *)
(* answered in order; the LED is a real one.  Anybody else may set the LED, *)
(* the connection may break, and the server may crash and start again.     *)
(* The client finds out in time, for it writes every second.  The server   *)
(* may never find out: it sets no keepalive, and writes to a client only   *)
(* to answer it or to push an event.                                       *)
(*                                                                         *)
(* A line on the wire is the sequence of the things the client looks for   *)
(* in it.  A line that is received in part has no effect until it is       *)
(* complete; so lines arrive whole, except for the last one of a           *)
(* connection that breaks.                                                 *)
(***************************************************************************)
EXTENDS KeyEventWindow, Integers, Sequences, SequencesExt

CONSTANTS
  MaxEvents,         \* bound on key events of one run of the server
  MaxDisturbances,   \* bound on clicks, faults and other people's settings
  MaxInFlight        \* lines under way that let a further tick of the timer wait

ASSUME HmiAssumption == MaxEvents \in Nat /\ MaxDisturbances \in Nat /\ MaxInFlight \in Nat

VARIABLES
  (* the client *)
  socket, networkLabel,
  timer, reconnectTimer,        \* are they active?
  ledOn, ledLabel, keyLabel, eventsLabel, clientsLabel,
  receiveBuffer,
  (* the connection and the server *)
  link,                         \* the connection the client's socket belongs to
  toServer, toClient,           \* requests and lines on the way
  up, led,
  registered, lingering,        \* is this connection in the server's
                                \* receiveBuffers, and how many older ones?
  (* history and bounds *)
  spoiled,                      \* has an event been lost, or a line cut?
  disturbances

labels  == <<ledLabel, keyLabel, eventsLabel, clientsLabel>>
machine == <<socket, networkLabel, timer, reconnectTimer>>
client  == <<machine, labels, ledOn, receiveBuffer>>
wires   == <<link, toServer, toClient>>
server  == <<windowVars, up, led, registered, lingering>>
vars    == <<client, wires, server, spoiled, disturbances>>

UNKNOWN == -1   \* what a label with a number starts with
GARBLED == -2   \* a number with the rest of another line behind it

OnOff(state) == IF state THEN "on" ELSE "off"
KeyName(pressed) == IF pressed THEN "pressed" ELSE "released"
Pressed == EventNumbered(next - 1).pressed

-----------------------------------------------------------------------------
(* Lines. *)

Word(text) == [text |-> text, number |-> 0]
Number(text, n) == [text |-> text, number |-> n]
Line(start, fields) == <<Word(start)>> \o fields \o <<Word("}")>>

Event(event) == Line("EVENT KEY", <<Word(KeyName(event.pressed))>>)

LedAfter(request, on) == IF request \in {"on", "off"} THEN request = "on" ELSE on

Answer(request, on) ==
  CASE request = "KEY" -> Line("RES", <<Word(KeyName(Pressed)), Number("events", next - 1)>>)
    [] request = "CLIENTS" ->
         Line("RES", <<Number("clients", lingering + 1)>>)
    [] OTHER -> Line("RES", <<Word(OnOff(on))>>)

Has(line, text) == \E i \in DOMAIN line : line[i].text = text

(* mid(): everything behind the first "text":, which is the number alone if   *)
(* the line ends with it.                                                     *)
Mid(line, text) ==
  LET i == SelectInSeq(line, LAMBDA word : word.text = text)
  IN  IF i = Len(line) - 1 THEN line[i].number ELSE GARBLED

(* What there may be of a line that is cut: half a first word, or the line up *)
(* to some word or other, the newline missing at least.                       *)
Parts(line) == {<<>>, <<Word("?")>>} \cup {SubSeq(line, 1, n) : n \in 1 .. Len(line)}

-----------------------------------------------------------------------------
(* The variables have their types; a connected socket has a connection, and   *)
(* the timer of the requests runs.                                            *)
TypeOK ==
  /\ WindowTypeOK
  /\ socket \in {"unconnected", "connecting", "connected"}
  /\ networkLabel \in {"disconnected", "connected", "error"}
  /\ timer \in BOOLEAN /\ reconnectTimer \in BOOLEAN /\ ledOn \in BOOLEAN
  /\ ledLabel \in {"unknown", "on", "off"}
  /\ keyLabel \in {"unknown", "pressed", "released"}
  /\ eventsLabel \in {UNKNOWN, GARBLED} \cup 0 .. MaxEvents
  /\ clientsLabel \in {GARBLED} \cup Nat
  /\ link \in {"none", "open", "broken"}
  /\ \A i \in DOMAIN toServer : toServer[i] \in {"STATUS", "KEY", "CLIENTS", "on", "off"}
  /\ up \in BOOLEAN /\ led \in BOOLEAN
  /\ registered \in BOOLEAN /\ lingering \in Nat /\ spoiled \in BOOLEAN
  /\ (socket = "connected") = (link # "none")
  /\ timer = (socket = "connected")

Init ==
  /\ WindowInit
  /\ socket = "connecting" /\ networkLabel = "disconnected"
  /\ timer = FALSE /\ reconnectTimer = FALSE
  /\ ledOn = FALSE
  /\ ledLabel = "unknown" /\ keyLabel = "unknown"
  /\ eventsLabel = UNKNOWN /\ clientsLabel = 0
  /\ receiveBuffer = <<>>
  /\ link = "none" /\ toServer = <<>> /\ toClient = <<>>
  /\ up \in BOOLEAN /\ led = FALSE
  /\ registered = FALSE /\ lingering = 0
  /\ spoiled = FALSE
  /\ disturbances = 0

-----------------------------------------------------------------------------
(* What may happen at any time, a bounded number of times. *)
Disturbance == disturbances < MaxDisturbances /\ disturbances' = disturbances + 1

(* The client: signals of the socket. *)

ConnectedWith(label) ==
  /\ socket = "connecting" /\ up
  /\ socket' = "connected" /\ networkLabel' = label
  /\ reconnectTimer' = FALSE /\ timer' = TRUE
  /\ link' = "open"
  /\ UNCHANGED <<labels, ledOn, receiveBuffer, toServer, toClient, server, spoiled, disturbances>>

(* Variant: the label left as it was. *)
ConnectedUnlabelled == ConnectedWith(networkLabel)

(* connected *)
Connected == ConnectedWith("connected")

FailWith(reconnect) ==
  /\ socket = "connecting"
  /\ Disturbance \/ (~up /\ UNCHANGED disturbances)
  /\ socket' = "unconnected" /\ networkLabel' = "error"
  /\ reconnectTimer' = reconnect
  /\ toServer' = <<>>
  /\ UNCHANGED <<timer, labels, ledOn, receiveBuffer, link, toClient, server, spoiled>>

(* Variant: no retry after an attempt that failed. *)
ConnectOnce == FailWith(FALSE)

(* errorOccurred, of an attempt to connect: refused, timed out, no route.     *)
(* Requests that waited for the connection are gone.                          *)
ConnectFails == FailWith(TRUE)

LoseWith(tick) ==
  /\ link = "broken"
  /\ socket' = "unconnected" /\ networkLabel' = "disconnected"
  /\ timer' = tick /\ reconnectTimer' = TRUE
  /\ link' = "none" /\ toServer' = <<>> /\ toClient' = <<>>
  /\ \E part \in IF toClient = <<>> THEN {<<>>} ELSE Parts(Head(toClient)) :
       receiveBuffer' = receiveBuffer \o part
  /\ spoiled' = (\/ spoiled
                 \/ receiveBuffer' # <<>>
                 \/ \E i \in DOMAIN toClient : Head(toClient[i]).text = "EVENT KEY")
  /\ registered' = FALSE /\ lingering' = lingering + (IF registered THEN 1 ELSE 0)
  /\ UNCHANGED <<labels, ledOn, windowVars, up, led, disturbances>>

(* Variant: the timer left running. *)
LoseTicking == LoseWith(TRUE)

(* errorOccurred and disconnected, one after the other.  The lines that were  *)
(* not read by then are lost, but for the part of the first one that came     *)
(* with the last readyRead; the server may notice later, or never.            *)
Disconnected == LoseWith(FALSE)

(* reconnectTimer: connectToHost, unless an attempt is under way. *)
Reconnect ==
  /\ reconnectTimer /\ socket = "unconnected"
  /\ socket' = "connecting"
  /\ UNCHANGED <<networkLabel, timer, reconnectTimer, labels, ledOn, receiveBuffer, wires,
                 server, spoiled, disturbances>>

-----------------------------------------------------------------------------
(* The client: requests and answers. *)

RequestWith(requests) ==
  /\ timer
  /\ Len(toServer) + Len(toClient) <= MaxInFlight
  /\ toServer' = IF link = "open" THEN toServer \o requests ELSE toServer
  /\ UNCHANGED <<client, link, toClient, server, spoiled, disturbances>>

(* Variant: the LED not asked for, its own answers taken as enough. *)
requestKeyAndClients == RequestWith(<<"KEY", "CLIENTS">>)

(* requestStatus, every second. *)
requestStatus == RequestWith(<<"STATUS", "KEY", "CLIENTS">>)

(* toggleLed.  A socket that is connecting keeps what is written; one that is *)
(* unconnected does not.                                                      *)
toggleLed ==
  /\ Disturbance
  /\ ledOn' = ~ledOn
  /\ toServer' = IF socket # "unconnected" /\ link # "broken"
                   THEN Append(toServer, OnOff(ledOn')) ELSE toServer
  /\ UNCHANGED <<machine, labels, receiveBuffer, link, toClient, server, spoiled>>

(* Variant: only the first event is shown. *)
ShowFirstKey(line) ==
  /\ keyLabel' = IF keyLabel = "unknown" /\ Has(line, "pressed") THEN "pressed"
                 ELSE keyLabel
  /\ UNCHANGED <<ledOn, ledLabel, eventsLabel, clientsLabel>>

(* The body of readMessages' loop for one line. *)
ShowKey(line) ==
  /\ keyLabel' = IF Has(line, "pressed") THEN "pressed"
                 ELSE IF Has(line, "released") THEN "released" ELSE keyLabel
  /\ UNCHANGED <<ledOn, ledLabel, eventsLabel, clientsLabel>>

ShowAnswer(line) ==
  /\ \/ Has(line, "on") /\ ledOn' = TRUE /\ ledLabel' = "on"
     \/ /\ Has(line, "off") /\ ~Has(line, "on")
        /\ ledOn' = FALSE /\ ledLabel' = "off"
     \/ /\ ~Has(line, "on") /\ ~Has(line, "off")
        /\ UNCHANGED <<ledOn, ledLabel>>
  /\ eventsLabel' = IF Has(line, "events") THEN Mid(line, "events") ELSE eventsLabel
  /\ clientsLabel' = IF Has(line, "clients") THEN Mid(line, "clients") ELSE clientsLabel
  /\ UNCHANGED keyLabel

(* The buffer outlives the connection: the first line of a new one is the     *)
(* rest of the last line of the old one.                                      *)
readMessages ==
  /\ toClient # <<>>
  /\ LET line == receiveBuffer \o Head(toClient)
     IN  IF Head(line).text = "EVENT KEY" THEN ShowKey(line) ELSE ShowAnswer(line)
  /\ receiveBuffer' = <<>>
  /\ toClient' = Tail(toClient)
  /\ UNCHANGED <<machine, link, toServer, server, spoiled, disturbances>>

-----------------------------------------------------------------------------
(* The server. *)

Accept ==
  /\ link = "open" /\ ~registered
  /\ registered' = TRUE
  /\ UNCHANGED <<client, wires, windowVars, up, led, lingering, spoiled, disturbances>>

(* The requests that have come are executed in their order, and answered if   *)
(* the connection holds.                                                      *)
Execute ==
  /\ registered /\ toServer # <<>>
  /\ LET done[i \in 0 .. Len(toServer)] ==   \* the first i requests
           IF i = 0 THEN [led |-> led, lines |-> <<>>]
           ELSE LET on == LedAfter(toServer[i], done[i - 1].led)
                IN  [led |-> on, lines |-> Append(done[i - 1].lines, Answer(toServer[i], on))]
         all == done[Len(toServer)]
     IN  /\ led' = all.led
         /\ toClient' = IF link = "open" THEN toClient \o all.lines ELSE toClient
  /\ toServer' = <<>>
  /\ UNCHANGED <<client, link, windowVars, up, registered, lingering, spoiled, disturbances>>

(* The key changed its state. *)
KeyChanges ==
  /\ up /\ next <= MaxEvents
  /\ Record
  /\ UNCHANGED <<client, wires, up, led, registered, lingering, spoiled, disturbances>>

(* An event goes to every connection the server knows, live or not. *)
Broadcast ==
  /\ registered \/ lingering > 0
  /\ Deliver
  /\ IF registered /\ link = "open"
       THEN toClient' = Append(toClient, Event(delivered')) /\ UNCHANGED spoiled
       ELSE spoiled' = TRUE /\ UNCHANGED toClient
  /\ UNCHANGED <<client, link, toServer, up, led, registered, lingering, disturbances>>

(* The server finds that a connection is dead: by a FIN or a reset, if one    *)
(* reaches it, or by a send that fails.                                       *)
Unregister ==
  /\ \/ /\ link = "broken" /\ registered
        /\ registered' = FALSE /\ toServer' = <<>>
        /\ UNCHANGED lingering
     \/ /\ lingering > 0
        /\ lingering' = lingering - 1
        /\ UNCHANGED <<registered, toServer>>
  /\ UNCHANGED <<client, link, toClient, windowVars, up, led, spoiled, disturbances>>

(* Somebody else sets the LED. *)
SetLed ==
  /\ Disturbance
  /\ led' = ~led
  /\ UNCHANGED <<client, wires, windowVars, up, registered, lingering, spoiled>>

Break ==
  /\ Disturbance
  /\ link = "open"
  /\ link' = "broken"
  /\ UNCHANGED <<client, toServer, toClient, server, spoiled>>

(* A crash closes every connection, and forgets the events. *)
Crash ==
  /\ Disturbance
  /\ up /\ up' = FALSE
  /\ first' = 1 /\ next' = 1 /\ delivered' = NoEvent
  /\ link' = IF link = "open" THEN "broken" ELSE link
  /\ toServer' = IF socket = "connecting" THEN toServer ELSE <<>>
  /\ registered' = FALSE /\ lingering' = 0
  /\ spoiled' = (spoiled \/ next > 1)
  /\ UNCHANGED <<client, toClient, led>>

StartServer ==
  /\ ~up /\ up' = TRUE
  /\ UNCHANGED <<client, wires, windowVars, led, registered, lingering, spoiled, disturbances>>

-----------------------------------------------------------------------------
Connection == Connected \/ ConnectFails \/ Disconnected \/ Reconnect \/ Accept
Polling == requestStatus \/ Execute \/ readMessages

Next ==
  \/ Connection \/ Polling
  \/ Broadcast \/ Unregister
  \/ toggleLed \/ KeyChanges \/ SetLed
  \/ Break \/ Crash \/ StartServer

Spec == Init /\ [][Next]_vars

(* Both event loops run, the timers fire, and the client, which writes every  *)
(* second, notices that its connection is broken; a step of each group is     *)
(* enough, for those of a group wait for each other.  The server need not     *)
(* notice: nobody writes to a connection that is idle on its side.  Nor need  *)
(* anybody click, move the key or start the server again.                     *)
FairSpec == Spec /\ WF_vars(Connection) /\ WF_vars(Polling) /\ WF_vars(Broadcast)

-----------------------------------------------------------------------------
(* Properties. *)

(* Whatever the order of failed attempts, losses and retries: a socket that   *)
(* is unconnected has the reconnection timer running, one that is connected   *)
(* has not, and the label says so.                                            *)
Armed ==
  /\ socket = "unconnected" => reconnectTimer
  /\ socket = "connected" => ~reconnectTimer
  /\ (networkLabel = "connected") = (socket = "connected")

(* The client gets its connection back from a server that stays up. *)
Reconnects == networkLabel # "connected" ~> networkLabel = "connected" \/ ~up

(* Once clicks, the LED, the key and the connection are quiet, the labels of  *)
(* the LED and of the events are right, the label of the clients says what    *)
(* the server counts, and the state that the next click is going to toggle is *)
(* the LED's: old answers, lost clicks and glued lines have left no trace.    *)
(* The server's count has this client in it, and every older connection that  *)
(* was lost without a word to the server, which may keep it for ever.         *)
LabelsSettle ==
  <>[](\/ ~up
       \/ /\ ledLabel = OnOff(led) /\ ledOn = led
          /\ eventsLabel = next - 1
          /\ clientsLabel = lingering + 1)

(* The label of the key follows events alone: it is right in the end if there *)
(* was an event and none has been lost with a connection or glued to another  *)
(* line.                                                                      *)
KeyLabelSettles ==
  <>[](~up \/ spoiled \/ next = 1 \/ keyLabel = KeyName(Pressed))
=============================================================================
