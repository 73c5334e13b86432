------------------------------ MODULE HmiProofs ------------------------------
(***************************************************************************)
(* The client, for any bounds on faults, clicks and events.  Its timers    *)
(* and its label follow the socket through every order of attempts,        *)
(* failures and losses; and whatever is received, whole, cut or glued to   *)
(* the rest of an older line, its labels show values that they can have.   *)
(***************************************************************************)
EXTENDS Hmi, RecursionLemmas

(* Armed needs to know where the socket can be, and that only a connected     *)
(* socket has a link that can be lost.                                        *)
ConnectionInv ==
  /\ Armed
  /\ socket \in {"unconnected", "connecting", "connected"}
  /\ link \in {"none", "open", "broken"}
  /\ link # "none" <=> socket = "connected"

(* The attempt made at the start, before any timer runs.                      *)
LEMMA ConnectionInit == Init => ConnectionInv
BY DEF Init, ConnectionInv, Armed

(* Requests, answers, clicks and the server leave the machine and its link    *)
(* alone; the socket's signals and the faults move both.                      *)
LEMMA ConnectionHolds == ConnectionInv /\ [Next]_vars => ConnectionInv'
<1> SUFFICES ASSUME ConnectionInv, [Next]_vars PROVE ConnectionInv'
  OBVIOUS
<1> USE DEF ConnectionInv, Armed
<1>1. CASE Connected
  BY <1>1 DEF Connected, ConnectedWith
<1>2. CASE ConnectFails
  BY <1>2 DEF ConnectFails, FailWith
<1>3. CASE Disconnected
  BY <1>3 DEF Disconnected, LoseWith
<1>4. CASE Reconnect
  BY <1>4 DEF Reconnect, wires
<1>5. CASE UNCHANGED <<machine, link>>
  BY <1>5 DEF machine
<1>6. ASSUME Accept \/ Broadcast \/ Unregister \/ Execute \/ requestStatus
             \/ readMessages \/ toggleLed
      PROVE  UNCHANGED <<machine, link>>
  <2>1. CASE Accept
    BY <2>1 DEF Accept, client, wires
  <2>2. CASE Broadcast
    BY <2>2 DEF Broadcast, client
  <2>3. CASE Unregister
    BY <2>3 DEF Unregister, client
  <2>4. CASE Execute
    BY <2>4, Zenon DEF Execute, client
  <2>5. CASE requestStatus
    BY <2>5 DEF requestStatus, RequestWith, client
  <2>6. CASE readMessages
    BY <2>6, Zenon DEF readMessages
  <2>7. CASE toggleLed
    BY <2>7, Zenon DEF toggleLed
  <2> QED
    BY <1>6, <2>1, <2>2, <2>3, <2>4, <2>5, <2>6, <2>7
<1>7. CASE KeyChanges \/ SetLed \/ StartServer
  BY <1>7 DEF KeyChanges, SetLed, StartServer, client, machine, wires
<1>8. CASE Break \/ Crash
  BY <1>8 DEF Break, Crash, client, machine
<1>9. CASE UNCHANGED vars
  BY <1>9 DEF vars, client, machine, wires
<1> QED
  BY <1>1, <1>2, <1>3, <1>4, <1>5, <1>6, <1>7, <1>8, <1>9
     DEF Next, Connection, Polling

(* HmiWindow's signal handlers: a socket that is unconnected always has the   *)
(* reconnection timer running, and the label tells a connection from none.    *)
THEOREM AlwaysArmed == Spec => []Armed
<1>1. ConnectionInv => Armed
  BY DEF ConnectionInv
<1> QED
  BY <1>1, ConnectionInit, ConnectionHolds, PTL DEF Spec

-----------------------------------------------------------------------------
(* What is on the wires, behind the type of every label. *)

(* The words a line is made of; the number of an event is that of one that    *)
(* happened, and any number counts clients.                                   *)
Texts == {"EVENT KEY", "RES", "}", "?", "pressed", "released", "on", "off",
          "events", "clients"}

Words ==
  {word \in [text : Texts, number : Nat] :
     word.text = "events" => word.number \in 0 .. MaxEvents}

(* The requests the client sends.                                             *)
Orders == {"STATUS", "KEY", "CLIENTS", "on", "off"}

(* What is on the way in either direction, and what is left of a line, is     *)
(* made of these.                                                             *)
WiresInv ==
  /\ next <= MaxEvents + 1
  /\ toServer \in Seq(Orders)
  /\ toClient \in Seq(Seq(Words))
  /\ receiveBuffer \in Seq(Words)

(* The inductive invariant: a number on a wire is a number a label may show.  *)
LabelsInv == TypeOK /\ WiresInv

(* A word that is no number. *)
LEMMA PlainWords ==
  ASSUME NEW text \in Texts \ {"events", "clients"}
  PROVE  Word(text) \in Words
BY DEF Word, Words

(* A sequence of one element. *)
LEMMA SingletonSeq == ASSUME NEW S, NEW x \in S PROVE <<x>> \in Seq(S)
OBVIOUS

(* A line of words. *)
LEMMA LinesAreWords ==
  ASSUME NEW start \in {"EVENT KEY", "RES"}, NEW fields \in Seq(Words)
  PROVE  Line(start, fields) \in Seq(Words)
<1>1. start \in Texts \ {"events", "clients"} /\ "}" \in Texts \ {"events", "clients"}
  BY DEF Texts
<1>2. Word(start) \in Words /\ Word("}") \in Words
  BY <1>1, PlainWords
<1>3. <<Word(start)>> \in Seq(Words) /\ <<Word("}")>> \in Seq(Words)
  BY <1>2, SingletonSeq
<1>4. <<Word(start)>> \o fields \in Seq(Words)
  BY <1>3, ConcatProperties
<1> QED
  BY <1>3, <1>4, ConcatProperties DEF Line

(* An event, and an answer, is a line of words. *)
LEMMA EventIsALine ==
  ASSUME NEW event \in KeyEvent PROVE Event(event) \in Seq(Words)
<1>1. KeyName(event.pressed) \in Texts \ {"events", "clients"}
  BY DEF KeyName, Texts
<1>2. <<Word(KeyName(event.pressed))>> \in Seq(Words)
  BY <1>1, PlainWords
<1> QED
  BY <1>2, LinesAreWords DEF Event

(* An answer is one, whatever was asked.                                      *)
LEMMA AnswerIsALine ==
  ASSUME LabelsInv, NEW request, NEW on PROVE Answer(request, on) \in Seq(Words)
<1>1. KeyName(Pressed) \in Texts \ {"events", "clients"}
  BY DEF KeyName, Texts
<1>2. OnOff(on) \in Texts \ {"events", "clients"}
  BY DEF OnOff, Texts
<1>3. Word(KeyName(Pressed)) \in Words /\ Word(OnOff(on)) \in Words
  BY <1>1, <1>2, PlainWords
<1>4. Number("events", next - 1) \in Words
  <2>1. next - 1 \in 0 .. MaxEvents
    BY HmiAssumption DEF LabelsInv, WiresInv, TypeOK, WindowTypeOK
  <2> QED
    BY <2>1 DEF Number, Words, Texts
<1>5. Number("clients", lingering + 1) \in Words
  <2>1. lingering + 1 \in Nat
    BY DEF LabelsInv, TypeOK
  <2> QED
    BY <2>1 DEF Number, Words, Texts
<1>6. /\ <<Word(KeyName(Pressed)), Number("events", next - 1)>> \in Seq(Words)
      /\ <<Number("clients", lingering + 1)>> \in Seq(Words)
      /\ <<Word(OnOff(on))>> \in Seq(Words)
  BY <1>3, <1>4, <1>5
<1>7. \A fields \in Seq(Words) : Line("RES", fields) \in Seq(Words)
  BY LinesAreWords
<1> QED
  BY <1>6, <1>7, Zenon DEF Answer

(* mid() finds the number behind the text, or more than the number. *)
LEMMA MidFindsTheNumber ==
  ASSUME NEW line \in Seq(Words), NEW text, Has(line, text)
  PROVE  \/ Mid(line, text) = GARBLED
         \/ \E word \in Words : word.text = text /\ Mid(line, text) = word.number
<1> DEFINE I == {i \in 1 .. Len(line) : line[i].text = text}
           m == SelectInSeq(line, LAMBDA word : word.text = text)
<1>1. I # {} /\ I \in SUBSET Nat
  BY DEF Has
<1>2. PICK n \in I : \A k \in I : n <= k
  BY <1>1, LeastNatural
<1>3. m = Min(I)
  BY <1>1 DEF SelectInSeq
<1>4. Min(I) \in I
  BY <1>2 DEF Min
<1>5. m \in 1 .. Len(line) /\ line[m].text = text
  BY <1>3, <1>4
<1>6. line[m] \in Words
  BY <1>5, ElementOfSeq
<1>7. Mid(line, text) = IF m = Len(line) - 1 THEN line[m].number ELSE GARBLED
  BY DEF Mid
<1> HIDE DEF m
<1> QED
  BY <1>5, <1>6, <1>7

(* What is left of a line that is cut. *)
LEMMA PartsAreWords ==
  ASSUME NEW line \in Seq(Words) PROVE Parts(line) \subseteq Seq(Words)
<1> "?" \in Texts \ {"events", "clients"}
  BY DEF Texts
<1>1. <<>> \in Seq(Words) /\ <<Word("?")>> \in Seq(Words)
  BY PlainWords
<1>2. ASSUME NEW n \in 1 .. Len(line) PROVE SubSeq(line, 1, n) \in Seq(Words)
  BY SubSeqProperties
<1> QED
  BY <1>1, <1>2 DEF Parts

(* The requests of one Execute: an LED that is on or off, and a line for each *)
(* request.                                                                   *)
LEMMA ExecuteAnswersInLines ==
  ASSUME LabelsInv, Execute
  PROVE  led' \in BOOLEAN /\ toClient' \in Seq(Seq(Words))
<1> DEFINE V == [led : BOOLEAN, lines : Seq(Seq(Words))]
           b == [led |-> led, lines |-> <<>>]
           Step(value, request) ==
             LET on == LedAfter(request, value.led)
             IN  [led |-> on, lines |-> Append(value.lines, Answer(request, on))]
           step == [pair \in V \X Orders |-> Step(pair[1], pair[2])]
           done == CHOOSE d : d = [i \in 0 .. Len(toServer) |->
                     IF i = 0 THEN b
                     ELSE LET on == LedAfter(toServer[i], d[i - 1].led)
                          IN  [led |-> on,
                               lines |-> Append(d[i - 1].lines, Answer(toServer[i], on))]]
<1>1. b \in V
  BY DEF LabelsInv, TypeOK
<1>2. ASSUME NEW value \in V, NEW request \in Orders PROVE Step(value, request) \in V
  <2>1. LedAfter(request, value.led) \in BOOLEAN
    BY DEF LedAfter
  <2>2. Answer(request, LedAfter(request, value.led)) \in Seq(Words)
    BY AnswerIsALine
  <2> QED
    BY <2>1, <2>2
<1>3. step \in [V \X Orders -> V]
  BY <1>2
<1>4. toServer \in Seq(Orders) /\ Len(toServer) \in Nat
  BY DEF LabelsInv, WiresInv
<1> HIDE DEF V, b
<1>5. PICK g \in [0 .. Len(toServer) -> V] : Accumulates(g, step, b, toServer, Len(toServer))
  <2> HIDE DEF step
  <2> QED
    BY <1>1, <1>3, <1>4, AccumulationExists
<1>6. \A i \in 1 .. Len(toServer) : g[i - 1] \in V /\ toServer[i] \in Orders
  BY <1>4, ElementOfSeq
<1> HIDE DEF Step
<1>7. g = [i \in 0 .. Len(toServer) |-> IF i = 0 THEN b ELSE Step(g[i - 1], toServer[i])]
  <2>1. \A i \in 1 .. Len(toServer) : step[<<g[i - 1], toServer[i]>>] = Step(g[i - 1], toServer[i])
    BY <1>6
  <2> HIDE DEF step
  <2>2. \A i \in 0 .. Len(toServer) :
          g[i] = IF i = 0 THEN b ELSE Step(g[i - 1], toServer[i])
    <3>1. g = [i \in 0 .. Len(toServer) |->
                 IF i = 0 THEN b ELSE step[<<g[i - 1], toServer[i]>>]]
      BY <1>5, Zenon DEF Accumulates
    <3>2. \A i \in 0 .. Len(toServer) :
            g[i] = IF i = 0 THEN b ELSE step[<<g[i - 1], toServer[i]>>]
      BY <3>1, Zenon
    <3>3. \A i \in 0 .. Len(toServer) : i # 0 => i \in 1 .. Len(toServer)
      BY <1>4
    <3> QED
      BY <3>2, <3>3, <2>1, Zenon
  <2> QED
    BY <1>5, <2>2
<1>8. done = [i \in 0 .. Len(toServer) |-> IF i = 0 THEN b ELSE Step(done[i - 1], toServer[i])]
  BY <1>7, Zenon DEF Step
<1> HIDE DEF done
<1>9. done[Len(toServer)] \in V
  <2> DEFINE S == {n \in Nat : n <= Len(toServer) => done[n] \in V}
  <2>1. 0 \in S
    BY <1>1, <1>4, <1>8
  <2>2. ASSUME NEW n \in S PROVE n + 1 \in S
    <3> SUFFICES ASSUME n + 1 <= Len(toServer) PROVE done[n + 1] \in V
      OBVIOUS
    <3>1. done[n + 1] = Step(done[n], toServer[n + 1])
      BY <1>4, <1>8
    <3>2. toServer[n + 1] \in Orders /\ done[n] \in V
      BY <1>4, ElementOfSeq
    <3> QED
      BY <3>1, <3>2, <1>2 DEF Step
  <2> HIDE DEF S
  <2>3. S = Nat
    BY <2>1, <2>2, NatSetInduction DEF S
  <2> QED
    BY <1>4, <2>3 DEF S
<1>10. /\ led' = done[Len(toServer)].led
       /\ toClient' = IF link = "open" THEN toClient \o done[Len(toServer)].lines ELSE toClient
  BY Zenon DEF Execute, done, b
<1>11. done[Len(toServer)].led \in BOOLEAN /\ done[Len(toServer)].lines \in Seq(Seq(Words))
  BY <1>9 DEF V
<1>12. toClient \in Seq(Seq(Words))
  BY DEF LabelsInv, WiresInv
<1>13. toClient \o done[Len(toServer)].lines \in Seq(Seq(Words))
  BY <1>11, <1>12, ConcatProperties
<1> QED
  BY <1>10, <1>11, <1>12, <1>13

(* At the start nothing is on the wires. *)
LEMMA LabelsInit == Init => LabelsInv
<1> SUFFICES ASSUME Init PROVE LabelsInv
  OBVIOUS
<1> USE DEF Init
<1>1. WindowTypeOK
  BY DEF WindowInit, WindowTypeOK, NoEvent, EventNumbered, KeyEvent
<1>2. WiresInv
  BY HmiAssumption DEF WindowInit, WiresInv
<1>3. eventsLabel \in {UNKNOWN, GARBLED} \cup 0 .. MaxEvents
  BY Zenon
<1>4. clientsLabel \in {GARBLED} \cup Nat
  OBVIOUS
<1>5. /\ timer \in BOOLEAN /\ reconnectTimer \in BOOLEAN /\ ledOn \in BOOLEAN
      /\ up \in BOOLEAN /\ led \in BOOLEAN
      /\ registered \in BOOLEAN /\ lingering \in Nat /\ spoiled \in BOOLEAN
  BY Zenon
<1>6. /\ socket \in {"unconnected", "connecting", "connected"}
      /\ networkLabel \in {"disconnected", "connected", "error"}
      /\ ledLabel \in {"unknown", "on", "off"}
      /\ keyLabel \in {"unknown", "pressed", "released"}
      /\ link \in {"none", "open", "broken"}
      /\ (socket = "connected") = (link # "none")
      /\ timer = (socket = "connected")
  OBVIOUS
<1>7. \A i \in DOMAIN toServer : toServer[i] \in Orders
  OBVIOUS
<1> QED
  BY <1>1, <1>2, <1>3, <1>4, <1>5, <1>6, <1>7, Zenon DEF LabelsInv, TypeOK, Orders

(* The client's labels after a line of words. *)
LEMMA ShownIsTyped ==
  ASSUME LabelsInv, NEW line \in Seq(Words), ShowKey(line) \/ ShowAnswer(line)
  PROVE  /\ ledOn' \in BOOLEAN
         /\ ledLabel' \in {"unknown", "on", "off"}
         /\ keyLabel' \in {"unknown", "pressed", "released"}
         /\ eventsLabel' \in {UNKNOWN, GARBLED} \cup 0 .. MaxEvents
         /\ clientsLabel' \in {GARBLED} \cup Nat
<1> USE DEF LabelsInv, TypeOK
<1>1. CASE ShowKey(line)
  BY <1>1 DEF ShowKey
<1>2. CASE ShowAnswer(line)
  <2>1. ledOn' \in BOOLEAN /\ ledLabel' \in {"unknown", "on", "off"} /\ keyLabel' = keyLabel
    BY <1>2 DEF ShowAnswer
  <2>2. eventsLabel' \in {UNKNOWN, GARBLED} \cup 0 .. MaxEvents
    <3>1. CASE Has(line, "events")
      <4>1. Mid(line, "events") \in {GARBLED} \cup 0 .. MaxEvents
        BY <3>1, MidFindsTheNumber DEF Words
      <4>2. eventsLabel' = Mid(line, "events")
        BY <1>2, <3>1, Zenon DEF ShowAnswer
      <4> QED
        BY <4>1, <4>2
    <3>2. CASE ~Has(line, "events")
      <4>1. eventsLabel' = eventsLabel
        BY <1>2, <3>2, Zenon DEF ShowAnswer
      <4> QED
        BY <4>1
    <3> QED
      BY <3>1, <3>2
  <2>3. clientsLabel' \in {GARBLED} \cup Nat
    <3>1. CASE Has(line, "clients")
      <4>1. Mid(line, "clients") \in {GARBLED} \cup Nat
        BY <3>1, MidFindsTheNumber DEF Words
      <4>2. clientsLabel' = Mid(line, "clients")
        BY <1>2, <3>1, Zenon DEF ShowAnswer
      <4> QED
        BY <4>1, <4>2
    <3>2. CASE ~Has(line, "clients")
      <4>1. clientsLabel' = clientsLabel
        BY <1>2, <3>2, Zenon DEF ShowAnswer
      <4> QED
        BY <4>1
    <3> QED
      BY <3>1, <3>2
  <2> QED
    BY <2>1, <2>2, <2>3
<1> QED
  BY <1>1, <1>2

(* Events are recorded, delivered and forgotten within their bound. *)
LEMMA WindowHolds ==
  ASSUME LabelsInv, [Next]_vars
  PROVE  WindowTypeOK' /\ next' <= MaxEvents + 1
<1> USE DEF LabelsInv, TypeOK, WiresInv, WindowTypeOK
<1>1. CASE KeyChanges
  <2>1. next <= MaxEvents /\ Record
    BY <1>1 DEF KeyChanges
  <2> QED
    BY <2>1, HmiAssumption DEF Record
<1>2. CASE Broadcast
  <2>1. Deliver
    BY <1>2 DEF Broadcast
  <2>2. delivered' \in KeyEvent
    BY <2>1 DEF Deliver, EventNumbered, KeyEvent
  <2>3. first' \in Nat \ {0} /\ next' = next
    BY <2>1 DEF Deliver
  <2> QED
    BY <2>2, <2>3
<1>3. CASE Crash
  <2>1. first' = 1 /\ next' = 1 /\ delivered' = NoEvent
    BY <1>3 DEF Crash
  <2>2. NoEvent \in KeyEvent
    BY DEF NoEvent, EventNumbered, KeyEvent
  <2> QED
    BY <2>1, <2>2, HmiAssumption
<1>4. CASE UNCHANGED windowVars
  BY <1>4 DEF windowVars
<1>5. CASE \/ Connected \/ ConnectFails \/ Disconnected \/ Reconnect \/ Accept
           \/ requestStatus \/ Execute \/ readMessages \/ Unregister
           \/ toggleLed \/ SetLed \/ Break \/ StartServer
  <2>1. UNCHANGED windowVars
    <3>1. CASE Connected \/ ConnectFails \/ Disconnected \/ Reconnect \/ Accept
      BY <3>1, Zenon DEF Connected, ConnectedWith, ConnectFails, FailWith, Disconnected,
                  LoseWith, Reconnect, Accept, server
    <3>2. CASE requestStatus \/ Execute \/ readMessages \/ Unregister
      BY <3>2, Zenon DEF requestStatus, RequestWith, Execute, readMessages, Unregister, server
    <3>3. CASE toggleLed \/ SetLed \/ Break \/ StartServer
      BY <3>3, Zenon DEF toggleLed, SetLed, Break, StartServer, server
    <3> QED
      BY <1>5, <3>1, <3>2, <3>3
  <2> QED
    BY <2>1, <1>4
<1>6. CASE UNCHANGED vars
  BY <1>6, <1>4 DEF vars, server
<1> QED
  BY <1>1, <1>2, <1>3, <1>5, <1>6 DEF Next, Connection, Polling

(* The wires carry requests one way and lines of words the other, and what is *)
(* left of a line in the buffer is words too.                                 *)
LEMMA WiresHold ==
  ASSUME LabelsInv, [Next]_vars
  PROVE  /\ toServer' \in Seq(Orders)
         /\ toClient' \in Seq(Seq(Words))
         /\ receiveBuffer' \in Seq(Words)
<1> USE DEF LabelsInv, WiresInv
<1>1. CASE ConnectFails
  BY <1>1 DEF ConnectFails, FailWith
<1>2. CASE Disconnected
  <2>1. toServer' = <<>> /\ toClient' = <<>>
    BY <1>2 DEF Disconnected, LoseWith
  <2>2. PICK part \in IF toClient = <<>> THEN {<<>>} ELSE Parts(Head(toClient)) :
          receiveBuffer' = receiveBuffer \o part
    BY <1>2, Zenon DEF Disconnected, LoseWith
  <2>3. part \in Seq(Words)
    <3>1. CASE toClient = <<>>
      BY <3>1, <2>2
    <3>2. CASE toClient # <<>>
      <4>1. Head(toClient) \in Seq(Words)
        BY <3>2, HeadTailProperties
      <4> QED
        BY <4>1, <3>2, <2>2, PartsAreWords
    <3> QED
      BY <3>1, <3>2
  <2>4. receiveBuffer' \in Seq(Words)
    BY <2>2, <2>3, ConcatProperties
  <2> QED
    BY <2>1, <2>4
<1>3. CASE requestStatus
  <2>1. <<"STATUS", "KEY", "CLIENTS">> \in Seq(Orders)
    BY DEF Orders
  <2>2. /\ toServer' = toServer \/ toServer' = toServer \o <<"STATUS", "KEY", "CLIENTS">>
        /\ UNCHANGED <<toClient, receiveBuffer>>
    BY <1>3, Zenon DEF requestStatus, RequestWith, client
  <2> QED
    BY <2>1, <2>2, ConcatProperties
<1>4. CASE toggleLed
  <2>1. OnOff(ledOn') \in Orders
    BY DEF OnOff, Orders
  <2>2. /\ toServer' = toServer \/ toServer' = Append(toServer, OnOff(ledOn'))
        /\ UNCHANGED <<toClient, receiveBuffer>>
    BY <1>4, Zenon DEF toggleLed
  <2> QED
    BY <2>1, <2>2, AppendProperties
<1>5. CASE readMessages
  <2>1. /\ receiveBuffer' = <<>> /\ toClient' = Tail(toClient) /\ toServer' = toServer
        /\ toClient # <<>>
    BY <1>5, Zenon DEF readMessages
  <2> QED
    BY <2>1, HeadTailProperties
<1>6. CASE Execute
  <2>1. toServer' = <<>> /\ receiveBuffer' = receiveBuffer
    BY <1>6, Zenon DEF Execute, client
  <2> QED
    BY <1>6, <2>1, ExecuteAnswersInLines
<1>7. CASE Broadcast
  <2>1. Event(delivered') \in Seq(Words)
    BY WindowHolds, EventIsALine DEF WindowTypeOK
  <2>2. /\ toClient' = toClient \/ toClient' = Append(toClient, Event(delivered'))
        /\ UNCHANGED <<toServer, receiveBuffer>>
    BY <1>7, Zenon DEF Broadcast, client
  <2> QED
    BY <2>1, <2>2, AppendProperties
<1>8. CASE Unregister \/ Crash
  <2>1. /\ toServer' = toServer \/ toServer' = <<>>
        /\ UNCHANGED <<toClient, receiveBuffer>>
    BY <1>8, Zenon DEF Unregister, Crash, client
  <2>2. <<>> \in Seq(Orders)
    OBVIOUS
  <2> QED
    BY <2>1, <2>2
<1>9. CASE UNCHANGED <<toServer, toClient, receiveBuffer>>
  BY <1>9
<1>10. CASE Connected \/ Reconnect \/ Accept \/ KeyChanges \/ SetLed \/ Break \/ StartServer
  BY <1>9, <1>10, Zenon DEF Connected, ConnectedWith, Reconnect, Accept, KeyChanges, SetLed,
                            Break, StartServer, client, wires
<1>11. CASE UNCHANGED vars
  BY <1>9, <1>11, Zenon DEF vars, client, wires
<1> QED
  BY <1>1, <1>2, <1>3, <1>4, <1>5, <1>6, <1>7, <1>8, <1>10, <1>11
     DEF Next, Connection, Polling

(* The labels show what they can: a step of the machine or of the server      *)
(* leaves them alone, and a line that is read has a number for each.          *)
LEMMA LabelsHold ==
  ASSUME LabelsInv, [Next]_vars
  PROVE  /\ ledOn' \in BOOLEAN
         /\ ledLabel' \in {"unknown", "on", "off"}
         /\ keyLabel' \in {"unknown", "pressed", "released"}
         /\ eventsLabel' \in {UNKNOWN, GARBLED} \cup 0 .. MaxEvents
         /\ clientsLabel' \in {GARBLED} \cup Nat
<1> USE DEF LabelsInv, TypeOK
<1>1. CASE readMessages
  <2> DEFINE line == receiveBuffer \o Head(toClient)
  <2>1. toClient # <<>> /\ (ShowKey(line) \/ ShowAnswer(line))
    BY <1>1, Zenon DEF readMessages
  <2>2. Head(toClient) \in Seq(Words)
    BY <2>1, HeadTailProperties DEF WiresInv
  <2>3. line \in Seq(Words)
    BY <2>2, ConcatProperties DEF WiresInv
  <2> HIDE DEF line
  <2> QED
    BY <2>1, <2>3, ShownIsTyped, Zenon
<1>2. CASE toggleLed
  <2>1. ledOn' \in BOOLEAN /\ UNCHANGED labels
    BY <1>2, Zenon DEF toggleLed
  <2> QED
    BY <2>1 DEF labels
<1>3. CASE UNCHANGED <<labels, ledOn>>
  BY <1>3 DEF labels
<1>4. CASE Connected \/ ConnectFails \/ Disconnected \/ Reconnect
  BY <1>4, <1>3, Zenon DEF Connected, ConnectedWith, ConnectFails, FailWith, Disconnected,
                           LoseWith, Reconnect
<1>5. CASE \/ requestStatus \/ Execute \/ Accept \/ Broadcast \/ Unregister
           \/ KeyChanges \/ SetLed \/ Break \/ Crash \/ StartServer
  <2>1. UNCHANGED client
    <3>1. CASE requestStatus \/ Execute \/ Accept \/ Broadcast \/ Unregister
      BY <3>1, Zenon DEF requestStatus, RequestWith, Execute, Accept, Broadcast, Unregister
    <3>2. CASE KeyChanges \/ SetLed \/ Break \/ Crash \/ StartServer
      BY <3>2, Zenon DEF KeyChanges, SetLed, Break, Crash, StartServer
    <3> QED
      BY <1>5, <3>1, <3>2
  <2> QED
    BY <2>1, <1>3, Zenon DEF client
<1>6. CASE UNCHANGED vars
  BY <1>6, <1>3, Zenon DEF vars, client
<1> QED
  BY <1>1, <1>2, <1>4, <1>5, <1>6 DEF Next, Connection, Polling

(* The flags of the server, and the timer that runs while there is a          *)
(* connection.                                                                *)
LEMMA FlagsHold ==
  ASSUME LabelsInv, ConnectionInv, [Next]_vars
  PROVE  /\ networkLabel' \in {"disconnected", "connected", "error"}
         /\ timer' \in BOOLEAN /\ reconnectTimer' \in BOOLEAN
         /\ timer' = (socket' = "connected")
         /\ up' \in BOOLEAN /\ led' \in BOOLEAN
         /\ registered' \in BOOLEAN /\ lingering' \in Nat /\ spoiled' \in BOOLEAN
<1> USE DEF LabelsInv, TypeOK
<1>1. CASE Connected
  BY <1>1, Zenon DEF Connected, ConnectedWith, server
<1>2. CASE ConnectFails
  <2>1. /\ socket = "connecting" /\ socket' = "unconnected" /\ timer' = timer
        /\ networkLabel' = "error" /\ reconnectTimer' = TRUE
        /\ UNCHANGED <<up, led, registered, lingering, spoiled>>
    BY <1>2, Zenon DEF ConnectFails, FailWith, server
  <2> QED
    BY <2>1
<1>3. CASE Disconnected
  <2>1. /\ socket' = "unconnected" /\ timer' = FALSE
        /\ networkLabel' = "disconnected" /\ reconnectTimer' = TRUE
        /\ UNCHANGED <<up, led>>
    BY <1>3, Zenon DEF Disconnected, LoseWith
  <2>2. registered' = FALSE /\ lingering' \in Nat
    <3>1. registered' = FALSE /\ lingering' = lingering + (IF registered THEN 1 ELSE 0)
      BY <1>3, Zenon DEF Disconnected, LoseWith
    <3> QED
      BY <3>1
  <2>3. spoiled' \in BOOLEAN
    BY <1>3, Zenon DEF Disconnected, LoseWith
  <2> QED
    BY <2>1, <2>2, <2>3
<1>4. CASE Reconnect
  <2>1. /\ socket = "unconnected" /\ socket' = "connecting"
        /\ UNCHANGED <<networkLabel, timer, reconnectTimer, server, spoiled>>
    BY <1>4, Zenon DEF Reconnect
  <2> QED
    BY <2>1 DEF server
<1>5. CASE requestStatus \/ toggleLed \/ readMessages
  <2>1. UNCHANGED <<machine, server, spoiled>>
    BY <1>5, Zenon DEF requestStatus, RequestWith, toggleLed, readMessages, client
  <2> QED
    BY <2>1, Zenon DEF machine, server
<1>6. CASE Execute
  <2>1. led' \in BOOLEAN
    BY <1>6, ExecuteAnswersInLines
  <2>2. UNCHANGED <<machine, up, registered, lingering, spoiled>>
    BY <1>6, Zenon DEF Execute, client
  <2> QED
    BY <2>1, <2>2, Zenon DEF machine
<1>7. CASE Accept \/ KeyChanges \/ Broadcast \/ Unregister
  <2>1. UNCHANGED <<machine, up, led>>
    BY <1>7, Zenon DEF Accept, KeyChanges, Broadcast, Unregister, client
  <2>2. registered' \in BOOLEAN /\ lingering' \in Nat
    <3>1. CASE Accept \/ KeyChanges \/ Broadcast
      BY <3>1, Zenon DEF Accept, KeyChanges, Broadcast
    <3>2. CASE Unregister
      <4>1. registered' \in BOOLEAN
        BY <3>2, Zenon DEF Unregister
      <4>2. lingering' = lingering \/ (lingering > 0 /\ lingering' = lingering - 1)
        BY <3>2, Zenon DEF Unregister
      <4>3. lingering' \in Nat
        BY <4>2
      <4> QED
        BY <4>1, <4>3
    <3> QED
      BY <1>7, <3>1, <3>2
  <2>3. spoiled' \in BOOLEAN
    BY <1>7, Zenon DEF Accept, KeyChanges, Broadcast, Unregister
  <2> QED
    BY <2>1, <2>2, <2>3, Zenon DEF machine
<1>8. CASE SetLed \/ Break \/ StartServer
  <2>1. UNCHANGED <<machine, registered, lingering, spoiled>>
    BY <1>8, Zenon DEF SetLed, Break, StartServer, client, server
  <2>2. up' \in BOOLEAN /\ led' \in BOOLEAN
    BY <1>8, Zenon DEF SetLed, Break, StartServer, server
  <2> QED
    BY <2>1, <2>2, Zenon DEF machine
<1>9. CASE Crash
  <2>1. UNCHANGED <<machine, led>> /\ up' = FALSE /\ registered' = FALSE /\ lingering' = 0
    BY <1>9, Zenon DEF Crash, client
  <2>2. spoiled' \in BOOLEAN
    BY <1>9, Zenon DEF Crash
  <2> QED
    BY <2>1, <2>2, Zenon DEF machine
<1>10. CASE UNCHANGED vars
  BY <1>10, Zenon DEF vars, client, machine, server
<1> QED
  BY <1>1, <1>2, <1>3, <1>4, <1>5, <1>6, <1>7, <1>8, <1>9, <1>10
     DEF Next, Connection, Polling

(* HmiWindow::readMessages: whatever lines arrive, whole, cut or glued to the *)
(* rest of an older one, no label shows anything but a state of the key or of *)
(* the LED, the number of an event that happened, a count of clients, or the  *)
(* number with more behind it; and requests are sent while there is a         *)
(* connection, and only then.                                                 *)
THEOREM LabelsAreTyped == Spec => []TypeOK
<1>1. Init => LabelsInv /\ ConnectionInv
  BY LabelsInit, ConnectionInit
<1>2. LabelsInv /\ ConnectionInv /\ [Next]_vars => (LabelsInv /\ ConnectionInv)'
  <2> SUFFICES ASSUME LabelsInv, ConnectionInv, [Next]_vars
               PROVE  LabelsInv' /\ ConnectionInv'
    OBVIOUS
  <2>1. ConnectionInv'
    BY ConnectionHolds
  <2>2. WiresInv'
    BY WindowHolds, WiresHold DEF WiresInv
  <2>3. \A i \in DOMAIN toServer' : toServer'[i] \in Orders
    BY <2>2 DEF WiresInv
  <2>4. TypeOK'
    <3>1. /\ socket' \in {"unconnected", "connecting", "connected"}
          /\ link' \in {"none", "open", "broken"}
          /\ (socket' = "connected") = (link' # "none")
      BY <2>1 DEF ConnectionInv
    <3> QED
      BY <2>3, <3>1, WindowHolds, LabelsHold, FlagsHold, Zenon DEF TypeOK, Orders
  <2> QED
    BY <2>1, <2>2, <2>4 DEF LabelsInv
<1>3. LabelsInv => TypeOK
  BY DEF LabelsInv
<1> QED
  BY <1>1, <1>2, <1>3, PTL DEF Spec
=============================================================================
