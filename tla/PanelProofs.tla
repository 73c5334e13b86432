---------------------------- MODULE PanelProofs ----------------------------
(***************************************************************************)
(* For any lines from the clients and any readings: the LED, the driver's  *)
(* record, the server's record and its answers agree, alone and under the  *)
(* server's loop with the LCD, which implements LedControl; and every line *)
(* is answered by the table of requests.                                   *)
(*                                                                         *)
(* RecordAgrees and AnswerTruthful speak of the moments between requests;  *)
(* RecordInv and AnswerInv carry them through a request.                   *)
(***************************************************************************)
EXTENDS Panel, SequenceTheorems, TLAPS

-----------------------------------------------------------------------------
(* The pin. *)

(* The level for a state shows that state, for either polarity.               *)
LEMMA LevelShows ==
  ASSUME NEW state \in BOOLEAN, led_active_low \in BOOLEAN,
         level' = LevelFor(state), led_active_low' = led_active_low
  PROVE  Lit' = state /\ level' \in 0 .. 1
<1>1. CASE state = led_active_low
  BY <1>1 DEF LevelFor, Lit
<1>2. CASE state # led_active_low
  BY <1>2 DEF LevelFor, Lit
<1> QED
  BY <1>1, <1>2

(* What a step does to the pin and to those who know of it. *)
LEMMA DriverSteps ==
  ASSUME LedTypeOK, [LedNext]_ledVars
  PROVE  \/ Probe \/ Remove
         \/ \E state \in BOOLEAN : ShellWrite(state)
         \/ WriteDevice
         \/ UNCHANGED driver /\ (writer' = writer \/ writer' = "boot")
<1>1. CASE UNCHANGED ledVars
  BY <1>1 DEF ledVars, history
<1>2. CASE Start \/ Ends \/ \E request \in Lines : Receive(request)
  BY <1>2 DEF Start, Ends, Receive
<1>3. CASE ExecuteSimply \/ ExecuteOverrun \/ SetSimulated \/ StatusSimulated
  BY <1>3 DEF ExecuteSimply, ExecuteOverrun, SetSimulated, StatusSimulated, Reply, Ends,
              history
<1>4. CASE UseDevice \/ OpenDevice \/ OpenFails \/ FinishSet \/ ReadDevice
  BY <1>4 DEF UseDevice, OpenDevice, OpenFails, FinishSet, ReadDevice, Reply, history
<1>5. CASE RoundEnds \/ StaleAccess \/ Undefined
  BY <1>5 DEF RoundEnds, StaleAccess, Undefined, ledVars, history
<1> QED
  BY <1>1, <1>2, <1>3, <1>4, <1>5 DEF LedNext, Device, Execute

(* The driver's types and LedAgrees: whoever sets the pin sets the record     *)
(* with it.                                                                   *)
LEMMA DriverHolds ==
  ASSUME LedTypeOK, LedAgrees, [LedNext]_ledVars
  PROVE  DriverTypeOK' /\ LedAgrees'
<1> USE DEF LedTypeOK
<1>1. led_active_low \in BOOLEAN
  BY DEF DriverTypeOK
<1>2. CASE Probe
  <2>1. Lit' = FALSE /\ level' \in 0 .. 1
    BY <1>1, <1>2, LevelShows DEF Probe
  <2>2. probed' \in BOOLEAN /\ node' \in BOOLEAN /\ (probed' => node')
    BY <1>2 DEF Probe, DriverTypeOK
  <2>3. led_state' \in 0 .. 1
    BY <1>2 DEF Probe, DriverTypeOK
  <2>4. probed' => led_state' # 1
    <3>1. CASE node
      BY <1>2, <3>1 DEF Probe
    <3>2. CASE ~node
      BY <1>2, <3>2 DEF Probe
    <3> QED
      BY <3>1, <3>2
  <2>5. DriverTypeOK'
    BY <1>1, <1>2, <2>1, <2>2, <2>3 DEF Probe, DriverTypeOK
  <2> QED
    BY <2>1, <2>4, <2>5 DEF LedAgrees
<1>3. CASE Remove
  <2>1. Lit' = FALSE /\ level' \in 0 .. 1
    BY <1>1, <1>3, LevelShows DEF Remove, RemoveTo
  <2>2. DriverTypeOK'
    BY <1>3, <2>1 DEF Remove, RemoveTo, DriverTypeOK
  <2> QED
    BY <1>3, <2>1, <2>2 DEF Remove, RemoveTo, LedAgrees
<1>4. ASSUME NEW state \in BOOLEAN, platform_led_set(state),
             UNCHANGED <<led_active_low, probed, node>>, writer' # "driver"
      PROVE  DriverTypeOK' /\ LedAgrees'
  <2>1. Lit' = state /\ level' \in 0 .. 1
    BY <1>1, <1>4, LevelShows DEF platform_led_set
  <2>2. (led_state' = 1) = state /\ led_state' \in 0 .. 1
    BY <1>4 DEF platform_led_set
  <2>3. DriverTypeOK'
    BY <1>4, <2>1, <2>2 DEF DriverTypeOK
  <2> QED
    BY <1>4, <2>1, <2>2, <2>3 DEF LedAgrees
<1>5. CASE \E state \in BOOLEAN : ShellWrite(state)
  BY <1>4, <1>5 DEF ShellWrite
<1>6. CASE WriteDevice
  BY <1>4, <1>6 DEF WriteDevice, ServerTypeOK
<1>7. CASE UNCHANGED driver /\ (writer' = writer \/ writer' = "boot")
  BY <1>7 DEF driver, DriverTypeOK, LedAgrees, Lit
<1> QED
  BY <1>2, <1>3, <1>5, <1>6, <1>7, DriverSteps

-----------------------------------------------------------------------------
(* The server's record. *)

(* Only a server with a device is the last to set the LED.  Its record is the *)
(* LED's state from one request to the next, but for the moment between the   *)
(* write and the record.                                                      *)
RecordInv ==
  Running /\ writer = "server" =>
    /\ available
    /\ pc # "close" => ledOn = Lit
    /\ pc = "close" => on = Lit

(* The variables of a request in progress. *)
LEMMA ServerTypes ==
  ASSUME LedTypeOK, [LedNext]_ledVars
  PROVE  ServerTypeOK'
<1> USE DEF LedTypeOK, ServerTypeOK, Executing
<1>1. CASE Probe \/ Remove \/ \E state \in BOOLEAN : ShellWrite(state)
  BY <1>1 DEF Probe, Remove, RemoveTo, ShellWrite, process, call
<1>2. CASE Start \/ Ends \/ \E request \in Lines : Receive(request)
  BY <1>2 DEF Start, Ends, Receive, process, driver, DriverTypeOK
<1>3. CASE ExecuteSimply \/ ExecuteOverrun \/ StatusSimulated
  BY <1>3 DEF ExecuteSimply, ExecuteOverrun, StatusSimulated, Reply, Ends, process
<1>4. CASE SetSimulated
  BY <1>4 DEF SetSimulated, Asked, Reply
<1>5. CASE UseDevice
  BY <1>5 DEF UseDevice, Asked, process
<1>6. CASE OpenDevice \/ WriteDevice
  BY <1>6 DEF OpenDevice, WriteDevice, process, driver
<1>7. CASE OpenFails \/ FinishSet \/ ReadDevice
  BY <1>7 DEF OpenFails, FinishSet, ReadDevice, Reply, process
<1>8. CASE RoundEnds \/ StaleAccess \/ Undefined \/ UNCHANGED ledVars
  BY <1>8 DEF RoundEnds, StaleAccess, Undefined, ledVars, driver, process, call
<1> QED
  BY <1>1, <1>2, <1>3, <1>4, <1>5, <1>6, <1>7, <1>8 DEF LedNext, Device, Execute

(* The record is carried through a request.                                   *)
LEMMA RecordHolds ==
  ASSUME LedTypeOK, RecordInv, [LedNext]_ledVars
  PROVE  RecordInv'
<1> USE DEF RecordInv, Running
<1>1. CASE Probe \/ Remove \/ \E state \in BOOLEAN : ShellWrite(state)
  BY <1>1 DEF Probe, Remove, RemoveTo, ShellWrite
<1>2. CASE Start \/ Ends \/ \E request \in Lines : Receive(request)
  BY <1>2 DEF Start, Ends, Receive, driver, process, Lit
<1>3. CASE ExecuteSimply \/ ExecuteOverrun \/ StatusSimulated
  BY <1>3 DEF ExecuteSimply, ExecuteOverrun, StatusSimulated, Reply, Ends, driver, process,
              history, Lit
<1>4. CASE SetSimulated
  BY <1>4 DEF SetSimulated, Reply, history
<1>5. CASE UseDevice \/ OpenDevice \/ OpenFails \/ ReadDevice
  BY <1>5 DEF UseDevice, OpenDevice, OpenFails, ReadDevice, Reply, driver, process,
              history, Lit
<1>6. CASE WriteDevice
  <2>1. Lit' = on
    BY <1>6, LevelShows
       DEF WriteDevice, platform_led_set, LedTypeOK, DriverTypeOK, ServerTypeOK
  <2>2. available
    BY <1>6 DEF WriteDevice, LedTypeOK, ServerTypeOK
  <2> QED
    BY <1>6, <2>1, <2>2 DEF WriteDevice, process
<1>7. CASE FinishSet
  BY <1>7 DEF FinishSet, Reply, driver, history, Lit
<1>8. CASE RoundEnds \/ StaleAccess \/ Undefined \/ UNCHANGED ledVars
  BY <1>8 DEF RoundEnds, StaleAccess, Undefined, ledVars, driver, process, call, history, Lit
<1> QED
  BY <1>1, <1>2, <1>3, <1>4, <1>5, <1>6, <1>7, <1>8 DEF LedNext, Device, Execute

-----------------------------------------------------------------------------
(* The answers. *)

(* The state the LED has belongs to those the request has seen, so does the   *)
(* one that was written; the answer given is one of them.                     *)
AnswerInv ==
  /\ pc \in Executing => Lit \in shown
  /\ pc = "close" => on \in shown
  /\ pc = "idle" /\ answer.body = "led" /\ ~answer.simulated => answer.led \in shown

(* The LED is on or off.                                                      *)
LEMMA LitIsBoolean == Lit \in BOOLEAN
BY DEF Lit

(* The history variables keep their types.                                    *)
LEMMA HistoryTypes ==
  ASSUME LedTypeOK, [LedNext]_ledVars
  PROVE  HistoryTypeOK'
<1> USE DEF LedTypeOK, HistoryTypeOK
<1>1. Lit' \in BOOLEAN
  BY DEF Lit
<1>2. CASE Probe \/ Remove \/ (\E state \in BOOLEAN : ShellWrite(state)) \/ WriteDevice
  BY <1>1, <1>2 DEF Probe, Remove, RemoveTo, ShellWrite, WriteDevice, Shows
<1>3. CASE Start \/ Ends \/ \E request \in Lines : Receive(request)
  BY <1>3, LitIsBoolean DEF Start, Ends, Receive
<1>4. CASE ExecuteSimply \/ ExecuteOverrun \/ StatusSimulated \/ SetSimulated
  BY <1>4 DEF ExecuteSimply, ExecuteOverrun, StatusSimulated, SetSimulated, Reply, Ends,
              history
<1>5. CASE UseDevice \/ OpenDevice \/ OpenFails \/ FinishSet \/ ReadDevice
  BY <1>5 DEF UseDevice, OpenDevice, OpenFails, FinishSet, ReadDevice, Reply, history
<1>6. CASE RoundEnds \/ StaleAccess \/ Undefined \/ UNCHANGED ledVars
  BY <1>6 DEF RoundEnds, StaleAccess, Undefined, ledVars, history
<1> QED
  BY <1>2, <1>3, <1>4, <1>5, <1>6 DEF LedNext, Device, Execute

(* Every line is answered under a name it was sent with, or "0". *)
LEMMA ReplyIdType ==
  ASSUME line \in Lines \cup {<<>>}
  PROVE  ReplyId(line) \in {"0"} \cup STRING
<1>1. CASE parseRequest(line)
  <2>1. line \in Seq(STRING) /\ Len(line) >= 3
    BY <1>1, LinesAssumption DEF parseRequest
  <2>2. line[2] \in STRING
    BY <2>1
  <2> QED
    BY <1>1, <2>2 DEF ReplyId, ParsedRequest
<1>2. CASE ~parseRequest(line)
  BY <1>2 DEF ReplyId
<1> QED
  BY <1>1, <1>2

(* What execute returns is an answer.                                         *)
LEMMA ReplyType ==
  ASSUME line \in Lines \cup {<<>>},
         NEW result \in {"OK"} \cup Failure, NEW led \in BOOLEAN,
         NEW body \in {"none", "led", "key", "clients", "pong"},
         Reply(result, body, led)
  PROVE  answer' \in Answer
<1>1. ReplyId(line) \in {"0"} \cup STRING
  BY ReplyIdType
<1>2. (body = "led" /\ ~available) \in BOOLEAN
  OBVIOUS
<1> QED
  BY <1>1, <1>2 DEF Reply, Answer

(* The last answer is one, or none.                                           *)
LEMMA AnswerTypes ==
  ASSUME LedTypeOK, [LedNext]_ledVars
  PROVE  answer' \in Answer
<1> USE DEF LedTypeOK
<1>1. line \in Lines \cup {<<>>} /\ on \in BOOLEAN /\ ledOn \in BOOLEAN
  BY DEF ServerTypeOK
<1>2. NoAnswer \in Answer
  BY DEF NoAnswer, Answer, Failure
<1>3. CASE Probe \/ Remove \/ \E state \in BOOLEAN : ShellWrite(state)
  BY <1>3 DEF Probe, Remove, RemoveTo, ShellWrite, call
<1>4. CASE Start \/ Ends \/ RoundEnds \/ \E request \in Lines : Receive(request)
  BY <1>2, <1>4 DEF Start, Ends, RoundEnds, Receive
<1>5. CASE ExecuteSimply
  BY <1>1, <1>5, ReplyType DEF ExecuteSimply
<1>6. CASE ExecuteOverrun
  BY <1>1, <1>2, <1>6, ReplyType DEF ExecuteOverrun, Ends, Failure
<1>7. CASE SetSimulated
  <2>1. PICK state \in BOOLEAN : Reply("OK", "led", state)
    BY <1>7 DEF SetSimulated, Asked
  <2> QED
    BY <1>1, <2>1, ReplyType
<1>8. CASE StatusSimulated
  BY <1>1, <1>8, ReplyType DEF StatusSimulated
<1>9. CASE UseDevice \/ OpenDevice \/ WriteDevice
  BY <1>9 DEF UseDevice, OpenDevice, WriteDevice
<1>10. CASE OpenFails
  BY <1>1, <1>10, ReplyType DEF OpenFails, Failure
<1>11. CASE FinishSet
  BY <1>1, <1>11, ReplyType DEF FinishSet
<1>12. CASE ReadDevice
  <2>1. (led_state = 1) \in BOOLEAN
    OBVIOUS
  <2> QED
    BY <1>1, <1>12, <2>1, ReplyType DEF ReadDevice
<1>13. CASE StaleAccess \/ Undefined \/ UNCHANGED ledVars
  BY <1>13 DEF StaleAccess, Undefined, ledVars, call
<1> QED
  BY <1>3, <1>4, <1>5, <1>6, <1>7, <1>8, <1>9, <1>10, <1>11, <1>12, <1>13
     DEF LedNext, Device, Execute

(* The state an answer names is one the request has seen.                     *)
LEMMA AnswerHolds ==
  ASSUME LedTypeOK, LedAgrees, AnswerInv, [LedNext]_ledVars
  PROVE  AnswerInv'
<1> USE DEF LedTypeOK, AnswerInv
<1>1. CASE Probe \/ Remove \/ \E state \in BOOLEAN : ShellWrite(state)
  BY <1>1 DEF Probe, Remove, RemoveTo, ShellWrite, call, Shows, Executing
<1>2. CASE Start \/ Ends \/ RoundEnds
  BY <1>2 DEF Start, Ends, RoundEnds, NoAnswer, Executing
<1>3. CASE \E request \in Lines : Receive(request)
  <2>1. Lit' = Lit
    BY <1>3 DEF Receive, driver, Lit
  <2> QED
    BY <1>3, <2>1 DEF Receive
<1>4. CASE ExecuteSimply
  BY <1>4 DEF ExecuteSimply, Reply, Failure, Executing
<1>5. CASE ExecuteOverrun
  BY <1>5 DEF ExecuteOverrun, Reply, Ends, Executing
<1>6. CASE SetSimulated \/ StatusSimulated
  <2>1. PICK state : Reply("OK", "led", state)
    BY <1>6 DEF SetSimulated, StatusSimulated
  <2>2. ~available
    BY <1>6 DEF SetSimulated, StatusSimulated
  <2>3. answer'.simulated = ("led" = "led" /\ ~available)
    BY <2>1 DEF Reply
  <2>4. answer'.simulated /\ pc' = "idle"
    BY <2>1, <2>2, <2>3 DEF Reply
  <2> QED
    BY <2>4 DEF Executing
<1>7. CASE UseDevice \/ OpenDevice
  BY <1>7 DEF UseDevice, OpenDevice, driver, history, Executing, Lit
<1>8. CASE OpenFails
  BY <1>8 DEF OpenFails, Reply, Executing
<1>9. CASE WriteDevice
  <2>1. Lit' = on
    BY <1>9, LevelShows DEF WriteDevice, platform_led_set, DriverTypeOK, ServerTypeOK
  <2> QED
    BY <1>9, <2>1 DEF WriteDevice, Shows, Executing
<1>10. CASE FinishSet
  BY <1>10 DEF FinishSet, Reply, history, Executing
<1>11. CASE ReadDevice
  <2>1. Lit = (led_state = 1) /\ Lit \in shown
    BY <1>11 DEF ReadDevice, LedAgrees, ServerTypeOK, Executing
  <2> QED
    BY <1>11, <2>1 DEF ReadDevice, Reply, history, Executing
<1>12. CASE StaleAccess \/ Undefined \/ UNCHANGED ledVars
  BY <1>12 DEF StaleAccess, Undefined, ledVars, driver, call, history, Executing, Lit
<1> QED
  BY <1>1, <1>2, <1>3, <1>4, <1>5, <1>6, <1>7, <1>8, <1>9, <1>10, <1>11, <1>12
     DEF LedNext, Device, Execute

-----------------------------------------------------------------------------
(* Requests and the LED. *)

(* The inductive invariant of requests and LED.                               *)
LedIInv == LedTypeOK /\ LedAgrees /\ RecordInv /\ AnswerInv

(* No request is in progress before the server starts.                        *)
LEMMA LedInitHolds == LedInit => LedIInv
<1> SUFFICES ASSUME LedInit PROVE LedIInv
  OBVIOUS
<1> USE DEF LedInit
<1>1. DriverTypeOK
  <2>1. level \in 0 .. 1 /\ led_state \in 0 .. 1
    OBVIOUS
  <2>2. led_active_low \in BOOLEAN /\ probed = FALSE /\ node = FALSE
    OBVIOUS
  <2> QED
    BY <2>1, <2>2 DEF DriverTypeOK
<1>2. ServerTypeOK
  BY DEF ServerTypeOK, Executing
<1>3. HistoryTypeOK
  BY DEF HistoryTypeOK
<1>4. answer \in Answer
  BY DEF NoAnswer, Answer, Failure
<1>5. LedAgrees /\ RecordInv /\ AnswerInv
  BY DEF LedAgrees, RecordInv, Running, AnswerInv, Executing
<1> QED
  BY <1>1, <1>2, <1>3, <1>4, <1>5 DEF LedIInv, LedTypeOK

(* Every step of the server, the driver and the shell keeps the invariant.    *)
LEMMA LedNextHolds == LedIInv /\ [LedNext]_ledVars => LedIInv'
<1> SUFFICES ASSUME LedIInv, [LedNext]_ledVars PROVE LedIInv'
  OBVIOUS
<1> USE DEF LedIInv
<1>1. DriverTypeOK' /\ LedAgrees'
  BY DriverHolds
<1>2. ServerTypeOK' /\ HistoryTypeOK' /\ answer' \in Answer
  BY ServerTypes, HistoryTypes, AnswerTypes
<1>3. RecordInv' /\ AnswerInv'
  BY RecordHolds, AnswerHolds
<1> QED
  BY <1>1, <1>2, <1>3 DEF LedTypeOK

(* The inductive invariant: what the driver records, what the server records  *)
(* and what an answer is going to say, at every point of a request.           *)
THEOREM LedInvariance == Spec => []LedIInv
<1> QED
  BY LedInitHolds, LedNextHolds, PTL DEF Spec

(* The invariant gives the properties of the run.                             *)
LEMMA LedIInvImplies == LedIInv => LedTypeOK /\ LedAgrees /\ RecordAgrees /\ AnswerTruthful
BY DEF LedIInv, RecordInv, Running, RecordAgrees, AnswerInv, AnswerTruthful

-----------------------------------------------------------------------------
(* The loop and the LCD implement LedControl: a step of theirs is one of its  *)
(* steps, or leaves its variables alone.                                      *)

(* What loop and LCD do around the requests is RoundEnds or nothing.          *)
LEMMA PanelSteps == [Next]_vars => [LedNext]_ledVars
<1>1. CASE UNCHANGED vars
  BY <1>1 DEF vars
<1>2. CASE StartServer \/ EndServer \/ Serve \/ Outside
  BY <1>2 DEF StartServer, EndServer, Serve, Outside, LedNext
<1>3. CASE EpollReturns \/ PaintBar \/ PaintClients \/ ToolFills \/ ToolWrites
  BY <1>3 DEF EpollReturns, PaintBar, PaintClients, ToolFills, ToolWrites
<1>4. CASE SkipUpdate \/ BeginUpdate
  BY <1>4 DEF SkipUpdate, BeginUpdate, BeginUpdateOn, LedNext
<1> QED
  BY <1>1, <1>2, <1>3, <1>4 DEF Next

(* TcpServer::run with the LCD, the tools and a server that comes and goes is *)
(* an implementation of LedControl.                                           *)
THEOREM PanelImplementsLedControl == PanelSpec => Spec
<1>1. Init => LedInit
  BY DEF Init
<1> QED
  BY <1>1, PanelSteps, PTL DEF PanelSpec, Spec

(* platform_probe: the driver's record is the LED's state.                    *)
THEOREM LedsAgree == PanelSpec => []LedAgrees
BY LedInvariance, LedIInvImplies, PanelImplementsLedControl, PTL

(* DeviceManager::execute: ledOn is the LED's state between requests, while   *)
(* the server was the last to set it.                                         *)
THEOREM RecordsAgree == PanelSpec => []RecordAgrees
BY LedInvariance, LedIInvImplies, PanelImplementsLedControl, PTL

(* An answer about a real LED names a state it had during the request.        *)
THEOREM AnswersTruthful == PanelSpec => []AnswerTruthful
BY LedInvariance, LedIInvImplies, PanelImplementsLedControl, PTL

-----------------------------------------------------------------------------
(* The picture. *)

(* The areas that have been painted when the loop is at some point. *)
Painted(point) ==
  CASE point = "network" -> {}
    [] point = "led" -> {"network"}
    [] point = "key" -> {"network", "led"}
    [] point = "clients" -> Bars
    [] point = "waiting" -> Areas

(* The picture of the snapshot in some areas, the background in the others.   *)
Partial(areas) ==
  [area \in Areas |-> IF area \in areas THEN Picture(snapshot)[area] ELSE Blank[area]]

(* From the background on, the framebuffer is the picture as far as it has    *)
(* been painted, of a status that is still the status.                        *)
PictureInv ==
  /\ snapshot \in Status
  /\ lcdAvailable /\ loop \in Areas \cup {"waiting"} =>
       /\ snapshot.led = ledOn
       /\ ~disturbed => framebuffer = Partial(Painted(loop))

(* Nothing is mapped before the server starts.                                *)
LEMMA PictureInitHolds == Init => PictureInv
BY DEF Init, PictureInv, Areas, Bars

(* The number of clients of a status.                                         *)
LEMMA ClientsAreNatural == ASSUME snapshot \in Status PROVE snapshot.clients \in Nat
BY ReadingsAssumption DEF Status

(* One area is painted after the other, and nothing else changes meanwhile.   *)
LEMMA PictureHolds == PictureInv /\ [Next]_vars => PictureInv'
<1> SUFFICES ASSUME PictureInv, [Next]_vars PROVE PictureInv'
  OBVIOUS
<1> USE DEF PictureInv
<1>1. CASE UNCHANGED vars
  BY <1>1 DEF vars, ledVars, process, panelVars, Partial
<1>2. CASE StartServer \/ EndServer \/ EpollReturns \/ Serve
  BY <1>2 DEF StartServer, EndServer, EpollReturns, Serve, Areas, Bars
<1>3. CASE SkipUpdate
  BY <1>3 DEF SkipUpdate
<1>4. CASE BeginUpdate
  <2>1. Partial({})' = Blank
    BY DEF Partial, Blank
  <2>2. snapshot' \in Status /\ snapshot'.led = ledOn /\ ledOn' = ledOn
    BY <1>4 DEF BeginUpdate, BeginUpdateOn, RoundEnds, process
  <2>3. framebuffer' = Blank /\ loop' = "network"
    BY <1>4 DEF BeginUpdate, BeginUpdateOn
  <2>4. Partial(Painted(loop))' = Partial({})'
    BY <2>3 DEF Painted, Partial
  <2> QED
    BY <2>1, <2>2, <2>3, <2>4
<1>5. CASE PaintBar
  <2>1. UNCHANGED <<snapshot, ledOn, lcdAvailable, disturbed>>
    BY <1>5 DEF PaintBar, ledVars, process
  <2>2. loop \in Bars /\ framebuffer' = [framebuffer EXCEPT ![loop] = Colour(loop, snapshot)]
    BY <1>5 DEF PaintBar
  <2>3. Painted(loop') = Painted(loop) \cup {loop} /\ loop' \in Areas
    BY <1>5 DEF PaintBar, Painted, Areas, Bars
  <2>4. Partial(Painted(loop))' = [Partial(Painted(loop)) EXCEPT ![loop] = Colour(loop, snapshot)]
    BY <2>1, <2>2, <2>3 DEF Partial, Picture, Areas, Bars
  <2> QED
    BY <2>1, <2>2, <2>3, <2>4 DEF Areas
<1>6. CASE PaintClients
  <2>1. UNCHANGED <<snapshot, ledOn, lcdAvailable, disturbed>>
    BY <1>6 DEF PaintClients, ledVars, process
  <2>2. snapshot.clients \in Nat
    BY ClientsAreNatural
  <2>3. loop = "clients" /\ loop' = "waiting"
    BY <1>6 DEF PaintClients
  <2>4. Painted(loop) = Bars /\ Painted(loop') = Areas
    BY <2>3 DEF Painted
  <2>5. ASSUME framebuffer = Partial(Bars)
        PROVE  framebuffer' = Partial(Areas)'
    <3>1. framebuffer["clients"] = 0
      BY <2>5 DEF Partial, Blank, Areas, Bars
    <3>2. framebuffer' = [framebuffer EXCEPT !["clients"] = BarLength(snapshot.clients)]
      <4> DEFINE length == BarLength(snapshot.clients)
      <4>1. length \in Nat
        BY <2>2 DEF BarLength
      <4>2. (IF framebuffer["clients"] < length THEN length ELSE framebuffer["clients"]) = length
        BY <3>1, <4>1
      <4> HIDE DEF length
      <4>3. framebuffer' = [framebuffer EXCEPT !["clients"] =
              IF framebuffer["clients"] < length THEN length ELSE framebuffer["clients"]]
        BY <1>6 DEF PaintClients, length
      <4>4. framebuffer' = [framebuffer EXCEPT !["clients"] = length]
        BY <4>2, <4>3
      <4> QED
        BY <4>4 DEF length
    <3>3. [Partial(Bars) EXCEPT !["clients"] = BarLength(snapshot.clients)] = Partial(Areas)'
      BY <2>1 DEF Partial, Picture, Areas, Bars
    <3> QED
      BY <2>5, <3>2, <3>3
  <2>6. Partial(Painted(loop))' = Partial(Areas)'
    BY <2>1, <2>4 DEF Partial
  <2> QED
    BY <2>1, <2>3, <2>4, <2>5, <2>6 DEF Areas
<1>7. CASE ToolFills \/ ToolWrites
  BY <1>7 DEF ToolFills, ToolWrites, ledVars, process
<1>8. CASE Outside
  BY <1>8 DEF Outside, Device, Probe, Remove, RemoveTo, ShellWrite, Undefined, StaleAccess,
              ledVars, process, panelVars, Partial
<1> QED
  BY <1>1, <1>2, <1>3, <1>4, <1>5, <1>6, <1>7, <1>8 DEF Next

(* LcdDisplay::update: whenever the server waits, the screen is the picture   *)
(* of the status as it is, for any number of clients.                         *)
THEOREM PictureIsCurrent == PanelSpec => []PictureCurrent
<1>1. PictureInv => PictureCurrent
  <2>1. Partial(Areas) = Picture(snapshot)
    BY DEF Partial, Picture
  <2>2. Painted("waiting") = Areas
    BY DEF Painted
  <2> QED
    BY <2>1, <2>2 DEF PictureInv, PictureCurrent
<1> QED
  BY <1>1, PictureInitHolds, PictureHolds, PTL DEF PanelSpec

-----------------------------------------------------------------------------
(* The types. *)

(* The screen and the loop around it. *)
ScreenTypeOK ==
  /\ DOMAIN framebuffer = Areas
  /\ \A bar \in Bars : framebuffer[bar] \in Colours
  /\ framebuffer["clients"] \in 0 .. 16

(* What the LCD and the tools remember.                                       *)
FlagsTypeOK == lcdAvailable \in BOOLEAN /\ tool \in BOOLEAN /\ disturbed \in BOOLEAN

(* The loop is down exactly when the process is, and serves while a request   *)
(* is executed.                                                               *)
LoopInv ==
  /\ loop \in {"down", "first", "serving", "waiting"} \cup Areas
  /\ pc # "undefined" => (pc = "down" <=> loop = "down")
  /\ pc \in Executing => loop = "serving"

(* What is painted is a colour, or the length of a bar. *)
LEMMA ScreenHolds ==
  ASSUME ScreenTypeOK, snapshot \in Status, [Next]_vars
  PROVE  ScreenTypeOK'
<1> USE DEF ScreenTypeOK, Areas, Bars
<1>1. CASE UNCHANGED framebuffer
  BY <1>1
<1>2. ASSUME framebuffer' = Blank
      PROVE  ScreenTypeOK'
  BY <1>2 DEF Blank, Colours
<1>3. CASE PaintBar
  <2>1. \A bar \in Bars : Colour(bar, snapshot) \in Colours
    BY DEF Colour, Colours
  <2> QED
    BY <1>3, <2>1 DEF PaintBar
<1>4. CASE PaintClients
  <2> DEFINE length == BarLength(snapshot.clients)
  <2>1. length \in 0 .. 16
    BY ClientsAreNatural DEF BarLength
  <2> HIDE DEF length
  <2>2. framebuffer' = [framebuffer EXCEPT !["clients"] =
          IF framebuffer["clients"] < length THEN length ELSE framebuffer["clients"]]
    BY <1>4 DEF PaintClients, length
  <2>3. (IF framebuffer["clients"] < length THEN length ELSE framebuffer["clients"]) \in 0 .. 16
    BY <2>1
  <2> QED
    BY <2>2, <2>3
<1>5. CASE ToolWrites
  BY <1>5 DEF ToolWrites, Colours
<1>6. UNCHANGED vars \/ StartServer \/ EndServer \/ EpollReturns \/ Serve \/ SkipUpdate \/ Outside
      => UNCHANGED framebuffer
  BY DEF vars, panelVars, StartServer, EndServer, EpollReturns, Serve, SkipUpdate, Outside
<1>7. BeginUpdate \/ ToolFills => framebuffer' = Blank
  BY DEF BeginUpdate, BeginUpdateOn, ToolFills
<1> QED
  BY <1>1, <1>2, <1>3, <1>4, <1>5, <1>6, <1>7 DEF Next

(* The flags are flags. *)
LEMMA FlagsHold ==
  ASSUME FlagsTypeOK, [Next]_vars
  PROVE  FlagsTypeOK'
<1> USE DEF FlagsTypeOK
<1>1. CASE UNCHANGED vars \/ StartServer \/ EndServer \/ EpollReturns \/ Serve \/ SkipUpdate
  BY <1>1 DEF vars, panelVars, StartServer, EndServer, EpollReturns, Serve, SkipUpdate
<1>2. CASE BeginUpdate \/ PaintBar \/ PaintClients
  BY <1>2 DEF BeginUpdate, BeginUpdateOn, PaintBar, PaintClients
<1>3. CASE ToolFills \/ ToolWrites \/ Outside
  BY <1>3 DEF ToolFills, ToolWrites, Outside, panelVars
<1> QED
  BY <1>1, <1>2, <1>3 DEF Next

(* The loop goes down with the process, and waits for the requests. *)
LEMMA LoopHolds ==
  ASSUME LoopInv, [Next]_vars
  PROVE  LoopInv'
<1> USE DEF LoopInv, Areas, Bars, Executing
<1>1. CASE UNCHANGED vars \/ EpollReturns \/ ToolFills \/ ToolWrites
  BY <1>1 DEF vars, ledVars, call, panelVars, EpollReturns, ToolFills, ToolWrites
<1>2. CASE StartServer \/ EndServer
  BY <1>2 DEF StartServer, Start, EndServer, Ends
<1>3. CASE Serve
  <2>1. loop = "serving" /\ loop' = IF pc' = "down" THEN "down" ELSE loop
    BY <1>3 DEF Serve
  <2> QED
    <3>1. CASE pc' = "down"
      BY <2>1, <3>1
    <3>2. CASE pc' # "down"
      BY <2>1, <3>2
    <3> QED
      BY <3>1, <3>2
<1>4. CASE SkipUpdate \/ BeginUpdate
  BY <1>4 DEF SkipUpdate, BeginUpdate, BeginUpdateOn, RoundEnds
<1>5. CASE PaintBar \/ PaintClients
  BY <1>5 DEF PaintBar, PaintClients, ledVars, call
<1>6. CASE Outside
  BY <1>6 DEF Outside, Device, Probe, Remove, RemoveTo, ShellWrite, Undefined, StaleAccess,
              ledVars, call, panelVars
<1> QED
  BY <1>1, <1>2, <1>3, <1>4, <1>5, <1>6 DEF Next

(* The type invariant of the panel: whatever the tools paint and whenever the *)
(* server ends, areas keep their colours and the loop its place.              *)
THEOREM PanelTypes == PanelSpec => []TypeOK
<1> DEFINE Inv == PictureInv /\ ScreenTypeOK /\ FlagsTypeOK /\ LoopInv
<1>1. Init => Inv
  <2> SUFFICES ASSUME Init PROVE Inv
    OBVIOUS
  <2>1. PictureInv
    BY PictureInitHolds
  <2>2. ScreenTypeOK
    BY DEF Init, ScreenTypeOK, Blank, Areas, Bars, Colours
  <2>3. FlagsTypeOK /\ LoopInv
    BY DEF Init, LedInit, FlagsTypeOK, LoopInv, Executing
  <2> QED
    BY <2>1, <2>2, <2>3
<1>2. Inv /\ [Next]_vars => Inv'
  BY PictureHolds, ScreenHolds, FlagsHold, LoopHolds DEF PictureInv
<1>3. LedIInv /\ Inv => TypeOK
  BY DEF LedIInv, PictureInv, ScreenTypeOK, FlagsTypeOK, LoopInv, TypeOK
<1> QED
  BY <1>1, <1>2, <1>3, LedInvariance, PanelImplementsLedControl, PTL DEF PanelSpec

-----------------------------------------------------------------------------
(* The table of requests. *)

(* Sequences written out, word by word. *)
LEMMA WordByWord ==
  ASSUME NEW s \in Seq(STRING)
  PROVE  /\ s = <<>> <=> Len(s) = 0
         /\ \A a : s = <<a>> <=> Len(s) = 1 /\ s[1] = a
         /\ \A a, b : s = <<a, b>> <=> Len(s) = 2 /\ s[1] = a /\ s[2] = b
         /\ \A a, b, c : s = <<a, b, c>> <=> Len(s) = 3 /\ s[1] = a /\ s[2] = b /\ s[3] = c
<1>1. s = <<>> <=> Len(s) = 0
  BY EmptySeq
<1>2. ASSUME NEW a PROVE s = <<a>> <=> Len(s) = 1 /\ s[1] = a
  OBVIOUS
<1>3. ASSUME NEW a, NEW b PROVE s = <<a, b>> <=> Len(s) = 2 /\ s[1] = a /\ s[2] = b
  OBVIOUS
<1>4. ASSUME NEW a, NEW b, NEW c
      PROVE  s = <<a, b, c>> <=> Len(s) = 3 /\ s[1] = a /\ s[2] = b /\ s[3] = c
  OBVIOUS
<1> QED
  BY <1>1, <1>2, <1>3, <1>4

(* From its third word on a line is a command with its arguments. *)
LEMMA CommandAndArguments ==
  ASSUME NEW l \in Seq(STRING), Len(l) >= 3
  PROVE  LET words == SubSeq(l, 3, Len(l))
             args == SubSeq(l, 4, Len(l))
         IN  /\ words \in Seq(STRING) /\ args \in Seq(STRING)
             /\ Len(words) = Len(args) + 1
             /\ words[1] = l[3]
             /\ \A i \in 1 .. Len(args) : words[i + 1] = args[i]
<1> DEFINE n == Len(l)
           words == SubSeq(l, 3, n)
           args == SubSeq(l, 4, n)
<1>1. n \in Nat /\ n >= 3
  OBVIOUS
<1>2. \A i \in 1 .. n : l[i] \in STRING
  OBVIOUS
<1>3. /\ words \in Seq(STRING) /\ Len(words) = n - 2
      /\ \A i \in 1 .. n - 2 : words[i] = l[i + 2]
  <2>1. \A i \in 3 .. n : l[i] \in STRING
    BY <1>1, <1>2
  <2> QED
    BY <1>1, <2>1, SubSeqProperties
<1>4. /\ args \in Seq(STRING) /\ Len(args) = n - 3
      /\ \A i \in 1 .. n - 3 : args[i] = l[i + 3]
  <2>1. \A i \in 4 .. n : l[i] \in STRING
    BY <1>1, <1>2
  <2>2. /\ args \in Seq(STRING) /\ Len(args) = IF 4 <= n THEN n - 4 + 1 ELSE 0
        /\ \A i \in 1 .. n - 4 + 1 : args[i] = l[4 + i - 1]
    BY <1>1, <2>1, SubSeqProperties
  <2> HIDE DEF args
  <2>3. Len(args) = n - 3
    <3>1. CASE n = 3
      <4>1. Len(args) = 0
        BY <2>2, <3>1
      <4> QED
        BY <3>1, <4>1
    <3>2. CASE n > 3
      <4>1. 4 <= n /\ n - 4 + 1 = n - 3
        BY <1>1, <3>2
      <4>2. Len(args) = n - 4 + 1
        BY <2>2, <4>1, Zenon
      <4> QED
        BY <4>1, <4>2, Zenon
    <3>3. n = 3 \/ n > 3
      <4>1. \A k \in Nat : k >= 3 => k = 3 \/ k > 3
        OBVIOUS
      <4> QED
        BY <1>1, <4>1, Zenon
    <3> QED
      BY <3>1, <3>2, <3>3, Zenon
  <2>4. \A i \in 1 .. n - 3 : i \in 1 .. n - 4 + 1 /\ 4 + i - 1 = i + 3
    BY <1>1
  <2> QED
    BY <2>2, <2>3, <2>4
<1> HIDE DEF words, args
<1> QED
  BY <1>1, <1>3, <1>4 DEF words, args

(* A documented line, by its command and its arguments. *)
LEMMA DocumentedCases ==
  ASSUME NEW l \in Seq(STRING), Len(l) >= 3
  PROVE  SubSeq(l, 3, Len(l)) \in DocumentedWords <=>
           LET args == SubSeq(l, 4, Len(l))
           IN  \/ l[3] = "PING" /\ args = <<>>
               \/ l[3] \in {"STATUS", "KEY", "CLIENTS"} /\ args = <<"GET">>
               \/ l[3] = "LED" /\ args \in {<<"SET", "ON">>, <<"SET", "OFF">>}
<1> DEFINE words == SubSeq(l, 3, Len(l))
           args == SubSeq(l, 4, Len(l))
<1>1. /\ words \in Seq(STRING) /\ args \in Seq(STRING)
      /\ Len(words) = Len(args) + 1
      /\ words[1] = l[3]
      /\ \A i \in 1 .. Len(args) : words[i + 1] = args[i]
  BY CommandAndArguments
<1> HIDE DEF words, args
<1>2. Len(args) \in Nat /\ Len(words) = Len(args) + 1
  BY <1>1
<1>3. /\ \A a : words = <<a>> <=> Len(words) = 1 /\ words[1] = a
      /\ \A a, b : words = <<a, b>> <=> Len(words) = 2 /\ words[1] = a /\ words[2] = b
      /\ \A a, b, c : words = <<a, b, c>> <=>
           Len(words) = 3 /\ words[1] = a /\ words[2] = b /\ words[3] = c
  BY <1>1, WordByWord
<1>4. /\ args = <<>> <=> Len(args) = 0
      /\ \A b : args = <<b>> <=> Len(args) = 1 /\ args[1] = b
      /\ \A b, c : args = <<b, c>> <=> Len(args) = 2 /\ args[1] = b /\ args[2] = c
  BY <1>1, WordByWord
<1>5. /\ \A a : words = <<a>> <=> l[3] = a /\ args = <<>>
      /\ \A a, b : words = <<a, b>> <=> l[3] = a /\ args = <<b>>
      /\ \A a, b, c : words = <<a, b, c>> <=> l[3] = a /\ args = <<b, c>>
  <2>1. /\ Len(words) = 1 <=> Len(args) = 0
        /\ Len(words) = 2 <=> Len(args) = 1
        /\ Len(words) = 3 <=> Len(args) = 2
    <3>1. \A k \in Nat : /\ k + 1 = 1 <=> k = 0
                         /\ k + 1 = 2 <=> k = 1
                         /\ k + 1 = 3 <=> k = 2
      OBVIOUS
    <3> QED
      BY <1>2, <3>1, Zenon
  <2>2. /\ Len(args) = 1 => words[2] = args[1]
        /\ Len(args) = 2 => words[2] = args[1] /\ words[3] = args[2]
    BY <1>1
  <2>3. ASSUME NEW a PROVE words = <<a>> <=> l[3] = a /\ args = <<>>
    BY <1>1, <1>3, <1>4, <2>1, Zenon
  <2>4. ASSUME NEW a, NEW b PROVE words = <<a, b>> <=> l[3] = a /\ args = <<b>>
    <3>1. words = <<a, b>> <=> Len(words) = 2 /\ words[1] = a /\ words[2] = b
      BY <1>3, Zenon
    <3>2. args = <<b>> <=> Len(args) = 1 /\ args[1] = b
      BY <1>4, Zenon
    <3> QED
      BY <1>1, <2>1, <2>2, <3>1, <3>2, Zenon
  <2>5. ASSUME NEW a, NEW b, NEW c
        PROVE  words = <<a, b, c>> <=> l[3] = a /\ args = <<b, c>>
    <3>1. words = <<a, b, c>> <=>
            Len(words) = 3 /\ words[1] = a /\ words[2] = b /\ words[3] = c
      BY <1>3
    <3>2. args = <<b, c>> <=> Len(args) = 2 /\ args[1] = b /\ args[2] = c
      BY <1>4, Zenon
    <3> QED
      BY <1>1, <2>1, <2>2, <3>1, <3>2, Zenon
  <2> QED
    BY <2>3, <2>4, <2>5, Zenon
<1>6. words \in DocumentedWords <=>
        \/ words = <<"PING">>
        \/ words = <<"STATUS", "GET">> \/ words = <<"KEY", "GET">> \/ words = <<"CLIENTS", "GET">>
        \/ words = <<"LED", "SET", "ON">> \/ words = <<"LED", "SET", "OFF">>
  BY Zenon DEF DocumentedWords
<1>7. words \in DocumentedWords <=>
        \/ l[3] = "PING" /\ args = <<>>
        \/ l[3] \in {"STATUS", "KEY", "CLIENTS"} /\ args = <<"GET">>
        \/ l[3] = "LED" /\ args \in {<<"SET", "ON">>, <<"SET", "OFF">>}
  <2>1. /\ words = <<"PING">> <=> l[3] = "PING" /\ args = <<>>
        /\ words = <<"STATUS", "GET">> <=> l[3] = "STATUS" /\ args = <<"GET">>
        /\ words = <<"KEY", "GET">> <=> l[3] = "KEY" /\ args = <<"GET">>
        /\ words = <<"CLIENTS", "GET">> <=> l[3] = "CLIENTS" /\ args = <<"GET">>
        /\ words = <<"LED", "SET", "ON">> <=> l[3] = "LED" /\ args = <<"SET", "ON">>
        /\ words = <<"LED", "SET", "OFF">> <=> l[3] = "LED" /\ args = <<"SET", "OFF">>
    BY <1>5, ZenonT(60)
  <2> QED
    BY <1>6, <2>1, Zenon
<1> QED
  BY <1>7 DEF words, args

(* Where a line of the table, and any other, leads. *)
LEMMA BranchOfALine ==
  ASSUME NEW l \in Seq(STRING)
  PROVE  /\ IsDocumented(l) =>
              /\ Branch(l) \in {"led", "status", "key", "clients", "pong"}
              /\ Branch(l) \in {"led", "status"} => DocumentedBody(l) = "led"
              /\ Branch(l) \in {"key", "clients", "pong"} => DocumentedBody(l) = Branch(l)
         /\ ~IsDocumented(l) /\ (Len(l) > 2 => l[3] # "LED") =>
              Branch(l) \in {"bad_request", "unknown_command"}
<1>1. CASE ~parseRequest(l)
  <2>1. ~IsDocumented(l) /\ Branch(l) = "bad_request"
    BY <1>1 DEF parseRequest, IsDocumented, Branch
  <2> QED
    BY <2>1
<1>2. CASE parseRequest(l)
  <2> DEFINE args == SubSeq(l, 4, Len(l))
             c == l[3]
  <2>1. Len(l) >= 3 /\ l[1] = "REQ"
    BY <1>2 DEF parseRequest
  <2>2. IsDocumented(l) <=>
          \/ c = "PING" /\ args = <<>>
          \/ c \in {"STATUS", "KEY", "CLIENTS"} /\ args = <<"GET">>
          \/ c = "LED" /\ args \in {<<"SET", "ON">>, <<"SET", "OFF">>}
    BY <2>1, DocumentedCases DEF IsDocumented
  <2>3. Branch(l) =
          CASE c = "LED" ->
                 IF Len(args) = 0 THEN "crash"
                 ELSE IF Len(args) = 1 THEN "overrun"
                 ELSE IF args[2] \in {"ON", "OFF"} THEN "led" ELSE "bad_request"
            [] c = "STATUS" /\ args = <<"GET">> -> "status"
            [] c = "KEY" -> IF args = <<"GET">> THEN "key" ELSE "bad_request"
            [] c = "CLIENTS" /\ args = <<"GET">> -> "clients"
            [] c = "PING" /\ args = <<>> -> "pong"
            [] OTHER -> "unknown_command"
    BY <1>2, Zenon DEF Branch, ParsedRequest
  <2> HIDE DEF args, c
  <2>4. args \in {<<"SET", "ON">>, <<"SET", "OFF">>} => Len(args) = 2 /\ args[2] \in {"ON", "OFF"}
    OBVIOUS
  <2>5. DocumentedBody(l) =
          CASE c \in {"LED", "STATUS"} -> "led"
            [] c = "KEY" -> "key"
            [] c = "CLIENTS" -> "clients"
            [] c = "PING" -> "pong"
    BY Zenon DEF DocumentedBody, c
  <2>6. CASE c = "LED"
    <3>1. IsDocumented(l) => Branch(l) = "led" /\ DocumentedBody(l) = "led"
      BY <2>2, <2>3, <2>4, <2>5, <2>6
    <3> QED
      BY <2>1, <2>6, <3>1 DEF c
  <2>7. CASE c # "LED"
    BY <2>2, <2>3, <2>5, <2>7
  <2> QED
    BY <2>6, <2>7
<1> QED
  BY <1>1, <1>2

(* Only requests for the LED go to the device, and only those that set it     *)
(* write to it.                                                               *)
BranchInv ==
  /\ pc \in {"down", "idle"} => line = <<>>
  /\ pc \in {"open", "transfer", "close"} => Branch(line) \in {"led", "overrun", "status"}
  /\ pc = "close" => Setting

(* execute keeps the line it was called with until it returns. *)
LEMMA BranchHolds == BranchInv /\ [LedNext]_ledVars => BranchInv'
<1> SUFFICES ASSUME BranchInv, [LedNext]_ledVars PROVE BranchInv'
  OBVIOUS
<1> USE DEF BranchInv, Setting
<1>1. CASE Probe \/ Remove \/ \E state \in BOOLEAN : ShellWrite(state)
  BY <1>1 DEF Probe, Remove, RemoveTo, ShellWrite, call
<1>2. CASE Start \/ Ends \/ \E request \in Lines : Receive(request)
  BY <1>2 DEF Start, Ends, Receive
<1>3. CASE ExecuteSimply \/ ExecuteOverrun \/ SetSimulated \/ StatusSimulated
  BY <1>3 DEF ExecuteSimply, ExecuteOverrun, SetSimulated, StatusSimulated, Reply, Ends
<1>4. CASE UseDevice
  <2>1. pc' = "open" /\ line' = line /\ (on' \in Asked \/ Branch(line) = "status")
    BY <1>4 DEF UseDevice
  <2>2. Branch(line) \in {"led", "overrun", "status"}
    BY <2>1 DEF Asked
  <2> QED
    BY <2>1, <2>2
<1>5. CASE OpenDevice \/ WriteDevice
  BY <1>5 DEF OpenDevice, WriteDevice
<1>6. CASE OpenFails \/ FinishSet \/ ReadDevice
  BY <1>6 DEF OpenFails, FinishSet, ReadDevice, Reply
<1>7. CASE RoundEnds \/ StaleAccess \/ Undefined \/ UNCHANGED ledVars
  BY <1>7 DEF RoundEnds, StaleAccess, Undefined, ledVars, call
<1> QED
  BY <1>1, <1>2, <1>3, <1>4, <1>5, <1>6, <1>7 DEF LedNext, Device, Execute

(* The answer to one line. *)
AnswerByTable ==
  /\ answer'.id = IF Len(line) > 2 /\ line[1] = "REQ" THEN line[2] ELSE "0"
  /\ IsDocumented(line) =>
       \/ answer'.result = "OK" /\ answer'.body = DocumentedBody(line)
       \/ answer'.result \in {"led_write_failed", "led_read_failed"}
  /\ ~IsDocumented(line) /\ (Len(line) > 2 => line[3] # "LED") =>
       /\ answer'.result \in {"bad_request", "unknown_command"}
       /\ UNCHANGED <<level, led_state, ledOn>>

(* A request ends in an answer to it, of the kind its branch gives. *)
LEMMA RequestsEndInReplies ==
  ASSUME BranchInv, [LedNext]_ledVars, line # <<>>, pc' = "idle"
  PROVE  \E result, body, led :
           /\ Reply(result, body, led)
           /\ \/ result = Branch(line) /\ Branch(line) \in Failure /\ UNCHANGED process
              \/ /\ result = "OK" /\ body = Branch(line) /\ UNCHANGED process
                 /\ Branch(line) \in {"key", "clients", "pong"}
              \/ result = "bad_request" /\ Branch(line) = "overrun" /\ UNCHANGED process
              \/ /\ result = "OK" /\ body = "led"
                 /\ Branch(line) \in {"led", "overrun", "status"}
              \/ /\ result \in {"led_write_failed", "led_read_failed"}
                 /\ Branch(line) \in {"led", "overrun", "status"}
<1> USE DEF BranchInv
<1>1. CASE ExecuteSimply
  BY <1>1 DEF ExecuteSimply
<1>2. CASE ExecuteOverrun
  BY <1>2 DEF ExecuteOverrun, Ends
<1>3. CASE SetSimulated
  <2>1. PICK state \in Asked : Reply("OK", "led", state)
    BY <1>3 DEF SetSimulated
  <2>2. Branch(line) \in {"led", "overrun"}
    BY <2>1 DEF Asked
  <2> QED
    BY <2>1, <2>2
<1>4. CASE StatusSimulated
  BY <1>4 DEF StatusSimulated
<1>5. CASE OpenFails
  BY <1>5 DEF OpenFails
<1>6. CASE FinishSet
  BY <1>6 DEF FinishSet
<1>7. CASE ReadDevice
  BY <1>7 DEF ReadDevice
<1>8. CASE Probe \/ Remove \/ \E state \in BOOLEAN : ShellWrite(state)
  BY <1>8 DEF Probe, Remove, RemoveTo, ShellWrite, call
<1>9. CASE Start \/ Ends \/ \E request \in Lines : Receive(request)
  BY <1>9 DEF Start, Ends, Receive
<1>10. CASE UseDevice \/ OpenDevice \/ WriteDevice
  BY <1>10 DEF UseDevice, OpenDevice, WriteDevice
<1>11. CASE RoundEnds \/ StaleAccess \/ Undefined \/ UNCHANGED ledVars
  BY <1>11 DEF RoundEnds, StaleAccess, Undefined, ledVars, call
<1> QED
  BY <1>1, <1>2, <1>3, <1>4, <1>5, <1>6, <1>7, <1>8, <1>9, <1>10, <1>11
     DEF LedNext, Device, Execute

(* Every line is answered by the table of the README. *)
LEMMA AnswersFollowBranches ==
  ASSUME LedTypeOK, BranchInv, [LedNext]_ledVars, line # <<>>, pc' = "idle"
  PROVE  AnswerByTable
<1>1. line \in Seq(STRING)
  BY LinesAssumption DEF LedTypeOK, ServerTypeOK
<1>2. PICK result, body, led :
        /\ Reply(result, body, led)
        /\ \/ result = Branch(line) /\ Branch(line) \in Failure /\ UNCHANGED process
           \/ /\ result = "OK" /\ body = Branch(line) /\ UNCHANGED process
              /\ Branch(line) \in {"key", "clients", "pong"}
           \/ result = "bad_request" /\ Branch(line) = "overrun" /\ UNCHANGED process
           \/ /\ result = "OK" /\ body = "led"
              /\ Branch(line) \in {"led", "overrun", "status"}
           \/ /\ result \in {"led_write_failed", "led_read_failed"}
              /\ Branch(line) \in {"led", "overrun", "status"}
  BY RequestsEndInReplies
<1>3. answer'.id = ReplyId(line) /\ answer'.result = result /\ answer'.body = body
  BY <1>2 DEF Reply
<1>4. answer'.id = IF Len(line) > 2 /\ line[1] = "REQ" THEN line[2] ELSE "0"
  <2>1. parseRequest(line) <=> Len(line) > 2 /\ line[1] = "REQ"
    BY <1>1 DEF parseRequest
  <2> QED
    BY <1>3, <2>1 DEF ReplyId, ParsedRequest
<1>5. ASSUME IsDocumented(line)
      PROVE  \/ answer'.result = "OK" /\ answer'.body = DocumentedBody(line)
             \/ answer'.result \in {"led_write_failed", "led_read_failed"}
  <2>1. /\ Branch(line) \in {"led", "status", "key", "clients", "pong"}
        /\ Branch(line) \in {"led", "status"} => DocumentedBody(line) = "led"
        /\ Branch(line) \in {"key", "clients", "pong"} => DocumentedBody(line) = Branch(line)
    BY <1>1, <1>5, BranchOfALine
  <2> QED
    BY <1>2, <1>3, <2>1 DEF Failure
<1>6. ASSUME ~IsDocumented(line), Len(line) > 2 => line[3] # "LED"
      PROVE  /\ answer'.result \in {"bad_request", "unknown_command"}
             /\ UNCHANGED <<level, led_state, ledOn>>
  <2>1. Branch(line) \in {"bad_request", "unknown_command"}
    BY <1>1, <1>6, BranchOfALine
  <2>2. result = Branch(line) /\ UNCHANGED process
    BY <1>2, <2>1
  <2> QED
    BY <1>2, <1>3, <2>1, <2>2 DEF Reply, driver, process
<1> QED
  BY <1>4, <1>5, <1>6 DEF AnswerByTable

(* DeviceManager::execute, for every line of words: a request of the README's *)
(* table gets the answer the table gives, or an error of the device; any      *)
(* other line that does not begin like a request for the LED gets an error    *)
(* and changes nothing.                                                       *)
THEOREM AnswersFollowTheTable == PanelSpec => AnswersByTable
<1>1. LedInit => BranchInv
  BY DEF LedInit, BranchInv
<1>2. LedIInv /\ BranchInv /\ [LedNext]_ledVars
        => [line # <<>> /\ pc' = "idle" => AnswerByTable]_ledVars
  BY AnswersFollowBranches DEF LedIInv
<1>3. Spec => [][line # <<>> /\ pc' = "idle" => AnswerByTable]_ledVars
  BY <1>1, <1>2, BranchHolds, LedInvariance, PTL DEF Spec
<1>4. (line # <<>> /\ pc' = "idle" => AnswerByTable) =>
        (line # <<>> /\ pc' = "idle" =>
          /\ answer'.id = IF Len(line) > 2 /\ line[1] = "REQ" THEN line[2] ELSE "0"
          /\ IsDocumented(line) =>
               \/ answer'.result = "OK" /\ answer'.body = DocumentedBody(line)
               \/ answer'.result \in {"led_write_failed", "led_read_failed"}
          /\ ~IsDocumented(line) /\ (Len(line) > 2 => line[3] # "LED") =>
               /\ answer'.result \in {"bad_request", "unknown_command"}
               /\ UNCHANGED <<level, led_state, ledOn>>)
  BY Zenon DEF AnswerByTable
<1> QED
  BY <1>3, <1>4, PanelImplementsLedControl, PTL DEF AnswersByTable
=============================================================================
