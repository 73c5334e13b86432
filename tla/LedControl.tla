----------------------------- MODULE LedControl -----------------------------
(***************************************************************************)
(* Requests and the LED: DeviceManager::execute from the line to the       *)
(* answer, LedDevice with its character device, and the platform_probe     *)
(* driver behind /dev/imx6ull_device, down to the pin.                     *)
(*                                                                         *)
(* Around the server thread, a shell writes to the same device, the driver *)
(* is loaded and unloaded, and the server is killed and started again.     *)
(* LedDevice looks for the device once, when the server starts.  The       *)
(* driver does not deregister its device when it is removed: an access to  *)
(* the node that is left behind touches freed memory.  It may fail; what   *)
(* follows any other outcome is left open ("undefined").                   *)
(***************************************************************************)
EXTENDS Requests

CONSTANT Lines   \* the lines clients send

ASSUME LinesAssumption == Lines \subseteq Seq(STRING)

VARIABLES
  (* the driver and the kernel *)
  led_active_low,   \* from the device tree
  level,            \* level of the pin
  probed,           \* is the driver bound to the device?
  led_state,        \* the driver's record of the LED
  node,             \* does /dev/imx6ull_device exist?
  (* the server *)
  available,        \* LedDevice::available_
  ledOn,            \* DeviceManager::ledOn, what the LCD shows
  pc,
  line,             \* the line being executed
  on,               \* execute's local variable: the state asked for
  answer,           \* the last answer of this server process
  (* history *)
  shown,            \* states of the LED since the request began
  writer            \* who changed the LED last

driver  == <<led_active_low, level, probed, led_state, node>>
process == <<available, ledOn>>
call    == <<pc, line, on, answer>>
history == <<shown, writer>>
ledVars == <<driver, process, call, history>>

Failure == {"bad_request", "unknown_command", "led_write_failed", "led_read_failed"}

(* id and result, what the body tells, and for the LED: on or off, simulated? *)
Answer == [id : {"0"} \cup STRING, result : {"OK"} \cup Failure, led : BOOLEAN, simulated : BOOLEAN,
           body : {"none", "led", "key", "clients", "pong"}]

NoAnswer == [id |-> "0", result |-> "bad_request", led |-> FALSE, simulated |-> FALSE,
             body |-> "none"]

(* The level that lights the LED or not, and what a level shows. *)
LevelFor(state) == IF state # led_active_low THEN 1 ELSE 0
Lit == (level = 1) # led_active_low

Executing == {"execute", "open", "transfer", "close"}
Running == pc \notin {"down", "undefined"}

DriverTypeOK ==
  /\ led_active_low \in BOOLEAN /\ probed \in BOOLEAN /\ node \in BOOLEAN
  /\ level \in 0 .. 1 /\ led_state \in 0 .. 1
  /\ probed => node

ServerTypeOK ==
  /\ available \in BOOLEAN /\ ledOn \in BOOLEAN /\ on \in BOOLEAN
  /\ pc \in {"down", "idle", "undefined"} \cup Executing
  /\ line \in Lines \cup {<<>>}
  /\ pc \in {"open", "transfer", "close"} => available
  /\ pc \in {"transfer", "close"} => probed

HistoryTypeOK ==
  /\ shown \subseteq BOOLEAN
  /\ writer \in {"boot", "driver", "server", "shell"}

(* The variables have their types; a bound driver has its node, and a         *)
(* transfer that has begun has its driver.                                    *)
LedTypeOK == DriverTypeOK /\ ServerTypeOK /\ HistoryTypeOK /\ answer \in Answer

LedInit ==
  /\ led_active_low \in BOOLEAN
  /\ level \in 0 .. 1
  /\ probed = FALSE /\ led_state = 0 /\ node = FALSE
  /\ available = FALSE /\ ledOn = FALSE
  /\ pc = "down"
  /\ line = <<>> /\ on = FALSE
  /\ answer = NoAnswer
  /\ shown = {}
  /\ writer = "boot"

(* Every state of the LED belongs to the request in progress. *)
Shows == shown' = IF pc \in Executing THEN shown \cup {Lit'} ELSE shown

-----------------------------------------------------------------------------
(* The driver. *)

(* probe: the LED goes dark and the device is registered.  A device of that   *)
(* name that is still there makes misc_register fail.                         *)
Probe ==
  /\ pc # "undefined"
  /\ ~probed
  /\ level' = LevelFor(FALSE)
  /\ IF node
       THEN UNCHANGED <<probed, led_state, node>>
       ELSE probed' = TRUE /\ led_state' = 0 /\ node' = TRUE
  /\ writer' = "driver"
  /\ UNCHANGED <<led_active_low, process, call>>
  /\ Shows

RemoveTo(newLevel) ==
  /\ pc \notin {"transfer", "close", "undefined"}
  /\ probed
  /\ probed' = FALSE
  /\ level' = newLevel
  /\ writer' = "driver"
  /\ UNCHANGED <<led_active_low, led_state, node, process, call>>
  /\ Shows

(* Variant: the LED switched off without a look at its polarity. *)
RemoveLow == RemoveTo(0)

(* remove: the LED goes dark; the device stays registered.  The module cannot *)
(* be unloaded while the device is open.                                      *)
Remove == RemoveTo(LevelFor(FALSE))

(* platform_led_set, under the driver's lock. *)
platform_led_set(state) ==
  /\ level' = LevelFor(state)
  /\ led_state' = IF state THEN 1 ELSE 0

(* echo 0 or 1 > /dev/imx6ull_device *)
ShellWrite(state) ==
  /\ pc # "undefined"
  /\ probed
  /\ platform_led_set(state)
  /\ writer' = "shell"
  /\ UNCHANGED <<led_active_low, probed, node, process, call>>
  /\ Shows

-----------------------------------------------------------------------------
(* The server process. *)

(* LedDevice's constructor: access() to the device, once. *)
Start ==
  /\ pc = "down"
  /\ available' = node
  /\ ledOn' = FALSE
  /\ answer' = NoAnswer
  /\ pc' = "idle"
  /\ writer' = IF writer = "server" THEN "boot" ELSE writer
  /\ UNCHANGED <<driver, line, on, shown>>

(* The process ends, at any point of a request. *)
Ends ==
  /\ Running
  /\ pc' = "down"
  /\ line' = <<>> /\ on' = FALSE
  /\ answer' = NoAnswer
  /\ shown' = {}
  /\ UNCHANGED <<driver, process, writer>>

Receive(request) ==
  /\ pc = "idle"
  /\ pc' = "execute"
  /\ line' = request
  /\ answer' = NoAnswer
  /\ shown' = {Lit}
  /\ UNCHANGED <<driver, process, on, writer>>

(* execute returns: the answer to the line, with the state of the LED if that *)
(* is what it tells.                                                          *)
Reply(result, body, led) ==
  /\ answer' = [id |-> ReplyId(line), result |-> result, body |-> body,
                led |-> led, simulated |-> body = "led" /\ ~available]
  /\ pc' = "idle"
  /\ line' = <<>> /\ on' = FALSE
  /\ UNCHANGED <<driver, history>>

(* The answers of a round are out, and history forgets them. *)
RoundEnds ==
  /\ pc = "idle"
  /\ answer' = NoAnswer
  /\ shown' = {}
  /\ UNCHANGED <<driver, process, pc, line, on, writer>>

(* Errors of the request, and the answers that touch nothing. *)
ExecuteSimply ==
  /\ pc = "execute"
  /\ \/ Branch(line) \in Failure /\ Reply(Branch(line), "none", FALSE)
     \/ Branch(line) \in {"key", "clients", "pong"} /\ Reply("OK", Branch(line), FALSE)
  /\ UNCHANGED process

(* LED with one argument compares a string past the end of the vector:        *)
(* bad_request, a crash, or what was left in that memory taken for either     *)
(* state, and then a request like any other.                                  *)
Asked ==
  {state \in BOOLEAN :
     \/ Branch(line) = "overrun"
     \/ Branch(line) = "led" /\ state = (ParsedRequest(line).args[2] = "ON")}

(* LED with no argument at all reads near the null pointer.                   *)
ExecuteOverrun ==
  /\ pc = "execute"
  /\ \/ Branch(line) = "overrun" /\ Reply("bad_request", "none", FALSE) /\ UNCHANGED process
     \/ Branch(line) \in {"overrun", "crash"} /\ Ends

(* LED SET without a device: only the record changes. *)
SetSimulated ==
  /\ pc = "execute"
  /\ ~available
  /\ \E state \in Asked : ledOn' = state /\ Reply("OK", "led", state)
  /\ UNCHANGED available

(* STATUS GET without a device: the copy of ledOn goes to a variable of the   *)
(* inner block, and the one that is answered stays false.                     *)
StatusSimulated ==
  /\ pc = "execute"
  /\ ~available
  /\ Branch(line) = "status"
  /\ Reply("OK", "led", FALSE)
  /\ UNCHANGED process

(* With a device, LED and STATUS open it. *)
UseDevice ==
  /\ pc = "execute"
  /\ available
  /\ \/ on' \in Asked
     \/ Branch(line) = "status" /\ UNCHANGED on
  /\ pc' = "open"
  /\ UNCHANGED <<driver, process, line, answer, history>>

Setting == line # <<>> /\ Branch(line) # "status"

(* Variant: the node taken for the driver. *)
OpenAnyNode ==
  /\ pc = "open"
  /\ node
  /\ pc' = "transfer"
  /\ UNCHANGED <<driver, process, line, on, answer, history>>

OpenDevice ==
  /\ pc = "open"
  /\ probed
  /\ pc' = "transfer"
  /\ UNCHANGED <<driver, process, line, on, answer, history>>

(* Variant: the state is recorded before the device is asked. *)
OpenFailsRecorded ==
  /\ pc = "open"
  /\ ledOn' = IF Setting THEN on ELSE ledOn
  /\ Reply(IF Setting THEN "led_write_failed" ELSE "led_read_failed", "none", FALSE)
  /\ UNCHANGED available

(* The driver is gone, or the clients hold all descriptors: led_write_failed  *)
(* or led_read_failed, and the record stays as it was ...                     *)
OpenFails ==
  /\ pc = "open"
  /\ Reply(IF Setting THEN "led_write_failed" ELSE "led_read_failed", "none", FALSE)
  /\ UNCHANGED process

(* ... or, without the driver, the node that is left leads into memory that   *)
(* was freed, for the server and for the shell.                               *)
StaleAccess ==
  /\ pc \in {"open", "idle", "down"}
  /\ node
  /\ ~probed
  /\ pc' = "undefined"
  /\ UNCHANGED <<driver, process, line, on, answer, history>>

WriteDevice ==
  /\ pc = "transfer"
  /\ Setting
  /\ platform_led_set(on)
  /\ writer' = "server"
  /\ pc' = "close"
  /\ UNCHANGED <<led_active_low, probed, node, process, line, on, answer>>
  /\ Shows

FinishSet ==
  /\ pc = "close"
  /\ ledOn' = on
  /\ Reply("OK", "led", on)
  /\ UNCHANGED available

(* Variant: the state is answered from the server's record. *)
AnswerFromRecord ==
  /\ pc = "transfer"
  /\ ~Setting
  /\ Reply("OK", "led", ledOn)
  /\ UNCHANGED process

(* STATUS GET answers what the driver says. *)
ReadDevice ==
  /\ pc = "transfer"
  /\ ~Setting
  /\ Reply("OK", "led", led_state = 1)
  /\ UNCHANGED process

(* Nothing is said of what follows an access to freed memory. *)
Undefined == pc = "undefined" /\ UNCHANGED ledVars

Device == Probe \/ Remove \/ \E state \in BOOLEAN : ShellWrite(state)

Execute ==
  \/ ExecuteSimply \/ ExecuteOverrun
  \/ SetSimulated \/ StatusSimulated \/ UseDevice
  \/ OpenDevice \/ OpenFails \/ WriteDevice \/ FinishSet \/ ReadDevice

LedNext ==
  \/ Device
  \/ Start \/ Ends
  \/ \E request \in Lines : Receive(request)
  \/ Execute \/ RoundEnds
  \/ StaleAccess \/ Undefined

Spec == LedInit /\ [][LedNext]_ledVars

-----------------------------------------------------------------------------
(* Properties. *)

(* While the driver is bound its record is the state of the LED, whatever the *)
(* polarity, and the LED is dark after a probe or a remove until it is set.   *)
LedAgrees ==
  /\ probed => Lit = (led_state = 1)
  /\ writer = "driver" => ~Lit

(* An answer that is not simulated names a state that the LED had while the   *)
(* request was executed, although the shell writes to the same device and the *)
(* driver and the server come and go.                                         *)
AnswerTruthful ==
  pc = "idle" /\ answer.body = "led" /\ ~answer.simulated => answer.led \in shown

(* Between requests the record that the LCD shows is the LED's state, as long *)
(* as this server process was the last to set it: a set that succeeds changes *)
(* both, one that fails half-way changes neither.                             *)
RecordAgrees == pc = "idle" /\ writer = "server" => ledOn = Lit

(* A request of the README gets its documented answer, or an error of the     *)
(* device; any other line gets an error and leaves the LED and its record     *)
(* alone, unless its third word is LED.  Either carries the id of the         *)
(* request, or 0 if it is none.                                               *)
AnswersByTable ==
  [][line # <<>> /\ pc' = "idle" =>
       /\ answer'.id = IF Len(line) > 2 /\ line[1] = "REQ" THEN line[2] ELSE "0"
       /\ IsDocumented(line) =>
            \/ answer'.result = "OK" /\ answer'.body = DocumentedBody(line)
            \/ answer'.result \in {"led_write_failed", "led_read_failed"}
       /\ ~IsDocumented(line) /\ (Len(line) > 2 => line[3] # "LED") =>
            /\ answer'.result \in {"bad_request", "unknown_command"}
            /\ UNCHANGED <<level, led_state, ledOn>>]_ledVars

(* In simulated mode STATUS answers the state that was set last. *)
SimulatedStatus == pc = "idle" /\ answer.simulated => answer.led = ledOn

(* The device exists only while the driver is there. *)
NodeFollowsDriver == node => probed
=============================================================================
