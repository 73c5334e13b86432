------------------------------- MODULE Panel -------------------------------
(***************************************************************************)
(* The LCD: the last step of every round of TcpServer::run paints the      *)
(* framebuffer from DeviceManager's status, the number of clients and the  *)
(* state of the network; LedControl executes the requests of the round.    *)
(*                                                                         *)
(* The picture is painted in place, area by area, and anybody may see it   *)
(* half done.  The server may end at any point of it, and fb_color_test    *)
(* and fb_status paint into the same memory whenever somebody runs them.   *)
(***************************************************************************)
EXTENDS LedControl

CONSTANT Readings   \* network, key and number of clients at a round's end

ASSUME ReadingsAssumption ==
  Readings \subseteq [network : BOOLEAN, key : BOOLEAN, clients : Nat]

VARIABLES
  framebuffer,    \* colour of every area, length of the bar of clients
  lcdAvailable,   \* LcdDisplay::available_
  loop,           \* where TcpServer::run is, or the area to be painted next
  snapshot,       \* the arguments of LcdDisplay::update
  tool,           \* a tool is between its background and its text
  disturbed       \* history: has a tool painted since the update began?

panelVars == <<framebuffer, lcdAvailable, loop, snapshot, tool, disturbed>>
vars == <<ledVars, panelVars>>

Status ==
  {[network |-> reading.network, led |-> led, key |-> reading.key,
    clients |-> reading.clients] : led \in BOOLEAN, reading \in Readings}

Bars == {"network", "led", "key"}
Areas == Bars \cup {"clients"}
Colours == {"BLUE", "GREEN", "RED", "GRAY", "YELLOW", "TEXT"}

Colour(area, status) ==
  CASE area = "network" -> IF status.network THEN "GREEN" ELSE "RED"
    [] area = "led" -> IF status.led THEN "GREEN" ELSE "GRAY"
    [] area = "key" -> IF status.key THEN "YELLOW" ELSE "GRAY"

(* At most 16 clients fit on the bar. *)
BarLength(clients) == IF clients < 16 THEN clients ELSE 16

(* The picture of nothing, and of a status. *)
Blank == [area \in Areas |-> IF area = "clients" THEN 0 ELSE "BLUE"]

Picture(status) ==
  [area \in Areas |->
     IF area = "clients" THEN BarLength(status.clients) ELSE Colour(area, status)]

(* The variables have their types; the loop runs as long as the process and   *)
(* executes requests in its own place only.                                   *)
TypeOK ==
  /\ LedTypeOK
  /\ DOMAIN framebuffer = Areas
  /\ \A bar \in Bars : framebuffer[bar] \in Colours
  /\ framebuffer["clients"] \in 0 .. 16
  /\ lcdAvailable \in BOOLEAN /\ tool \in BOOLEAN /\ disturbed \in BOOLEAN
  /\ loop \in {"down", "first", "serving", "waiting"} \cup Areas
  /\ snapshot \in Status
  /\ pc # "undefined" => (pc = "down" <=> loop = "down")
  /\ pc \in Executing => loop = "serving"

Init ==
  /\ LedInit
  /\ framebuffer = Blank
  /\ lcdAvailable = FALSE /\ tool = FALSE /\ disturbed = FALSE
  /\ loop = "down"
  /\ snapshot \in {status \in Status : ~status.led}

-----------------------------------------------------------------------------
(* The process and its loop. *)

(* LcdDisplay's constructor: opening or mapping the framebuffer may fail. *)
StartServer ==
  /\ Start
  /\ lcdAvailable' \in BOOLEAN
  /\ loop' = "first"
  /\ UNCHANGED <<framebuffer, snapshot, tool, disturbed>>

(* epoll_wait returns, with events or without. *)
EpollReturns ==
  /\ pc = "idle"
  /\ loop \in {"first", "waiting"}
  /\ loop' = "serving"
  /\ UNCHANGED <<ledVars, framebuffer, lcdAvailable, snapshot, tool, disturbed>>

(* The requests of a round.  One that ends in a crash ends the loop. *)
Serve ==
  /\ loop = "serving"
  /\ (\E request \in Lines : Receive(request)) \/ Execute \/ (pc = "open" /\ StaleAccess)
  /\ loop' = IF pc' = "down" THEN "down" ELSE loop
  /\ UNCHANGED <<framebuffer, lcdAvailable, snapshot, tool, disturbed>>

EndServer ==
  /\ Ends
  /\ loop' = "down"
  /\ UNCHANGED <<framebuffer, lcdAvailable, snapshot, tool, disturbed>>

-----------------------------------------------------------------------------
(* LcdDisplay::update. *)

SkipUpdate ==
  /\ loop = "serving"
  /\ ~lcdAvailable
  /\ loop' = "waiting"
  /\ RoundEnds
  /\ UNCHANGED <<framebuffer, lcdAvailable, snapshot, tool, disturbed>>

BeginUpdateOn(background) ==
  /\ loop = "serving"
  /\ lcdAvailable
  /\ snapshot' \in {status \in Status : status.led = ledOn}
  /\ framebuffer' = background
  /\ loop' = "network"
  /\ disturbed' = tool
  /\ RoundEnds
  /\ UNCHANGED <<lcdAvailable, tool>>

(* Variant: the areas painted over the old picture. *)
BeginUpdateInPlace == BeginUpdateOn(framebuffer)

(* The status is taken and the whole screen painted blue. *)
BeginUpdate == BeginUpdateOn(Blank)

PaintBar ==
  /\ pc = "idle" /\ loop \in Bars
  /\ framebuffer' = [framebuffer EXCEPT ![loop] = Colour(loop, snapshot)]
  /\ loop' = CASE loop = "network" -> "led" [] loop = "led" -> "key" [] OTHER -> "clients"
  /\ UNCHANGED <<ledVars, lcdAvailable, snapshot, tool, disturbed>>

(* White is added up to the bar's length; nothing is painted beyond it. *)
PaintClients ==
  /\ pc = "idle" /\ loop = "clients"
  /\ LET length == BarLength(snapshot.clients)
     IN  framebuffer' = [framebuffer EXCEPT !["clients"] = IF @ < length THEN length ELSE @]
  /\ loop' = "waiting"
  /\ UNCHANGED <<ledVars, lcdAvailable, snapshot, tool, disturbed>>

-----------------------------------------------------------------------------
(* Around the server. *)

(* fb_color_test, and the first half of fb_status: a blue screen. *)
ToolFills ==
  /\ pc # "undefined"
  /\ framebuffer' = Blank
  /\ tool' \in BOOLEAN
  /\ disturbed' = TRUE
  /\ UNCHANGED <<ledVars, lcdAvailable, loop, snapshot>>

(* fb_status writes its lines across the three bars. *)
ToolWrites ==
  /\ pc # "undefined"
  /\ tool
  /\ framebuffer' = [area \in Areas |-> IF area \in Bars THEN "TEXT" ELSE framebuffer[area]]
  /\ tool' = FALSE
  /\ disturbed' = TRUE
  /\ UNCHANGED <<ledVars, lcdAvailable, loop, snapshot>>

(* Driver and shell, and the shell's access to the node left behind. *)
Outside ==
  /\ Device \/ Undefined \/ (pc # "open" /\ StaleAccess)
  /\ UNCHANGED panelVars

Next ==
  \/ StartServer \/ EndServer
  \/ EpollReturns \/ Serve
  \/ SkipUpdate \/ BeginUpdate \/ PaintBar \/ PaintClients
  \/ ToolFills \/ ToolWrites
  \/ Outside

PanelSpec == Init /\ [][Next]_vars

-----------------------------------------------------------------------------
SampleReadings ==
  {[network |-> TRUE, key |-> FALSE, clients |-> 17],
   [network |-> FALSE, key |-> TRUE, clients |-> 1]}

(* Properties. *)

(* While the server sleeps in epoll_wait the screen is the picture of the     *)
(* status of the last update, and of nothing older, and shows the record of   *)
(* the LED as it is now: no request falls between the status and the sleep.   *)
(* Only a tool that painted since may have changed it.                        *)
PictureCurrent ==
  loop = "waiting" /\ lcdAvailable /\ ~disturbed =>
    /\ framebuffer = Picture(snapshot)
    /\ snapshot.led = ledOn
=============================================================================
