----------------------------- MODULE KeyEvents -----------------------------
(***************************************************************************)
(* The key half of DeviceManager: the background thread that runs          *)
(* keyMonitorLoop over KeyDevice, the deque of key events, and the calls   *)
(* the server thread makes into it (popEvent, getStatus, KEY GET, the      *)
(* destructor).  The two threads share keyPressed, keyEventCount,          *)
(* keyEvents and nextEventSequence under keyMutex.                         *)
(*                                                                         *)
(* The input device is external: the kernel buffers input events until     *)
(* they are read, and a full buffer is thrown away but for its newest      *)
(* event.  Event values other than press and release (autorepeat, SYN      *)
(* reports, SYN_DROPPED) are one value, NOISE.                             *)
(***************************************************************************)
EXTENDS Naturals, Sequences

CONSTANTS
  MAX_KEY_EVENTS,   \* capacity of keyEvents
  InputCapacity,    \* capacity of the kernel's buffer for this reader
  MaxEdges          \* bound: how often the key changes state in a behaviour

ASSUME MaxKeyEventsAssumption == MAX_KEY_EVENTS \in Nat \ {0}
ASSUME InputAssumption ==
  InputCapacity \in Nat /\ InputCapacity >= 3 /\ MaxEdges \in Nat

VARIABLES
  (* the hardware and the kernel *)
  keyDown,            \* is the key down?
  edges,              \* how often it has changed state
  inputBuffer,        \* input events the thread has not read yet
  overflowed,         \* has the kernel ever thrown input events away?
  present,            \* does the device still exist?
  (* the key thread *)
  keyPc,
  pressed,            \* its local variable
  (* shared by the threads *)
  keyMutex,           \* "free" or the thread that holds it
  keyPressed, keyEventCount, keyEvents, nextEventSequence,
  stopping,
  (* the server thread *)
  serverPc,
  event,              \* the event popEvent returned last
  status              \* what getStatus or KEY GET returned last

hardware == <<keyDown, edges, inputBuffer, overflowed, present>>
keyLocal == <<keyPc, pressed>>
shared   == <<keyPressed, keyEventCount, keyEvents, nextEventSequence>>
server   == <<serverPc, event, status>>
vars     == <<hardware, keyLocal, keyMutex, shared, stopping, server>>

PRESS == "press"
RELEASE == "release"
NOISE == "noise"
Input == {PRESS, RELEASE, NOISE}

KeyEvent == [sequence : Nat, pressed : BOOLEAN]
Status == [pressed : BOOLEAN, events : Nat]

HardwareTypeOK ==
  /\ keyDown \in BOOLEAN
  /\ edges \in 0 .. MaxEdges
  /\ inputBuffer \in Seq(Input)
  /\ Len(inputBuffer) <= InputCapacity
  /\ overflowed \in BOOLEAN
  /\ present \in BOOLEAN

ControlTypeOK ==
  /\ keyPc \in {"check", "poll", "read", "lock", "filter", "record", "done"}
  /\ pressed \in BOOLEAN
  /\ keyMutex \in {"free", "key", "server"}
  /\ stopping \in BOOLEAN
  /\ serverPc \in {"idle", "pop", "status", "join", "joined"}

QueueTypeOK ==
  /\ keyPressed \in BOOLEAN
  /\ keyEventCount \in Nat
  /\ keyEvents \in Seq(KeyEvent)
  /\ Len(keyEvents) <= MAX_KEY_EVENTS
  /\ nextEventSequence \in Nat \ {0}
  /\ event \in KeyEvent
  /\ status \in Status

(* The variables have their types, and neither buffer outgrows its capacity:  *)
(* the test against MAX_KEY_EVENTS comes before the push.                     *)
TypeOK == HardwareTypeOK /\ ControlTypeOK /\ QueueTypeOK

(* The key may be down when the program starts: the code does not ask.  The *)
(* device could be opened: otherwise there is no key thread.                *)
Init ==
  /\ keyDown \in BOOLEAN
  /\ edges = 0
  /\ inputBuffer = <<>>
  /\ overflowed = FALSE
  /\ present = TRUE
  /\ keyPc = "check"
  /\ pressed = FALSE
  /\ keyMutex = "free"
  /\ keyPressed = FALSE
  /\ keyEventCount = 0
  /\ keyEvents = <<>>
  /\ nextEventSequence = 1
  /\ stopping = FALSE
  /\ serverPc = "idle"
  /\ event = [sequence |-> 0, pressed |-> FALSE]
  /\ status = [pressed |-> FALSE, events |-> 0]

-----------------------------------------------------------------------------
(* The hardware and the kernel (external). *)

(* The kernel queues a packet, or finds no room for the whole of it and keeps *)
(* a SYN_DROPPED mark and the newest event: the key event when the buffer ran *)
(* full before it, the report that follows it when it ran full after.         *)
Queue(packet) ==
  \/ /\ Len(inputBuffer) + Len(packet) <= InputCapacity
     /\ inputBuffer' = inputBuffer \o packet
     /\ UNCHANGED overflowed
  \/ /\ Len(inputBuffer) + Len(packet) > InputCapacity
     /\ inputBuffer' \in {<<NOISE>> \o packet, <<NOISE, NOISE>>}
     /\ overflowed' = TRUE

(* The key goes down or up: the driver reports the value and a SYN. *)
KeyEdge ==
  /\ present
  /\ edges < MaxEdges
  /\ edges' = edges + 1
  /\ keyDown' = ~keyDown
  /\ Queue(<<IF keyDown' THEN PRESS ELSE RELEASE, NOISE>>)
  /\ UNCHANGED <<present, keyLocal, keyMutex, shared, stopping, server>>

(* Autorepeat of a key that is held.  Its period is tens of milliseconds: the *)
(* thread's read loop empties the buffer between two of them.                 *)
KeyRepeat ==
  /\ present
  /\ keyDown
  /\ keyPc # "read"
  /\ inputBuffer = <<>>
  /\ inputBuffer' = <<NOISE>>
  /\ UNCHANGED <<keyDown, edges, overflowed, present, keyLocal, keyMutex, shared,
                 stopping, server>>

(* The input device goes away; what was not read is lost. *)
DeviceGone ==
  /\ present
  /\ present' = FALSE
  /\ inputBuffer' = <<>>
  /\ UNCHANGED <<keyDown, edges, overflowed, keyLocal, keyMutex, shared, stopping,
                 server>>

-----------------------------------------------------------------------------
(* The key thread. *)

(* Variant: a loop that never looks at `stopping`. *)
CheckNothing ==
  /\ keyPc = "check"
  /\ keyPc' = "poll"
  /\ UNCHANGED <<hardware, pressed, keyMutex, shared, stopping, server>>

CheckStopping ==
  /\ keyPc = "check"
  /\ keyPc' = IF stopping THEN "done" ELSE "poll"
  /\ UNCHANGED <<hardware, pressed, keyMutex, shared, stopping, server>>

(* poll() in waitEvent: input, or the timeout, or a device that is gone. *)
Poll ==
  /\ keyPc = "poll"
  /\ pressed' = FALSE
  /\ keyPc' = IF inputBuffer # <<>> THEN "read" ELSE "check"
  /\ UNCHANGED <<hardware, keyMutex, shared, stopping, server>>

(* One read() in waitEvent.  Only a press or a release leaves the loop with a *)
(* value; an empty buffer (EAGAIN) or an error leaves it without one.         *)
ReadEvent ==
  /\ keyPc = "read"
  /\ \/ /\ inputBuffer = <<>>
        /\ keyPc' = "check"
        /\ UNCHANGED <<inputBuffer, pressed>>
     \/ /\ inputBuffer # <<>>
        /\ Head(inputBuffer) = NOISE
        /\ inputBuffer' = Tail(inputBuffer)
        /\ UNCHANGED <<keyPc, pressed>>
     \/ /\ inputBuffer # <<>>
        /\ Head(inputBuffer) # NOISE
        /\ inputBuffer' = Tail(inputBuffer)
        /\ pressed' = (Head(inputBuffer) = PRESS)
        /\ keyPc' = "lock"
  /\ UNCHANGED <<keyDown, edges, overflowed, present, keyMutex, shared, stopping,
                 server>>

(* Variant: try_lock in place of lock_guard, the event forgotten on failure. *)
TryLockForKey ==
  /\ keyPc = "lock"
  /\ IF keyMutex = "free"
       THEN keyMutex' = "key" /\ keyPc' = "filter"
       ELSE keyPc' = "check" /\ UNCHANGED keyMutex
  /\ UNCHANGED <<hardware, pressed, shared, stopping, server>>

LockForKey ==
  /\ keyPc = "lock"
  /\ keyMutex = "free"
  /\ keyMutex' = "key"
  /\ keyPc' = "filter"
  /\ UNCHANGED <<hardware, pressed, shared, stopping, server>>

(* Variant: the filter for repeated states left out. *)
FilterNothing ==
  /\ keyPc = "filter"
  /\ keyPressed' = pressed
  /\ keyPc' = "record"
  /\ UNCHANGED <<hardware, pressed, keyMutex, keyEventCount, keyEvents,
                 nextEventSequence, stopping, server>>

(* A repeated state is not recorded; a new one becomes keyPressed. *)
FilterEvent ==
  /\ keyPc = "filter"
  /\ keyPressed' = pressed
  /\ IF pressed = keyPressed
       THEN keyPc' = "check" /\ keyMutex' = "free"
       ELSE keyPc' = "record" /\ UNCHANGED keyMutex
  /\ UNCHANGED <<hardware, pressed, keyEventCount, keyEvents, nextEventSequence,
                 stopping, server>>

(* Variant: the capacity test off by one. *)
TrimmedLate(queue) ==
  IF Len(queue) > MAX_KEY_EVENTS THEN Tail(queue) ELSE queue

(* Room for one more event: the oldest goes when the queue is full. *)
Trimmed(queue) ==
  IF Len(queue) >= MAX_KEY_EVENTS THEN Tail(queue) ELSE queue

RecordEvent ==
  /\ keyPc = "record"
  /\ keyEventCount' = keyEventCount + 1
  /\ keyEvents' = Append(Trimmed(keyEvents),
                         [sequence |-> nextEventSequence, pressed |-> pressed])
  /\ nextEventSequence' = nextEventSequence + 1
  /\ keyMutex' = "free"
  /\ keyPc' = "check"
  /\ UNCHANGED <<hardware, pressed, keyPressed, stopping, server>>

-----------------------------------------------------------------------------
(* The server thread: popEvent, getStatus and KEY GET take the mutex; the     *)
(* destructor, once the event loop has ended, does not.                       *)

(* Variant: a call that does not wait for keyMutex. *)
CallUnlocked(call) ==
  /\ serverPc = "idle"
  /\ serverPc' = call
  /\ UNCHANGED <<hardware, keyLocal, keyMutex, shared, stopping, event, status>>

LockForServer(call) ==
  /\ serverPc = "idle"
  /\ keyMutex = "free"
  /\ keyMutex' = "server"
  /\ serverPc' = call
  /\ UNCHANGED <<hardware, keyLocal, shared, stopping, event, status>>

(* Variant: the newest event handed over in place of the oldest. *)
PopNewest ==
  /\ serverPc = "pop"
  /\ IF keyEvents = <<>>
       THEN UNCHANGED <<keyEvents, event>>
       ELSE /\ event' = keyEvents[Len(keyEvents)]
            /\ keyEvents' = SubSeq(keyEvents, 1, Len(keyEvents) - 1)
  /\ keyMutex' = "free"
  /\ serverPc' = "idle"
  /\ UNCHANGED <<hardware, keyLocal, keyPressed, keyEventCount, nextEventSequence,
                 stopping, status>>

PopEvent ==
  /\ serverPc = "pop"
  /\ IF keyEvents = <<>>
       THEN UNCHANGED <<keyEvents, event>>
       ELSE event' = Head(keyEvents) /\ keyEvents' = Tail(keyEvents)
  /\ keyMutex' = "free"
  /\ serverPc' = "idle"
  /\ UNCHANGED <<hardware, keyLocal, keyPressed, keyEventCount, nextEventSequence,
                 stopping, status>>

ReadStatus ==
  /\ serverPc = "status"
  /\ status' = [pressed |-> keyPressed, events |-> keyEventCount]
  /\ keyMutex' = "free"
  /\ serverPc' = "idle"
  /\ UNCHANGED <<hardware, keyLocal, shared, stopping, event>>

Stop ==
  /\ serverPc = "idle"
  /\ stopping' = TRUE
  /\ serverPc' = "join"
  /\ UNCHANGED <<hardware, keyLocal, keyMutex, shared, event, status>>

Join ==
  /\ serverPc = "join"
  /\ keyPc = "done"
  /\ serverPc' = "joined"
  /\ UNCHANGED <<hardware, keyLocal, keyMutex, shared, stopping, event, status>>

(* The process has ended. *)
Ended == serverPc = "joined" /\ UNCHANGED vars

-----------------------------------------------------------------------------
KeyThread ==
  CheckStopping \/ Poll \/ ReadEvent \/ LockForKey \/ FilterEvent \/ RecordEvent

ServerCall == PopEvent \/ ReadStatus \/ Join

Next ==
  \/ KeyEdge \/ KeyRepeat \/ DeviceGone
  \/ KeyThread
  \/ \E call \in {"pop", "status"} : LockForServer(call)
  \/ ServerCall
  \/ Stop
  \/ Ended

Spec == Init /\ [][Next]_vars

(* Both threads are scheduled.  The server thread holds keyMutex for a few    *)
(* instructions and blocks in epoll_wait between its calls, so a waiting key  *)
(* thread gets the mutex in the end.  Nothing makes the key move, the server  *)
(* call or the process stop.                                                  *)
FairSpec ==
  /\ Spec
  /\ WF_vars(KeyThread)
  /\ SF_vars(LockForKey)
  /\ WF_vars(ServerCall)

-----------------------------------------------------------------------------
(* Properties. *)

(* The queue as KeyEventWindow sees it: a range of event numbers. *)
Window == INSTANCE KeyEventWindow
            WITH first <- nextEventSequence - Len(keyEvents),
                 next <- nextEventSequence,
                 delivered <- event

(* What getStatus and KEY GET return is one moment's state: the key is shown  *)
(* pressed exactly when an odd number of changes has been counted, although   *)
(* the key thread writes the two fields one after the other.                  *)
StatusIsSnapshot == status.pressed = (status.events % 2 = 1)

(* Whenever the server thread can look, the queue holds consecutive numbers   *)
(* up to the newest event, presses under odd numbers and releases under even  *)
(* ones; the count, the numbering and the key's state agree with it.          *)
QueueAgrees ==
  keyMutex # "key" =>
    /\ nextEventSequence = keyEventCount + 1
    /\ keyPressed = (keyEventCount % 2 = 1)
    /\ \A i \in 1 .. Len(keyEvents) :
         keyEvents[i] = Window!EventNumbered(keyEventCount - Len(keyEvents) + i)

(* Through popEvent the server sees exactly the numbered window of            *)
(* KeyEventWindow: deque, threads and mutex implement it.                     *)
ImplementsWindow == Window!WindowSpec

(* Once the key stays still, keyPressed is its state, unless the key was      *)
(* already down at the start and has not moved since, or the kernel lost      *)
(* input events, or the device is gone, or the process is stopping.           *)
EventuallyAgreesWithKey ==
  <>[](\/ keyPressed = keyDown
       \/ edges = 0 \/ overflowed \/ ~present \/ stopping)

(* The destructor returns: the key thread notices `stopping`. *)
StopEndsInJoin == serverPc = "join" ~> serverPc = "joined"
=============================================================================
