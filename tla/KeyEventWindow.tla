--------------------------- MODULE KeyEventWindow ---------------------------
(***************************************************************************)
(* What DeviceManager promises the server about key events, with the       *)
(* threads, the mutex and the deque left out.                              *)
(*                                                                         *)
(* The state changes of the key are numbered 1, 2, 3, ... and, because a   *)
(* repeated state is filtered and the key starts released, an odd number   *)
(* is always a press and an even one a release.  The events that wait to   *)
(* be delivered are a window first .. next-1 of that numbering: recording  *)
(* extends it at the right and, when it is full, forgets its oldest event; *)
(* delivery takes its oldest event.  Nothing is reordered, invented or     *)
(* delivered twice, and the only events lost are the oldest of a full      *)
(* window.                                                                 *)
(***************************************************************************)
EXTENDS Naturals

CONSTANT MAX_KEY_EVENTS   \* capacity of the queue (64 in the code)

ASSUME MaxKeyEventsAssumption == MAX_KEY_EVENTS \in Nat \ {0}

VARIABLES
  first,      \* number of the oldest event that waits (next when none waits)
  next,       \* number of the next event to be recorded
  delivered   \* the event handed over last

windowVars == <<first, next, delivered>>

KeyEvent == [sequence : Nat, pressed : BOOLEAN]

(* The event every listener is to see under number n. *)
EventNumbered(n) == [sequence |-> n, pressed |-> n % 2 = 1]

(* Before the first delivery there is no event; number 0 stands for it. *)
NoEvent == EventNumbered(0)

WindowTypeOK ==
  /\ first \in Nat \ {0}
  /\ next \in Nat \ {0}
  /\ delivered \in KeyEvent

WindowInit ==
  /\ first = 1
  /\ next = 1
  /\ delivered = NoEvent

(* The key changed state. *)
Record ==
  /\ next' = next + 1
  /\ first' = IF next - first >= MAX_KEY_EVENTS THEN first + 1 ELSE first
  /\ UNCHANGED delivered

(* The server takes the oldest event. *)
Deliver ==
  /\ first < next
  /\ delivered' = EventNumbered(first)
  /\ first' = first + 1
  /\ UNCHANGED next

WindowNext == Record \/ Deliver

WindowSpec == WindowInit /\ [][WindowNext]_windowVars
=============================================================================
