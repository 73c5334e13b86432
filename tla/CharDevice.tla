----------------------------- MODULE CharDevice -----------------------------
(***************************************************************************)
(* The character device of driver/imx6ull_device.c: one state, one flag    *)
(* "data_changed" that a write sets and a read clears, both under          *)
(* device_lock, and the wait queue on which poll() sleeps.                 *)
(*                                                                         *)
(* Every process has one open file.  A call is split where another process *)
(* can get in between: at the lock, between the statements of a critical   *)
(* section (only the lock hides that moment), before copy_to_user and      *)
(* before wake_up.  Calls that end before they touch anything change       *)
(* nothing and are left out: no byte to write, a value other than 0 and 1, *)
(* an unknown ioctl, a read at the end of the file or of fewer than two    *)
(* bytes.  The processes, poll's sleep and copy_to_user's faults are the     *)
(* kernel's and external.                                                  *)
(***************************************************************************)
EXTENDS Naturals

CONSTANT Processes

VARIABLES
  device_state, data_changed,   \* the driver's data
  device_lock,                  \* NONE or the process that holds it
  device_waitq,                 \* the processes poll_wait has registered
  triggered,                    \* those of them that have been woken
  file,                         \* where a process's open file stands
  pc,                           \* the call a process is in, and how far
  value,                        \* the state it is to store
  unread, taken                 \* history: has nobody read the last write?  what
                                \* the last read() took

driver  == <<device_state, data_changed, unread, taken>>
waiting == <<device_waitq, triggered>>
vars    == <<driver, device_lock, waiting, file, pc, value>>

NONE == "none"
ASSUME ProcessAssumption == NONE \notin Processes

Critical == {"clear", "mark"}
Polling == {"check", "asleep"}

DataTypeOK ==
  /\ device_state \in 0 .. 1 /\ data_changed \in BOOLEAN
  /\ unread \in BOOLEAN /\ taken \in 0 .. 1

WaitTypeOK ==
  /\ triggered \subseteq device_waitq
  /\ device_waitq = {p \in Processes : pc[p] \in Polling}

LockTypeOK ==
  /\ device_lock \in Processes \cup {NONE}
  /\ \A p \in Processes : pc[p] \in Critical <=> device_lock = p

CallTypeOK ==
  /\ pc \in [Processes -> {"idle", "read", "copy", "get", "store", "wake"}
                            \cup Critical \cup Polling]
  /\ file \in [Processes -> {"closed", "start", "end"}]
  /\ value \in [Processes -> 0 .. 1]
  /\ \A p \in Processes : file[p] = "closed" => pc[p] = "idle"

(* The variables have their types; the lock is held by the process in a       *)
(* critical section and by no other; the processes in poll(), and no others,  *)
(* are on the wait queue; nobody is in a call without an open file.           *)
TypeOK == DataTypeOK /\ WaitTypeOK /\ LockTypeOK /\ CallTypeOK

Init ==
  /\ device_state = 0 /\ data_changed = FALSE /\ unread = FALSE /\ taken = 0
  /\ device_lock = NONE
  /\ device_waitq = {} /\ triggered = {}
  /\ file = [p \in Processes |-> "closed"]
  /\ pc = [p \in Processes |-> "idle"]
  /\ value = [p \in Processes |-> 0]

Goto(p, from, to) == pc[p] = from /\ pc' = [pc EXCEPT ![p] = to]

-----------------------------------------------------------------------------
(* The calls begin. *)

Open(p) ==
  /\ pc[p] = "idle" /\ file[p] = "closed"
  /\ file' = [file EXCEPT ![p] = "start"]
  /\ UNCHANGED <<driver, device_lock, waiting, pc, value>>

Close(p) ==
  /\ pc[p] = "idle" /\ file[p] # "closed"
  /\ file' = [file EXCEPT ![p] = "closed"]
  /\ UNCHANGED <<driver, device_lock, waiting, pc, value>>

(* device_read: two bytes or more, from the start of the file. *)
BeginRead(p) ==
  /\ file[p] = "start"
  /\ Goto(p, "idle", "read")
  /\ UNCHANGED <<driver, device_lock, waiting, file, value>>

(* device_write and IMX6ULL_DEVICE_SET: the value is checked before the lock. *)
BeginStore(p, v) ==
  /\ file[p] # "closed"
  /\ Goto(p, "idle", "store")
  /\ value' = [value EXCEPT ![p] = v]
  /\ UNCHANGED <<driver, device_lock, waiting, file>>

BeginGet(p) ==
  /\ file[p] # "closed"
  /\ Goto(p, "idle", "get")
  /\ UNCHANGED <<driver, device_lock, waiting, file, value>>

(* Variant: poll_wait left out. *)
BeginPollUnregistered(p) ==
  /\ file[p] # "closed"
  /\ Goto(p, "idle", "check")
  /\ UNCHANGED <<driver, device_lock, waiting, file, value>>

(* poll_wait: the process is on the queue before the flag is looked at. *)
BeginPoll(p) ==
  /\ file[p] # "closed"
  /\ Goto(p, "idle", "check")
  /\ device_waitq' = device_waitq \cup {p}
  /\ UNCHANGED <<driver, device_lock, triggered, file, value>>

-----------------------------------------------------------------------------
(* device_read, under the lock: the state is taken, the flag cleared. *)

(* Variant: no lock around the two statements. *)
TakeStateUnlocked(p) ==
  /\ Goto(p, "read", "clear")
  /\ taken' = device_state
  /\ unread' = FALSE
  /\ UNCHANGED <<device_state, data_changed, device_lock, waiting, file, value>>

TakeState(p) ==
  /\ device_lock = NONE
  /\ Goto(p, "read", "clear")
  /\ device_lock' = p
  /\ taken' = device_state
  /\ unread' = FALSE
  /\ UNCHANGED <<device_state, data_changed, waiting, file, value>>

(* Variant: a return without the unlock. *)
ClearChangedHeld(p) ==
  /\ Goto(p, "clear", "copy")
  /\ data_changed' = FALSE
  /\ UNCHANGED <<device_state, unread, taken, device_lock, waiting, file, value>>

ClearChanged(p) ==
  /\ Goto(p, "clear", "copy")
  /\ data_changed' = FALSE
  /\ device_lock' = NONE
  /\ UNCHANGED <<device_state, unread, taken, waiting, file, value>>

(* copy_to_user may fault; the flag has been cleared by then. *)
CopyOut(p) ==
  /\ Goto(p, "copy", "idle")
  /\ file' \in {file, [file EXCEPT ![p] = "end"]}
  /\ UNCHANGED <<driver, device_lock, waiting, value>>

(* IMX6ULL_DEVICE_GET leaves the flag and the offset alone. *)
GetState(p) ==
  /\ device_lock = NONE
  /\ Goto(p, "get", "idle")
  /\ UNCHANGED <<driver, device_lock, waiting, file, value>>

-----------------------------------------------------------------------------
(* device_write and IMX6ULL_DEVICE_SET. *)

StoreState(p) ==
  /\ device_lock = NONE
  /\ Goto(p, "store", "mark")
  /\ device_lock' = p
  /\ device_state' = value[p]
  /\ value' = [value EXCEPT ![p] = 0]
  /\ unread' = TRUE
  /\ UNCHANGED <<data_changed, taken, waiting, file>>

MarkChanged(p) ==
  /\ Goto(p, "mark", "wake")
  /\ data_changed' = TRUE
  /\ device_lock' = NONE
  /\ UNCHANGED <<device_state, unread, taken, waiting, file, value>>

(* Variant: one sleeper is woken, not all of them. *)
WakeUpOne(p) ==
  /\ Goto(p, "wake", "idle")
  /\ \/ device_waitq = {} /\ UNCHANGED triggered
     \/ \E q \in device_waitq : triggered' = triggered \cup {q}
  /\ UNCHANGED <<driver, device_lock, device_waitq, file, value>>

(* wake_up_interruptible, after the unlock: everybody on the queue. *)
WakeUp(p) ==
  /\ Goto(p, "wake", "idle")
  /\ triggered' = device_waitq
  /\ UNCHANGED <<driver, device_lock, device_waitq, file, value>>

-----------------------------------------------------------------------------
(* poll(): device_poll looks at the flag; the process sleeps until it is      *)
(* woken and looks again.                                                     *)

LeaveQueue(p) == device_waitq' = device_waitq \ {p} /\ triggered' = triggered \ {p}

CheckChanged(p) ==
  /\ device_lock = NONE
  /\ IF data_changed
       THEN Goto(p, "check", "idle") /\ LeaveQueue(p)
       ELSE Goto(p, "check", "asleep") /\ UNCHANGED waiting
  /\ UNCHANGED <<driver, device_lock, file, value>>

Awake(p) ==
  /\ p \in triggered
  /\ Goto(p, "asleep", "check")
  /\ triggered' = triggered \ {p}
  /\ UNCHANGED <<driver, device_lock, device_waitq, file, value>>

PollTimeout(p) ==
  /\ Goto(p, "asleep", "idle")
  /\ LeaveQueue(p)
  /\ UNCHANGED <<driver, device_lock, file, value>>

(* rmmod and insmod: only while no file is open. *)
Reload ==
  /\ \A p \in Processes : file[p] = "closed"
  /\ device_state' = 0 /\ data_changed' = FALSE /\ unread' = FALSE /\ taken' = 0
  /\ UNCHANGED <<device_lock, waiting, pc, file, value>>
-----------------------------------------------------------------------------
(* What a process does next is its user's choice; what it has begun, the      *)
(* kernel carries on.                                                         *)
Begin(p) ==
  \/ Open(p) \/ Close(p)
  \/ BeginRead(p) \/ BeginGet(p) \/ BeginPoll(p)
  \/ \E v \in 0 .. 1 : BeginStore(p, v)

Locking(p) == TakeState(p) \/ GetState(p) \/ StoreState(p) \/ CheckChanged(p)

Continue(p) == ClearChanged(p) \/ CopyOut(p) \/ MarkChanged(p) \/ WakeUp(p) \/ Awake(p)

Next ==
  \/ \E p \in Processes : Begin(p) \/ Locking(p) \/ Continue(p) \/ PollTimeout(p)
  \/ Reload

Spec == Init /\ [][Next]_vars

(* Calls in progress go on.  Strong fairness for a process at the lock: a     *)
(* kernel mutex hands over to its waiters in the order they came.             *)
FairSpec ==
  /\ Spec
  /\ \A p \in Processes : WF_vars(Continue(p)) /\ SF_vars(Locking(p))

-----------------------------------------------------------------------------
(* Properties. *)

(* Between critical sections the flag says exactly whether the last write,    *)
(* by write() or ioctl, has been taken by no read() yet, however readers and  *)
(* writers overlap; and while it is clear the last reader's value is current. *)
FlagExact ==
  device_lock = NONE =>
    /\ data_changed = unread
    /\ ~data_changed => taken = device_state

(* A process sleeps in poll() while a write is unread only as long as some    *)
(* writer has still to wake the queue: no wakeup falls between the look at    *)
(* the flag and the sleep.                                                    *)
NoMissedWrite ==
  \A p \in Processes :
    pc[p] = "asleep" /\ p \notin triggered /\ unread
      => \E q \in Processes : pc[q] \in {"mark", "wake"}

(* poll() returns to every process that waits, not only to the first one,     *)
(* unless a read takes the write before.                                      *)
PollReturns ==
  \A p \in Processes : pc[p] \in Polling /\ unread ~> pc[p] = "idle" \/ ~unread
=============================================================================
