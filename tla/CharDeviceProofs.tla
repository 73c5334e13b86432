-------------------------- MODULE CharDeviceProofs --------------------------
(***************************************************************************)
(* For any set of processes: the types and the lock of CharDevice, its     *)
(* flag, and that poll() misses no write.                                  *)
(*                                                                         *)
(* FlagExact says nothing while a critical section is under way, so it is  *)
(* not inductive; HolderExact adds what the holder of the lock has done    *)
(* and what is left to it.  NoMissedWrite needs both: a process goes to    *)
(* sleep only when the flag it reads under the lock is the truth.          *)
(***************************************************************************)
EXTENDS CharDevice, TLAPS

(* A reader between its two statements has taken the last write; a writer     *)
(* between its two has stored one that nobody has read.                       *)
HolderExact ==
  \A p \in Processes :
    /\ pc[p] = "clear" => ~unread /\ taken = device_state
    /\ pc[p] = "mark" => unread

(* The inductive invariant: the flag follows who holds what.                  *)
IInv == TypeOK /\ FlagExact /\ HolderExact /\ NoMissedWrite

(* No file is open and nothing is written.                                    *)
LEMMA InitHolds == Init => IInv
<1> SUFFICES ASSUME Init PROVE IInv
  OBVIOUS
<1> USE DEF Init
<1>1. device_state \in 0 .. 1 /\ taken \in 0 .. 1
  OBVIOUS
<1>2. data_changed \in BOOLEAN /\ unread \in BOOLEAN
  OBVIOUS
<1>3. WaitTypeOK
  BY DEF WaitTypeOK, Polling
<1>4. CallTypeOK
  BY DEF CallTypeOK, Polling, Critical
<1>5. LockTypeOK
  BY ProcessAssumption DEF LockTypeOK, Critical
<1>6. FlagExact /\ HolderExact /\ NoMissedWrite
  BY DEF FlagExact, HolderExact, NoMissedWrite
<1> QED
  BY <1>1, <1>2, <1>3, <1>4, <1>5, <1>6 DEF IInv, TypeOK, DataTypeOK

(* A step of one process that leaves the driver's data and the lock alone and *)
(* enters and leaves no critical section keeps all but the wait queue and the *)
(* calls as it was.                                                           *)
LEMMA QuietStep ==
  ASSUME DataTypeOK, LockTypeOK, CallTypeOK, FlagExact, HolderExact,
         UNCHANGED <<driver, device_lock>>,
         NEW p \in Processes, NEW to,
         pc' = [pc EXCEPT ![p] = to], pc[p] \notin Critical, to \notin Critical
  PROVE  DataTypeOK' /\ LockTypeOK' /\ FlagExact' /\ HolderExact'
<1> USE DEF driver
<1>1. DataTypeOK'
  BY DEF DataTypeOK
<1>2. LockTypeOK'
  BY DEF LockTypeOK, CallTypeOK
<1>3. FlagExact'
  BY DEF FlagExact
<1>4. HolderExact'
  BY DEF HolderExact, CallTypeOK, Critical
<1> QED
  BY <1>1, <1>2, <1>3, <1>4

(* A call that begins holds no lock; one to poll() joins the queue.           *)
LEMMA BeginHolds ==
  ASSUME IInv, NEW p \in Processes, Begin(p)
  PROVE  IInv'
<1> USE DEF IInv, TypeOK
<1>1. CASE Open(p) \/ Close(p)
  <2>1. UNCHANGED <<driver, device_lock, waiting, pc, value>>
    BY <1>1 DEF Open, Close
  <2>2. CallTypeOK'
    BY <1>1 DEF Open, Close, CallTypeOK
  <2>3. DataTypeOK' /\ WaitTypeOK' /\ LockTypeOK'
    BY <2>1 DEF driver, waiting, DataTypeOK, WaitTypeOK, LockTypeOK
  <2>4. FlagExact' /\ HolderExact' /\ NoMissedWrite'
    BY <2>1 DEF driver, waiting, FlagExact, HolderExact, NoMissedWrite
  <2> QED
    BY <2>2, <2>3, <2>4
<1>2. CASE BeginRead(p) \/ BeginGet(p) \/ \E v \in 0 .. 1 : BeginStore(p, v)
  <2>1. PICK to \in {"read", "get", "store"} :
          pc[p] = "idle" /\ pc' = [pc EXCEPT ![p] = to]
    BY <1>2 DEF BeginRead, BeginGet, BeginStore, Goto
  <2>2. UNCHANGED <<driver, device_lock, waiting>>
    BY <1>2 DEF BeginRead, BeginGet, BeginStore
  <2>3. CallTypeOK'
    BY <1>2, <2>1 DEF BeginRead, BeginGet, BeginStore, CallTypeOK
  <2>4. DataTypeOK' /\ LockTypeOK' /\ FlagExact' /\ HolderExact'
    BY <2>1, <2>2, QuietStep DEF Critical
  <2>5. WaitTypeOK'
    BY <2>1, <2>2 DEF waiting, WaitTypeOK, CallTypeOK, Polling
  <2>6. NoMissedWrite'
    BY <2>1, <2>2 DEF driver, waiting, NoMissedWrite, CallTypeOK
  <2> QED
    BY <2>3, <2>4, <2>5, <2>6
<1>3. CASE BeginPoll(p)
  <2> USE <1>3 DEF BeginPoll, Goto
  <2>1. CallTypeOK'
    BY DEF CallTypeOK, Polling
  <2>2. DataTypeOK' /\ LockTypeOK' /\ FlagExact' /\ HolderExact'
    BY QuietStep DEF Critical
  <2>3. WaitTypeOK'
    BY DEF WaitTypeOK, CallTypeOK, Polling
  <2>4. NoMissedWrite'
    BY DEF driver, NoMissedWrite, CallTypeOK
  <2> QED
    BY <2>1, <2>2, <2>3, <2>4
<1> QED
  BY <1>1, <1>2, <1>3 DEF Begin

(* A reader in its critical section. *)
LEMMA ReadHolds ==
  ASSUME IInv, NEW p \in Processes, TakeState(p) \/ ClearChanged(p)
  PROVE  IInv'
<1> USE DEF IInv, TypeOK
<1>1. CASE TakeState(p)
  <2> USE <1>1 DEF TakeState, Goto
  <2>1. device_state' \in 0 .. 1 /\ taken' \in 0 .. 1
    BY DEF DataTypeOK
  <2>2. data_changed' \in BOOLEAN /\ unread' \in BOOLEAN
    BY DEF DataTypeOK
  <2>3. CallTypeOK'
    BY DEF CallTypeOK, Critical
  <2>4. LockTypeOK'
    BY ProcessAssumption DEF LockTypeOK, CallTypeOK, Critical
  <2>5. WaitTypeOK'
    BY DEF waiting, WaitTypeOK, CallTypeOK, Polling
  <2>6. FlagExact'
    BY ProcessAssumption DEF FlagExact
  <2>7. \A q \in Processes : pc[q] \notin Critical
    BY ProcessAssumption DEF LockTypeOK
  <2>8. HolderExact'
    BY <2>7 DEF HolderExact, CallTypeOK, Critical
  <2>9. NoMissedWrite'
    BY DEF NoMissedWrite
  <2> QED
    BY <2>1, <2>2, <2>3, <2>4, <2>5, <2>6, <2>8, <2>9 DEF DataTypeOK
<1>2. CASE ClearChanged(p)
  <2> USE <1>2 DEF ClearChanged, Goto
  <2>1. device_lock = p /\ ~unread /\ taken = device_state
    BY DEF LockTypeOK, HolderExact, Critical
  <2>2. DataTypeOK'
    BY DEF DataTypeOK
  <2>3. CallTypeOK'
    BY DEF CallTypeOK, Critical
  <2>4. LockTypeOK'
    BY <2>1, ProcessAssumption DEF LockTypeOK, CallTypeOK, Critical
  <2>5. WaitTypeOK'
    BY DEF waiting, WaitTypeOK, CallTypeOK, Polling
  <2>6. unread = FALSE
    BY <2>1 DEF DataTypeOK
  <2>7. FlagExact'
    BY <2>1, <2>6 DEF FlagExact
  <2>8. HolderExact'
    BY DEF HolderExact, CallTypeOK
  <2>9. NoMissedWrite'
    BY <2>1 DEF NoMissedWrite
  <2> QED
    BY <2>2, <2>3, <2>4, <2>5, <2>7, <2>8, <2>9
<1> QED
  BY <1>1, <1>2

(* A writer in its critical section. *)
LEMMA WriteHolds ==
  ASSUME IInv, NEW p \in Processes, StoreState(p) \/ MarkChanged(p)
  PROVE  IInv'
<1> USE DEF IInv, TypeOK
<1>1. CASE StoreState(p)
  <2> USE <1>1 DEF StoreState, Goto
  <2>1. device_state' \in 0 .. 1 /\ taken' \in 0 .. 1
    BY DEF DataTypeOK, CallTypeOK
  <2>2. data_changed' \in BOOLEAN /\ unread' \in BOOLEAN
    BY DEF DataTypeOK
  <2>3. CallTypeOK'
    BY DEF CallTypeOK, Critical
  <2>4. LockTypeOK'
    BY ProcessAssumption DEF LockTypeOK, CallTypeOK, Critical
  <2>5. WaitTypeOK'
    BY DEF waiting, WaitTypeOK, CallTypeOK, Polling
  <2>6. FlagExact'
    BY ProcessAssumption DEF FlagExact
  <2>7. \A q \in Processes : pc[q] \notin Critical
    BY ProcessAssumption DEF LockTypeOK
  <2>8. HolderExact'
    BY <2>7 DEF HolderExact, CallTypeOK, Critical
  <2>9. pc'[p] = "mark"
    BY DEF CallTypeOK
  <2>10. NoMissedWrite'
    BY <2>9 DEF NoMissedWrite
  <2> QED
    BY <2>1, <2>2, <2>3, <2>4, <2>5, <2>6, <2>8, <2>10 DEF DataTypeOK
<1>2. CASE MarkChanged(p)
  <2> USE <1>2 DEF MarkChanged, Goto
  <2>1. device_lock = p /\ unread
    BY DEF LockTypeOK, HolderExact, Critical
  <2>2. DataTypeOK'
    BY DEF DataTypeOK
  <2>3. CallTypeOK'
    BY DEF CallTypeOK, Critical
  <2>4. LockTypeOK'
    BY <2>1, ProcessAssumption DEF LockTypeOK, CallTypeOK, Critical
  <2>5. WaitTypeOK'
    BY DEF waiting, WaitTypeOK, CallTypeOK, Polling
  <2>6. FlagExact'
    BY <2>1 DEF FlagExact
  <2>7. HolderExact'
    BY DEF HolderExact, CallTypeOK
  <2>8. pc'[p] = "wake"
    BY DEF CallTypeOK
  <2>9. NoMissedWrite'
    BY <2>8 DEF NoMissedWrite
  <2> QED
    BY <2>2, <2>3, <2>4, <2>5, <2>6, <2>7, <2>9
<1> QED
  BY <1>1, <1>2

(* The rest of a call: outside the critical sections. *)
LEMMA QuietHolds ==
  ASSUME IInv, NEW p \in Processes, CopyOut(p) \/ GetState(p) \/ WakeUp(p)
  PROVE  IInv'
<1> USE DEF IInv, TypeOK
<1>1. PICK from \in {"copy", "get", "wake"} : Goto(p, from, "idle")
  BY DEF CopyOut, GetState, WakeUp
<1>2. UNCHANGED <<driver, device_lock>>
  BY DEF CopyOut, GetState, WakeUp
<1>3. DataTypeOK' /\ LockTypeOK' /\ FlagExact' /\ HolderExact'
  BY <1>1, <1>2, QuietStep DEF Goto, Critical
<1>4. CallTypeOK'
  BY <1>1 DEF CopyOut, GetState, WakeUp, Goto, CallTypeOK
<1>5. device_waitq' = device_waitq /\ triggered' \in {triggered, device_waitq}
  BY DEF CopyOut, GetState, WakeUp, waiting
<1>6. WaitTypeOK'
  BY <1>1, <1>5 DEF Goto, WaitTypeOK, CallTypeOK, Polling
<1>7. NoMissedWrite'
  <2>1. CASE WakeUp(p)
    <3>1. \A q \in Processes : pc'[q] = "asleep" => q \in triggered'
      BY <2>1 DEF WakeUp, Goto, WaitTypeOK, CallTypeOK, Polling
    <3> QED
      BY <3>1 DEF NoMissedWrite
  <2>2. CASE CopyOut(p) \/ GetState(p)
    BY <2>2 DEF CopyOut, GetState, Goto, driver, waiting, NoMissedWrite, CallTypeOK
  <2> QED
    BY <2>1, <2>2
<1> QED
  BY <1>3, <1>4, <1>6, <1>7

(* poll(): whoever goes to sleep has seen the flag clear while nobody held    *)
(* the lock, so that there is no unread write.                                *)
LEMMA PollHolds ==
  ASSUME IInv, NEW p \in Processes, CheckChanged(p) \/ Awake(p) \/ PollTimeout(p)
  PROVE  IInv'
<1> USE DEF IInv, TypeOK
<1>1. PICK from \in {"check", "asleep"}, to \in {"idle", "check", "asleep"} :
        /\ Goto(p, from, to)
        /\ to = "asleep" => CheckChanged(p) /\ ~data_changed
        /\ to # "idle" => device_waitq' = device_waitq
        /\ to = "idle" => device_waitq' = device_waitq \ {p}
  BY DEF CheckChanged, Awake, PollTimeout, LeaveQueue, waiting
<1>2. UNCHANGED <<driver, device_lock, file, value>>
  BY DEF CheckChanged, Awake, PollTimeout
<1>3. DataTypeOK' /\ LockTypeOK' /\ FlagExact' /\ HolderExact'
  BY <1>1, <1>2, QuietStep DEF Goto, Critical
<1>4. CallTypeOK'
  BY <1>1, <1>2 DEF Goto, CallTypeOK, Polling
<1>5. triggered' \in {triggered, triggered \ {p}}
  BY DEF CheckChanged, Awake, PollTimeout, LeaveQueue, waiting
<1>6. to = "idle" => triggered' = triggered \ {p}
  BY <1>1 DEF CheckChanged, Awake, PollTimeout, LeaveQueue, Goto, CallTypeOK
<1>7. WaitTypeOK'
  BY <1>1, <1>5, <1>6 DEF Goto, WaitTypeOK, CallTypeOK, Polling
<1>8. NoMissedWrite'
  <2>1. to = "asleep" => ~unread
    BY <1>1 DEF CheckChanged, FlagExact
  <2>2. \A q \in Processes : pc[q] \in {"mark", "wake"} <=> pc'[q] \in {"mark", "wake"}
    BY <1>1 DEF Goto, CallTypeOK
  <2> QED
    BY <1>1, <1>2, <1>5, <2>1, <2>2 DEF Goto, driver, NoMissedWrite, CallTypeOK
<1> QED
  BY <1>3, <1>4, <1>7, <1>8

(* Without an open file there is no call, no holder and no sleeper.           *)
LEMMA ReloadHolds == ASSUME IInv, Reload PROVE IInv'
<1> USE DEF IInv, TypeOK, Reload
<1>1. device_state' \in 0 .. 1 /\ taken' \in 0 .. 1
  OBVIOUS
<1>2. data_changed' \in BOOLEAN /\ unread' \in BOOLEAN
  OBVIOUS
<1>3. WaitTypeOK' /\ LockTypeOK' /\ CallTypeOK'
  BY DEF waiting, WaitTypeOK, LockTypeOK, CallTypeOK
<1>4. HolderExact'
  BY DEF HolderExact, CallTypeOK
<1>5. FlagExact' /\ NoMissedWrite'
  BY DEF FlagExact, NoMissedWrite
<1> QED
  BY <1>1, <1>2, <1>3, <1>4, <1>5 DEF DataTypeOK

(* Every step of every process keeps the invariant.                           *)
LEMMA NextHolds == IInv /\ [Next]_vars => IInv'
<1>1. ASSUME IInv, UNCHANGED vars PROVE IInv'
  <2> USE <1>1 DEF IInv, TypeOK, vars, driver, waiting
  <2>1. DataTypeOK' /\ WaitTypeOK' /\ LockTypeOK' /\ CallTypeOK'
    BY DEF DataTypeOK, WaitTypeOK, LockTypeOK, CallTypeOK
  <2>2. FlagExact' /\ HolderExact' /\ NoMissedWrite'
    BY DEF FlagExact, HolderExact, NoMissedWrite
  <2> QED
    BY <2>1, <2>2
<1>2. ASSUME IInv, NEW p \in Processes,
             Begin(p) \/ Locking(p) \/ Continue(p) \/ PollTimeout(p)
      PROVE  IInv'
  BY <1>2, BeginHolds, ReadHolds, WriteHolds, QuietHolds, PollHolds DEF Locking, Continue
<1> QED
  BY <1>1, <1>2, ReloadHolds DEF Next

(* The invariant of every behaviour. *)
THEOREM Invariance == Spec => []IInv
<1> QED
  BY InitHolds, NextHolds, PTL DEF Spec

(* The variables of imx6ull_device.c have their types, and device_lock, the   *)
(* wait queue and the open files are where the calls in progress need them.   *)
THEOREM TypeCorrect == Spec => []TypeOK
<1>1. IInv => TypeOK
  BY DEF IInv
<1> QED
  BY <1>1, Invariance, PTL

(* data_changed says whether the last write has been read, for any number of  *)
(* readers and writers (device_read and device_write).                        *)
THEOREM FlagIsExact == Spec => []FlagExact
<1>1. IInv => FlagExact
  BY DEF IInv
<1> QED
  BY <1>1, Invariance, PTL

(* device_poll: no process sleeps on an unread write that nobody is going to  *)
(* announce.                                                                  *)
THEOREM NothingMissed == Spec => []NoMissedWrite
<1>1. IInv => NoMissedWrite
  BY DEF IInv
<1> QED
  BY <1>1, Invariance, PTL
=============================================================================
