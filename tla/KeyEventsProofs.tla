-------------------------- MODULE KeyEventsProofs --------------------------
(***************************************************************************)
(* What is proved of KeyEvents for every capacity and every bound: its     *)
(* type invariant, that the two threads agree on the queue whenever the    *)
(* key thread is not changing it, that a status is a snapshot, and that    *)
(* the deque under its mutex implements the window of KeyEventWindow.      *)
(***************************************************************************)
EXTENDS KeyEvents, SequenceTheorems, TLAPS

USE DEF PRESS, RELEASE, NOISE

(* Odd and even numbers alternate. *)
LEMMA ParityStep ==
  ASSUME NEW n \in Nat
  PROVE  ((n + 1) % 2 = 1) <=> ~(n % 2 = 1)
  OBVIOUS

(* The empty queue is a queue.                                                *)
LEMMA NothingQueued ==
  ASSUME NEW S
  PROVE  <<>> \in Seq(S) /\ Len(<<>>) = 0
  BY EmptySeq

(* What front() and pop_front() do to a queue that is not empty. *)
LEMMA FrontFacts ==
  ASSUME NEW S, NEW q \in Seq(S), q # <<>>
  PROVE  /\ Len(q) \in Nat \ {0}
         /\ Head(q) = q[1]
         /\ Head(q) \in S
         /\ Tail(q) \in Seq(S)
         /\ Len(Tail(q)) = Len(q) - 1
         /\ \A i \in 1 .. Len(q) - 1 : Tail(q)[i] = q[i + 1]
<1>1. Len(q) \in Nat \ {0}
  BY EmptySeq
<1> QED
  BY <1>1, HeadTailProperties

(* The trimmed queue is the queue or its tail, and has room for one more. *)
LEMMA TrimmedFacts ==
  ASSUME NEW S, NEW q \in Seq(S), Len(q) <= MAX_KEY_EVENTS
  PROVE  /\ Trimmed(q) \in Seq(S)
         /\ Len(Trimmed(q)) = IF Len(q) >= MAX_KEY_EVENTS THEN Len(q) - 1 ELSE Len(q)
         /\ Len(Trimmed(q)) + 1 <= MAX_KEY_EVENTS
         /\ \A i \in 1 .. Len(Trimmed(q)) :
              Trimmed(q)[i] = q[Len(q) - Len(Trimmed(q)) + i]
<1>1. Len(q) \in Nat
  BY LenProperties
<1>2. CASE Len(q) >= MAX_KEY_EVENTS
  <2>1. q # <<>>
    BY <1>2, MaxKeyEventsAssumption, EmptySeq
  <2>2. Trimmed(q) = Tail(q)
    BY <1>2 DEF Trimmed
  <2> QED
    BY <1>1, <1>2, <2>1, <2>2, FrontFacts, MaxKeyEventsAssumption
<1>3. CASE ~(Len(q) >= MAX_KEY_EVENTS)
  BY <1>1, <1>3, MaxKeyEventsAssumption DEF Trimmed
<1> QED
  BY <1>2, <1>3

-----------------------------------------------------------------------------
(* The types hold before the threads start.                                   *)
LEMMA TypeInit == Init => TypeOK
<1> SUFFICES ASSUME Init PROVE TypeOK
  OBVIOUS
<1>1. HardwareTypeOK
  <2>1. inputBuffer \in Seq(Input) /\ Len(inputBuffer) = 0
    BY NothingQueued DEF Init
  <2>2. keyDown \in BOOLEAN /\ overflowed \in BOOLEAN /\ present \in BOOLEAN
    BY DEF Init
  <2>3. edges \in 0 .. MaxEdges
    BY InputAssumption DEF Init
  <2> QED
    BY <2>1, <2>2, <2>3, InputAssumption DEF HardwareTypeOK
<1>2. ControlTypeOK
  BY DEF Init, ControlTypeOK
<1>3. QueueTypeOK
  <2>1. keyEvents \in Seq(KeyEvent) /\ Len(keyEvents) = 0
    BY NothingQueued DEF Init
  <2>2. event \in KeyEvent /\ status \in Status
    BY DEF Init, KeyEvent, Status
  <2>3. keyEventCount \in Nat /\ nextEventSequence \in Nat \ {0}
    BY DEF Init
  <2>4. keyPressed \in BOOLEAN
    BY DEF Init
  <2> QED
    BY <2>1, <2>2, <2>3, <2>4, MaxKeyEventsAssumption DEF QueueTypeOK
<1> QED
  BY <1>1, <1>2, <1>3 DEF TypeOK

(* A packet fits, or what is left with it after an overflow does. *)
LEMMA QueueKeepsType ==
  ASSUME HardwareTypeOK, NEW k \in {PRESS, RELEASE}, Queue(<<k, NOISE>>)
  PROVE  /\ inputBuffer' \in Seq(Input)
         /\ Len(inputBuffer') <= InputCapacity
         /\ overflowed' \in BOOLEAN
<1>1. <<k, NOISE>> \in Seq(Input) /\ Len(<<k, NOISE>>) = 2
  BY DEF Input
<1>2. <<NOISE>> \in Seq(Input) /\ Len(<<NOISE>>) = 1
  BY DEF Input
<1>3. <<NOISE, NOISE>> \in Seq(Input) /\ Len(<<NOISE, NOISE>>) = 2
  BY DEF Input
<1>4. <<NOISE>> \o <<k, NOISE>> \in Seq(Input)
      /\ Len(<<NOISE>> \o <<k, NOISE>>) = 3
  BY <1>1, <1>2, ConcatProperties
<1>5. inputBuffer \o <<k, NOISE>> \in Seq(Input)
      /\ Len(inputBuffer \o <<k, NOISE>>) = Len(inputBuffer) + 2
  BY <1>1, ConcatProperties DEF HardwareTypeOK
<1>6. CASE Len(inputBuffer) + Len(<<k, NOISE>>) <= InputCapacity
  <2>1. inputBuffer' = inputBuffer \o <<k, NOISE>> /\ overflowed' = overflowed
    <3>1. Len(inputBuffer) \in Nat
      BY LenProperties DEF HardwareTypeOK
    <3> QED
      BY <1>1, <1>6, <3>1, InputAssumption DEF Queue
  <2>2. overflowed' \in BOOLEAN
    BY <2>1 DEF HardwareTypeOK
  <2> QED
    BY <1>1, <1>5, <1>6, <2>1, <2>2
<1>7. CASE ~(Len(inputBuffer) + Len(<<k, NOISE>>) <= InputCapacity)
  <2>1. inputBuffer' \in {<<NOISE>> \o <<k, NOISE>>, <<NOISE, NOISE>>}
        /\ overflowed' = TRUE
    BY <1>7 DEF Queue
  <2>2. CASE inputBuffer' = <<NOISE>> \o <<k, NOISE>>
    BY <1>4, <2>1, <2>2, InputAssumption
  <2>3. CASE inputBuffer' = <<NOISE, NOISE>>
    BY <1>3, <2>1, <2>3, InputAssumption
  <2> QED
    BY <2>1, <2>2, <2>3
<1> QED
  BY <1>6, <1>7

(* Every step keeps the type of the key and of its device.                    *)
LEMMA HardwareTypeStep == TypeOK /\ [Next]_vars => HardwareTypeOK'
<1> SUFFICES ASSUME HardwareTypeOK, [Next]_vars PROVE HardwareTypeOK'
  BY DEF TypeOK
<1>1. CASE KeyEdge
  <2>1. PICK k \in {PRESS, RELEASE} : Queue(<<k, NOISE>>)
    BY <1>1 DEF KeyEdge
  <2>2. /\ inputBuffer' \in Seq(Input)
        /\ Len(inputBuffer') <= InputCapacity
        /\ overflowed' \in BOOLEAN
    BY <2>1, QueueKeepsType
  <2> QED
    BY <1>1, <2>2, InputAssumption DEF KeyEdge, HardwareTypeOK
<1>2. CASE KeyRepeat
  <2>1. <<NOISE>> \in Seq(Input) /\ Len(<<NOISE>>) = 1
    BY DEF Input
  <2> QED
    BY <1>2, <2>1, InputAssumption DEF KeyRepeat, HardwareTypeOK
<1>3. CASE DeviceGone
  <2>1. inputBuffer' \in Seq(Input) /\ Len(inputBuffer') = 0
    BY <1>3, NothingQueued DEF DeviceGone
  <2>2. present' \in BOOLEAN
    BY <1>3 DEF DeviceGone
  <2>3. UNCHANGED <<keyDown, edges, overflowed>>
    BY <1>3 DEF DeviceGone
  <2> QED
    BY <2>1, <2>2, <2>3, InputAssumption DEF HardwareTypeOK
<1>4. CASE ReadEvent
  <2>1. CASE inputBuffer = <<>>
    BY <1>4, <2>1 DEF ReadEvent, HardwareTypeOK
  <2>2. CASE inputBuffer # <<>>
    <3>1. Tail(inputBuffer) \in Seq(Input) /\ Len(Tail(inputBuffer)) <= InputCapacity
      BY <2>2, FrontFacts, InputAssumption DEF HardwareTypeOK
    <3>2. inputBuffer' = Tail(inputBuffer)
      BY <1>4, <2>2 DEF ReadEvent
    <3> QED
      BY <1>4, <3>1, <3>2 DEF ReadEvent, HardwareTypeOK
  <2> QED
    BY <2>1, <2>2
<1>5. CASE UNCHANGED hardware
  BY <1>5 DEF hardware, HardwareTypeOK
<1> QED
  BY <1>1, <1>2, <1>3, <1>4, <1>5
  DEF Next, KeyThread, ServerCall, Ended, CheckStopping, Poll, LockForKey, FilterEvent,
      RecordEvent, LockForServer, PopEvent, ReadStatus, Stop, Join, vars

(* Every step keeps the types of program counters, mutex and locals.          *)
LEMMA ControlTypeStep == TypeOK /\ [Next]_vars => ControlTypeOK'
<1> SUFFICES ASSUME ControlTypeOK, [Next]_vars PROVE ControlTypeOK'
  BY DEF TypeOK
<1> USE DEF ControlTypeOK
<1>1. CASE KeyEdge \/ KeyRepeat \/ DeviceGone
  BY <1>1 DEF KeyEdge, KeyRepeat, DeviceGone, keyLocal, server
<1>2. CASE CheckStopping \/ Poll \/ LockForKey \/ FilterEvent \/ RecordEvent
  BY <1>2 DEF CheckStopping, Poll, LockForKey, FilterEvent, RecordEvent, server
<1>3. CASE ReadEvent
  BY <1>3 DEF ReadEvent, server
<1>4. ASSUME NEW call \in {"pop", "status"}, LockForServer(call)
      PROVE  ControlTypeOK'
  BY <1>4 DEF LockForServer, keyLocal
<1>5. CASE PopEvent \/ ReadStatus \/ Stop \/ Join
  BY <1>5 DEF PopEvent, ReadStatus, Stop, Join, keyLocal
<1>6. CASE UNCHANGED vars
  BY <1>6 DEF vars, keyLocal, server
<1> QED
  BY <1>1, <1>2, <1>3, <1>4, <1>5, <1>6 DEF Next, KeyThread, ServerCall, Ended

(* Every step keeps the type of the queue and its capacity.                   *)
LEMMA QueueTypeStep == TypeOK /\ [Next]_vars => QueueTypeOK'
<1> SUFFICES ASSUME ControlTypeOK, QueueTypeOK, [Next]_vars PROVE QueueTypeOK'
  BY DEF TypeOK
<1>1. CASE FilterEvent
  BY <1>1 DEF FilterEvent, ControlTypeOK, QueueTypeOK, server
<1>2. CASE RecordEvent
  <2> DEFINE e == [sequence |-> nextEventSequence, pressed |-> pressed]
  <2>1. /\ Trimmed(keyEvents) \in Seq(KeyEvent)
        /\ Len(Trimmed(keyEvents)) + 1 <= MAX_KEY_EVENTS
    BY TrimmedFacts DEF QueueTypeOK
  <2>2. e \in KeyEvent
    BY DEF KeyEvent, ControlTypeOK, QueueTypeOK
  <2>3. keyEvents' = Append(Trimmed(keyEvents), e)
    BY <1>2 DEF RecordEvent
  <2>4. keyEvents' \in Seq(KeyEvent) /\ Len(keyEvents') <= MAX_KEY_EVENTS
    BY <2>1, <2>2, <2>3, AppendProperties
  <2> QED
    BY <1>2, <2>4 DEF RecordEvent, QueueTypeOK, server
<1>3. CASE PopEvent
  <2>1. CASE keyEvents = <<>>
    BY <1>3, <2>1 DEF PopEvent, QueueTypeOK
  <2>2. CASE keyEvents # <<>>
    <3>1. /\ Head(keyEvents) \in KeyEvent
          /\ Tail(keyEvents) \in Seq(KeyEvent)
          /\ Len(Tail(keyEvents)) <= MAX_KEY_EVENTS
      BY <2>2, FrontFacts, MaxKeyEventsAssumption DEF QueueTypeOK
    <3> QED
      BY <1>3, <2>2, <3>1 DEF PopEvent, QueueTypeOK
  <2> QED
    BY <2>1, <2>2
<1>4. CASE ReadStatus
  BY <1>4 DEF ReadStatus, QueueTypeOK, Status, shared
<1>5. CASE UNCHANGED <<shared, event, status>>
  BY <1>5 DEF QueueTypeOK, shared
<1> QED
  BY <1>1, <1>2, <1>3, <1>4, <1>5
  DEF Next, KeyThread, ServerCall, Ended, KeyEdge, KeyRepeat, DeviceGone, CheckStopping,
      Poll, ReadEvent, LockForKey, LockForServer, Stop, Join, vars, server

(* Every step keeps all types.                                                *)
LEMMA TypeStep == TypeOK /\ [Next]_vars => TypeOK'
  BY HardwareTypeStep, ControlTypeStep, QueueTypeStep DEF TypeOK

(* The variables keep their types and the two buffers their capacities, in  *)
(* particular the 64 places of keyEvents.                                    *)
THEOREM TypeCorrect == Spec => []TypeOK
  BY TypeInit, TypeStep, PTL DEF Spec

-----------------------------------------------------------------------------
(* The inductive invariant.  The queue is only coherent outside the critical *)
(* section of the key thread: between FilterEvent and RecordEvent keyPressed  *)
(* is already new and the count still old.                                    *)

(* The mutex is held by the thread that is in its critical section.           *)
MutexOwned ==
  /\ keyMutex = "key" <=> keyPc \in {"filter", "record"}
  /\ keyMutex = "server" <=> serverPc \in {"pop", "status"}

(* The key is pressed after an odd number of changes.                         *)
Odd(n) == n % 2 = 1

(* The next number follows the count, and the key has the state of the count  *)
(* but for the moment in which its thread has changed one and not the other.  *)
KeyAgrees ==
  /\ nextEventSequence = keyEventCount + 1
  /\ keyPc = "record" => pressed = keyPressed /\ keyPressed # Odd(keyEventCount)
  /\ keyPc # "record" => keyPressed = Odd(keyEventCount)

(* The queue holds the events with the last numbers, each with its state.     *)
Numbered ==
  /\ Len(keyEvents) <= keyEventCount
  /\ \A i \in 1 .. Len(keyEvents) :
       keyEvents[i] = Window!EventNumbered(keyEventCount - Len(keyEvents) + i)

(* All of it together is inductive.                                           *)
IInv == TypeOK /\ MutexOwned /\ KeyAgrees /\ Numbered /\ StatusIsSnapshot

(* Nothing has been counted or queued before the threads start.               *)
LEMMA InvInit == Init => IInv
<1> SUFFICES ASSUME Init PROVE IInv
  OBVIOUS
<1>1. TypeOK
  BY TypeInit
<1>2. MutexOwned
  BY DEF Init, MutexOwned
<1>3. Odd(0) = FALSE
  BY DEF Odd
<1>4. KeyAgrees
  <2>1. keyPc = "check" /\ keyEventCount = 0 /\ nextEventSequence = 1
    BY DEF Init
  <2>2. keyPressed = Odd(keyEventCount)
    BY <1>3, <2>1 DEF Init
  <2> QED
    BY <2>1, <2>2 DEF KeyAgrees
<1>5. Numbered
  BY DEF Init, Numbered
<1>6. StatusIsSnapshot
  BY <1>3 DEF Init, StatusIsSnapshot, Odd
<1> QED
  BY <1>1, <1>2, <1>4, <1>5, <1>6 DEF IInv

(* Only the holder of keyMutex is in a critical section. *)
LEMMA MutexStep ==
  ASSUME ControlTypeOK, MutexOwned, [Next]_vars
  PROVE  MutexOwned'
<1> USE DEF ControlTypeOK, MutexOwned
<1>1. CASE KeyEdge \/ KeyRepeat \/ DeviceGone
  BY <1>1 DEF KeyEdge, KeyRepeat, DeviceGone, keyLocal, server
<1>2. CASE CheckStopping \/ Poll \/ ReadEvent
  BY <1>2 DEF CheckStopping, Poll, ReadEvent, server
<1>3. CASE LockForKey \/ FilterEvent \/ RecordEvent
  BY <1>3 DEF LockForKey, FilterEvent, RecordEvent, server
<1>4. ASSUME NEW call \in {"pop", "status"}, LockForServer(call)
      PROVE  MutexOwned'
  BY <1>4 DEF LockForServer, keyLocal
<1>5. CASE PopEvent \/ ReadStatus \/ Stop \/ Join
  BY <1>5 DEF PopEvent, ReadStatus, Stop, Join, keyLocal
<1>6. CASE UNCHANGED vars
  BY <1>6 DEF vars, keyLocal, server
<1> QED
  BY <1>1, <1>2, <1>3, <1>4, <1>5, <1>6 DEF Next, KeyThread, ServerCall, Ended

(* The key thread changes the key and then the count, nobody else either.     *)
LEMMA KeyAgreesStep ==
  ASSUME ControlTypeOK, QueueTypeOK, KeyAgrees, [Next]_vars
  PROVE  KeyAgrees'
<1>1. CASE KeyEdge \/ KeyRepeat \/ DeviceGone
  <2>1. UNCHANGED <<keyLocal, shared>>
    BY <1>1 DEF KeyEdge, KeyRepeat, DeviceGone
  <2> QED
    BY <2>1 DEF keyLocal, shared, KeyAgrees
<1>2. CASE CheckStopping \/ Poll \/ ReadEvent \/ LockForKey
  <2>1. keyPc # "record" /\ keyPc' # "record"
    BY <1>2 DEF CheckStopping, Poll, ReadEvent, LockForKey
  <2>2. UNCHANGED shared
    BY <1>2 DEF CheckStopping, Poll, ReadEvent, LockForKey
  <2> QED
    BY <2>1, <2>2 DEF shared, KeyAgrees
<1>3. CASE FilterEvent
  <2>1. Odd(keyEventCount) \in BOOLEAN
    BY DEF Odd
  <2>2. keyPressed = Odd(keyEventCount)
    BY <1>3 DEF FilterEvent, KeyAgrees
  <2>3. keyPressed' = pressed /\ pressed' = pressed /\ keyEventCount' = keyEventCount
    BY <1>3 DEF FilterEvent
  <2>4. CASE pressed = keyPressed
    BY <1>3, <2>2, <2>3, <2>4 DEF FilterEvent, KeyAgrees
  <2>5. CASE pressed # keyPressed
    BY <1>3, <2>2, <2>3, <2>5 DEF FilterEvent, KeyAgrees
  <2> QED
    BY <2>4, <2>5
<1>4. CASE RecordEvent
  <2>1. keyEventCount \in Nat /\ keyPressed \in BOOLEAN
    BY DEF QueueTypeOK
  <2>2. Odd(keyEventCount') <=> ~Odd(keyEventCount)
    BY <1>4, <2>1, ParityStep DEF RecordEvent, Odd
  <2>3. keyPressed # Odd(keyEventCount) /\ keyPressed' = keyPressed /\ keyPc' = "check"
    BY <1>4 DEF RecordEvent, KeyAgrees
  <2>4. Odd(keyEventCount) \in BOOLEAN /\ Odd(keyEventCount') \in BOOLEAN
    BY DEF Odd
  <2>5. keyPressed' = Odd(keyEventCount')
    BY <2>1, <2>2, <2>3, <2>4
  <2>6. nextEventSequence' = keyEventCount' + 1
    BY <1>4, <2>1 DEF RecordEvent, KeyAgrees
  <2> QED
    BY <2>3, <2>5, <2>6 DEF KeyAgrees, Odd
<1>5. ASSUME NEW call \in {"pop", "status"}, LockForServer(call)
      PROVE  KeyAgrees'
  BY <1>5 DEF LockForServer, keyLocal, shared, KeyAgrees
<1>6. CASE PopEvent
  BY <1>6 DEF PopEvent, keyLocal, KeyAgrees
<1>7. CASE ReadStatus \/ Stop \/ Join \/ UNCHANGED vars
  BY <1>7 DEF ReadStatus, Stop, Join, keyLocal, shared, vars, KeyAgrees
<1> QED
  BY <1>1, <1>2, <1>3, <1>4, <1>5, <1>6, <1>7 DEF Next, KeyThread, ServerCall, Ended

(* Recording numbers the event by the count; trimming and popping take the    *)
(* oldest.                                                                    *)
LEMMA NumberedStep ==
  ASSUME ControlTypeOK, QueueTypeOK, KeyAgrees, Numbered, [Next]_vars
  PROVE  Numbered'
<1>0. keyEventCount \in Nat /\ keyEvents \in Seq(KeyEvent) /\ Len(keyEvents) \in Nat
  BY LenProperties DEF QueueTypeOK
<1>1. CASE RecordEvent
  <2> DEFINE q == Trimmed(keyEvents)
             e == [sequence |-> nextEventSequence, pressed |-> pressed]
  <2>1. /\ q \in Seq(KeyEvent)
        /\ Len(q) \in Nat
        /\ Len(q) <= Len(keyEvents)
        /\ \A i \in 1 .. Len(q) : q[i] = keyEvents[Len(keyEvents) - Len(q) + i]
    BY <1>0, TrimmedFacts, LenProperties DEF QueueTypeOK
  <2>2. e \in KeyEvent
    BY DEF KeyEvent, ControlTypeOK, QueueTypeOK
  <2>3. keyEvents' = Append(q, e) /\ keyEventCount' = keyEventCount + 1
    BY <1>1 DEF RecordEvent
  <2> HIDE DEF q
  <2>4. e = Window!EventNumbered(keyEventCount + 1)
    <3>1. pressed = keyPressed /\ keyPressed # Odd(keyEventCount)
      BY <1>1 DEF RecordEvent, KeyAgrees
    <3>2. pressed \in BOOLEAN
      BY DEF ControlTypeOK
    <3>3. Odd(keyEventCount + 1) <=> ~Odd(keyEventCount)
      BY <1>0, ParityStep DEF Odd
    <3>4. pressed = Odd(keyEventCount + 1)
      BY <3>1, <3>2, <3>3 DEF Odd
    <3>5. nextEventSequence = keyEventCount + 1
      BY DEF KeyAgrees
    <3> QED
      BY <3>4, <3>5 DEF Window!EventNumbered, Odd
  <2> HIDE DEF e
  <2>5. /\ Len(keyEvents') = Len(q) + 1
        /\ \A i \in 1 .. Len(q) : keyEvents'[i] = q[i]
        /\ keyEvents'[Len(q) + 1] = e
    BY <2>1, <2>2, <2>3, AppendProperties
  <2>6. Len(keyEvents') <= keyEventCount'
    BY <1>0, <2>1, <2>3, <2>5 DEF Numbered
  <2>7. ASSUME NEW i \in 1 .. Len(keyEvents')
        PROVE  keyEvents'[i]
                 = Window!EventNumbered(keyEventCount' - Len(keyEvents') + i)
    <3>1. CASE i = Len(q) + 1
      <4>1. keyEventCount' - Len(keyEvents') + i = keyEventCount + 1
        BY <1>0, <2>1, <2>3, <2>5, <3>1
      <4> QED
        BY <2>4, <2>5, <3>1, <4>1
    <3>2. CASE i \in 1 .. Len(q)
      <4> DEFINE j == Len(keyEvents) - Len(q) + i
      <4>1. j \in 1 .. Len(keyEvents)
        BY <1>0, <2>1, <3>2
      <4>2. keyEvents'[i] = keyEvents[j]
        BY <2>1, <2>5, <3>2
      <4>3. keyEvents[j] = Window!EventNumbered(keyEventCount - Len(keyEvents) + j)
        BY <4>1 DEF Numbered
      <4>4. keyEventCount - Len(keyEvents) + j = keyEventCount' - Len(keyEvents') + i
        BY <1>0, <2>1, <2>3, <2>5, <3>2
      <4> QED
        BY <4>2, <4>3, <4>4
    <3> QED
      BY <2>1, <2>5, <3>1, <3>2
  <2> QED
    BY <2>6, <2>7 DEF Numbered, Window!EventNumbered
<1>2. CASE PopEvent
  <2>1. CASE keyEvents = <<>>
    BY <1>2, <2>1 DEF PopEvent, Numbered, Window!EventNumbered
  <2>2. CASE keyEvents # <<>>
    <3>1. keyEvents' = Tail(keyEvents) /\ keyEventCount' = keyEventCount
      BY <1>2, <2>2 DEF PopEvent
    <3>2. /\ Len(keyEvents') = Len(keyEvents) - 1
          /\ \A i \in 1 .. Len(keyEvents) - 1 : keyEvents'[i] = keyEvents[i + 1]
      BY <1>0, <2>2, <3>1, FrontFacts
    <3>3. Len(keyEvents') <= keyEventCount'
      BY <1>0, <3>1, <3>2 DEF Numbered
    <3>4. ASSUME NEW i \in 1 .. Len(keyEvents')
          PROVE  keyEvents'[i]
                   = Window!EventNumbered(keyEventCount' - Len(keyEvents') + i)
      <4>1. i + 1 \in 1 .. Len(keyEvents) /\ i \in 1 .. Len(keyEvents) - 1
        BY <1>0, <3>2
      <4>2. keyEvents[i + 1]
              = Window!EventNumbered(keyEventCount - Len(keyEvents) + (i + 1))
        BY <4>1 DEF Numbered
      <4>3. keyEventCount - Len(keyEvents) + (i + 1)
              = keyEventCount' - Len(keyEvents') + i
        <5>1. i \in Int /\ keyEventCount' = keyEventCount
          BY <3>1, <4>1
        <5>2. Len(keyEvents') = Len(keyEvents) - 1
          BY <3>2
        <5> QED
          BY <1>0, <5>1, <5>2
      <4> QED
        BY <3>2, <4>1, <4>2, <4>3
    <3> QED
      BY <3>3, <3>4 DEF Numbered, Window!EventNumbered
  <2> QED
    BY <2>1, <2>2
<1>3. CASE UNCHANGED <<keyEvents, keyEventCount>>
  BY <1>3 DEF Numbered, Window!EventNumbered
<1> QED
  BY <1>1, <1>2, <1>3
  DEF Next, KeyThread, ServerCall, Ended, KeyEdge, KeyRepeat, DeviceGone, CheckStopping,
      Poll, ReadEvent, LockForKey, FilterEvent, LockForServer, ReadStatus, Stop, Join,
      vars, shared

(* A status is read with the mutex held, so outside the key thread's section. *)
LEMMA StatusStep ==
  ASSUME IInv, [Next]_vars
  PROVE  StatusIsSnapshot'
<1>1. CASE ReadStatus
  <2>1. keyPc # "record"
    BY <1>1 DEF ReadStatus, IInv, TypeOK, ControlTypeOK, MutexOwned
  <2>2. keyPressed = Odd(keyEventCount)
    BY <2>1 DEF IInv, KeyAgrees
  <2>3. status' = [pressed |-> keyPressed, events |-> keyEventCount]
    BY <1>1 DEF ReadStatus
  <2> QED
    BY <2>2, <2>3 DEF StatusIsSnapshot, Odd
<1>2. CASE UNCHANGED status
  BY <1>2 DEF IInv, StatusIsSnapshot
<1> QED
  BY <1>1, <1>2
  DEF Next, KeyThread, ServerCall, Ended, KeyEdge, KeyRepeat, DeviceGone, CheckStopping,
      Poll, ReadEvent, LockForKey, FilterEvent, RecordEvent, LockForServer, PopEvent,
      Stop, Join, vars, server

(* Every step of the two threads and of the hardware keeps the invariant of   *)
(* DeviceManager.                                                             *)
THEOREM InvInductive == IInv /\ [Next]_vars => IInv'
<1> SUFFICES ASSUME IInv, [Next]_vars PROVE IInv'
  OBVIOUS
<1>1. TypeOK /\ ControlTypeOK /\ QueueTypeOK /\ MutexOwned /\ KeyAgrees /\ Numbered
  BY DEF IInv, TypeOK
<1>2. TypeOK'
  BY <1>1, TypeStep
<1>3. MutexOwned'
  BY <1>1, MutexStep
<1>4. KeyAgrees'
  BY <1>1, KeyAgreesStep
<1>5. Numbered'
  BY <1>1, NumberedStep
<1>6. StatusIsSnapshot'
  BY StatusStep
<1> QED
  BY <1>2, <1>3, <1>4, <1>5, <1>6 DEF IInv

(* Mutual exclusion, the agreement of count, key state and numbering, and the *)
(* numbers in the queue hold in every reachable state.                        *)
THEOREM Invariance == Spec => []IInv
  BY InvInit, InvInductive, PTL DEF Spec

(* A status shows the key pressed exactly under an odd count of changes, for  *)
(* every interleaving of getStatus with the key thread.                       *)
THEOREM StatusCorrect == Spec => []StatusIsSnapshot
<1>1. IInv => StatusIsSnapshot
  BY DEF IInv
<1> QED
  BY <1>1, Invariance, PTL

(* Outside the critical section the invariant is the agreement.               *)
LEMMA InvImpliesAgreement == IInv => QueueAgrees
<1> SUFFICES ASSUME IInv, keyMutex # "key" PROVE QueueAgrees
  BY DEF QueueAgrees
<1>1. keyPc # "record"
  BY DEF IInv, TypeOK, ControlTypeOK, MutexOwned
<1>2. nextEventSequence = keyEventCount + 1 /\ keyPressed = Odd(keyEventCount)
  BY <1>1 DEF IInv, KeyAgrees
<1>3. \A i \in 1 .. Len(keyEvents) :
        keyEvents[i] = Window!EventNumbered(keyEventCount - Len(keyEvents) + i)
  BY DEF IInv, Numbered
<1> QED
  BY <1>2, <1>3 DEF QueueAgrees, Odd

(* Whenever the key thread is outside its critical section the queue is the   *)
(* run of consecutive events that ends with the newest.                       *)
THEOREM QueueCorrect == Spec => []QueueAgrees
  BY Invariance, InvImpliesAgreement, PTL

-----------------------------------------------------------------------------
(* Refinement. *)

(* An empty queue is the window before the first event.                       *)
LEMMA WindowInitial == Init => Window!WindowInit
<1> SUFFICES ASSUME Init PROVE Window!WindowInit
  OBVIOUS
<1>1. Len(keyEvents) = 0 /\ nextEventSequence = 1
  BY DEF Init
<1>2. event = Window!NoEvent
  <2>1. 0 % 2 # 1
    OBVIOUS
  <2>2. event = [sequence |-> 0, pressed |-> FALSE]
    BY DEF Init
  <2> QED
    BY <2>1, <2>2 DEF Window!NoEvent, Window!EventNumbered
<1> QED
  BY <1>1, <1>2 DEF Window!WindowInit

(* Recording an event extends the window, popping one delivers its oldest,    *)
(* and every other step leaves it alone.                                      *)
LEMMA WindowStep ==
  ASSUME IInv, [Next]_vars
  PROVE  [Window!WindowNext]_(Window!windowVars)
<1>0. /\ keyEventCount \in Nat
      /\ nextEventSequence = keyEventCount + 1
      /\ keyEvents \in Seq(KeyEvent)
      /\ Len(keyEvents) \in Nat
      /\ Len(keyEvents) <= MAX_KEY_EVENTS
  BY LenProperties DEF IInv, TypeOK, QueueTypeOK, KeyAgrees
<1>1. CASE RecordEvent
  <2> DEFINE q == Trimmed(keyEvents)
             e == [sequence |-> nextEventSequence, pressed |-> pressed]
  <2>1. /\ q \in Seq(KeyEvent)
        /\ Len(q) = IF Len(keyEvents) >= MAX_KEY_EVENTS
                      THEN Len(keyEvents) - 1 ELSE Len(keyEvents)
    BY <1>0, TrimmedFacts
  <2>2. e \in KeyEvent
    BY <1>0 DEF KeyEvent, IInv, TypeOK, ControlTypeOK
  <2>3. keyEvents' = Append(q, e) /\ nextEventSequence' = nextEventSequence + 1
    BY <1>1 DEF RecordEvent
  <2> HIDE DEF q, e
  <2>4. Len(keyEvents') = Len(q) + 1
    BY <2>1, <2>2, <2>3, AppendProperties
  <2>5. event' = event
    BY <1>1 DEF RecordEvent, server
  <2>6. Window!Record
    BY <1>0, <2>1, <2>3, <2>4, <2>5, MaxKeyEventsAssumption DEF Window!Record
  <2> QED
    BY <2>6 DEF Window!WindowNext
<1>2. CASE PopEvent
  <2>1. CASE keyEvents = <<>>
    BY <1>2, <2>1 DEF PopEvent, Window!windowVars
  <2>2. CASE keyEvents # <<>>
    <3>1. /\ keyEvents' = Tail(keyEvents)
          /\ event' = Head(keyEvents)
          /\ nextEventSequence' = nextEventSequence
      BY <1>2, <2>2 DEF PopEvent
    <3>2. /\ Len(keyEvents) \in Nat \ {0}
          /\ Len(keyEvents') = Len(keyEvents) - 1
          /\ event' = keyEvents[1]
      BY <1>0, <2>2, <3>1, FrontFacts
    <3>3. keyEvents[1] = Window!EventNumbered(keyEventCount - Len(keyEvents) + 1)
      BY <3>2 DEF IInv, Numbered
    <3>4. keyEventCount - Len(keyEvents) + 1 = nextEventSequence - Len(keyEvents)
      BY <1>0
    <3>5. Window!Deliver
      BY <1>0, <3>1, <3>2, <3>3, <3>4 DEF Window!Deliver
    <3> QED
      BY <3>5 DEF Window!WindowNext
  <2> QED
    BY <2>1, <2>2
<1>3. CASE UNCHANGED <<keyEvents, nextEventSequence, event>>
  BY <1>3 DEF Window!windowVars
<1> QED
  BY <1>1, <1>2, <1>3
  DEF Next, KeyThread, ServerCall, Ended, KeyEdge, KeyRepeat, DeviceGone, CheckStopping,
      Poll, ReadEvent, LockForKey, FilterEvent, LockForServer, ReadStatus, Stop, Join,
      vars, shared, server

(* What popEvent hands over is what the numbered window delivers: for every   *)
(* capacity, the deque, its mutex and the two threads implement it.           *)
THEOREM Refinement == Spec => ImplementsWindow
  BY WindowInitial, WindowStep, Invariance, PTL
  DEF Spec, ImplementsWindow, Window!WindowSpec

-----------------------------------------------------------------------------
(* What the window promises, seen by the server. *)

(* popEvent never goes back, and never hands over an event that more than     *)
(* MAX_KEY_EVENTS newer ones should have pushed out.                          *)
EventsInOrder ==
  [][event' # event =>
       /\ event'.sequence > event.sequence
       /\ event'.sequence >= nextEventSequence - MAX_KEY_EVENTS]_vars

(* The event handed over last is older than all that wait.                    *)
OlderThanQueue ==
  /\ event.sequence \in Nat
  /\ event.sequence < nextEventSequence - Len(keyEvents)

(* The window only moves forward, past every event it delivers. *)
LEMMA WindowMovesForward ==
  ASSUME IInv, OlderThanQueue, [Next]_vars
  PROVE  /\ OlderThanQueue'
         /\ event' # event =>
              /\ event'.sequence > event.sequence
              /\ event'.sequence >= nextEventSequence - MAX_KEY_EVENTS
<1> DEFINE first == nextEventSequence - Len(keyEvents)
<1>1. /\ first \in Int /\ nextEventSequence \in Nat
      /\ first >= nextEventSequence - MAX_KEY_EVENTS
  BY MaxKeyEventsAssumption, LenProperties DEF IInv, TypeOK, QueueTypeOK, KeyAgrees
<1>2. [Window!WindowNext]_(Window!windowVars)
  BY WindowStep
<1>3. CASE Window!Record
  <2>1. event' = event /\ first' = IF nextEventSequence - first >= MAX_KEY_EVENTS
                                     THEN first + 1 ELSE first
    BY <1>3 DEF Window!Record
  <2>2. first' \in Int /\ first' >= first
    BY <1>1, <2>1
  <2> QED
    BY <1>1, <2>1, <2>2 DEF OlderThanQueue
<1>4. CASE Window!Deliver
  <2>1. event' = Window!EventNumbered(first) /\ first' = first + 1
    BY <1>4 DEF Window!Deliver
  <2>2. event'.sequence = first
    BY <2>1 DEF Window!EventNumbered
  <2> QED
    BY <1>1, <2>1, <2>2 DEF OlderThanQueue
<1>5. CASE UNCHANGED Window!windowVars
  BY <1>5 DEF Window!windowVars, OlderThanQueue
<1> QED
  BY <1>2, <1>3, <1>4, <1>5 DEF Window!WindowNext

(* DeviceManager::popEvent: for every capacity and every interleaving with    *)
(* the key thread, the server sees events in the order of their numbers, none *)
(* twice, and only such as are among the newest MAX_KEY_EVENTS.               *)
THEOREM EventsComeInOrder == Spec => EventsInOrder
<1>1. Init => OlderThanQueue
  <2> SUFFICES ASSUME Init PROVE OlderThanQueue
    OBVIOUS
  <2>1. event.sequence = 0 /\ nextEventSequence = 1 /\ Len(keyEvents) = 0
    BY DEF Init
  <2> QED
    BY <2>1 DEF OlderThanQueue
<1>2. IInv /\ OlderThanQueue /\ [Next]_vars => OlderThanQueue'
  BY WindowMovesForward
<1>3. IInv /\ OlderThanQueue /\ [Next]_vars =>
        [event' # event =>
           /\ event'.sequence > event.sequence
           /\ event'.sequence >= nextEventSequence - MAX_KEY_EVENTS]_vars
  BY WindowMovesForward
<1> QED
  BY <1>1, <1>2, <1>3, Invariance, PTL DEF Spec, EventsInOrder
=============================================================================
