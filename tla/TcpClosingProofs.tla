-------------------------- MODULE TcpClosingProofs --------------------------
(***************************************************************************)
(* When TcpServer closes a connection.  It tests the length of the pending *)
(* input before it cuts off complete requests, so that a request within    *)
(* the limit can cost a client the connection if more input follows it:    *)
(* the theorems say by how much a request has to stay below the limit, and *)
(* that nothing else makes the server close a connection whose client is   *)
(* still there, nor close one with a request unanswered.                   *)
(***************************************************************************)
EXTENDS TcpStreamsProofs

(* An event reports a hangup only if the client has ended its stream. *)
Ends(e) == e.fd # listenfd /\ peer[socket[e.fd]] \in {"shut", "gone"}

(* Every event that reports a hangup was reported rightly, and still is       *)
(* right.                                                                     *)
HangupInv ==
  /\ \A i \in 1 .. Len(batch) : batch[i].hangup => Ends(batch[i])
  /\ pc \in {"recv", "parse", "answer"} => (current.hangup => Ends(current))

(* No event has been reported at the start.                                   *)
LEMMA HangupInit == Init => HangupInv
BY DEF Init, HangupInv

(* The client of a descriptor that stays in use does not resume its stream. *)
LEMMA HangupForGood ==
  ASSUME ServerInv, [Next]_vars, NEW fd \in Registered, peer[socket[fd]] \in {"shut", "gone"}
  PROVE  Closing(fd) \/ peer'[socket'[fd]] \in {"shut", "gone"}
<1> USE DEF ServerInv, CoreInv, TypeOK
<1>0. PICK c \in Clients : c = socket[fd] /\ ~Waits(c)
  BY DescriptorOwner
<1>1. ASSUME NEW d \in Clients, Connect(d) \/ ClientShutdown(d) \/ ClientLeave(d)
      PROVE  peer'[socket'[fd]] \in {"shut", "gone"}
  BY <1>0, <1>1 DEF Connect, ClientShutdown, ClientLeave, ClientStep, ConnectionsTypeOK
<1>2. CASE Accept
  <2>1. Min(Free) \in Free
    BY <1>2, MinOfDescriptors DEF Accept, Free
  <2>2. peer' = peer /\ socket' = [socket EXCEPT ![Min(Free)] = Head(backlog)]
    BY <1>2 DEF Accept
  <2>3. Min(Free) # fd
    BY <2>1 DEF Free, Registered
  <2> QED
    BY <1>0, <2>2, <2>3 DEF ConnectionsTypeOK
<1>3. CASE AcceptSetupFails
  <2>1. /\ backlog # <<>> /\ socket' = socket
        /\ peer' = [peer EXCEPT ![Head(backlog)] = "refused"]
    BY <1>3 DEF AcceptSetupFails
  <2>2. Waits(Head(backlog))
    BY <2>1, BacklogFacts
  <2> QED
    BY <1>0, <2>1, <2>2 DEF ConnectionsTypeOK
<1>4. ASSUME NEW g, Closing(g), g # fd
      PROVE  peer'[socket'[fd]] \in {"shut", "gone"}
  <2>1. socket'[fd] = socket[fd]
    BY <1>4, CloseSocketFacts DEF Closing
  <2>2. peer' = [peer EXCEPT ![socket[g]] = "closed"] /\ socket[g] # socket[fd]
    BY <1>4 DEF Closing, CloseSocket, PlacesInv
  <2> QED
    BY <1>0, <2>1, <2>2 DEF ConnectionsTypeOK
<1>5. Execute => UNCHANGED <<peer, socket>>
  BY DEF Execute, kernel
<1> QED
  BY <1>0, <1>1, <1>2, <1>3, <1>4, <1>5, ConnectionsKept, ClosingSteps
     DEF Next, ClientNext, Server

(* A hangup that was reported is one when the event is handled. *)
LEMMA HangupStep ==
  ASSUME ServerInv, HangupInv, [Next]_vars
  PROVE  HangupInv'
<1> USE DEF ServerInv, CoreInv, TypeOK
<1>0. batch \in Seq(Event) /\ Len(batch) \in Nat
  BY LenProperties DEF ThreadTypeOK
<1>1. ASSUME NEW e, Ends(e), e.fd \in Registered
      PROVE  Closing(e.fd) \/ Ends(e)'
  BY <1>1, HangupForGood DEF Ends
<1>2. \A i \in 1 .. Len(batch) : batch[i].hangup =>
        Ends(batch[i]) /\ batch[i].fd \in Registered
  BY DEF HangupInv, BatchInv, Ends
<1>3. ASSUME batch' = batch, \A fd \in Registered : socket'[fd] = socket[fd],
             pc' \in {"recv", "parse", "answer"} =>
               pc \in {"recv", "parse", "answer"} /\ current' = current
      PROVE  HangupInv'
  <2>1. \A fd : ~Closing(fd)
    <3> SUFFICES ASSUME NEW fd, Closing(fd) PROVE FALSE
      OBVIOUS
    <3>1. fd \in Registered /\ socket' = [socket EXCEPT ![fd] = NONE]
      BY DEF Closing, CloseSocket
    <3> QED
      BY <1>3, <3>1 DEF Registered, ConnectionsTypeOK
  <2>2. \A i \in 1 .. Len(batch) : batch[i].hangup => Ends(batch[i])'
    BY <1>1, <1>2, <1>3, <2>1
  <2>3. pc' \in {"recv", "parse", "answer"} => (current.hangup => Ends(current)')
    BY <1>1, <1>3, <2>1 DEF HangupInv, BatchInv
  <2> QED
    BY <1>3, <2>2, <2>3 DEF HangupInv
<1>4. ASSUME NEW fd, Closing(fd), pc \in {"recv", "answer"}, fd = current.fd,
             batch' = batch, pc' = "dispatch"
      PROVE  HangupInv'
  <2>1. ASSUME NEW i \in 1 .. Len(batch), batch[i].hangup
        PROVE  Ends(batch[i])'
    <3>1. Ends(batch[i]) /\ batch[i].fd \in Registered /\ batch[i].fd # fd
      BY <1>2, <1>4, <2>1 DEF BatchInv
    <3>2. ~Closing(batch[i].fd)
      <4> SUFFICES ASSUME Closing(batch[i].fd) PROVE FALSE
        OBVIOUS
      <4>1. /\ socket' = [socket EXCEPT ![fd] = NONE]
            /\ socket' = [socket EXCEPT ![batch[i].fd] = NONE]
        BY <1>4 DEF Closing, CloseSocket
      <4> QED
        BY <1>4, <3>1, <4>1 DEF Registered, ConnectionsTypeOK
    <3> QED
      BY <1>1, <1>4, <3>1, <3>2
  <2> QED
    BY <1>4, <2>1 DEF HangupInv
<1>5. CASE EpollWait
  <2>1. pc' = "dispatch" /\ UNCHANGED <<peer, socket>>
    BY <1>5 DEF EpollWait, kernel
  <2>2. batch' \in Seq(Ready)
    BY <1>5, EpollFacts
  <2>3. \A i \in 1 .. Len(batch') : batch'[i] \in Ready
    BY <2>2, ElementOfSeq
  <2>4. NoEntry.hangup = FALSE
    BY DEF NoEntry
  <2>5. \A i \in 1 .. Len(batch') : batch'[i].hangup => Ends(batch'[i])
    BY <2>3, <2>4, ReadyFacts DEF Ends
  <2> QED
    BY <2>1, <2>5 DEF HangupInv, Ends
<1>6. CASE Dispatch
  <2>1. batch # <<>> /\ UNCHANGED <<peer, socket>>
        /\ current' = Head(batch) /\ batch' = Tail(batch)
    BY <1>6 DEF Dispatch, kernel
  <2>2. /\ current' = batch[1] /\ 1 \in 1 .. Len(batch)
        /\ \A i \in 1 .. Len(batch') : i + 1 \in 1 .. Len(batch) /\ batch'[i] = batch[i + 1]
    BY <1>0, <2>1, HeadTailProperties, EmptySeq
  <2>3. \A i \in 1 .. Len(batch') : batch'[i].hangup => Ends(batch'[i])
    BY <1>2, <2>2
  <2>4. current'.hangup => Ends(current')
    BY <1>2, <2>2
  <2> QED
    BY <2>1, <2>3, <2>4 DEF HangupInv, Ends
<1>7. CASE Accept
  <2>1. Min(Free) \in Free
    BY <1>7, MinOfDescriptors DEF Accept, Free
  <2>2. /\ UNCHANGED thread
        /\ socket' = [socket EXCEPT ![Min(Free)] = Head(backlog)]
    BY <1>7 DEF Accept
  <2>3. \A fd \in Registered : socket'[fd] = socket[fd]
    BY <2>1, <2>2 DEF Free, Registered, ConnectionsTypeOK
  <2> QED
    BY <1>3, <2>2, <2>3 DEF thread
<1>8. CASE RecvData \/ RecvEnds \/ RecvAgain
  <2>1. /\ pc = "recv" /\ UNCHANGED <<batch, current>>
        /\ pc' = "dispatch" \/ (RecvData /\ pc' = "parse" /\ UNCHANGED socket)
    <3>1. RecvData => /\ pc = "recv" /\ UNCHANGED <<batch, current>>
                      /\ pc' = "dispatch" \/ (pc' = "parse" /\ UNCHANGED socket)
      BY DEF RecvData
    <3>2. RecvEnds \/ RecvAgain => /\ pc = "recv" /\ UNCHANGED <<batch, current>>
                                   /\ pc' = "dispatch"
      BY DEF RecvEnds, RecvAgain
    <3> QED
      BY <1>8, <3>1, <3>2
  <2>2. CASE UNCHANGED socket
    BY <1>3, <2>1, <2>2
  <2>3. CASE Closing(current.fd) /\ pc' = "dispatch"
    BY <1>4, <2>1, <2>3
  <2> QED
    BY <1>8, <2>1, <2>2, <2>3, ClosingSteps
<1>9. CASE SendFails
  <2>1. Closing(out.fd) /\ batch' = batch /\ pc \in {"answer", "push"}
        /\ pc' = IF pc = "answer" THEN "dispatch" ELSE "fanout"
    BY <1>9, ClosingSteps DEF SendFails
  <2>2. CASE pc = "answer"
    BY <1>4, <2>1, <2>2 DEF OutInv
  <2>3. CASE pc = "push"
    <3>1. batch' = <<>> /\ pc' = "fanout"
      BY <2>1, <2>3 DEF BatchInv
    <3> QED
      BY <3>1 DEF HangupInv
  <2> QED
    BY <2>1, <2>2, <2>3
<1>10. CASE Execute \/ ParseDone \/ SendUnit
  <2>1. /\ UNCHANGED <<batch, current, socket>>
        /\ pc' \in {"recv", "parse", "answer"} => pc \in {"recv", "parse", "answer"}
    BY <1>10 DEF Execute, ParseDone, SendUnit, kernel
  <2> QED
    BY <1>3, <2>1
<1>11. CASE \/ BatchDone \/ AcceptSetupFails \/ AcceptEnds \/ Broadcast \/ PopEvent
            \/ QueueEmpty \/ FanoutDone \/ \E fd \in Descriptors : SendEvent(fd)
  <2>1. batch' = batch /\ socket' = socket /\ pc' \notin {"recv", "parse", "answer"}
    BY <1>11 DEF BatchDone, AcceptSetupFails, AcceptEnds, Broadcast, PopEvent, QueueEmpty,
                 FanoutDone, SendEvent, kernel, thread
  <2> QED
    BY <1>3, <2>1
<1>12. UNCHANGED <<thread, socket, stream, executed, receiveBuffers, history, delivered>>
       => HangupInv'
  BY <1>3 DEF thread
<1> QED
  BY <1>5, <1>6, <1>7, <1>8, <1>9, <1>10, <1>11, <1>12, ServerUntouched
     DEF Next, ClientNext, Server

-----------------------------------------------------------------------------
(* The input of a client whose next recv() the server is about to process. *)

(* With no complete request in the buffer, what is pending is shorter than    *)
(* the next request, if there is one, or nothing.                             *)
LEMMA PendingBound ==
  ASSUME ServerInv, NEW fd \in Registered, NEW c \in Clients, c = socket[fd],
         ~RequestPending(fd)
  PROVE  /\ executed[c] = Len(Requests[c]) => received[c] = sent[c]
         /\ executed[c] < Len(Requests[c]) =>
              /\ executed[c] + 1 \in 1 .. Len(Requests[c])
              /\ Requests[c][executed[c] + 1] \in Nat
              /\ Pending(fd) < Requests[c][executed[c] + 1]
<1> USE DEF ServerInv, CoreInv, TypeOK
<1>1. /\ executed[c] \in Nat /\ Len(Requests[c]) \in Nat /\ executed[c] <= Len(Requests[c])
      /\ received[c] \in Nat /\ sent[c] \in Nat
      /\ received[c] <= sent[c] /\ sent[c] <= TotalUnits(c)
      /\ received[c] = UnitsUpTo(c, executed[c]) + Pending(fd)
  BY SizesFacts DEF InputInv, InputAccounted, DataTypeOK, TrafficTypeOK
<1>2. Pending(fd) \in Nat /\ UnitsUpTo(c, executed[c]) \in Nat
  BY <1>1, PendingFacts, UnitsFacts, SizesFacts
<1>3. ASSUME executed[c] = Len(Requests[c])
      PROVE  received[c] = sent[c]
  BY <1>1, <1>2, <1>3 DEF TotalUnits
<1>4. ASSUME executed[c] < Len(Requests[c])
      PROVE  /\ executed[c] + 1 \in 1 .. Len(Requests[c])
             /\ Requests[c][executed[c] + 1] \in Nat
             /\ Pending(fd) < Requests[c][executed[c] + 1]
  <2>1. executed[c] + 1 \in 1 .. Len(Requests[c])
    BY <1>1, <1>4
  <2>2. Requests[c][executed[c] + 1] \in Nat
    BY <2>1, SizesFacts, ElementOfSeq
  <2>3. ~(Pending(fd) >= Requests[c][executed[c] + 1])
    BY <1>4 DEF RequestPending
  <2> QED
    BY <1>2, <2>1, <2>2, <2>3
<1> QED
  BY <1>3, <1>4

(* Every request of which the last unit was received has been executed. *)
LEMMA ReceivedAreExecuted ==
  ASSUME ServerInv, NEW fd \in Registered, NEW c \in Clients, c = socket[fd],
         ~RequestPending(fd),
         NEW n \in 1 .. Len(Requests[c]), UnitsUpTo(c, n) <= received[c]
  PROVE  n <= executed[c]
<1> USE DEF ServerInv, CoreInv, TypeOK
<1> DEFINE k == executed[c] + 1
<1>1. /\ executed[c] \in Nat /\ Len(Requests[c]) \in Nat
      /\ received[c] = UnitsUpTo(c, executed[c]) + Pending(fd)
  BY SizesFacts DEF InputInv, InputAccounted, DataTypeOK
<1> SUFFICES ASSUME executed[c] < n PROVE FALSE
  BY <1>1
<1>2. /\ k \in 1 .. Len(Requests[c]) /\ k - 1 = executed[c]
      /\ k \in 0 .. Len(Requests[c]) /\ k - 1 \in 0 .. Len(Requests[c])
      /\ n \in k .. Len(Requests[c])
  BY <1>1
<1>3. Requests[c][k] \in Nat /\ Pending(fd) < Requests[c][k]
  BY <1>1, PendingBound
<1> HIDE DEF k
<1>4. /\ UnitsUpTo(c, k) = UnitsUpTo(c, k - 1) + Requests[c][k]
      /\ UnitsUpTo(c, k - 1) \in Nat
  BY <1>2, UnitsFacts
<1>5. UnitsUpTo(c, k) <= UnitsUpTo(c, n)
  BY <1>2, UnitsMonotonic
<1>6. UnitsUpTo(c, n) \in Nat /\ UnitsUpTo(c, k) \in Nat /\ Pending(fd) \in Nat
  <2>1. n \in 0 .. Len(Requests[c])
    BY <1>1
  <2>2. Pending(fd) \in Nat
    BY PendingFacts, SizesFacts
  <2> QED
    BY <1>2, <2>1, <2>2, UnitsFacts
<1>7. received[c] = UnitsUpTo(c, k - 1) + Pending(fd)
  BY <1>1, <1>2
<1> QED
  BY <1>3, <1>4, <1>5, <1>6, <1>7

-----------------------------------------------------------------------------
(* The causes for which a connection is closed. *)

(* A request with which, and the start of whatever follows it, the pending    *)
(* input can exceed the limit.                                                *)
TooLong(size) == size + BUFFER_SIZE > MAX_FRAME + 1

(* All input was received and every complete request in it was answered, to   *)
(* the last unit of the last answer.                                          *)
Served(c) ==
  /\ received[c] = sent[c]
  /\ \A n \in 1 .. Len(Requests[c]) : UnitsUpTo(c, n) <= sent[c] => n <= Len(Numbers(c, "RES"))
  /\ Ended(c)

(* The server closes a connection that is still there for an input near the   *)
(* limit, or when the client ended it and was served.                         *)
LEMMA ClosingCauses ==
  ASSUME ServerInv, WholeInv, PendingInv, AnswersInv, HangupInv, [Next]_vars,
         NEW c \in Clients, peer[c] \in {"open", "shut"}, peer'[c] = "closed"
  PROVE  \/ \E i \in 1 .. Len(Requests[c]) : TooLong(Requests[c][i])
         \/ peer[c] = "shut" /\ Served(c)
<1> USE DEF ServerInv, CoreInv, TypeOK
<1>1. ASSUME NEW fd, Closing(fd)
      PROVE  fd \in Registered /\ socket[fd] = c
  BY <1>1 DEF Closing, CloseSocket, ConnectionsTypeOK
<1>2. ASSUME pc = "recv", Closing(current.fd)
      PROVE  /\ current.fd \in Registered /\ socket[current.fd] = c
             /\ ~RequestPending(current.fd)
  BY <1>1, <1>2 DEF PendingInv
<1>3. CASE RecvData
  <2>1. Closing(current.fd) /\ pc = "recv"
    <3>1. ~UNCHANGED peer /\ pc = "recv"
      BY <1>3 DEF RecvData
    <3> QED
      BY <1>3, <3>1, ClosingSteps
  <2>2. PICK units \in Nat :
          /\ units > 0 /\ units <= BUFFER_SIZE /\ received[c] + units <= sent[c]
          /\ \/ Pending(current.fd) + units > MAX_FRAME
             \/ UNCHANGED peer
    BY <1>2, <1>3, <2>1, RecvFacts
  <2>3. Pending(current.fd) + units > MAX_FRAME /\ Pending(current.fd) \in Nat
    BY <1>2, <2>1, <2>2, PendingFacts, SizesFacts
  <2>4. executed[c] < Len(Requests[c])
    <3>1. executed[c] \in Nat /\ Len(Requests[c]) \in Nat /\ executed[c] <= Len(Requests[c])
          /\ received[c] \in Nat /\ sent[c] \in Nat
      BY SizesFacts DEF InputInv, DataTypeOK, TrafficTypeOK
    <3>2. executed[c] # Len(Requests[c])
      BY <1>2, <2>1, <2>2, <3>1, PendingBound
    <3> QED
      BY <3>1, <3>2
  <2> DEFINE i == executed[c] + 1
  <2>5. /\ i \in 1 .. Len(Requests[c]) /\ Requests[c][i] \in Nat
        /\ Pending(current.fd) < Requests[c][i]
    BY <1>2, <2>1, <2>4, PendingBound
  <2> HIDE DEF i
  <2>6. TooLong(Requests[c][i])
    BY <2>2, <2>3, <2>5, SizesFacts DEF TooLong
  <2> QED
    BY <2>5, <2>6
<1>4. CASE RecvEnds
  <2>1. /\ pc = "recv" /\ Closing(current.fd)
        /\ sent[socket[current.fd]] = received[socket[current.fd]]
        /\ peer[socket[current.fd]] \in {"shut", "gone"}
    BY <1>4, ClosingSteps DEF RecvEnds
  <2>2. /\ current.fd \in Registered /\ socket[current.fd] = c
        /\ ~RequestPending(current.fd)
    BY <1>2, <2>1
  <2>3. Len(Numbers(c, "RES")) = executed[c]
    <3>1. executed[c] \in Nat /\ peer[c] # "closed"
      BY DEF DataTypeOK
    <3>2. Numbers(c, "RES") = UpTo(executed[c])
      BY <2>1, <3>1 DEF AnswersInv, Owed
    <3> QED
      BY <3>1, <3>2 DEF UpTo
  <2>4. Ended(c)
    BY <2>1 DEF WholeInv, OffsetInv, SendsTo, Sending
  <2>5. Served(c)
    BY <2>1, <2>2, <2>3, <2>4, ReceivedAreExecuted DEF Served
  <2> QED
    BY <2>1, <2>2, <2>5
<1>5. ~RecvAgain
  <2> SUFFICES ASSUME RecvAgain PROVE FALSE
    OBVIOUS
  <2>1. /\ pc = "recv" /\ peer[socket[current.fd]] = "open"
        /\ current.hangup \/ UNCHANGED peer
    BY DEF RecvAgain
  <2>2. current.hangup
    BY <2>1
  <2> QED
    BY <2>1, <2>2 DEF HangupInv, Ends
<1>6. ~SendFails
  <2> SUFFICES ASSUME SendFails PROVE FALSE
    OBVIOUS
  <2>1. Closing(out.fd) /\ peer[socket[out.fd]] = "gone"
    BY ClosingSteps DEF SendFails
  <2> QED
    BY <1>1, <2>1
<1>7. ASSUME NEW d \in Clients, Connect(d) \/ ClientShutdown(d) \/ ClientLeave(d)
      PROVE  FALSE
  BY <1>7 DEF Connect, ClientShutdown, ClientLeave, ConnectionsTypeOK
<1>8. ~AcceptSetupFails
  <2> SUFFICES ASSUME AcceptSetupFails PROVE FALSE
    OBVIOUS
  <2>1. peer' = [peer EXCEPT ![Head(backlog)] = "refused"]
    BY DEF AcceptSetupFails
  <2> QED
    BY <2>1 DEF ConnectionsTypeOK
<1>9. Accept \/ Execute => peer' = peer
  BY DEF Accept, Execute, kernel
<1> QED
  BY <1>3, <1>4, <1>5, <1>6, <1>7, <1>8, <1>9, ConnectionsKept DEF Next, ClientNext, Server

(* The invariants on which the causes rest. *)
ClosingInv == ServerInv /\ WholeInv /\ PendingInv /\ AnswersInv /\ HangupInv

(* They hold in every reachable state. *)
THEOREM ClosingInvariance == Spec => []ClosingInv
<1>1. Init => ClosingInv
  BY ServerInit, WholeInit, PendingInit, AnswersInit, HangupInit DEF ClosingInv
<1>2. ClosingInv /\ [Next]_vars => ClosingInv'
  BY ServerStep, WholeStep, PendingStep, AnswersStep, HangupStep DEF ClosingInv
<1> QED
  BY <1>1, <1>2, PTL DEF Spec

(* Whatever the sizes: the server closes the connection of a client that is   *)
(* still there only because of a request within BUFFER_SIZE of the limit, and *)
(* that of a client that has ended its half only for this or when everything  *)
(* it sent is received and every complete request answered.                   *)
THEOREM ConnectionsCloseForCause ==
  Spec => [][\A c \in Clients :
               peer[c] \in {"open", "shut"} /\ peer'[c] = "closed"
                 => \/ \E i \in 1 .. Len(Requests[c]) : TooLong(Requests[c][i])
                    \/ peer[c] = "shut" /\ Served(c)]_vars
<1>1. ClosingInv /\ [Next]_vars =>
        [\A c \in Clients :
           peer[c] \in {"open", "shut"} /\ peer'[c] = "closed"
             => \/ \E i \in 1 .. Len(Requests[c]) : TooLong(Requests[c][i])
                \/ peer[c] = "shut" /\ Served(c)]_vars
  BY ClosingCauses DEF ClosingInv
<1> QED
  BY <1>1, ClosingInvariance, PTL DEF Spec

(* The requests of a client leave room for one more recv() below the limit,   *)
(* or one of them is over it.                                                 *)
RequestsFit ==
  \A c \in Clients :
    \/ \E i \in 1 .. Len(Requests[c]) : Requests[c][i] > MAX_FRAME
    \/ \A i \in 1 .. Len(Requests[c]) : ~TooLong(Requests[c][i])

(* For such requests the connection of a client that is still there is closed *)
(* only if a request is longer than a frame may be.                           *)
THEOREM OnlyLongFramesClose ==
  ASSUME RequestsFit
  PROVE  Spec => ClosedForCause
<1>1. ClosingInv /\ [Next]_vars =>
        [\A c \in Clients :
           peer[c] = "open" /\ peer'[c] = "closed"
             => \E i \in 1 .. Len(Requests[c]) : Requests[c][i] > MAX_FRAME]_vars
  BY ClosingCauses, RequestsFit DEF ClosingInv, RequestsFit
<1> QED
  BY <1>1, ClosingInvariance, PTL DEF Spec, ClosedForCause

(* And a client that ends its half is answered before the other is closed. *)
THEOREM ShutdownIsGraceful ==
  ASSUME RequestsFit
  PROVE  Spec => GracefulClose
<1>1. ClosingInv /\ [Next]_vars =>
        [\A c \in Clients :
           peer[c] = "shut" /\ peer'[c] = "closed"
             => \/ \E i \in 1 .. Len(Requests[c]) : Requests[c][i] > MAX_FRAME
                \/ /\ received[c] = sent[c]
                   /\ \A n \in 1 .. Len(Requests[c]) :
                        UnitsUpTo(c, n) <= sent[c] => n <= Len(Numbers(c, "RES"))
                   /\ stream[c] # <<>> => Last(stream[c])[2] = MessageUnits]_vars
  BY ClosingCauses, RequestsFit DEF ClosingInv, RequestsFit, Served, Ended
<1> QED
  BY <1>1, ClosingInvariance, PTL DEF Spec, GracefulClose
=============================================================================
