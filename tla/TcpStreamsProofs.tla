-------------------------- MODULE TcpStreamsProofs --------------------------
(***************************************************************************)
(* What is proved of the streams that TcpServer sends to its clients:      *)
(* they consist of whole messages, every request is answered once and in   *)
(* order, every event reaches every registered client, and the server      *)
(* closes a connection that is still there only for the length of its      *)
(* input.                                                                  *)
(***************************************************************************)
EXTENDS TcpServerProofs

(* A unit of a message: the message and the place in it.                      *)
Unit == Message \X (1 .. MessageUnits)

(* sendAll is under way ...                                                   *)
Sending == pc \in {"answer", "push"}

(* ... to this client.                                                        *)
SendsTo(c) == Sending /\ socket[out.fd] = c

(* What the client was sent so far ends with a whole message.                 *)
Ended(c) == stream[c] = <<>> \/ Last(stream[c])[2] = MessageUnits

(* Only the stream to which a message is being sent ends within a message,    *)
(* and it ends with what has been accepted of this one.                       *)
OffsetInv ==
  /\ ~Sending => out = NothingOut
  /\ Sending /\ out.offset > 0 =>
       /\ stream[socket[out.fd]] # <<>>
       /\ Last(stream[socket[out.fd]]) = <<out.message, out.offset>>
  /\ \A c \in Clients : Ended(c) \/ peer[c] = "closed" \/ (SendsTo(c) /\ out.offset > 0)

(* Whole messages, one after the other, the last one perhaps cut short. *)
Whole(s) ==
  /\ s # <<>> => s[1][2] = 1
  /\ \A i \in 1 .. Len(s) - 1 :
       IF s[i][2] = MessageUnits
         THEN s[i + 1][2] = 1
         ELSE s[i + 1] = <<s[i][1], s[i][2] + 1>>

(* The invariant of whole messages.                                           *)
WholeInv == OffsetInv /\ \A c \in Clients : Whole(stream[c])

-----------------------------------------------------------------------------
(* A connection that was closed stays closed. *)
LEMMA ClosedForGood ==
  ASSUME ServerInv, [Next]_vars, NEW c \in Clients, peer[c] = "closed"
  PROVE  peer'[c] = "closed"
<1> USE DEF ServerInv, CoreInv, TypeOK
<1>1. ASSUME NEW d \in Clients,
             Connect(d) \/ ClientShutdown(d) \/ ClientLeave(d)
      PROVE  peer'[c] = "closed"
  BY <1>1 DEF Connect, ClientShutdown, ClientLeave, ConnectionsTypeOK
<1>2. CASE AcceptSetupFails
  <2>1. /\ backlog # <<>>
        /\ peer' = [peer EXCEPT ![Head(backlog)] = "refused"]
    BY <1>2 DEF AcceptSetupFails
  <2>2. Head(backlog) # c
    BY <2>1, BacklogFacts DEF PlacesInv
  <2> QED
    BY <2>1, <2>2 DEF ConnectionsTypeOK
<1>3. ASSUME NEW fd, Closing(fd)
      PROVE  peer'[c] = "closed"
  BY <1>3 DEF Closing, CloseSocket, ConnectionsTypeOK
<1>4. Accept \/ Execute => peer' = peer
  BY DEF Accept, Execute, kernel
<1> QED
  BY <1>1, <1>2, <1>3, <1>4, ConnectionsKept, ClosingSteps DEF Next, ClientNext, Server

(* Steps of the clients and of the key's thread leave the server's alone. *)
LEMMA ServerUntouched ==
  \/ \E c \in Clients : Connect(c) \/ ClientSend(c) \/ ClientRead(c)
                          \/ ClientShutdown(c) \/ ClientLeave(c)
  \/ KeyEventRecorded \/ UNCHANGED vars
  => UNCHANGED <<thread, socket, stream, executed, receiveBuffers, history, delivered>>
BY DEF Connect, ClientSend, ClientRead, ClientShutdown, ClientLeave, ClientStep,
       KeyEventRecorded, Record, vars, kernel, windowVars

(* Steps of the server that neither send anything nor are about to. *)
LEMMA QuietSteps ==
  \/ EpollWait \/ Dispatch \/ BatchDone \/ Accept \/ AcceptSetupFails \/ AcceptEnds
  \/ RecvData \/ RecvEnds \/ RecvAgain \/ ParseDone
  \/ Broadcast \/ PopEvent \/ QueueEmpty \/ FanoutDone
  => /\ ~Sending /\ ~Sending'
     /\ UNCHANGED <<out, stream, executed>>
<1>1. EpollWait \/ Dispatch \/ BatchDone \/ AcceptEnds
      => ~Sending /\ ~Sending' /\ UNCHANGED <<out, stream, executed>>
  BY DEF EpollWait, Dispatch, BatchDone, AcceptEnds, kernel, Sending
<1>2. Accept \/ AcceptSetupFails
      => ~Sending /\ ~Sending' /\ UNCHANGED <<out, stream, executed>>
  BY DEF Accept, AcceptSetupFails, thread, Sending
<1>3. RecvData => ~Sending /\ ~Sending' /\ UNCHANGED <<out, stream, executed>>
  BY DEF RecvData, Sending
<1>4. RecvEnds \/ RecvAgain \/ ParseDone
      => ~Sending /\ ~Sending' /\ UNCHANGED <<out, stream, executed>>
  BY DEF RecvEnds, RecvAgain, ParseDone, kernel, Sending
<1>5. Broadcast \/ PopEvent \/ QueueEmpty \/ FanoutDone
      => ~Sending /\ ~Sending' /\ UNCHANGED <<out, stream, executed>>
  BY DEF Broadcast, PopEvent, QueueEmpty, FanoutDone, kernel, Sending
<1> QED
  BY <1>1, <1>2, <1>3, <1>4, <1>5

(* What a send() that takes a unit does. *)
LEMMA SendFacts ==
  ASSUME ServerInv, SendUnit
  PROVE  \E c \in Clients, unit \in Unit :
           /\ c = socket[out.fd] /\ out.fd \in Registered /\ peer[c] # "closed"
           /\ unit = <<out.message, out.offset + 1>>
           /\ stream' = [stream EXCEPT ![c] = Append(stream[c], unit)]
           /\ stream[c] \in Seq(Unit) /\ stream'[c] = Append(stream[c], unit)
           /\ \A d \in Clients : d # c => stream'[d] = stream[d]
           /\ UNCHANGED <<peer, backlog, socket, receiveBuffers, executed, batch, current,
                          clients, windowVars, history>>
           /\ \/ /\ out.offset + 1 < MessageUnits
                 /\ out' = [out EXCEPT !.offset = out.offset + 1]
                 /\ pc' = pc
              \/ /\ out.offset + 1 = MessageUnits
                 /\ out' = NothingOut
                 /\ pc' = IF pc = "answer" THEN "parse" ELSE "fanout"
<1> USE DEF ServerInv, CoreInv, TypeOK
<1>1. out.fd \in Registered
  BY DEF SendUnit, BatchInv, OutInv
<1>2. PICK c \in Clients : c = socket[out.fd] /\ peer[c] # "closed"
  BY <1>1, DescriptorOwner
<1>3. out.offset \in 0 .. MessageUnits - 1 /\ out.message \in Message
  BY DEF ThreadTypeOK
<1>4. PICK unit \in Unit : unit = <<out.message, out.offset + 1>>
  <2>1. out.offset + 1 \in 1 .. MessageUnits
    BY <1>3, SizesFacts
  <2>2. <<out.message, out.offset + 1>> \in Unit
    BY <1>3, <2>1 DEF Unit
  <2> QED
    BY <2>2
<1>5. stream' = [stream EXCEPT ![c] = Append(stream[c], unit)]
  BY <1>2, <1>4 DEF SendUnit
<1>6. stream'[c] = Append(stream[c], unit) /\ \A d \in Clients : d # c => stream'[d] = stream[d]
  BY <1>5 DEF TrafficTypeOK
<1>7. stream[c] \in Seq(Unit)
  BY DEF TrafficTypeOK, Unit
<1>8. UNCHANGED <<peer, backlog, socket, receiveBuffers, executed, batch, current, clients,
                  windowVars, history>>
  BY DEF SendUnit
<1>9. \/ /\ out.offset + 1 < MessageUnits
         /\ out' = [out EXCEPT !.offset = out.offset + 1]
         /\ pc' = pc
      \/ /\ ~(out.offset + 1 < MessageUnits)
         /\ out' = NothingOut
         /\ pc' = IF pc = "answer" THEN "parse" ELSE "fanout"
  BY DEF SendUnit
<1>10. out.offset + 1 < MessageUnits \/ out.offset + 1 = MessageUnits
  BY <1>3, SizesFacts
<1> QED
  BY <1>1, <1>2, <1>4, <1>5, <1>6, <1>7, <1>8, <1>9, <1>10

(* At the start nothing has been sent.                                        *)
LEMMA WholeInit == Init => WholeInv
BY DEF Init, WholeInv, OffsetInv, Sending, SendsTo, Ended, Whole

(* However send() cuts the messages, the streams consist of whole ones. *)
LEMMA WholeStep ==
  ASSUME ServerInv, WholeInv, [Next]_vars
  PROVE  WholeInv'
<1> USE DEF ServerInv, CoreInv, TypeOK
<1>0. NothingOut.offset = 0
  BY DEF NothingOut
<1>1. ASSUME UNCHANGED <<out, stream>>, ~Sending, ~Sending'
      PROVE  WholeInv'
  <2>1. \A c \in Clients : Ended(c)' <=> Ended(c)
    BY <1>1 DEF Ended
  <2>2. \A c \in Clients : Ended(c)' \/ peer'[c] = "closed"
    BY <1>1, <2>1, ClosedForGood DEF WholeInv, OffsetInv, SendsTo
  <2>3. OffsetInv'
    BY <1>1, <2>2 DEF WholeInv, OffsetInv
  <2> QED
    BY <1>1, <2>3 DEF WholeInv
<1>2. ASSUME UNCHANGED <<pc, out, socket, stream>>
      PROVE  WholeInv'
  <2>1. \A c \in Clients : (Ended(c)' <=> Ended(c)) /\ (SendsTo(c)' <=> SendsTo(c))
    BY <1>2 DEF Ended, SendsTo, Sending
  <2>2. \A c \in Clients : Ended(c)' \/ peer'[c] = "closed" \/ (SendsTo(c)' /\ out'.offset > 0)
    BY <1>2, <2>1, ClosedForGood DEF WholeInv, OffsetInv
  <2>3. OffsetInv'
    BY <1>2, <2>2 DEF WholeInv, OffsetInv, Sending
  <2> QED
    BY <1>2, <2>3 DEF WholeInv
<1>3. ASSUME ~Sending, Sending', out'.offset = 0, UNCHANGED <<peer, stream>>
      PROVE  WholeInv'
  <2>1. \A c \in Clients : Ended(c)' \/ peer'[c] = "closed"
    BY <1>3 DEF WholeInv, OffsetInv, SendsTo, Ended
  <2>2. OffsetInv'
    BY <1>3, <2>1 DEF OffsetInv
  <2> QED
    BY <1>3, <2>2 DEF WholeInv
<1>4. CASE SendFails
  <2>1. Closing(out.fd) /\ out' = NothingOut /\ ~Sending' /\ stream' = stream /\ Sending
    BY <1>4, ClosingSteps DEF SendFails, Sending
  <2>2. peer' = [peer EXCEPT ![socket[out.fd]] = "closed"]
    BY <2>1 DEF Closing, CloseSocket
  <2>3. \A c \in Clients : Ended(c)' \/ peer'[c] = "closed"
    <3> SUFFICES ASSUME NEW c \in Clients, ~Ended(c)', peer[c] # "closed"
                 PROVE  peer'[c] = "closed"
      BY <1>4, ClosedForGood
    <3>1. ~Ended(c)
      BY <2>1 DEF Ended
    <3>2. SendsTo(c)
      BY <3>1 DEF WholeInv, OffsetInv
    <3> QED
      BY <2>2, <3>2 DEF SendsTo, ConnectionsTypeOK
  <2>4. OffsetInv'
    BY <2>1, <2>3 DEF OffsetInv
  <2> QED
    BY <2>1, <2>4 DEF WholeInv
<1>5. CASE SendUnit
  <2>1. PICK c \in Clients, unit \in Unit :
           /\ c = socket[out.fd] /\ peer[c] # "closed"
           /\ unit = <<out.message, out.offset + 1>>
           /\ stream[c] \in Seq(Unit) /\ stream'[c] = Append(stream[c], unit)
           /\ \A d \in Clients : d # c => stream'[d] = stream[d]
           /\ UNCHANGED <<peer, socket>>
           /\ \/ /\ out.offset + 1 < MessageUnits
                 /\ out' = [out EXCEPT !.offset = out.offset + 1]
                 /\ pc' = pc
              \/ /\ out.offset + 1 = MessageUnits
                 /\ out' = NothingOut
                 /\ pc' = IF pc = "answer" THEN "parse" ELSE "fanout"
    BY <1>5, SendFacts
  <2>2. Sending
    BY <1>5 DEF SendUnit, Sending
  <2>3. /\ Len(stream[c]) \in Nat /\ Len(stream'[c]) = Len(stream[c]) + 1
        /\ stream'[c][Len(stream[c]) + 1] = unit /\ stream'[c] # <<>>
        /\ \A i \in 1 .. Len(stream[c]) : stream'[c][i] = stream[c][i]
    <3>1. stream[c] \in Seq(Unit) /\ unit \in Unit /\ stream'[c] = Append(stream[c], unit)
      BY <2>1
    <3> HIDE DEF Unit
    <3> QED
      BY <3>1, LenProperties, AppendProperties
  <2>4. Last(stream'[c]) = unit
    BY <2>3 DEF Last
  <2>5. out.offset \in Nat /\ out.message \in Message
    BY DEF ThreadTypeOK
  <2>6. \A d \in Clients : d # c => Ended(d)' \/ peer'[d] = "closed"
    BY <2>1 DEF WholeInv, OffsetInv, SendsTo, Ended
  <2>7. OffsetInv'
    <3>1. CASE out.offset + 1 < MessageUnits
      <4>1. /\ out'.offset = out.offset + 1 /\ out'.message = out.message
            /\ out'.fd = out.fd /\ pc' = pc
        BY <2>1, <3>1 DEF ThreadTypeOK
      <4>2. Sending' /\ SendsTo(c)' /\ out'.offset > 0
        BY <2>1, <2>2, <2>5, <4>1 DEF Sending, SendsTo
      <4>3. stream'[socket'[out'.fd]] # <<>>
            /\ Last(stream'[socket'[out'.fd]]) = <<out'.message, out'.offset>>
        BY <2>1, <2>3, <2>4, <4>1
      <4> QED
        BY <2>6, <4>2, <4>3 DEF OffsetInv
    <3>2. CASE ~(out.offset + 1 < MessageUnits)
      <4>1. out' = NothingOut /\ ~Sending' /\ unit[2] = MessageUnits
        BY <2>1, <2>2, <3>2 DEF Sending
      <4>2. Ended(c)'
        BY <2>4, <4>1 DEF Ended
      <4> QED
        BY <2>6, <4>1, <4>2 DEF OffsetInv
    <3> QED
      BY <3>1, <3>2
  <2>8. Whole(stream'[c])
    <3>1. stream[c] # <<>> => Len(stream[c]) > 0 /\ stream[c][1][2] = 1
      BY <2>1, EmptySeq DEF WholeInv, Whole
    <3>2. CASE out.offset = 0
      <4>1. stream[c] = <<>> \/ stream[c][Len(stream[c])][2] = MessageUnits
        BY <2>1, <3>2 DEF WholeInv, OffsetInv, Ended, Last
      <4>2. unit[2] = 1
        BY <2>1, <3>2
      <4>3. stream'[c][1][2] = 1
        BY <2>3, <3>1, <4>2, EmptySeq
      <4>4. ASSUME NEW i \in 1 .. Len(stream'[c]) - 1
            PROVE  IF stream'[c][i][2] = MessageUnits
                     THEN stream'[c][i + 1][2] = 1
                     ELSE stream'[c][i + 1] = <<stream'[c][i][1], stream'[c][i][2] + 1>>
        <5>1. i \in 1 .. Len(stream[c]) /\ stream'[c][i] = stream[c][i]
          BY <2>3
        <5>2. CASE i = Len(stream[c])
          <6>1. stream[c] # <<>>
            BY <5>1, <5>2, EmptySeq
          <6> QED
            BY <2>3, <4>1, <4>2, <5>1, <5>2, <6>1
        <5>3. CASE i # Len(stream[c])
          <6>1. i \in 1 .. Len(stream[c]) - 1 /\ i + 1 \in 1 .. Len(stream[c])
            BY <2>3, <5>1, <5>3
          <6> QED
            BY <2>3, <5>1, <6>1 DEF WholeInv, Whole
        <5> QED
          BY <5>2, <5>3
      <4> QED
        BY <4>3, <4>4 DEF Whole
    <3>3. CASE out.offset # 0
      <4>1. /\ stream[c] # <<>>
            /\ stream[c][Len(stream[c])] = <<out.message, out.offset>>
        <5>1. Sending /\ out.offset > 0 /\ socket[out.fd] = c
          BY <2>1, <2>2, <2>5, <3>3
        <5>2. stream[c] # <<>> /\ Last(stream[c]) = <<out.message, out.offset>>
          BY <5>1 DEF WholeInv, OffsetInv
        <5> QED
          BY <5>2 DEF Last
      <4>2. /\ unit = <<out.message, out.offset + 1>> /\ out.offset # MessageUnits
        BY <2>1, SizesFacts DEF ThreadTypeOK
      <4>3. stream'[c][1][2] = 1
        BY <2>3, <3>1, <4>1
      <4>4. ASSUME NEW i \in 1 .. Len(stream'[c]) - 1
            PROVE  IF stream'[c][i][2] = MessageUnits
                     THEN stream'[c][i + 1][2] = 1
                     ELSE stream'[c][i + 1] = <<stream'[c][i][1], stream'[c][i][2] + 1>>
        <5>1. i \in 1 .. Len(stream[c]) /\ stream'[c][i] = stream[c][i]
          BY <2>3
        <5>2. CASE i = Len(stream[c])
          BY <2>3, <4>1, <4>2, <5>1, <5>2
        <5>3. CASE i # Len(stream[c])
          <6>1. i \in 1 .. Len(stream[c]) - 1 /\ i + 1 \in 1 .. Len(stream[c])
            BY <2>3, <5>1, <5>3
          <6> QED
            BY <2>3, <5>1, <6>1 DEF WholeInv, Whole
        <5> QED
          BY <5>2, <5>3
      <4> QED
        BY <4>3, <4>4 DEF Whole
    <3> QED
      BY <3>2, <3>3
  <2>9. \A d \in Clients : d # c => Whole(stream'[d])
    BY <2>1 DEF WholeInv
  <2> QED
    BY <2>7, <2>8, <2>9 DEF WholeInv
<1>6. CASE Execute
  <2>1. ~Sending /\ Sending' /\ out'.offset = 0 /\ UNCHANGED <<peer, stream>>
    BY <1>6 DEF Execute, Sending, kernel
  <2> QED
    BY <1>3, <2>1
<1>7. ASSUME NEW fd \in Descriptors, SendEvent(fd)
      PROVE  WholeInv'
  <2>1. ~Sending /\ Sending' /\ out'.offset = 0 /\ UNCHANGED <<peer, stream>>
    BY <1>7 DEF SendEvent, Sending, kernel
  <2> QED
    BY <1>3, <2>1
<1>8. UNCHANGED <<thread, socket, stream, executed, receiveBuffers, history, delivered>>
      => WholeInv'
  BY <1>2 DEF thread
<1> QED
  BY <1>1, <1>4, <1>5, <1>6, <1>7, <1>8, QuietSteps, ServerUntouched
     DEF Next, ClientNext, Server

(* In every reachable state the streams are whole. *)
THEOREM WholeInvariance == Spec => [](ServerInv /\ WholeInv)
<1>1. Init => ServerInv /\ WholeInv
  BY ServerInit, WholeInit
<1>2. ServerInv /\ WholeInv /\ [Next]_vars => (ServerInv /\ WholeInv)'
  BY ServerStep, WholeStep
<1> QED
  BY <1>1, <1>2, PTL DEF Spec

(* Only a connection that was closed, or the one to which a message is being  *)
(* sent, may end within a message, whatever send() accepted each time.        *)
THEOREM MessagesAreWhole == Spec => []WholeMessages
<1>1. ASSUME ServerInv, WholeInv
      PROVE  WholeMessages
  <2>1. ASSUME NEW c \in Clients, stream[c] # <<>>, Last(stream[c])[2] < MessageUnits,
               peer[c] # "closed"
        PROVE  /\ out.fd \in Registered
               /\ socket[out.fd] = c
               /\ Last(stream[c]) = <<out.message, out.offset>>
    <3>1. ~Ended(c)
      BY <2>1, SizesFacts DEF Ended
    <3>2. SendsTo(c) /\ out.offset > 0
      BY <1>1, <2>1, <3>1 DEF WholeInv, OffsetInv
    <3>3. out.fd \in Registered
      BY <1>1, <3>2 DEF SendsTo, Sending, ServerInv, CoreInv, BatchInv, OutInv
    <3> QED
      BY <1>1, <3>2, <3>3 DEF WholeInv, OffsetInv, SendsTo
  <2> QED
    BY <1>1, <2>1 DEF WholeMessages, WholeInv, Whole
<1> QED
  BY <1>1, WholeInvariance, PTL

-----------------------------------------------------------------------------
(* The numbers of the messages begun in a stream. *)

(* g[i] lists what is begun in the first i units of s. *)
Lists(g, s, kind, n) ==
  /\ g[0] = <<>>
  /\ \A i \in 1 .. n : g[i] = IF Begins(s[i], kind)
                               THEN Append(g[i - 1], s[i][1].number) ELSE g[i - 1]

(* Lists along streams that agree are equal. *)
LEMMA ListsAgree ==
  ASSUME NEW kind, NEW s, NEW t, NEW n \in Nat, NEW g, NEW h,
         Lists(g, s, kind, n), Lists(h, t, kind, n), \A i \in 1 .. n : s[i] = t[i]
  PROVE  \A i \in 0 .. n : g[i] = h[i]
<1> DEFINE P(i) == i <= n => g[i] = h[i]
           S == {i \in Nat : P(i)}
<1>1. 0 \in S
  BY DEF Lists
<1>2. ASSUME NEW i \in S PROVE i + 1 \in S
  <2>1. i \in Nat /\ (i <= n => g[i] = h[i])
    OBVIOUS
  <2>2. ASSUME i + 1 <= n PROVE g[i + 1] = h[i + 1]
    <3>1. i + 1 \in 1 .. n /\ (i + 1) - 1 = i /\ g[i] = h[i]
      BY <2>1, <2>2
    <3>2. g[i + 1] = IF Begins(s[i + 1], kind)
                       THEN Append(g[i], s[i + 1][1].number) ELSE g[i]
      BY <3>1 DEF Lists
    <3>3. h[i + 1] = IF Begins(t[i + 1], kind)
                       THEN Append(h[i], t[i + 1][1].number) ELSE h[i]
      BY <3>1 DEF Lists
    <3> QED
      BY <3>1, <3>2, <3>3
  <2> QED
    BY <2>1, <2>2
<1> HIDE DEF P
<1>3. S = Nat
  BY <1>1, <1>2, NatSetInduction
<1> QED
  BY <1>3 DEF P

(* The list exists, and is one of numbers. *)
LEMMA NumbersAlong ==
  ASSUME NEW kind, NEW s \in Seq(Unit)
  PROVE  \E g \in [0 .. Len(s) -> Seq(Nat)] :
           NumbersIn(s, kind) = g[Len(s)] /\ Lists(g, s, kind, Len(s))
<1> DEFINE Solves(g) == g = [i \in 0 .. Len(s) |->
                               IF i = 0 THEN <<>>
                               ELSE IF Begins(s[i], kind) THEN Append(g[i - 1], s[i][1].number)
                               ELSE g[i - 1]]
           step == [p \in Seq(Nat) \X Unit |->
                      IF Begins(p[2], kind) THEN Append(p[1], p[2][1].number) ELSE p[1]]
<1>1. Len(s) \in Nat
  BY LenProperties
<1>2. step \in [Seq(Nat) \X Unit -> Seq(Nat)]
  <2>1. ASSUME NEW p \in Seq(Nat) \X Unit
        PROVE  (IF Begins(p[2], kind) THEN Append(p[1], p[2][1].number) ELSE p[1]) \in Seq(Nat)
    <3>1. p[1] \in Seq(Nat) /\ p[2] \in Unit
      OBVIOUS
    <3>2. p[2][1].number \in Nat
      BY <3>1 DEF Unit, Message
    <3> QED
      BY <3>1, <3>2, AppendProperties
  <2> QED
    BY <2>1
<1>3. \A list \in Seq(Nat), unit \in Unit :
        step[<<list, unit>>] = IF Begins(unit, kind) THEN Append(list, unit[1].number) ELSE list
  OBVIOUS
<1>4. <<>> \in Seq(Nat)
  OBVIOUS
<1> HIDE DEF step
<1>5. PICK g \in [0 .. Len(s) -> Seq(Nat)] : Accumulates(g, step, <<>>, s, Len(s))
  BY <1>2, <1>4, AccumulationExists
<1>6. g[0] = <<>>
  BY <1>1, <1>5 DEF Accumulates
<1>7. ASSUME NEW i \in 1 .. Len(s)
      PROVE  g[i] = IF Begins(s[i], kind) THEN Append(g[i - 1], s[i][1].number) ELSE g[i - 1]
  <2>1. i \in 0 .. Len(s) /\ i # 0 /\ i - 1 \in 0 .. Len(s)
    BY <1>1
  <2>2. g[i] = step[<<g[i - 1], s[i]>>]
    BY <1>5, <2>1 DEF Accumulates
  <2>3. g[i - 1] \in Seq(Nat) /\ s[i] \in Unit
    BY <2>1, ElementOfSeq
  <2> QED
    BY <1>3, <2>2, <2>3
<1>8. Solves(g)
  <2>1. \A i \in 0 .. Len(s) : i # 0 => i \in 1 .. Len(s)
    BY <1>1
  <2>2. g = [i \in 0 .. Len(s) |-> g[i]]
    OBVIOUS
  <2>3. \A i \in 0 .. Len(s) :
          g[i] = IF i = 0 THEN <<>>
                 ELSE IF Begins(s[i], kind) THEN Append(g[i - 1], s[i][1].number)
                 ELSE g[i - 1]
    BY <1>6, <1>7, <2>1
  <2> QED
    BY <2>2, <2>3
<1> DEFINE numbers == CHOOSE f : Solves(f)
<1> HIDE DEF Solves
<1>9. Solves(numbers)
  BY <1>8
<1>10. NumbersIn(s, kind) = numbers[Len(s)]
  BY DEF NumbersIn, numbers, Solves
<1> HIDE DEF numbers
<1>11. numbers[0] = <<>>
  BY <1>1, <1>9 DEF Solves
<1>12. ASSUME NEW i \in 1 .. Len(s)
       PROVE  numbers[i] = IF Begins(s[i], kind)
                THEN Append(numbers[i - 1], s[i][1].number) ELSE numbers[i - 1]
  <2>1. i \in 0 .. Len(s) /\ i # 0
    BY <1>1
  <2> QED
    BY <1>9, <2>1 DEF Solves
<1>13. Lists(g, s, kind, Len(s)) /\ Lists(numbers, s, kind, Len(s))
  BY <1>6, <1>7, <1>11, <1>12 DEF Lists
<1>14. \A i \in 0 .. Len(s) : numbers[i] = g[i]
  BY <1>1, <1>13, ListsAgree
<1>15. Len(s) \in 0 .. Len(s)
  BY <1>1
<1> QED
  BY <1>10, <1>13, <1>14, <1>15

(* Nothing is begun in an empty stream; and what one more unit begins.        *)
LEMMA NumbersFacts ==
  ASSUME NEW kind
  PROVE  /\ NumbersIn(<<>>, kind) = <<>>
         /\ \A s \in Seq(Unit) : NumbersIn(s, kind) \in Seq(Nat)
         /\ \A s \in Seq(Unit), unit \in Unit :
              NumbersIn(Append(s, unit), kind)
                = IF Begins(unit, kind) THEN Append(NumbersIn(s, kind), unit[1].number)
                  ELSE NumbersIn(s, kind)
<1>1. NumbersIn(<<>>, kind) = <<>>
  <2>1. <<>> \in Seq(Unit) /\ Len(<<>>) = 0
    OBVIOUS
  <2>2. PICK g : /\ NumbersIn(<<>>, kind) = g[Len(<<>>)]
                 /\ Lists(g, <<>>, kind, Len(<<>>))
    BY <2>1, NumbersAlong
  <2> QED
    BY <2>1, <2>2 DEF Lists
<1>2. ASSUME NEW s \in Seq(Unit) PROVE NumbersIn(s, kind) \in Seq(Nat)
  <2>1. Len(s) \in 0 .. Len(s)
    BY LenProperties
  <2> QED
    BY <2>1, NumbersAlong
<1>3. ASSUME NEW s \in Seq(Unit), NEW unit \in Unit
      PROVE  NumbersIn(Append(s, unit), kind)
               = IF Begins(unit, kind) THEN Append(NumbersIn(s, kind), unit[1].number)
                 ELSE NumbersIn(s, kind)
  <2> DEFINE t == Append(s, unit)
  <2>1. /\ t \in Seq(Unit) /\ Len(s) \in Nat /\ Len(t) = Len(s) + 1
        /\ t[Len(s) + 1] = unit /\ \A i \in 1 .. Len(s) : t[i] = s[i]
    BY LenProperties, AppendProperties
  <2> HIDE DEF t
  <2>2. PICK g : NumbersIn(s, kind) = g[Len(s)] /\ Lists(g, s, kind, Len(s))
    BY NumbersAlong
  <2>3. PICK h : NumbersIn(t, kind) = h[Len(t)] /\ Lists(h, t, kind, Len(t))
    BY <2>1, NumbersAlong
  <2>4. Lists(h, t, kind, Len(s))
    BY <2>1, <2>3 DEF Lists
  <2>5. \A i \in 0 .. Len(s) : g[i] = h[i]
    BY <2>1, <2>2, <2>4, ListsAgree
  <2>6. /\ Len(t) \in 1 .. Len(t) /\ Len(t) - 1 = Len(s) /\ t[Len(t)] = unit
        /\ Len(s) \in 0 .. Len(s)
    BY <2>1
  <2>7. h[Len(t)] = IF Begins(unit, kind) THEN Append(h[Len(s)], unit[1].number)
                    ELSE h[Len(s)]
    BY <2>3, <2>6 DEF Lists
  <2> QED
    BY <2>2, <2>3, <2>5, <2>6, <2>7 DEF t
<1> QED
  BY <1>1, <1>2, <1>3

(* What a send() that takes a unit begins. *)
LEMMA SendNumbers ==
  ASSUME ServerInv, SendUnit, NEW kind
  PROVE  \E c \in Clients :
           /\ c = socket[out.fd] /\ peer[c] # "closed"
           /\ Numbers(c, kind)' = IF out.message.kind = kind /\ out.offset = 0
                                    THEN Append(Numbers(c, kind), out.message.number)
                                    ELSE Numbers(c, kind)
           /\ \A d \in Clients : d # c => Numbers(d, kind)' = Numbers(d, kind)
<1>1. PICK c \in Clients, unit \in Unit :
        /\ c = socket[out.fd] /\ peer[c] # "closed"
        /\ unit = <<out.message, out.offset + 1>>
        /\ stream[c] \in Seq(Unit) /\ stream'[c] = Append(stream[c], unit)
        /\ \A d \in Clients : d # c => stream'[d] = stream[d]
  BY SendFacts
<1>2. out.offset \in Nat
  BY DEF ServerInv, CoreInv, TypeOK, ThreadTypeOK
<1>3. unit[1] = out.message /\ (unit[2] = 1 <=> out.offset = 0)
  BY <1>1, <1>2
<1>4. Begins(unit, kind) <=> out.message.kind = kind /\ out.offset = 0
  BY <1>3 DEF Begins
<1>5. NumbersIn(stream'[c], kind)
        = IF Begins(unit, kind) THEN Append(NumbersIn(stream[c], kind), unit[1].number)
          ELSE NumbersIn(stream[c], kind)
  BY <1>1, NumbersFacts
<1> QED
  BY <1>1, <1>3, <1>4, <1>5 DEF Numbers

-----------------------------------------------------------------------------
(* Answers. *)

(* A complete request is found in a buffer only while it is being parsed. *)
PendingInv ==
  \A fd \in Registered : RequestPending(fd) => pc \in {"parse", "answer"} /\ fd = current.fd

(* At the start no buffer holds a request.                                    *)
LEMMA PendingInit == Init => PendingInv
BY DEF Init, PendingInv, Registered

(* The server reads on only when it has found every request. *)
LEMMA PendingStep ==
  ASSUME ServerInv, PendingInv, [Next]_vars
  PROVE  PendingInv'
<1> USE DEF ServerInv, CoreInv, TypeOK
<1>1. ASSUME UNCHANGED <<socket, receiveBuffers, executed>>
      PROVE  Registered' = Registered
             /\ \A fd \in Registered : RequestPending(fd)' <=> RequestPending(fd)
  BY <1>1 DEF Registered, RequestPending, Pending
<1>2. ASSUME UNCHANGED <<socket, receiveBuffers, executed, pc, current>>
      PROVE  PendingInv'
  BY <1>1, <1>2 DEF PendingInv
<1>3. ASSUME UNCHANGED <<socket, receiveBuffers, executed>>, pc \notin {"parse", "answer"}
      PROVE  PendingInv'
  BY <1>1, <1>3 DEF PendingInv
<1>4. ASSUME NEW fd, Closing(fd), UNCHANGED executed,
             pc \in {"parse", "answer"} => fd = current.fd
      PROVE  PendingInv'
  <2>1. Registered' = Registered \ {fd}
        /\ \A g \in Registered' : socket'[g] = socket[g] /\ Pending(g)' = Pending(g)
    BY <1>4, CloseSocketFacts DEF Closing
  <2>2. \A g \in Registered' : RequestPending(g)' <=> RequestPending(g)
    BY <1>4, <2>1 DEF RequestPending
  <2> QED
    BY <1>4, <2>1, <2>2 DEF PendingInv
<1>5. CASE Accept
  <2>1. PICK fd \in Descriptors : fd = Min(Free) /\ socket[fd] = NONE
    BY <1>5, MinOfDescriptors DEF Accept, Free
  <2>2. PICK c \in Clients : c = Head(backlog) /\ Waits(c)
    BY <1>5, BacklogFacts DEF Accept
  <2>3. /\ socket' = [socket EXCEPT ![fd] = c]
        /\ receiveBuffers' = WithBuffer(fd, 0)
        /\ UNCHANGED <<executed, thread>> /\ pc = "accept"
    BY <1>5, <2>1, <2>2 DEF Accept
  <2>4. \A g \in Registered' : g # fd =>
          g \in Registered /\ socket'[g] = socket[g] /\ Pending(g)' = Pending(g)
    BY <2>1, <2>3 DEF Registered, Pending, WithBuffer, ConnectionsTypeOK
  <2>5. socket'[fd] = c /\ Pending(fd)' = 0
    BY <2>1, <2>3 DEF Pending, WithBuffer, ConnectionsTypeOK
  <2>6. ~RequestPending(fd)'
    <3> SUFFICES ASSUME executed[c] < Len(Requests[c]), 0 >= Requests[c][executed[c] + 1]
                 PROVE  FALSE
      BY <2>3, <2>5 DEF RequestPending
    <3>1. executed[c] + 1 \in 1 .. Len(Requests[c])
      BY SizesFacts DEF DataTypeOK
    <3>2. Requests[c][executed[c] + 1] \in Nat \ {0}
      BY <3>1, SizesFacts, ElementOfSeq
    <3> QED
      BY <3>2
  <2>7. \A g \in Registered' : g # fd => (RequestPending(g)' <=> RequestPending(g))
    BY <2>3, <2>4 DEF RequestPending
  <2> QED
    BY <2>3, <2>4, <2>6, <2>7 DEF PendingInv
<1>6. CASE RecvData
  <2>1. PICK fd \in Registered, units \in Nat :
          /\ fd = current.fd /\ executed' = executed
          /\ \/ CloseSocket(fd)
             \/ /\ receiveBuffers' = WithBuffer(fd, Pending(fd) + units)
                /\ pc' = "parse"
                /\ UNCHANGED <<peer, unread, socket, watched>>
    BY <1>6, RecvFacts
  <2>2. pc = "recv" /\ backlog' = backlog /\ current' = current
    BY <1>6 DEF RecvData
  <2>3. CASE CloseSocket(fd)
    BY <1>4, <2>1, <2>2, <2>3 DEF Closing
  <2>4. CASE receiveBuffers' = WithBuffer(fd, Pending(fd) + units) /\ pc' = "parse"
             /\ UNCHANGED socket
    <3>1. \A g \in Registered : g # fd => Pending(g)' = Pending(g)
      BY <2>4 DEF Pending, WithBuffer
    <3>2. Registered' = Registered
      BY <2>4 DEF Registered
    <3>3. \A g \in Registered : g # fd => (RequestPending(g)' <=> RequestPending(g))
      BY <2>1, <2>4, <3>1 DEF RequestPending
    <3> QED
      BY <2>1, <2>2, <2>4, <3>2, <3>3 DEF PendingInv
  <2> QED
    BY <2>1, <2>3, <2>4
<1>7. CASE Execute
  <2>1. PICK fd \in Registered :
          LET c == socket[fd]
              size == Requests[c][executed[c] + 1]
          IN  /\ fd = current.fd /\ c \in Clients
              /\ receiveBuffers' = [receiveBuffers EXCEPT ![fd] = receiveBuffers[fd] - size]
              /\ executed' = [executed EXCEPT ![c] = executed[c] + 1]
              /\ pc' = "answer"
              /\ UNCHANGED <<kernel, current>>
    BY <1>7, ExecuteFacts
  <2>2. Registered' = Registered /\ UNCHANGED socket
    BY <2>1 DEF kernel, Registered
  <2>3. \A g \in Registered : g # fd => socket[g] \in Clients /\ socket[g] # socket[fd]
    BY RegisteredFacts DEF PlacesInv
  <2>4. \A g \in Registered : g # fd =>
          Pending(g)' = Pending(g) /\ executed'[socket[g]] = executed[socket[g]]
    BY <2>1, <2>3 DEF Pending, DataTypeOK
  <2>5. \A g \in Registered : g # fd => (RequestPending(g)' <=> RequestPending(g))
    BY <2>2, <2>4 DEF RequestPending
  <2>6. pc = "parse"
    BY <1>7 DEF Execute
  <2> QED
    BY <2>1, <2>2, <2>5, <2>6 DEF PendingInv
<1>8. CASE ParseDone
  <2>1. /\ UNCHANGED <<socket, receiveBuffers, executed>>
        /\ ~RequestPending(current.fd)
    BY <1>8 DEF ParseDone, kernel
  <2> QED
    BY <1>1, <2>1 DEF PendingInv
<1>9. CASE SendUnit
  <2>1. /\ UNCHANGED <<socket, receiveBuffers, executed, current>>
        /\ pc = "answer" => pc' \in {"answer", "parse"}
        /\ pc \in {"answer", "push"}
    BY <1>9 DEF SendUnit
  <2> QED
    BY <1>1, <2>1 DEF PendingInv
<1>10. CASE SendFails
  <2>1. /\ Closing(out.fd) /\ UNCHANGED executed /\ pc \in {"answer", "push"}
    BY <1>10, ClosingSteps DEF SendFails
  <2> QED
    BY <1>4, <2>1 DEF OutInv
<1>11. CASE RecvEnds \/ RecvAgain
  <2>1. pc = "recv" /\ executed' = executed
    BY <1>11 DEF RecvEnds, RecvAgain
  <2>2. Closing(current.fd) \/ UNCHANGED <<socket, receiveBuffers>>
    BY <1>11, ClosingSteps
  <2> QED
    BY <1>3, <1>4, <2>1, <2>2
<1>12. CASE \/ EpollWait \/ Dispatch \/ BatchDone \/ AcceptEnds \/ AcceptSetupFails
            \/ Broadcast \/ PopEvent \/ QueueEmpty \/ FanoutDone
            \/ \E fd \in Descriptors : SendEvent(fd)
  <2>1. pc \notin {"parse", "answer"}
    BY <1>12 DEF EpollWait, Dispatch, BatchDone, AcceptEnds, AcceptSetupFails, Broadcast,
                 PopEvent, QueueEmpty, FanoutDone, SendEvent
  <2>2. UNCHANGED <<socket, receiveBuffers, executed>>
    BY <1>12 DEF EpollWait, Dispatch, BatchDone, AcceptEnds, AcceptSetupFails, Broadcast,
                 PopEvent, QueueEmpty, FanoutDone, SendEvent, kernel
  <2> QED
    BY <1>3, <2>1, <2>2
<1>13. UNCHANGED <<thread, socket, stream, executed, receiveBuffers, history, delivered>>
       => PendingInv'
  BY <1>2 DEF thread
<1> QED
  BY <1>5, <1>6, <1>7, <1>8, <1>9, <1>10, <1>11, <1>12, <1>13, ServerUntouched
     DEF Next, ClientNext, Server

(* The numbers of the first n requests. *)
UpTo(n) == [i \in 1 .. n |-> i]

(* The response to the last request executed is still to be begun. *)
Owed(c) == pc = "answer" /\ SendsTo(c) /\ out.offset = 0

(* Every request executed is answered, but for one whose response is owed or  *)
(* whose connection was closed with it.                                       *)
AnswersInv ==
  /\ pc = "answer" =>
       out.message = [kind |-> "RES", number |-> executed[socket[out.fd]]]
  /\ pc = "push" => out.message.kind = "EVENT"
  /\ \A c \in Clients :
       \/ Numbers(c, "RES") = UpTo(executed[c]) /\ ~Owed(c)
       \/ /\ executed[c] > 0 /\ Numbers(c, "RES") = UpTo(executed[c] - 1)
          /\ Owed(c) \/ peer[c] = "closed"

(* At the start nothing has been executed or answered.                        *)
LEMMA AnswersInit == Init => AnswersInv
<1> SUFFICES ASSUME Init PROVE AnswersInv
  OBVIOUS
<1>1. ASSUME NEW c \in Clients PROVE Numbers(c, "RES") = UpTo(executed[c])
  <2>1. Numbers(c, "RES") = <<>> /\ executed[c] = 0
    BY NumbersFacts DEF Init, Numbers
  <2>2. UpTo(0) = <<>>
    BY DEF UpTo
  <2> QED
    BY <2>1, <2>2
<1> QED
  BY <1>1 DEF Init, AnswersInv, Owed

(* Executing a request makes an answer owed; beginning to send it answers.    *)
LEMMA AnswersStep ==
  ASSUME ServerInv, AnswersInv, [Next]_vars
  PROVE  AnswersInv'
<1> USE DEF ServerInv, CoreInv, TypeOK
<1>0. \A c \in Clients : executed[c] \in Nat
  BY DEF DataTypeOK
<1>1. ASSUME UNCHANGED <<stream, executed>>, ~Sending', SendFails \/ ~Sending
      PROVE  AnswersInv'
  <2> SUFFICES ASSUME NEW c \in Clients
               PROVE  \/ Numbers(c, "RES")' = UpTo(executed'[c]) /\ ~Owed(c)'
                      \/ /\ executed'[c] > 0 /\ Numbers(c, "RES")' = UpTo(executed'[c] - 1)
                         /\ Owed(c)' \/ peer'[c] = "closed"
    BY <1>1 DEF AnswersInv, Sending
  <2>1. ~Owed(c)'
    BY <1>1 DEF Owed, Sending
  <2>2. Numbers(c, "RES")' = Numbers(c, "RES")
    BY <1>1 DEF Numbers
  <2>3. CASE Numbers(c, "RES") = UpTo(executed[c])
    BY <1>1, <2>1, <2>2, <2>3
  <2>4. CASE Numbers(c, "RES") # UpTo(executed[c])
    <3>1. /\ executed[c] > 0 /\ Numbers(c, "RES") = UpTo(executed[c] - 1)
          /\ Owed(c) \/ peer[c] = "closed"
      BY <2>4 DEF AnswersInv
    <3>2. peer'[c] = "closed"
      <4>1. CASE peer[c] = "closed"
        BY <4>1, ClosedForGood
      <4>2. CASE Owed(c)
        <5>1. SendFails /\ socket[out.fd] = c
          BY <1>1, <4>2 DEF Owed, SendsTo
        <5>2. peer' = [peer EXCEPT ![socket[out.fd]] = "closed"]
          BY <5>1 DEF SendFails, CloseSocket
        <5> QED
          BY <5>1, <5>2 DEF ConnectionsTypeOK
      <4> QED
        BY <3>1, <4>1, <4>2
    <3> QED
      BY <1>1, <2>2, <3>1, <3>2
  <2> QED
    BY <2>3, <2>4
<1>2. ASSUME UNCHANGED <<stream, executed, out, pc, socket>>
      PROVE  AnswersInv'
  <2>1. \A c \in Clients : Owed(c)' <=> Owed(c)
    BY <1>2 DEF Owed, SendsTo, Sending
  <2>2. \A c \in Clients : Numbers(c, "RES")' = Numbers(c, "RES")
    BY <1>2 DEF Numbers
  <2>3. \A c \in Clients : peer[c] = "closed" => peer'[c] = "closed"
    BY ClosedForGood
  <2>4. /\ pc' = "answer" =>
             out'.message = [kind |-> "RES", number |-> executed'[socket'[out'.fd]]]
        /\ pc' = "push" => out'.message.kind = "EVENT"
    BY <1>2 DEF AnswersInv
  <2>5. \A c \in Clients :
          \/ Numbers(c, "RES")' = UpTo(executed'[c]) /\ ~Owed(c)'
          \/ /\ executed'[c] > 0 /\ Numbers(c, "RES")' = UpTo(executed'[c] - 1)
             /\ Owed(c)' \/ peer'[c] = "closed"
    BY <1>2, <2>1, <2>2, <2>3 DEF AnswersInv
  <2> QED
    BY <2>4, <2>5 DEF AnswersInv
<1>3. ASSUME NEW fd \in Descriptors, SendEvent(fd)
      PROVE  AnswersInv'
  <2>1. /\ pc = "fanout" /\ pc' = "push" /\ out'.message.kind = "EVENT"
        /\ UNCHANGED <<stream, executed, peer>>
    BY <1>3 DEF SendEvent, kernel
  <2>2. \A c \in Clients : ~Owed(c) /\ ~Owed(c)'
    BY <2>1 DEF Owed
  <2>3. \A c \in Clients : Numbers(c, "RES")' = Numbers(c, "RES")
    BY <2>1 DEF Numbers
  <2> QED
    BY <2>1, <2>2, <2>3 DEF AnswersInv
<1>4. CASE Execute
  <2>1. PICK fd \in Registered :
          LET c == socket[fd]
          IN  /\ c \in Clients
              /\ executed' = [executed EXCEPT ![c] = executed[c] + 1]
              /\ out' = [fd |-> fd,
                         message |-> [kind |-> "RES", number |-> executed[c] + 1],
                         offset |-> 0]
              /\ pc' = "answer"
              /\ UNCHANGED kernel
    BY <1>4, ExecuteFacts
  <2>2. PICK c \in Clients : c = socket[fd] /\ peer[c] # "closed"
    BY DescriptorOwner
  <2>3. /\ executed'[c] = executed[c] + 1
        /\ \A d \in Clients : d # c => executed'[d] = executed[d]
        /\ UNCHANGED <<socket, stream, peer>>
    BY <2>1, <2>2 DEF DataTypeOK, kernel
  <2>4. pc = "parse"
    BY <1>4 DEF Execute
  <2>5. \A d \in Clients : ~Owed(d) /\ (Owed(d)' <=> d = c)
    BY <2>1, <2>2, <2>3, <2>4 DEF Owed, SendsTo, Sending
  <2>6. \A d \in Clients : Numbers(d, "RES")' = Numbers(d, "RES")
    BY <2>3 DEF Numbers
  <2>7. executed'[c] > 0 /\ Numbers(c, "RES")' = UpTo(executed'[c] - 1)
    <3>1. Numbers(c, "RES") = UpTo(executed[c])
      BY <2>2, <2>5 DEF AnswersInv
    <3>2. executed'[c] > 0 /\ executed'[c] - 1 = executed[c]
      BY <1>0, <2>3
    <3> QED
      BY <2>6, <3>1, <3>2
  <2>8. ASSUME NEW d \in Clients, d # c
        PROVE  \/ Numbers(d, "RES")' = UpTo(executed'[d]) /\ ~Owed(d)'
               \/ /\ executed'[d] > 0 /\ Numbers(d, "RES")' = UpTo(executed'[d] - 1)
                  /\ Owed(d)' \/ peer'[d] = "closed"
    BY <2>3, <2>5, <2>6, <2>8 DEF AnswersInv
  <2>9. out'.message = [kind |-> "RES", number |-> executed'[socket'[out'.fd]]]
    BY <2>1, <2>2, <2>3
  <2> QED
    BY <2>1, <2>5, <2>7, <2>8, <2>9 DEF AnswersInv
<1>5. CASE SendUnit
  <2>1. PICK c \in Clients :
          /\ c = socket[out.fd] /\ peer[c] # "closed"
          /\ Numbers(c, "RES")' = IF out.message.kind = "RES" /\ out.offset = 0
                                    THEN Append(Numbers(c, "RES"), out.message.number)
                                    ELSE Numbers(c, "RES")
          /\ \A d \in Clients : d # c => Numbers(d, "RES")' = Numbers(d, "RES")
    BY <1>5, SendNumbers
  <2>2. /\ UNCHANGED <<peer, socket, executed>>
        /\ \/ /\ out' = [out EXCEPT !.offset = out.offset + 1]
              /\ pc' = pc
           \/ /\ out' = NothingOut
              /\ pc' = IF pc = "answer" THEN "parse" ELSE "fanout"
    BY <1>5, SendFacts
  <2>3. pc \in {"answer", "push"} /\ out.offset \in Nat
    BY <1>5 DEF SendUnit, ThreadTypeOK
  <2>4. \A d \in Clients : ~Owed(d)'
    <3>1. CASE pc' = pc /\ out' = [out EXCEPT !.offset = out.offset + 1]
      <4>1. out'.offset # 0
        BY <2>3, <3>1 DEF ThreadTypeOK
      <4> QED
        BY <4>1 DEF Owed
    <3>2. CASE pc' \in {"parse", "fanout"}
      BY <3>2 DEF Owed
    <3> QED
      BY <2>2, <3>1, <3>2
  <2>5. /\ pc' = "answer" =>
             out'.message = [kind |-> "RES", number |-> executed'[socket'[out'.fd]]]
        /\ pc' = "push" => out'.message.kind = "EVENT"
    <3>1. CASE pc' = pc /\ out' = [out EXCEPT !.offset = out.offset + 1]
      <4>1. out'.message = out.message /\ out'.fd = out.fd
        BY <3>1 DEF ThreadTypeOK
      <4> QED
        BY <2>2, <3>1, <4>1 DEF AnswersInv
    <3>2. CASE pc' \in {"parse", "fanout"}
      BY <3>2
    <3> QED
      BY <2>2, <3>1, <3>2
  <2>6. Numbers(c, "RES")' = UpTo(executed'[c])
    <3>1. CASE Owed(c)
      <4>1. executed[c] \in Nat /\ executed[c] > 0 /\ Numbers(c, "RES") = UpTo(executed[c] - 1)
        BY <1>0, <3>1 DEF AnswersInv
      <4>2. out.message = [kind |-> "RES", number |-> executed[c]] /\ out.offset = 0
        BY <2>1, <3>1 DEF AnswersInv, Owed
      <4>3. Numbers(c, "RES")' = Append(UpTo(executed[c] - 1), executed[c])
        BY <2>1, <4>1, <4>2
      <4>4. \A n \in Nat : n > 0 =>
              Append(UpTo(n - 1), n) = UpTo(n)
        BY DEF UpTo
      <4> QED
        BY <2>2, <4>1, <4>3, <4>4 DEF UpTo
    <3>2. CASE ~Owed(c)
      <4>1. Numbers(c, "RES") = UpTo(executed[c])
        BY <2>1, <3>2 DEF AnswersInv
      <4>2. pc = "push" \/ out.offset # 0
        BY <2>1, <2>3, <3>2 DEF Owed, SendsTo, Sending
      <4>3. Numbers(c, "RES")' = Numbers(c, "RES")
        BY <2>1, <4>2 DEF AnswersInv
      <4> QED
        BY <2>2, <4>1, <4>3
    <3> QED
      BY <3>1, <3>2
  <2>7. ASSUME NEW d \in Clients, d # c
        PROVE  \/ Numbers(d, "RES")' = UpTo(executed'[d]) /\ ~Owed(d)'
               \/ /\ executed'[d] > 0 /\ Numbers(d, "RES")' = UpTo(executed'[d] - 1)
                  /\ Owed(d)' \/ peer'[d] = "closed"
    <3>1. ~Owed(d)
      BY <2>1, <2>7 DEF Owed, SendsTo
    <3>2. Numbers(d, "RES")' = Numbers(d, "RES")
      BY <2>1, <2>7
    <3> QED
      BY <2>2, <2>4, <3>1, <3>2 DEF AnswersInv
  <2> QED
    BY <2>4, <2>5, <2>6, <2>7 DEF AnswersInv
<1>6. CASE SendFails
  <2>1. ~Sending' /\ UNCHANGED <<stream, executed>>
    BY <1>6 DEF SendFails, Sending
  <2> QED
    BY <1>1, <1>6, <2>1
<1>7. UNCHANGED <<thread, socket, stream, executed, receiveBuffers, history, delivered>>
      => AnswersInv'
  BY <1>2 DEF thread
<1> QED
  BY <1>1, <1>3, <1>4, <1>5, <1>6, <1>7, QuietSteps, ServerUntouched
     DEF Next, ClientNext, Server

(* In every reachable state the requests are parsed and answered. *)
THEOREM AnswersInvariance == Spec => [](ServerInv /\ WholeInv /\ PendingInv /\ AnswersInv)
<1> DEFINE Inv == ServerInv /\ WholeInv /\ PendingInv /\ AnswersInv
<1>1. Init => Inv
  BY ServerInit, WholeInit, PendingInit, AnswersInit
<1>2. Inv /\ [Next]_vars => Inv'
  BY ServerStep, WholeStep, PendingStep, AnswersStep
<1> QED
  BY <1>1, <1>2, PTL DEF Spec

(* Requests are answered once each and in their order, and epoll_wait is not  *)
(* called with a complete request in a buffer.                                *)
THEOREM RequestsAreAnswered == Spec => []Answered
<1>1. ASSUME ServerInv, PendingInv, AnswersInv
      PROVE  Answered
  <2>1. ASSUME NEW c \in Clients, NEW n \in Nat, Numbers(c, "RES") = UpTo(n)
        PROVE  Len(Numbers(c, "RES")) = n
    BY <2>1 DEF UpTo
  <2>2. \A c \in Clients : executed[c] \in Nat
    BY <1>1 DEF ServerInv, CoreInv, TypeOK, DataTypeOK
  <2>3. ASSUME NEW c \in Clients
        PROVE  \E n \in {executed[c] - 1, executed[c]} : n \in Nat /\ Numbers(c, "RES") = UpTo(n)
    <3>1. CASE Numbers(c, "RES") = UpTo(executed[c])
      BY <2>2, <3>1
    <3>2. CASE executed[c] > 0 /\ Numbers(c, "RES") = UpTo(executed[c] - 1)
      BY <2>2, <3>2
    <3> QED
      BY <1>1, <3>1, <3>2 DEF AnswersInv
  <2>4. ASSUME NEW c \in Clients
        PROVE  /\ Numbers(c, "RES") = [i \in 1 .. Len(Numbers(c, "RES")) |-> i]
               /\ Len(Numbers(c, "RES")) \in {executed[c] - 1, executed[c]}
    <3>1. PICK n \in {executed[c] - 1, executed[c]} : n \in Nat /\ Numbers(c, "RES") = UpTo(n)
      BY <2>3
    <3>2. Len(Numbers(c, "RES")) = n
      BY <2>1, <3>1
    <3> QED
      BY <3>1, <3>2 DEF UpTo
  <2>5. ASSUME pc = "wait", NEW fd \in Registered
        PROVE  /\ ~RequestPending(fd)
               /\ Len(Numbers(socket[fd], "RES")) = executed[socket[fd]]
    <3>1. socket[fd] \in Clients /\ peer[socket[fd]] # "closed"
      BY <1>1, DescriptorOwner DEF ServerInv
    <3>2. Numbers(socket[fd], "RES") = UpTo(executed[socket[fd]])
      BY <1>1, <2>5, <3>1 DEF AnswersInv, Owed
    <3> QED
      BY <1>1, <2>1, <2>2, <2>5, <3>1, <3>2 DEF PendingInv
  <2> QED
    BY <2>4, <2>5 DEF Answered
<1> QED
  BY <1>1, AnswersInvariance, PTL

-----------------------------------------------------------------------------
(* Events. *)

(* Parts of a sequence to which an element is appended. *)
LEMMA SubSeqFacts ==
  ASSUME NEW s \in Seq(Nat), NEW j \in Nat, j <= Len(s)
  PROVE  /\ SubSeq(s, Len(s) + 1, Len(s)) = <<>>
         /\ \A x \in Nat : SubSeq(Append(s, x), j + 1, Len(s)) = SubSeq(s, j + 1, Len(s))
         /\ j <= Len(s) - 1 =>
              Append(SubSeq(s, j + 1, Len(s) - 1), s[Len(s)]) = SubSeq(s, j + 1, Len(s))
<1> DEFINE n == Len(s)
<1>1. n \in Nat /\ \A i \in 1 .. n : s[i] \in Nat
  BY LenProperties, ElementOfSeq
<1> HIDE DEF n
<1>2. SubSeq(s, n + 1, n) = <<>>
  BY <1>1, SubSeqEmpty
<1>3. \A i \in j + 1 .. n : i \in 1 .. n
  BY <1>1
<1>4. /\ SubSeq(s, j + 1, n) \in Seq(Nat)
      /\ Len(SubSeq(s, j + 1, n)) = IF j + 1 <= n THEN n - (j + 1) + 1 ELSE 0
      /\ \A i \in 1 .. n - (j + 1) + 1 : SubSeq(s, j + 1, n)[i] = s[j + 1 + i - 1]
  BY <1>1, <1>3, SubSeqProperties
<1>5. ASSUME NEW x \in Nat
      PROVE  SubSeq(Append(s, x), j + 1, n) = SubSeq(s, j + 1, n)
  <2> DEFINE t == Append(s, x)
  <2>1. \A i \in 1 .. n : t[i] = s[i]
    BY AppendProperties DEF n
  <2> HIDE DEF t
  <2>2. \A i \in j + 1 .. n : t[i] \in Nat
    BY <1>1, <1>3, <2>1
  <2>3. /\ SubSeq(t, j + 1, n) \in Seq(Nat)
        /\ Len(SubSeq(t, j + 1, n)) = IF j + 1 <= n THEN n - (j + 1) + 1 ELSE 0
        /\ \A i \in 1 .. n - (j + 1) + 1 : SubSeq(t, j + 1, n)[i] = t[j + 1 + i - 1]
    BY <1>1, <2>2, SubSeqProperties
  <2>4. \A i \in 1 .. Len(SubSeq(t, j + 1, n)) : SubSeq(t, j + 1, n)[i] = SubSeq(s, j + 1, n)[i]
    <3> SUFFICES ASSUME NEW i \in 1 .. Len(SubSeq(t, j + 1, n))
                 PROVE  SubSeq(t, j + 1, n)[i] = SubSeq(s, j + 1, n)[i]
      OBVIOUS
    <3>1. i \in 1 .. n - (j + 1) + 1 /\ j + 1 + i - 1 \in 1 .. n
      BY <1>1, <2>3
    <3> QED
      BY <1>4, <2>1, <2>3, <3>1
  <2>5. SubSeq(t, j + 1, n) = SubSeq(s, j + 1, n)
    BY <1>4, <2>3, <2>4, SeqEqual
  <2> QED
    BY <2>5 DEF t
<1>6. ASSUME j <= n - 1
      PROVE  Append(SubSeq(s, j + 1, n - 1), s[n]) = SubSeq(s, j + 1, n)
  <2> DEFINE t == SubSeq(s, j + 1, n - 1)
  <2>1. \A i \in j + 1 .. n - 1 : s[i] \in Nat
    BY <1>1
  <2>2. /\ t \in Seq(Nat)
        /\ Len(t) = IF j + 1 <= n - 1 THEN n - 1 - (j + 1) + 1 ELSE 0
        /\ \A i \in 1 .. n - 1 - (j + 1) + 1 : t[i] = s[j + 1 + i - 1]
    BY <1>1, <2>1, SubSeqProperties
  <2> HIDE DEF t
  <2>3. Len(t) = n - 1 - j /\ s[n] \in Nat
    BY <1>1, <1>6, <2>2
  <2>4. /\ Append(t, s[n]) \in Seq(Nat) /\ Len(Append(t, s[n])) = n - j
        /\ \A i \in 1 .. n - 1 - j : Append(t, s[n])[i] = t[i]
        /\ Append(t, s[n])[n - j] = s[n]
    BY <1>1, <2>2, <2>3, AppendProperties
  <2>5. Len(SubSeq(s, j + 1, n)) = n - j
    BY <1>1, <1>4, <1>6
  <2>6. ASSUME NEW i \in 1 .. n - j
        PROVE  Append(t, s[n])[i] = SubSeq(s, j + 1, n)[i]
    <3>1. SubSeq(s, j + 1, n)[i] = s[j + i]
      BY <1>1, <1>4
    <3>2. CASE i = n - j
      BY <1>1, <2>4, <3>1, <3>2
    <3>3. CASE i # n - j
      <4>1. i \in 1 .. n - 1 - j /\ i \in 1 .. n - 1 - (j + 1) + 1 /\ j + 1 + i - 1 = j + i
        BY <1>1, <3>3
      <4> QED
        BY <2>2, <2>4, <3>1, <4>1
    <3> QED
      BY <3>2, <3>3
  <2>7. Append(t, s[n]) = SubSeq(s, j + 1, n)
    BY <1>4, <2>4, <2>5, <2>6, SeqEqual
  <2> QED
    BY <2>7 DEF t
<1> QED
  BY <1>2, <1>5, <1>6 DEF n

(* The event taken from the queue last is still to be begun for fd. *)
Due(fd) ==
  \/ pc \in {"fanout", "push"} /\ fd \in clients
  \/ pc = "push" /\ fd = out.fd /\ out.offset = 0

(* The events begun for a client are those taken from the queue since it was  *)
(* registered, but for the last one while it is due.                          *)
EventsOf(fd) ==
  LET c == socket[fd]
      n == IF Due(fd) THEN Len(popped) - 1 ELSE Len(popped)
  IN  joined[c] <= n /\ Numbers(c, "EVENT") = SubSeq(popped, joined[c] + 1, n)

(* The event that is broadcast is the one taken last, and every registered    *)
(* client has been begun the events it is due.                                *)
BroadcastInv ==
  /\ pc \in {"fanout", "push"} =>
       Len(popped) > 0 /\ delivered.sequence = popped[Len(popped)]
  /\ pc = "push" => out.message = [kind |-> "EVENT", number |-> delivered.sequence]
  /\ \A fd \in Registered : EventsOf(fd)

(* At the start no client is registered.                                      *)
LEMMA BroadcastInit == Init => BroadcastInv
BY DEF Init, BroadcastInv, Registered

(* Whoever fails, the event goes on to the other clients. *)
LEMMA BroadcastStep ==
  ASSUME ServerInv, AnswersInv, BroadcastInv, [Next]_vars
  PROVE  BroadcastInv'
<1> USE DEF ServerInv, CoreInv, TypeOK
<1>0. /\ popped \in Seq(Nat) /\ Len(popped) \in Nat
      /\ \A c \in Clients : joined[c] \in Nat
  BY LenProperties DEF HistoryTypeOK
<1>1. ASSUME UNCHANGED <<stream, history, delivered>>,
             pc' \in {"fanout", "push"} => pc \in {"fanout", "push"},
             pc' = "push" => pc = "push" /\ out'.message = out.message,
             \A g \in Registered' :
               g \in Registered /\ socket'[g] = socket[g] /\ (Due(g)' <=> Due(g))
      PROVE  BroadcastInv'
  <2>1. \A g \in Registered' : EventsOf(g)'
    BY <1>1 DEF BroadcastInv, EventsOf, history, Numbers
  <2> QED
    BY <1>1, <2>1 DEF BroadcastInv, history
<1>2. ASSUME UNCHANGED <<thread, socket, stream, history, delivered>>
      PROVE  BroadcastInv'
  BY <1>1, <1>2 DEF thread, Registered, Due
<1>3. ASSUME UNCHANGED <<socket, stream, history, delivered>>,
             pc \notin {"fanout", "push"}, pc' \notin {"fanout", "push"}
      PROVE  BroadcastInv'
  BY <1>1, <1>3 DEF Registered, Due
<1>4. ASSUME NEW fd, Closing(fd), UNCHANGED <<stream, history, delivered>>,
             pc \notin {"fanout", "push"}, pc' \notin {"fanout", "push"}
      PROVE  BroadcastInv'
  <2>1. \A g \in Registered' : g \in Registered /\ socket'[g] = socket[g]
    BY <1>4, CloseSocketFacts DEF Closing
  <2> QED
    BY <1>1, <1>4, <2>1 DEF Due
<1>5. CASE Accept
  <2>1. PICK fd \in Descriptors : fd = Min(Free) /\ socket[fd] = NONE
    BY <1>5, MinOfDescriptors DEF Accept, Free
  <2>2. PICK c \in Clients : c = Head(backlog) /\ Waits(c)
    BY <1>5, BacklogFacts DEF Accept
  <2>3. /\ socket' = [socket EXCEPT ![fd] = c]
        /\ joined' = [joined EXCEPT ![c] = Len(popped)]
        /\ UNCHANGED <<stream, thread, windowVars, popped>> /\ pc = "accept"
    BY <1>5, <2>1, <2>2 DEF Accept
  <2>4. \A g \in Registered' : ~Due(g) /\ ~Due(g)'
    BY <2>3 DEF Due, thread
  <2>5. EventsOf(fd)'
    <3>1. socket'[fd] = c /\ joined'[c] = Len(popped)
      BY <2>1, <2>3 DEF ConnectionsTypeOK, HistoryTypeOK
    <3>2. Numbers(c, "EVENT")' = <<>>
      BY <2>2, <2>3, NumbersFacts DEF FreshInv, Untouched, Numbers
    <3>3. SubSeq(popped, Len(popped) + 1, Len(popped)) = <<>>
      BY <1>0, SubSeqFacts
    <3>4. ~Due(fd)'
      BY <2>3 DEF Due, thread
    <3>5. joined'[socket'[fd]] <= Len(popped') /\ popped' = popped
      BY <1>0, <2>3, <3>1
    <3>6. NumbersIn(stream'[socket'[fd]], "EVENT")
            = SubSeq(popped', joined'[socket'[fd]] + 1, Len(popped'))
      BY <2>3, <3>1, <3>2, <3>3 DEF Numbers
    <3> QED
      BY <3>4, <3>5, <3>6 DEF EventsOf, Numbers
  <2>6. ASSUME NEW g \in Registered', g # fd
        PROVE  EventsOf(g)'
    <3>1. g \in Registered /\ socket'[g] = socket[g] /\ socket[g] # c /\ socket[g] \in Clients
      <4>1. g \in Registered /\ socket'[g] = socket[g]
        BY <2>1, <2>3, <2>6 DEF Registered, ConnectionsTypeOK
      <4> QED
        BY <2>2, <4>1, DescriptorOwner
    <3>2. joined'[socket[g]] = joined[socket[g]]
      BY <2>3, <3>1 DEF HistoryTypeOK
    <3>3. EventsOf(g)
      BY <3>1 DEF BroadcastInv
    <3> QED
      BY <2>3, <2>4, <3>1, <3>2, <3>3 DEF EventsOf, Numbers
  <2>7. \A g \in Registered' : EventsOf(g)'
    BY <2>5, <2>6
  <2> QED
    BY <2>3, <2>7 DEF BroadcastInv, thread
<1>6. CASE PopEvent
  <2>1. /\ pc = "pop" /\ pc' = "fanout" /\ clients' = DOMAIN receiveBuffers
        /\ popped' = Append(popped, first) /\ delivered' = EventNumbered(first)
        /\ UNCHANGED <<kernel, joined>>
    BY <1>6 DEF PopEvent, Deliver
  <2>2. first \in Nat
    BY DEF WindowTypeOK
  <2>3. Len(popped') = Len(popped) + 1 /\ popped'[Len(popped')] = first
    BY <1>0, <2>1, <2>2, AppendProperties
  <2>4. delivered'.sequence = first
    BY <2>1 DEF EventNumbered
  <2>5. Registered' = Registered /\ UNCHANGED <<socket, stream>>
    BY <2>1 DEF Registered, kernel
  <2>6. ASSUME NEW g \in Registered
        PROVE  EventsOf(g)'
    <3>1. ~Due(g) /\ Due(g)'
      BY <2>1 DEF Due, Registries
    <3>2. socket[g] \in Clients
      BY RegisteredFacts
    <3>3. /\ joined[socket[g]] \in Nat /\ joined[socket[g]] <= Len(popped)
          /\ Numbers(socket[g], "EVENT") = SubSeq(popped, joined[socket[g]] + 1, Len(popped))
      BY <1>0, <3>1, <3>2 DEF BroadcastInv, EventsOf
    <3>4. SubSeq(popped', joined[socket[g]] + 1, Len(popped))
            = SubSeq(popped, joined[socket[g]] + 1, Len(popped))
      BY <1>0, <2>1, <2>2, <3>3, SubSeqFacts
    <3>5. Len(popped') - 1 = Len(popped)
      BY <1>0, <2>3
    <3> QED
      BY <2>1, <2>5, <3>1, <3>3, <3>4, <3>5 DEF EventsOf, Numbers
  <2>7. Len(popped') > 0
    BY <1>0, <2>3
  <2> QED
    BY <2>1, <2>3, <2>4, <2>5, <2>6, <2>7 DEF BroadcastInv
<1>7. ASSUME NEW fd \in Descriptors, SendEvent(fd)
      PROVE  BroadcastInv'
  <2>1. /\ pc = "fanout" /\ fd \in clients /\ clients' = clients \ {fd} /\ pc' = "push"
        /\ out'.fd = fd /\ out'.offset = 0
        /\ out'.message = [kind |-> "EVENT", number |-> delivered.sequence]
        /\ UNCHANGED <<socket, stream, delivered, history>>
    BY <1>7 DEF SendEvent, kernel, windowVars
  <2>2. Registered' = Registered
    BY <2>1 DEF Registered
  <2>3. \A g : Due(g)' <=> Due(g)
    BY <2>1 DEF Due
  <2>4. \A g \in Registered : EventsOf(g)'
    BY <2>1, <2>3 DEF BroadcastInv, EventsOf, history, Numbers
  <2> QED
    BY <2>1, <2>2, <2>4 DEF BroadcastInv, history
<1>8. CASE FanoutDone
  <2>1. /\ pc = "fanout" /\ clients = {} /\ pc' = "pop"
        /\ UNCHANGED <<socket, stream, delivered, history>>
    BY <1>8 DEF FanoutDone, kernel, windowVars
  <2>2. \A g : ~Due(g)' /\ ~Due(g)
    BY <2>1 DEF Due
  <2>3. Registered' = Registered
    BY <2>1 DEF Registered
  <2> QED
    BY <1>1, <2>1, <2>2, <2>3
<1>9. CASE SendFails
  <2>1. /\ Closing(out.fd) /\ UNCHANGED <<stream, history, delivered, clients>>
        /\ pc' = IF pc = "answer" THEN "dispatch" ELSE "fanout"
        /\ pc \in {"answer", "push"}
    BY <1>9, ClosingSteps DEF SendFails, windowVars
  <2>2. Registered' = Registered \ {out.fd}
        /\ \A g \in Registered' : socket'[g] = socket[g]
    BY <2>1, CloseSocketFacts DEF Closing
  <2>3. \A g \in Registered' : Due(g)' <=> Due(g)
    BY <2>1, <2>2 DEF Due
  <2> QED
    BY <1>1, <2>1, <2>2, <2>3
<1>10. CASE SendUnit
  <2>1. PICK c \in Clients :
          /\ c = socket[out.fd] /\ peer[c] # "closed"
          /\ Numbers(c, "EVENT")' = IF out.message.kind = "EVENT" /\ out.offset = 0
                                      THEN Append(Numbers(c, "EVENT"), out.message.number)
                                      ELSE Numbers(c, "EVENT")
          /\ \A d \in Clients : d # c => Numbers(d, "EVENT")' = Numbers(d, "EVENT")
    BY <1>10, SendNumbers
  <2>2. /\ out.fd \in Registered
        /\ UNCHANGED <<socket, clients, windowVars, history>>
        /\ \/ /\ out' = [out EXCEPT !.offset = out.offset + 1]
              /\ pc' = pc
           \/ /\ out' = NothingOut
              /\ pc' = IF pc = "answer" THEN "parse" ELSE "fanout"
    BY <1>10, SendFacts
  <2>3. /\ pc \in {"answer", "push"} /\ out.offset \in Nat
    BY <1>10 DEF SendUnit, ThreadTypeOK
  <2>4. UNCHANGED <<popped, joined, delivered>> /\ Registered' = Registered
    BY <2>2 DEF history, windowVars, Registered
  <2>5. pc' = pc => out'.fd = out.fd /\ out'.message = out.message /\ out'.offset # 0
    <3> SUFFICES ASSUME pc' = pc
                 PROVE  out'.fd = out.fd /\ out'.message = out.message /\ out'.offset # 0
      OBVIOUS
    <3>1. out' = [out EXCEPT !.offset = out.offset + 1]
      BY <2>2, <2>3
    <3> QED
      BY <2>3, <3>1 DEF ThreadTypeOK
  <2>6. pc' = pc \/ pc' = IF pc = "answer" THEN "parse" ELSE "fanout"
    BY <2>2
  <2>7. PICK fd \in Registered : fd = out.fd /\ socket[fd] = c
    BY <2>1, <2>2
  <2>8. pc = "push" => fd \notin clients
    BY <2>7 DEF OutInv
  <2>9. ~Due(fd)'
    BY <2>2, <2>3, <2>5, <2>6, <2>7, <2>8 DEF Due
  <2>10. \A g \in Registered : g # fd => (Due(g)' <=> Due(g))
    BY <2>2, <2>3, <2>5, <2>6, <2>7 DEF Due
  <2>11. EventsOf(fd)'
    <3>1. EventsOf(fd)
      BY DEF BroadcastInv
    <3>2. CASE pc = "push" /\ out.offset = 0
      <4>1. Due(fd)
        BY <2>7, <3>2 DEF Due
      <4>2. /\ joined[c] <= Len(popped) - 1
            /\ Numbers(c, "EVENT") = SubSeq(popped, joined[c] + 1, Len(popped) - 1)
        BY <2>7, <3>1, <4>1 DEF EventsOf
      <4>3. /\ out.message.kind = "EVENT" /\ out.message.number = popped[Len(popped)]
        BY <3>2 DEF BroadcastInv
      <4>4. Numbers(c, "EVENT")' = SubSeq(popped, joined[c] + 1, Len(popped))
        <5>1. Numbers(c, "EVENT")'
                = Append(SubSeq(popped, joined[c] + 1, Len(popped) - 1), popped[Len(popped)])
          BY <2>1, <3>2, <4>2, <4>3
        <5>2. joined[c] \in Nat /\ joined[c] <= Len(popped)
          BY <1>0, <4>2
        <5> QED
          BY <1>0, <4>2, <5>1, <5>2, SubSeqFacts
      <4>5. joined[c] <= Len(popped)
        BY <1>0, <4>2
      <4> QED
        BY <2>2, <2>4, <2>7, <2>9, <4>4, <4>5 DEF EventsOf
    <3>3. CASE ~(pc = "push" /\ out.offset = 0)
      <4>1. ~Due(fd)
        BY <2>3, <2>8, <3>3 DEF Due
      <4>2. out.message.kind # "EVENT" \/ out.offset # 0
        BY <2>3, <3>3 DEF AnswersInv
      <4>3. Numbers(c, "EVENT")' = Numbers(c, "EVENT")
        BY <2>1, <4>2
      <4> QED
        BY <2>2, <2>4, <2>7, <2>9, <3>1, <4>1, <4>3 DEF EventsOf
    <3> QED
      BY <3>2, <3>3
  <2>12. ASSUME NEW g \in Registered, g # fd
         PROVE  EventsOf(g)'
    <3>1. EventsOf(g)
      BY DEF BroadcastInv
    <3>2. socket[g] \in Clients /\ socket[g] # c
      BY <2>7, <2>12, RegisteredFacts DEF PlacesInv
    <3>3. Numbers(socket[g], "EVENT")' = Numbers(socket[g], "EVENT")
      <4>1. \A d \in Clients : d # c => Numbers(d, "EVENT")' = Numbers(d, "EVENT")
        BY <2>1
      <4> QED
        BY <2>2, <3>2, <4>1 DEF Numbers
    <3> QED
      BY <2>2, <2>4, <2>10, <2>12, <3>1, <3>3 DEF EventsOf
  <2>13. \A g \in Registered : EventsOf(g)'
    BY <2>11, <2>12
  <2>14. pc' \in {"fanout", "push"} => pc = "push"
    BY <2>3, <2>6
  <2>15. pc' = "push" => out'.message = out.message
    BY <2>3, <2>5, <2>6
  <2> QED
    BY <2>4, <2>13, <2>14, <2>15 DEF BroadcastInv
<1>11. CASE RecvData
  <2>1. PICK fd \in Registered :
          /\ UNCHANGED <<stream, backlog, popped, joined>>
          /\ \/ CloseSocket(fd) /\ pc' = "dispatch"
             \/ pc' = "parse" /\ UNCHANGED socket
    BY <1>11, RecvFacts
  <2>2. pc = "recv" /\ UNCHANGED <<stream, history, delivered>>
    BY <1>11 DEF RecvData, windowVars
  <2> QED
    BY <1>3, <1>4, <2>1, <2>2 DEF Closing
<1>12. CASE RecvEnds \/ RecvAgain
  <2>1. pc = "recv" /\ pc' = "dispatch" /\ UNCHANGED <<stream, history, delivered>>
    BY <1>12 DEF RecvEnds, RecvAgain, windowVars
  <2>2. Closing(current.fd) \/ UNCHANGED socket
    BY <1>12, ClosingSteps
  <2> QED
    BY <1>3, <1>4, <2>1, <2>2
<1>13. CASE \/ EpollWait \/ Dispatch \/ BatchDone \/ AcceptSetupFails \/ AcceptEnds
            \/ Execute \/ ParseDone \/ Broadcast \/ QueueEmpty
  <2>1. pc \notin {"fanout", "push"} /\ pc' \notin {"fanout", "push"}
    BY <1>13 DEF EpollWait, Dispatch, BatchDone, AcceptSetupFails, AcceptEnds, Execute,
                 ParseDone, Broadcast, QueueEmpty, thread
  <2>2. UNCHANGED <<socket, stream, history, delivered>>
    BY <1>13 DEF EpollWait, Dispatch, BatchDone, AcceptSetupFails, AcceptEnds, Execute,
                 ParseDone, Broadcast, QueueEmpty, kernel, windowVars
  <2> QED
    BY <1>3, <2>1, <2>2
<1>14. UNCHANGED <<thread, socket, stream, executed, receiveBuffers, history, delivered>>
       => BroadcastInv'
  BY <1>2
<1> QED
  BY <1>5, <1>6, <1>7, <1>8, <1>9, <1>10, <1>11, <1>12, <1>13, <1>14, ServerUntouched
     DEF Next, ClientNext, Server

(* In every reachable state the streams are as the invariants say. *)
THEOREM StreamsInvariance ==
  Spec => [](ServerInv /\ WholeInv /\ PendingInv /\ AnswersInv /\ BroadcastInv)
<1> DEFINE Inv == ServerInv /\ WholeInv /\ PendingInv /\ AnswersInv /\ BroadcastInv
<1>1. Init => Inv
  BY ServerInit, WholeInit, PendingInit, AnswersInit, BroadcastInit
<1>2. Inv /\ [Next]_vars => Inv'
  BY ServerStep, WholeStep, PendingStep, AnswersStep, BroadcastStep
<1> QED
  BY <1>1, <1>2, PTL DEF Spec

(* Every registered client is sent every event taken from the queue since it  *)
(* was registered, whichever other clients fail meanwhile.                    *)
THEOREM EventsReachEveryClient == Spec => []BroadcastComplete
<1>1. ASSUME BroadcastInv
      PROVE  BroadcastComplete
  <2> SUFFICES ASSUME pc \in {"wait", "dispatch", "pop", "fanout"},
                      NEW fd \in Registered \ (IF pc = "fanout" THEN clients ELSE {})
               PROVE  Numbers(socket[fd], "EVENT")
                        = SubSeq(popped, joined[socket[fd]] + 1, Len(popped))
    BY DEF BroadcastComplete
  <2>1. ~Due(fd)
    BY DEF Due
  <2> QED
    BY <1>1, <2>1 DEF BroadcastInv, EventsOf
<1> QED
  BY <1>1, StreamsInvariance, PTL
=============================================================================
