-------------------------- MODULE TcpServerProofs --------------------------
(***************************************************************************)
(* What is proved of TcpServer for every set of clients and descriptors,   *)
(* every sequence of requests and all sizes: its type invariant, that the  *)
(* registries agree, that no event of a batch is handled for another       *)
(* connection, and that framing loses and repeats nothing.  The streams to *)
(* the clients are in TcpStreamsProofs.                                    *)
(***************************************************************************)
EXTENDS TcpServer, RecursionLemmas, FiniteSetTheorems

(* The registries of the descriptors. *)
Registries ==
  /\ watched = Registered
  /\ DOMAIN receiveBuffers = Registered

(* An event of the batch that concerns a client was reported for the client   *)
(* that has the descriptor, no descriptor has two, and the event that is      *)
(* being handled is out of the batch.                                         *)
BatchInv ==
  /\ pc \in {"wait", "broadcast", "pop", "fanout", "push"} => batch = <<>>
  /\ \A i \in 1 .. Len(batch) :
       batch[i].fd # listenfd =>
         batch[i].fd \in Registered /\ socket[batch[i].fd] = batch[i].client
  /\ \A i, j \in 1 .. Len(batch) : batch[i].fd = batch[j].fd => i = j
  /\ pc \in {"recv", "parse", "answer"} =>
       /\ current.fd \in Registered
       /\ socket[current.fd] = current.client
       /\ \A i \in 1 .. Len(batch) : batch[i].fd # current.fd

(* Where the message goes that is being sent. *)
OutInv ==
  /\ pc = "answer" => out.fd = current.fd
  /\ pc = "push" => out.fd \in Registered /\ out.fd \notin clients
  /\ pc \in {"fanout", "push"} => clients \subseteq Registered

(* The invariant on which the others rest. *)
CoreInv == TypeOK /\ Registries /\ BatchInv /\ OutInv

-----------------------------------------------------------------------------
(* Operators of the model. *)

(* The sizes are positive. *)
LEMMA SizesFacts ==
  /\ MAX_EVENTS \in Nat \ {0} /\ BUFFER_SIZE \in Nat \ {0} /\ MAX_FRAME \in Nat \ {0}
  /\ SendBuffer \in Nat \ {0} /\ MessageUnits \in Nat \ {0}
  /\ \A c \in Clients : Requests[c] \in Seq(Nat \ {0}) /\ Len(Requests[c]) \in Nat
<1>1. \A c \in Clients : Requests[c] \in Seq(Nat \ {0})
  BY ServerAssumption
<1>2. \A c \in Clients : Len(Requests[c]) \in Nat
  BY <1>1, LenProperties
<1> QED
  BY <1>1, <1>2, ServerAssumption

(* The kernel has a lowest descriptor to give. *)
LEMMA MinOfDescriptors ==
  ASSUME NEW S \in SUBSET Descriptors, S # {}
  PROVE  Min(S) \in S
<1>1. S \subseteq Nat
  BY ServerAssumption
<1>2. \E n \in S : \A m \in S : n <= m
  BY <1>1, LeastNatural
<1> QED
  BY <1>2 DEF Min

(* The smaller of two numbers. *)
LEMMA MinOfTwo ==
  ASSUME NEW m \in Nat, NEW n \in Nat
  PROVE  /\ Min({m, n}) \in {m, n}
         /\ Min({m, n}) <= m /\ Min({m, n}) <= n
<1>1. \E x \in {m, n} : \A y \in {m, n} : x <= y
  OBVIOUS
<1>2. Min({m, n}) \in {m, n} /\ \A y \in {m, n} : Min({m, n}) <= y
  BY <1>1 DEF Min
<1> QED
  BY <1>2

(* A descriptor in use is one, and is connected to a client. *)
LEMMA RegisteredFacts ==
  ASSUME ConnectionsTypeOK, NEW fd \in Registered
  PROVE  fd \in Descriptors /\ fd # listenfd /\ socket[fd] \in Clients
BY ServerAssumption DEF ConnectionsTypeOK, Registered, listenfd

(* An event that epoll may report of a client's descriptor names the client,  *)
(* and there is one for every descriptor.                                     *)
LEMMA ReadyFacts ==
  ASSUME TypeOK, Registries
  PROVE  /\ Ready \subseteq Event
         /\ \A e \in Ready : e.fd # listenfd =>
              /\ e.fd \in Registered
              /\ socket[e.fd] = e.client
              /\ e.hangup = (peer[e.client] \in {"shut", "gone"})
         /\ \A e \in Ready : e.fd = listenfd => e = NoEntry
         /\ \A d, e \in Ready : d.fd = e.fd => d = e
         /\ IsFiniteSet(Ready)
<1> DEFINE Entry(fd) == [fd |-> fd, hangup |-> peer[socket[fd]] \in {"shut", "gone"},
                         client |-> socket[fd]]
           Fds == {f \in watched : Readable(f)}
           Entries == {Entry(fd) : fd \in Fds}
<1>1. Fds \subseteq Registered
  BY DEF Registries
<1>2. \A e \in Ready : e = NoEntry \/ \E fd \in Fds : e = Entry(fd)
  BY DEF Ready
<1>3. \A fd \in Fds : fd \in Descriptors /\ fd # listenfd /\ socket[fd] \in Clients
  BY <1>1, RegisteredFacts DEF TypeOK
<1>4. NoEntry \in Event /\ NoEntry.fd = listenfd
  BY DEF NoEntry, Event
<1>5. \A fd \in Fds : Entry(fd) \in Event
  BY <1>3 DEF Event
<1>6. IsFiniteSet(Ready)
  <2>1. IsFiniteSet(Fds)
    <3>1. Fds \in SUBSET Descriptors
      BY <1>3
    <3> QED
      BY <3>1, FS_Subset, ServerAssumption
  <2>2. IsFiniteSet(Entries)
    <3> DEFINE f == [fd \in Fds |-> Entry(fd)]
    <3>1. f \in Surjection(Fds, Entries)
      BY DEF Surjection
    <3> QED
      BY <2>1, <3>1, FS_Surjection
  <2>3. Ready = Entries \/ Ready = Entries \cup {NoEntry}
    BY DEF Ready
  <2> QED
    BY <2>2, <2>3, FS_AddElement
<1>7. ASSUME NEW e \in Ready, e.fd # listenfd
      PROVE  /\ e.fd \in Registered
             /\ socket[e.fd] = e.client
             /\ e.hangup = (peer[e.client] \in {"shut", "gone"})
  <2>1. PICK fd \in Fds : e = Entry(fd)
    BY <1>2, <1>4, <1>7
  <2> QED
    BY <1>1, <2>1
<1>8. ASSUME NEW d \in Ready, NEW e \in Ready, d.fd = e.fd
      PROVE  d = e
  <2>1. CASE d.fd = listenfd
    <3>1. d = NoEntry /\ e = NoEntry
      <4>1. \A fd \in Fds : Entry(fd).fd # listenfd
        BY <1>3
      <4> HIDE DEF Entry, Fds
      <4> QED
        BY <1>2, <1>8, <2>1, <4>1
    <3> QED
      BY <3>1
  <2>2. CASE d.fd # listenfd
    <3>1. PICK f \in Fds : d = Entry(f)
      BY <1>2, <1>4, <2>2
    <3>2. PICK g \in Fds : e = Entry(g)
      BY <1>2, <1>4, <1>8, <2>2
    <3> QED
      BY <1>8, <3>1, <3>2
  <2> QED
    BY <2>1, <2>2
<1>9. \A e \in Ready : e.fd = listenfd => e = NoEntry
  <2>1. \A fd \in Fds : Entry(fd).fd # listenfd
    BY <1>3
  <2> HIDE DEF Entry, Fds
  <2> QED
    BY <1>2, <2>1
<1> QED
  BY <1>2, <1>4, <1>5, <1>6, <1>7, <1>8, <1>9

(* What epoll_wait returns: different ready events in some order. *)
LEMMA EpollFacts ==
  ASSUME TypeOK, Registries, EpollWait
  PROVE  /\ batch' \in Seq(Ready)
         /\ \A i, j \in 1 .. Len(batch') : batch'[i] = batch'[j] => i = j
<1>1. PICK some \in kSubset(Min({MAX_EVENTS, Cardinality(Ready)}), Ready) :
        batch' \in SetToSeqs(some)
  BY DEF EpollWait
<1> DEFINE n == Cardinality(some)
<1>2. n \in Nat
  <2>1. IsFiniteSet(some)
    BY ReadyFacts, FS_Subset DEF kSubset
  <2> QED
    BY <2>1, FS_CardinalityType
<1>3. /\ batch' \in [1 .. n -> some]
      /\ \A i, j \in 1 .. n : i # j => batch'[i] # batch'[j]
  BY <1>1 DEF SetToSeqs
<1>4. some \subseteq Ready
  BY DEF kSubset
<1> HIDE DEF n
<1>5. batch' \in Seq(some) /\ Len(batch') = n
  BY <1>2, <1>3
<1>6. batch' \in Seq(Ready)
  BY <1>4, <1>5, SeqMonotonic
<1> QED
  BY <1>3, <1>5, <1>6

(* What closeSocket does to the registries. *)
LEMMA CloseSocketFacts ==
  ASSUME TypeOK, Registries, NEW fd \in Registered, CloseSocket(fd)
  PROVE  /\ peer' \in [Clients -> Peer]
         /\ socket' \in [Descriptors -> Clients \cup {NONE}]
         /\ watched' \subseteq Descriptors
         /\ unread' \in [Clients -> 0 .. SendBuffer]
         /\ DOMAIN receiveBuffers' = DOMAIN receiveBuffers \ {fd}
         /\ receiveBuffers' \in [DOMAIN receiveBuffers' -> 0 .. MAX_FRAME]
         /\ Registered' = Registered \ {fd}
         /\ Registries'
         /\ \A g \in Registered' : socket'[g] = socket[g] /\ Pending(g)' = Pending(g)
<1> USE DEF TypeOK, CloseSocket
<1>1. peer' \in [Clients -> Peer]
  BY DEF ConnectionsTypeOK, Peer
<1>2. socket' \in [Descriptors -> Clients \cup {NONE}]
  BY DEF ConnectionsTypeOK
<1>3. watched' \subseteq Descriptors
  BY DEF ConnectionsTypeOK
<1>4. unread' \in [Clients -> 0 .. SendBuffer]
  <2>1. 0 \in 0 .. SendBuffer
    BY SizesFacts
  <2> QED
    BY <2>1, Zenon DEF TrafficTypeOK
<1>5. /\ DOMAIN receiveBuffers' = DOMAIN receiveBuffers \ {fd}
      /\ \A g \in DOMAIN receiveBuffers' : receiveBuffers'[g] = receiveBuffers[g]
      /\ receiveBuffers' \in [DOMAIN receiveBuffers' -> 0 .. MAX_FRAME]
  BY DEF DataTypeOK, Restrict
<1>6. Registered' = Registered \ {fd} /\ \A g \in Registered' : socket'[g] = socket[g]
  BY DEF ConnectionsTypeOK, Registered
<1>7. Registries'
  BY <1>5, <1>6 DEF Registries
<1>8. \A g \in Registered' : Pending(g)' = Pending(g)
  BY <1>5, <1>7 DEF Registries, Pending
<1> QED
  BY <1>1, <1>2, <1>3, <1>4, <1>5, <1>6, <1>7, <1>8

-----------------------------------------------------------------------------
(* The invariant holds initially. *)
LEMMA CoreInit == Init => CoreInv
<1> SUFFICES ASSUME Init PROVE CoreInv
  OBVIOUS
<1>1. ConnectionsTypeOK
  BY EmptySeq DEF Init, ConnectionsTypeOK, Peer
<1>2. TrafficTypeOK
  <2>1. 0 \in 0 .. SendBuffer
    BY SizesFacts
  <2> QED
    BY <2>1, EmptySeq DEF Init, TrafficTypeOK
<1>3. DOMAIN receiveBuffers = {}
  BY DEF Init
<1>4. DataTypeOK
  BY <1>3 DEF Init, DataTypeOK
<1>5. ThreadTypeOK
  <2>1. 0 \in 0 .. MessageUnits - 1
    BY SizesFacts
  <2> QED
    BY <2>1, EmptySeq DEF Init, ThreadTypeOK, NothingOut, NoEntry, Event, Message, listenfd
<1>6. WindowTypeOK
  BY DEF Init, WindowInit, WindowTypeOK, NoEvent, EventNumbered, KeyEvent
<1>7. HistoryTypeOK
  BY EmptySeq DEF Init, HistoryTypeOK
<1>8. Registries
  BY <1>3 DEF Init, Registries, Registered
<1>9. BatchInv /\ OutInv
  BY DEF Init, BatchInv, OutInv
<1> QED
  BY <1>1, <1>2, <1>4, <1>5, <1>6, <1>7, <1>8, <1>9 DEF CoreInv, TypeOK

(* Which steps close a connection, and which. *)
Closing(fd) == fd \in Registered /\ CloseSocket(fd) /\ backlog' = backlog

(* A step of the loop that deals with a connection closes it, or leaves all   *)
(* connections as they are.                                                   *)
LEMMA ClosingSteps ==
  ASSUME CoreInv
  PROVE  /\ RecvData =>
              \/ Closing(current.fd)
              \/ UNCHANGED <<peer, backlog, socket, watched>> /\ pc' = "parse"
         /\ RecvEnds => Closing(current.fd)
         /\ RecvAgain => Closing(current.fd)
                         \/ UNCHANGED <<peer, backlog, socket, watched, unread, receiveBuffers>>
         /\ SendFails => Closing(out.fd)
<1>1. pc \in {"recv", "answer"} => current.fd \in Registered
  BY DEF CoreInv, BatchInv
<1>2. pc \in {"answer", "push"} => out.fd \in Registered
  BY <1>1 DEF CoreInv, OutInv
<1>3. RecvData =>
        \/ Closing(current.fd)
        \/ UNCHANGED <<peer, backlog, socket, watched>> /\ pc' = "parse"
  <2> SUFFICES ASSUME RecvData
               PROVE  \/ Closing(current.fd)
                      \/ UNCHANGED <<peer, backlog, socket, watched>> /\ pc' = "parse"
    OBVIOUS
  <2>1. current.fd \in Registered /\ backlog' = backlog
    BY <1>1 DEF RecvData
  <2>2. \/ CloseSocket(current.fd)
        \/ UNCHANGED <<peer, backlog, socket, watched>> /\ pc' = "parse"
    BY <2>1 DEF RecvData
  <2> QED
    BY <2>1, <2>2, Zenon DEF Closing
<1>4. RecvEnds => Closing(current.fd)
  BY <1>1, Zenon DEF RecvEnds, Closing
<1>5. RecvAgain => Closing(current.fd)
                   \/ UNCHANGED <<peer, backlog, socket, watched, unread, receiveBuffers>>
  BY <1>1, Zenon DEF RecvAgain, Closing
<1>6. SendFails => Closing(out.fd)
  BY <1>2, Zenon DEF SendFails, Closing
<1> QED
  BY <1>3, <1>4, <1>5, <1>6

(* Steps that leave connections and registries alone. *)
LEMMA ConnectionsKept ==
  \/ \E c \in Clients : ClientSend(c) \/ ClientRead(c)
  \/ KeyEventRecorded
  \/ EpollWait \/ Dispatch \/ BatchDone \/ AcceptEnds
  \/ ParseDone \/ SendUnit
  \/ Broadcast \/ PopEvent \/ QueueEmpty
  \/ \E fd \in Descriptors : SendEvent(fd)
  \/ FanoutDone
  \/ UNCHANGED vars
  => UNCHANGED <<peer, backlog, socket, watched, receiveBuffers>>
BY DEF ClientSend, ClientRead, ClientStep, KeyEventRecorded, EpollWait, Dispatch, BatchDone,
       AcceptEnds, ParseDone, SendUnit, Broadcast, PopEvent, QueueEmpty, SendEvent,
       FanoutDone, vars, kernel, thread

(* Connections are typed and the registries agree after every step. *)
LEMMA ConnectionsStep ==
  ASSUME CoreInv, [Next]_vars
  PROVE  ConnectionsTypeOK' /\ Registries'
<1> USE DEF CoreInv, TypeOK
<1>1. ASSUME UNCHANGED <<peer, backlog, socket, watched, receiveBuffers>>
      PROVE  ConnectionsTypeOK' /\ Registries'
  BY <1>1 DEF ConnectionsTypeOK, Registries, Registered
<1>2. ASSUME NEW c \in Clients, Connect(c)
      PROVE  ConnectionsTypeOK' /\ Registries'
  <2>1. peer' \in [Clients -> Peer] /\ UNCHANGED <<socket, watched, receiveBuffers>>
    BY <1>2 DEF Connect, ClientStep, ConnectionsTypeOK, Peer
  <2>2. backlog' \in Seq(Clients)
    BY <1>2, AppendProperties DEF Connect, ConnectionsTypeOK
  <2> QED
    BY <2>1, <2>2 DEF ConnectionsTypeOK, Registries, Registered
<1>3. ASSUME NEW c \in Clients, ClientShutdown(c) \/ ClientLeave(c)
      PROVE  ConnectionsTypeOK' /\ Registries'
  <2>1. /\ peer' \in [Clients -> Peer]
        /\ UNCHANGED <<backlog, socket, watched, receiveBuffers>>
    BY <1>3 DEF ClientShutdown, ClientLeave, ClientStep, ConnectionsTypeOK, Peer
  <2> QED
    BY <2>1 DEF ConnectionsTypeOK, Registries, Registered
<1>4. CASE Accept
  <2>1. Head(backlog) \in Clients /\ Tail(backlog) \in Seq(Clients)
    BY <1>4, HeadTailProperties DEF Accept, ConnectionsTypeOK
  <2>2. Min(Free) \in Free
    BY <1>4, MinOfDescriptors DEF Accept, Free
  <2>3. /\ peer' = peer /\ backlog' = Tail(backlog)
        /\ socket' = [socket EXCEPT ![Min(Free)] = Head(backlog)]
        /\ watched' = watched \cup {Min(Free)}
        /\ receiveBuffers' = WithBuffer(Min(Free), 0)
    BY <1>4 DEF Accept
  <2>4. ConnectionsTypeOK'
    BY <2>1, <2>2, <2>3 DEF ConnectionsTypeOK, Free
  <2>5. Registered' = Registered \cup {Min(Free)}
    BY <2>1, <2>2, <2>3, ServerAssumption DEF ConnectionsTypeOK, Registered, Free
  <2>6. DOMAIN receiveBuffers' = DOMAIN receiveBuffers \cup {Min(Free)}
    BY <2>3 DEF WithBuffer
  <2> QED
    BY <2>3, <2>4, <2>5, <2>6 DEF Registries
<1>5. CASE AcceptSetupFails
  <2>1. Tail(backlog) \in Seq(Clients)
    BY <1>5, HeadTailProperties DEF AcceptSetupFails, ConnectionsTypeOK
  <2>2. peer' \in [Clients -> Peer] /\ UNCHANGED <<socket, watched, receiveBuffers>>
    BY <1>5 DEF AcceptSetupFails, ConnectionsTypeOK, Peer
  <2> QED
    BY <1>5, <2>1, <2>2 DEF AcceptSetupFails, ConnectionsTypeOK, Registries, Registered
<1>6. ASSUME NEW fd, Closing(fd)
      PROVE  ConnectionsTypeOK' /\ Registries'
  BY <1>6, CloseSocketFacts DEF Closing, ConnectionsTypeOK
<1>7. CASE RecvData /\ UNCHANGED <<peer, backlog, socket, watched>> /\ pc' = "parse"
  <2>1. current.fd \in Registered
    BY <1>7 DEF RecvData, BatchInv
  <2>2. DOMAIN receiveBuffers' = DOMAIN receiveBuffers \cup {current.fd}
    BY <1>7 DEF RecvData, WithBuffer
  <2> QED
    BY <1>7, <2>1, <2>2 DEF ConnectionsTypeOK, Registries, Registered
<1>8. CASE Execute
  <2>1. /\ UNCHANGED <<peer, backlog, socket, watched>>
        /\ DOMAIN receiveBuffers' = DOMAIN receiveBuffers
    BY <1>8 DEF Execute, kernel
  <2> QED
    BY <2>1 DEF ConnectionsTypeOK, Registries, Registered
<1> QED
  BY <1>1, <1>2, <1>3, <1>4, <1>5, <1>6, <1>7, <1>8, ConnectionsKept, ClosingSteps
     DEF Next, ClientNext, Server

(* What was sent, received and is on its way to the clients stays typed. *)
LEMMA TrafficStep ==
  ASSUME CoreInv, [Next]_vars
  PROVE  TrafficTypeOK'
<1> USE DEF CoreInv, TypeOK
<1>1. ASSUME UNCHANGED <<sent, received, stream, unread>>
      PROVE  TrafficTypeOK'
  BY <1>1 DEF TrafficTypeOK
<1>2. ASSUME NEW c \in Clients, ClientSend(c)
      PROVE  TrafficTypeOK'
  <2>1. sent' \in [Clients -> Nat]
    BY <1>2 DEF ClientSend, TrafficTypeOK
  <2>2. UNCHANGED <<received, stream, unread>>
    BY <1>2 DEF ClientSend, ClientStep
  <2> QED
    BY <2>1, <2>2 DEF TrafficTypeOK
<1>3. ASSUME NEW c \in Clients, ClientRead(c)
      PROVE  TrafficTypeOK'
  <2>1. unread[c] - 1 \in 0 .. SendBuffer
    BY <1>3, SizesFacts DEF ClientRead, TrafficTypeOK
  <2>2. unread' \in [Clients -> 0 .. SendBuffer]
    BY <1>3, <2>1 DEF ClientRead, TrafficTypeOK
  <2>3. UNCHANGED <<sent, received, stream>>
    BY <1>3 DEF ClientRead, ClientStep
  <2> QED
    BY <2>2, <2>3 DEF TrafficTypeOK
<1>4. ASSUME NEW fd, Closing(fd), UNCHANGED <<sent, received, stream>>
      PROVE  TrafficTypeOK'
  BY <1>4, CloseSocketFacts DEF Closing, TrafficTypeOK
<1>5. CASE RecvData
  <2> DEFINE c == socket[current.fd]
             units == Min({BUFFER_SIZE, sent[c] - received[c]})
  <2>1. current.fd \in Registered
    BY <1>5 DEF RecvData, BatchInv
  <2>2. c \in Clients
    BY <2>1, RegisteredFacts
  <2>3. sent[c] - received[c] \in Nat
    BY <1>5, <2>2 DEF RecvData, TrafficTypeOK
  <2>4. units \in Nat
    BY <2>3, SizesFacts, MinOfTwo
  <2> HIDE DEF units
  <2>5. received' \in [Clients -> Nat]
    BY <1>5, <2>2, <2>4 DEF RecvData, TrafficTypeOK, units
  <2>6. unread' \in [Clients -> 0 .. SendBuffer]
    <3>1. CASE CloseSocket(current.fd)
      BY <2>1, <3>1, CloseSocketFacts
    <3>2. CASE unread' = unread
      BY <3>2 DEF TrafficTypeOK
    <3> QED
      BY <1>5, <3>1, <3>2 DEF RecvData
  <2>7. UNCHANGED <<sent, stream>>
    BY <1>5 DEF RecvData
  <2> QED
    BY <2>5, <2>6, <2>7 DEF TrafficTypeOK
<1>6. CASE SendUnit
  <2> DEFINE c == socket[out.fd]
             unit == <<out.message, out.offset + 1>>
  <2>1. out.fd \in Registered
    BY <1>6 DEF SendUnit, BatchInv, OutInv
  <2>2. c \in Clients
    BY <2>1, RegisteredFacts
  <2>3. unit \in Message \X (1 .. MessageUnits)
    BY SizesFacts DEF ThreadTypeOK
  <2>4. Append(stream[c], unit) \in Seq(Message \X (1 .. MessageUnits))
    <3>1. stream[c] \in Seq(Message \X (1 .. MessageUnits))
      BY <2>2 DEF TrafficTypeOK
    <3> HIDE DEF unit, c
    <3> QED
      BY <2>3, <3>1, AppendProperties
  <2>5. stream' \in [Clients -> Seq(Message \X (1 .. MessageUnits))]
    BY <1>6, <2>4 DEF SendUnit, TrafficTypeOK
  <2>6. unread[c] + 1 \in 0 .. SendBuffer
    <3>1. unread[c] \in 0 .. SendBuffer
      BY <2>2 DEF TrafficTypeOK
    <3>2. unread[c] < SendBuffer
      BY <1>6 DEF SendUnit
    <3> HIDE DEF c
    <3> QED
      BY <3>1, <3>2, SizesFacts
  <2>7. unread' \in [Clients -> 0 .. SendBuffer]
    BY <1>6, <2>6 DEF SendUnit, TrafficTypeOK
  <2>8. UNCHANGED <<sent, received>>
    BY <1>6 DEF SendUnit
  <2> QED
    BY <2>5, <2>7, <2>8 DEF TrafficTypeOK
<1>7. CASE RecvEnds
  <2>1. UNCHANGED <<sent, received, stream>>
    BY <1>7 DEF RecvEnds
  <2> QED
    BY <1>4, <1>7, <2>1, ClosingSteps
<1>8. CASE RecvAgain
  <2>1. UNCHANGED <<sent, received, stream>>
    BY <1>8 DEF RecvAgain
  <2> QED
    BY <1>1, <1>4, <1>8, <2>1, ClosingSteps
<1>9. CASE SendFails
  <2>1. UNCHANGED <<sent, received, stream>>
    BY <1>9 DEF SendFails
  <2> QED
    BY <1>4, <1>9, <2>1, ClosingSteps
<1>10. ASSUME \/ \E c \in Clients : Connect(c) \/ ClientShutdown(c) \/ ClientLeave(c)
              \/ KeyEventRecorded \/ EpollWait \/ Dispatch \/ BatchDone
              \/ Accept \/ AcceptSetupFails \/ AcceptEnds \/ Execute \/ ParseDone
              \/ Broadcast \/ PopEvent \/ QueueEmpty
              \/ \E fd \in Descriptors : SendEvent(fd)
              \/ FanoutDone \/ UNCHANGED vars
       PROVE  UNCHANGED <<sent, received, stream, unread>>
  BY <1>10 DEF Connect, ClientShutdown, ClientLeave, ClientStep, KeyEventRecorded, EpollWait,
       Dispatch, BatchDone, Accept, AcceptSetupFails, AcceptEnds, Execute, ParseDone, Broadcast,
       PopEvent, QueueEmpty, SendEvent, FanoutDone, vars, kernel
<1> QED
  BY <1>1, <1>2, <1>3, <1>5, <1>6, <1>7, <1>8, <1>9, <1>10 DEF Next, ClientNext, Server

(* The server's data stay typed: no more input is kept than a frame may have. *)
LEMMA DataStep ==
  ASSUME CoreInv, [Next]_vars
  PROVE  DataTypeOK'
<1> USE DEF CoreInv, TypeOK
<1>1. ASSUME UNCHANGED <<receiveBuffers, executed>>
      PROVE  DataTypeOK'
  BY <1>1 DEF DataTypeOK
<1>2. ASSUME NEW fd \in Descriptors, NEW units \in 0 .. MAX_FRAME,
             receiveBuffers' = WithBuffer(fd, units), executed' = executed
      PROVE  DataTypeOK'
  <2>1. receiveBuffers' \in [DOMAIN receiveBuffers \cup {fd} -> 0 .. MAX_FRAME]
    BY <1>2 DEF WithBuffer, DataTypeOK
  <2>2. DOMAIN receiveBuffers' = DOMAIN receiveBuffers \cup {fd}
    BY <1>2 DEF WithBuffer
  <2> QED
    BY <1>2, <2>1, <2>2 DEF DataTypeOK
<1>3. ASSUME NEW fd, Closing(fd), executed' = executed
      PROVE  DataTypeOK'
  BY <1>3, CloseSocketFacts DEF Closing, DataTypeOK
<1>4. CASE Accept
  <2>1. Min(Free) \in Descriptors
    BY <1>4, MinOfDescriptors DEF Accept, Free
  <2>2. 0 \in 0 .. MAX_FRAME
    BY SizesFacts
  <2> QED
    BY <1>2, <1>4, <2>1, <2>2 DEF Accept
<1>5. CASE RecvData
  <2> DEFINE fd == current.fd
             c == socket[fd]
             units == Min({BUFFER_SIZE, sent[c] - received[c]})
  <2>1. fd \in Registered
    BY <1>5 DEF RecvData, BatchInv
  <2>2. fd \in Descriptors /\ c \in Clients
    BY <2>1, RegisteredFacts
  <2>3. sent[c] - received[c] \in Nat
    BY <1>5, <2>2 DEF RecvData, TrafficTypeOK
  <2>4. units \in Nat
    BY <2>3, SizesFacts, MinOfTwo
  <2>5. Pending(fd) \in Nat
    BY SizesFacts DEF Pending, DataTypeOK
  <2> HIDE DEF units
  <2>6. CASE Pending(fd) + units > MAX_FRAME
    BY <1>3, <1>5, <2>1, <2>6 DEF RecvData, Closing, units
  <2>7. CASE ~(Pending(fd) + units > MAX_FRAME)
    <3>1. Pending(fd) + units \in 0 .. MAX_FRAME
      BY <2>4, <2>5, <2>7, SizesFacts
    <3>2. receiveBuffers' = WithBuffer(fd, Pending(fd) + units) /\ executed' = executed
      BY <1>5, <2>7 DEF RecvData, units
    <3> QED
      BY <1>2, <2>2, <3>1, <3>2
  <2> QED
    BY <2>6, <2>7
<1>6. CASE Execute
  <2> DEFINE fd == current.fd
             c == socket[fd]
             size == Requests[c][executed[c] + 1]
  <2>1. fd \in Registered /\ fd \in DOMAIN receiveBuffers
    BY <1>6 DEF Execute, BatchInv, Registries
  <2>2. c \in Clients
    BY <2>1, RegisteredFacts
  <2>3. executed[c] + 1 \in 1 .. Len(Requests[c]) /\ receiveBuffers[fd] >= size
    <3>1. executed[c] \in Nat /\ Len(Requests[c]) \in Nat
      BY <2>2, SizesFacts DEF DataTypeOK
    <3>2. RequestPending(fd)
      BY <1>6 DEF Execute
    <3>3. executed[c] < Len(Requests[c]) /\ Pending(fd) >= size
      BY <3>2 DEF RequestPending
    <3>4. Pending(fd) = receiveBuffers[fd]
      BY <2>1 DEF Pending
    <3> HIDE DEF c, fd, size
    <3> QED
      BY <3>1, <3>3, <3>4
  <2>4. size \in Nat \ {0}
    BY <2>2, <2>3, SizesFacts, ElementOfSeq
  <2>5. receiveBuffers[fd] - size \in 0 .. MAX_FRAME
    <3>1. receiveBuffers[fd] \in 0 .. MAX_FRAME
      BY <2>1, Zenon DEF DataTypeOK
    <3> HIDE DEF size, fd
    <3> QED
      BY <2>3, <2>4, <3>1, SizesFacts
  <2>6. receiveBuffers' = [receiveBuffers EXCEPT ![fd] = receiveBuffers[fd] - size]
    BY <1>6 DEF Execute
  <2>7. executed' = [executed EXCEPT ![c] = executed[c] + 1] /\ executed[c] + 1 \in Nat
    BY <1>6, <2>2 DEF Execute, DataTypeOK
  <2> HIDE DEF size, fd, c
  <2>8. /\ DOMAIN receiveBuffers' = DOMAIN receiveBuffers
        /\ receiveBuffers' \in [DOMAIN receiveBuffers -> 0 .. MAX_FRAME]
    BY <2>5, <2>6, Zenon DEF DataTypeOK
  <2>9. executed' \in [Clients -> Nat]
    BY <2>7, Zenon DEF DataTypeOK
  <2> QED
    BY <2>8, <2>9 DEF DataTypeOK
<1>7. CASE RecvEnds
  BY <1>3, <1>7, ClosingSteps DEF RecvEnds
<1>8. CASE RecvAgain
  <2>1. executed' = executed
    BY <1>8 DEF RecvAgain
  <2> QED
    BY <1>1, <1>3, <1>8, <2>1, ClosingSteps
<1>9. CASE SendFails
  BY <1>3, <1>9, ClosingSteps DEF SendFails
<1>10. ASSUME \/ \E c \in Clients : Connect(c) \/ ClientSend(c) \/ ClientRead(c)
                                      \/ ClientShutdown(c) \/ ClientLeave(c)
              \/ KeyEventRecorded \/ EpollWait \/ Dispatch \/ BatchDone
              \/ AcceptSetupFails \/ AcceptEnds \/ ParseDone \/ SendUnit
              \/ Broadcast \/ PopEvent \/ QueueEmpty
              \/ \E fd \in Descriptors : SendEvent(fd)
              \/ FanoutDone \/ UNCHANGED vars
       PROVE  UNCHANGED <<receiveBuffers, executed>>
  BY <1>10 DEF Connect, ClientSend, ClientRead, ClientShutdown, ClientLeave, ClientStep,
       KeyEventRecorded, EpollWait, Dispatch, BatchDone, AcceptSetupFails, AcceptEnds,
       ParseDone, SendUnit, Broadcast, PopEvent, QueueEmpty, SendEvent, FanoutDone, vars
<1> QED
  BY <1>1, <1>4, <1>5, <1>6, <1>7, <1>8, <1>9, <1>10 DEF Next, ClientNext, Server

(* The window of key events and the history stay typed. *)
LEMMA WindowStep ==
  ASSUME CoreInv, [Next]_vars
  PROVE  WindowTypeOK' /\ HistoryTypeOK'
<1> USE DEF CoreInv, TypeOK
<1>1. CASE KeyEventRecorded
  BY <1>1 DEF KeyEventRecorded, Record, WindowTypeOK, HistoryTypeOK, history
<1>2. CASE PopEvent
  <2>1. WindowTypeOK'
    <3>1. EventNumbered(first) \in KeyEvent
      BY DEF WindowTypeOK, EventNumbered, KeyEvent
    <3> QED
      BY <1>2, <3>1 DEF PopEvent, Deliver, WindowTypeOK
  <2>2. popped' \in Seq(Nat) /\ joined' = joined
    BY <1>2, AppendProperties DEF PopEvent, WindowTypeOK, HistoryTypeOK
  <2> QED
    BY <2>1, <2>2 DEF HistoryTypeOK
<1>3. CASE Accept
  <2>1. Len(popped) \in Nat
    BY LenProperties DEF HistoryTypeOK
  <2>2. UNCHANGED <<windowVars, popped>>
        /\ joined' = [joined EXCEPT ![Head(backlog)] = Len(popped)]
    BY <1>3 DEF Accept
  <2> QED
    BY <2>1, <2>2 DEF WindowTypeOK, HistoryTypeOK, windowVars
<1>4. ASSUME \/ \E c \in Clients : Connect(c) \/ ClientSend(c) \/ ClientRead(c)
                                     \/ ClientShutdown(c) \/ ClientLeave(c)
             \/ EpollWait \/ Dispatch \/ BatchDone \/ AcceptSetupFails \/ AcceptEnds
             \/ RecvData \/ RecvEnds \/ RecvAgain \/ Execute \/ ParseDone
             \/ SendUnit \/ SendFails \/ Broadcast \/ QueueEmpty
             \/ \E fd \in Descriptors : SendEvent(fd)
             \/ FanoutDone \/ UNCHANGED vars
      PROVE  UNCHANGED <<windowVars, history>>
  BY <1>4 DEF Connect, ClientSend, ClientRead, ClientShutdown, ClientLeave, ClientStep,
       EpollWait, Dispatch, BatchDone, AcceptSetupFails, AcceptEnds, RecvData, RecvEnds,
       RecvAgain, Execute, ParseDone, SendUnit, SendFails, Broadcast, QueueEmpty, SendEvent,
       FanoutDone, vars
<1>5. UNCHANGED <<windowVars, history>> => WindowTypeOK' /\ HistoryTypeOK'
  BY DEF windowVars, history, WindowTypeOK, HistoryTypeOK
<1> QED
  BY <1>1, <1>2, <1>3, <1>4, <1>5 DEF Next, ClientNext, Server

(* Steps that leave the batch and the event being handled alone. *)
LEMMA BatchKept ==
  \/ \E c \in Clients : Connect(c) \/ ClientSend(c) \/ ClientRead(c)
                          \/ ClientShutdown(c) \/ ClientLeave(c)
  \/ KeyEventRecorded \/ UNCHANGED vars
  => UNCHANGED thread
BY DEF Connect, ClientSend, ClientRead, ClientShutdown, ClientLeave, ClientStep,
       KeyEventRecorded, vars

(* The thread's variables stay typed. *)
LEMMA ThreadStep ==
  ASSUME CoreInv, [Next]_vars
  PROVE  ThreadTypeOK'
<1> USE DEF CoreInv, TypeOK
<1> DEFINE Pcs == {"wait", "dispatch", "accept", "recv", "parse", "answer",
                   "broadcast", "pop", "fanout", "push"}
           Outs == [fd : Descriptors \cup {listenfd}, message : Message,
                    offset : 0 .. MessageUnits - 1]
<1>1. CASE UNCHANGED thread
  BY <1>1 DEF thread, ThreadTypeOK
<1>2. CASE EpollWait
  <2>1. batch' \in Seq(Event)
    BY <1>2, EpollFacts, ReadyFacts, SeqMonotonic
  <2> QED
    BY <1>2, <2>1 DEF EpollWait, ThreadTypeOK
<1>3. CASE Dispatch
  <2>1. Head(batch) \in Event /\ Tail(batch) \in Seq(Event)
    BY <1>3, HeadTailProperties DEF Dispatch, ThreadTypeOK
  <2> QED
    BY <1>3, <2>1 DEF Dispatch, ThreadTypeOK
<1>4. CASE BatchDone
  <2>1. NoEntry \in Event
    BY DEF NoEntry, Event
  <2> QED
    BY <1>4, <2>1 DEF BatchDone, ThreadTypeOK
<1>5. CASE Execute
  <2>1. current.fd \in Registered
    BY <1>5 DEF Execute, BatchInv
  <2>2. current.fd \in Descriptors /\ socket[current.fd] \in Clients
    BY <2>1, RegisteredFacts
  <2>3. executed[socket[current.fd]] + 1 \in Nat
    BY <2>2 DEF DataTypeOK
  <2>4. out' \in Outs
    BY <1>5, <2>2, <2>3, SizesFacts DEF Execute, Message
  <2> QED
    BY <1>5, <2>4 DEF Execute, ThreadTypeOK
<1>6. NothingOut \in Outs
  BY SizesFacts DEF NothingOut, Message
<1>7. CASE SendUnit
  <2>1. out' \in Outs
    <3>1. CASE out.offset + 1 < MessageUnits
      <4>1. out' = [out EXCEPT !.offset = out.offset + 1]
        BY <1>7, <3>1 DEF SendUnit
      <4>2. out.offset + 1 \in 0 .. MessageUnits - 1
        BY <3>1, SizesFacts DEF ThreadTypeOK
      <4> QED
        BY <4>1, <4>2 DEF ThreadTypeOK
    <3>2. CASE ~(out.offset + 1 < MessageUnits)
      BY <1>6, <1>7, <3>2 DEF SendUnit
    <3> QED
      BY <3>1, <3>2
  <2>2. pc' \in Pcs
    <3>1. pc' \in {pc, "parse", "fanout"}
      BY <1>7 DEF SendUnit
    <3> QED
      BY <3>1 DEF ThreadTypeOK
  <2>3. UNCHANGED <<batch, current, clients>>
    BY <1>7 DEF SendUnit
  <2> QED
    BY <2>1, <2>2, <2>3 DEF ThreadTypeOK
<1>8. CASE SendFails
  <2>1. /\ out' = NothingOut /\ UNCHANGED <<batch, current, clients>>
        /\ pc' \in {"dispatch", "fanout"}
    BY <1>8 DEF SendFails
  <2> QED
    BY <1>6, <2>1 DEF ThreadTypeOK
<1>9. CASE PopEvent
  <2>1. DOMAIN receiveBuffers \subseteq Descriptors
    BY DEF DataTypeOK
  <2> QED
    BY <1>9, <2>1 DEF PopEvent, ThreadTypeOK
<1>10. ASSUME NEW fd \in Descriptors, SendEvent(fd)
       PROVE  ThreadTypeOK'
  <2>1. delivered.sequence \in Nat
    BY DEF WindowTypeOK, KeyEvent
  <2>2. out' \in Outs
    BY <1>10, <2>1, SizesFacts DEF SendEvent, Message
  <2> QED
    BY <1>10, <2>2 DEF SendEvent, ThreadTypeOK
<1>11. ASSUME \/ Accept \/ AcceptSetupFails \/ AcceptEnds
              \/ RecvData \/ RecvEnds \/ RecvAgain \/ ParseDone
              \/ Broadcast \/ QueueEmpty \/ FanoutDone
       PROVE  UNCHANGED <<batch, current, out, clients>> /\ pc' \in Pcs
  BY <1>11, Zenon DEF Accept, AcceptSetupFails, AcceptEnds, RecvData, RecvEnds, RecvAgain,
       ParseDone, Broadcast, QueueEmpty, FanoutDone, thread
<1>12. UNCHANGED <<batch, current, out, clients>> /\ pc' \in Pcs => ThreadTypeOK'
  BY DEF ThreadTypeOK
<1> QED
  BY <1>1, <1>2, <1>3, <1>4, <1>5, <1>7, <1>8, <1>9, <1>10, <1>11, <1>12, BatchKept
     DEF Next, ClientNext, Server

-----------------------------------------------------------------------------
(* No event of a batch becomes stale: a step that closes a connection closes  *)
(* the one whose event is being handled, and a step that takes a descriptor   *)
(* takes one that no event names.                                             *)
LEMMA BatchStep ==
  ASSUME CoreInv, [Next]_vars
  PROVE  BatchInv'
<1> USE DEF CoreInv, TypeOK
<1>0. batch \in Seq(Event) /\ Len(batch) \in Nat
  BY LenProperties DEF ThreadTypeOK
<1>1. ASSUME UNCHANGED <<thread, socket>>
      PROVE  BatchInv'
  BY <1>1 DEF BatchInv, thread, Registered
<1>2. CASE EpollWait
  <2>1. pc' = "dispatch" /\ socket' = socket
    BY <1>2 DEF EpollWait, kernel
  <2>2. /\ batch' \in Seq(Ready)
        /\ \A i, j \in 1 .. Len(batch') : batch'[i] = batch'[j] => i = j
    BY <1>2, EpollFacts
  <2>3. \A i \in 1 .. Len(batch') : batch'[i] \in Ready
    BY <2>2, ElementOfSeq
  <2>4. \A i \in 1 .. Len(batch') :
          batch'[i].fd # listenfd =>
            batch'[i].fd \in Registered' /\ socket'[batch'[i].fd] = batch'[i].client
    BY <2>1, <2>3, ReadyFacts DEF Registered
  <2>5. \A i, j \in 1 .. Len(batch') : batch'[i].fd = batch'[j].fd => i = j
    BY <2>2, <2>3, ReadyFacts
  <2> QED
    BY <2>1, <2>4, <2>5 DEF BatchInv
<1>3. CASE Dispatch
  <2>1. batch # <<>> /\ socket' = socket /\ current' = Head(batch) /\ batch' = Tail(batch)
        /\ pc' = IF Head(batch).fd = listenfd THEN "accept" ELSE "recv"
    BY <1>3 DEF Dispatch, kernel
  <2>2. /\ Head(batch) = batch[1] /\ Len(batch) > 0
        /\ Len(batch') = Len(batch) - 1
        /\ \A i \in 1 .. Len(batch') : batch'[i] = batch[i + 1]
    BY <1>0, <2>1, HeadTailProperties, EmptySeq
  <2>3. \A i \in 1 .. Len(batch') :
          batch'[i].fd # listenfd =>
            batch'[i].fd \in Registered' /\ socket'[batch'[i].fd] = batch'[i].client
    BY <1>0, <2>1, <2>2 DEF BatchInv, Registered
  <2>4. \A i, j \in 1 .. Len(batch') : batch'[i].fd = batch'[j].fd => i = j
    <3> SUFFICES ASSUME NEW i \in 1 .. Len(batch'), NEW j \in 1 .. Len(batch'),
                        batch'[i].fd = batch'[j].fd
                 PROVE  i = j
      OBVIOUS
    <3>1. i + 1 \in 1 .. Len(batch) /\ j + 1 \in 1 .. Len(batch)
      BY <1>0, <2>2
    <3>2. batch[i + 1].fd = batch[j + 1].fd
      BY <2>2
    <3>3. i + 1 = j + 1
      BY <3>1, <3>2 DEF BatchInv
    <3> QED
      BY <3>3
  <2>5. \A i \in 1 .. Len(batch') : batch'[i].fd # current'.fd
    <3> SUFFICES ASSUME NEW i \in 1 .. Len(batch'), batch'[i].fd = current'.fd
                 PROVE  FALSE
      OBVIOUS
    <3>1. i + 1 \in 1 .. Len(batch) /\ 1 \in 1 .. Len(batch)
      BY <1>0, <2>2
    <3>2. batch[i + 1].fd = batch[1].fd
      BY <2>1, <2>2
    <3>3. i + 1 = 1
      BY <3>1, <3>2 DEF BatchInv
    <3> QED
      BY <3>3
  <2>6. pc' = "recv" => current'.fd \in Registered' /\ socket'[current'.fd] = current'.client
    <3>1. 1 \in 1 .. Len(batch)
      BY <1>0, <2>2
    <3>2. batch[1].fd # listenfd =>
            batch[1].fd \in Registered /\ socket[batch[1].fd] = batch[1].client
      BY <3>1 DEF BatchInv
    <3> QED
      BY <2>1, <2>2, <3>2 DEF Registered
  <2>7. pc' \in {"accept", "recv"}
    BY <2>1
  <2> QED
    BY <2>3, <2>4, <2>5, <2>6, <2>7 DEF BatchInv
<1>4. CASE BatchDone
  <2>1. batch = <<>> /\ batch' = batch /\ pc' = "broadcast" /\ socket' = socket
    BY <1>4 DEF BatchDone, kernel
  <2> QED
    BY <2>1 DEF BatchInv, Registered
<1>5. CASE Accept
  <2>1. Min(Free) \in Free
    BY <1>5, MinOfDescriptors DEF Accept, Free
  <2>2. /\ pc = "accept" /\ UNCHANGED thread
        /\ socket' = [socket EXCEPT ![Min(Free)] = Head(backlog)]
    BY <1>5 DEF Accept
  <2>3. Head(backlog) \in Clients
    BY <1>5, HeadTailProperties DEF Accept, ConnectionsTypeOK
  <2>4. \A fd \in Registered : fd \in Registered' /\ socket'[fd] = socket[fd]
    BY <2>1, <2>2 DEF Registered, Free, ConnectionsTypeOK
  <2> QED
    BY <2>2, <2>4 DEF BatchInv, thread
<1>6. ASSUME NEW fd, Closing(fd), pc \in {"recv", "answer"}, fd = current.fd,
             batch' = batch, pc' = "dispatch"
      PROVE  BatchInv'
  <2>1. \A g \in Registered : g # fd => g \in Registered' /\ socket'[g] = socket[g]
    BY <1>6, CloseSocketFacts DEF Closing
  <2> QED
    BY <1>6, <2>1 DEF BatchInv
<1>7. CASE RecvData
  <2>1. pc = "recv" /\ UNCHANGED <<batch, current>>
    BY <1>7 DEF RecvData
  <2>2. CASE Closing(current.fd) /\ pc' = "dispatch"
    BY <1>6, <2>1, <2>2
  <2>3. CASE UNCHANGED <<peer, backlog, socket, watched>> /\ pc' = "parse"
    BY <2>1, <2>3 DEF BatchInv, Registered
  <2>4. current.fd \in Registered
    BY <2>1 DEF BatchInv
  <2> QED
    BY <1>7, <2>2, <2>3, <2>4 DEF RecvData, Closing
<1>8. CASE RecvEnds
  BY <1>6, <1>8, ClosingSteps DEF RecvEnds
<1>9. CASE RecvAgain
  <2>1. pc = "recv" /\ pc' = "dispatch" /\ UNCHANGED <<batch, current>>
    BY <1>9 DEF RecvAgain
  <2>2. CASE UNCHANGED socket
    BY <2>1, <2>2 DEF BatchInv, Registered
  <2> QED
    BY <1>6, <1>9, <2>1, <2>2, ClosingSteps
<1>10. CASE SendFails
  <2>1. Closing(out.fd) /\ batch' = batch
    BY <1>10, ClosingSteps DEF SendFails
  <2>2. CASE pc = "answer"
    <3>1. out.fd = current.fd /\ pc' = "dispatch"
      BY <1>10, <2>2 DEF SendFails, OutInv
    <3> QED
      BY <1>6, <2>1, <2>2, <3>1
  <2>3. CASE pc = "push"
    <3>1. batch' = <<>> /\ pc' = "fanout"
      BY <1>10, <2>1, <2>3 DEF SendFails, BatchInv
    <3> QED
      BY <3>1 DEF BatchInv
  <2> QED
    BY <1>10, <2>2, <2>3 DEF SendFails
<1>11. ASSUME Execute \/ ParseDone
       PROVE  BatchInv'
  <2>1. /\ pc = "parse" /\ pc' \in {"answer", "recv"}
        /\ UNCHANGED <<socket, batch, current>>
    BY <1>11 DEF Execute, ParseDone, kernel
  <2> QED
    BY <2>1 DEF BatchInv, Registered
<1>12. CASE SendUnit
  <2>1. /\ \/ pc = "answer" /\ pc' \in {"answer", "parse"}
           \/ pc = "push" /\ pc' \in {"push", "fanout"}
        /\ UNCHANGED <<socket, batch, current>>
    BY <1>12 DEF SendUnit
  <2> QED
    BY <2>1 DEF BatchInv, Registered
<1>13. ASSUME \/ Broadcast \/ PopEvent \/ QueueEmpty
              \/ \E fd \in Descriptors : SendEvent(fd)
              \/ FanoutDone
       PROVE  BatchInv'
  <2>1. /\ pc \in {"broadcast", "pop", "fanout"}
        /\ pc' \in {"wait", "pop", "fanout", "push"}
        /\ UNCHANGED <<socket, batch, current>>
    BY <1>13 DEF Broadcast, PopEvent, QueueEmpty, SendEvent, FanoutDone, kernel
  <2> QED
    BY <2>1 DEF BatchInv, Registered
<1>14. ASSUME AcceptSetupFails \/ AcceptEnds
       PROVE  BatchInv'
  <2>1. pc' \in {"accept", "dispatch"} /\ UNCHANGED <<socket, batch, current>>
    BY <1>14 DEF AcceptSetupFails, AcceptEnds, kernel, thread
  <2> QED
    BY <2>1 DEF BatchInv, Registered
<1>15. ASSUME \/ \E c \in Clients : Connect(c) \/ ClientSend(c) \/ ClientRead(c)
                                      \/ ClientShutdown(c) \/ ClientLeave(c)
              \/ KeyEventRecorded \/ UNCHANGED vars
       PROVE  UNCHANGED <<thread, socket>>
  BY <1>15, BatchKept DEF Connect, ClientSend, ClientRead, ClientShutdown, ClientLeave,
       ClientStep, KeyEventRecorded, vars, kernel
<1> QED
  BY <1>1, <1>2, <1>3, <1>4, <1>5, <1>7, <1>8, <1>9, <1>10, <1>11, <1>12, <1>13, <1>14, <1>15
     DEF Next, ClientNext, Server

(* A message goes to a client that is still connected, and so will the        *)
(* copies of a broadcast.                                                     *)
LEMMA OutStep ==
  ASSUME CoreInv, [Next]_vars
  PROVE  OutInv'
<1> USE DEF CoreInv, TypeOK
<1>1. ASSUME UNCHANGED <<thread, socket>>
      PROVE  OutInv'
  BY <1>1 DEF OutInv, thread, Registered
<1>2. ASSUME pc' \notin {"answer", "fanout", "push"}
      PROVE  OutInv'
  BY <1>2 DEF OutInv
<1>3. CASE Execute
  BY <1>3 DEF Execute, OutInv
<1>4. CASE SendUnit
  <2>1. /\ \/ pc = "answer" /\ pc' = "answer" /\ out'.fd = out.fd
           \/ pc = "answer" /\ pc' = "parse"
           \/ pc = "push" /\ pc' = "push" /\ out'.fd = out.fd
           \/ pc = "push" /\ pc' = "fanout"
        /\ UNCHANGED <<socket, current, clients>>
    <3>1. [out EXCEPT !.offset = out.offset + 1].fd = out.fd
      BY DEF ThreadTypeOK
    <3> QED
      BY <1>4, <3>1 DEF SendUnit
  <2> QED
    BY <2>1 DEF OutInv, Registered
<1>5. CASE SendFails
  <2>1. Closing(out.fd) /\ clients' = clients
    BY <1>5, ClosingSteps DEF SendFails
  <2>2. CASE pc = "push"
    <3>1. pc' = "fanout" /\ Registered' = Registered \ {out.fd}
      BY <1>5, <2>1, <2>2, CloseSocketFacts DEF SendFails, Closing
    <3> QED
      BY <2>1, <2>2, <3>1 DEF OutInv
  <2> QED
    BY <1>2, <1>5, <2>2 DEF SendFails
<1>6. CASE PopEvent
  <2>1. clients' = Registered /\ pc' = "fanout" /\ socket' = socket
    BY <1>6 DEF PopEvent, Registries, kernel
  <2> QED
    BY <2>1 DEF OutInv, Registered
<1>7. ASSUME NEW fd \in Descriptors, SendEvent(fd)
      PROVE  OutInv'
  <2>1. /\ pc = "fanout" /\ pc' = "push" /\ socket' = socket /\ fd \in clients
        /\ clients' = clients \ {fd} /\ out'.fd = fd
    BY <1>7 DEF SendEvent, kernel
  <2> QED
    BY <2>1 DEF OutInv, Registered
<1>8. ASSUME \/ EpollWait \/ Dispatch \/ BatchDone \/ AcceptEnds \/ RecvData \/ RecvEnds
             \/ RecvAgain \/ ParseDone \/ Broadcast \/ QueueEmpty \/ FanoutDone
      PROVE  pc' \notin {"answer", "fanout", "push"}
  BY <1>8, Zenon DEF EpollWait, Dispatch, BatchDone, AcceptEnds, RecvData, RecvEnds, RecvAgain,
       ParseDone, Broadcast, QueueEmpty, FanoutDone
<1>9. ASSUME Accept \/ AcceptSetupFails
      PROVE  pc' \notin {"answer", "fanout", "push"}
  BY <1>9 DEF Accept, AcceptSetupFails, thread
<1>10. ASSUME \/ \E c \in Clients : Connect(c) \/ ClientSend(c) \/ ClientRead(c)
                                      \/ ClientShutdown(c) \/ ClientLeave(c)
              \/ KeyEventRecorded \/ UNCHANGED vars
       PROVE  UNCHANGED <<thread, socket>>
  BY <1>10, BatchKept DEF Connect, ClientSend, ClientRead, ClientShutdown, ClientLeave,
       ClientStep, KeyEventRecorded, vars, kernel
<1> QED
  BY <1>1, <1>2, <1>3, <1>4, <1>5, <1>6, <1>7, <1>8, <1>9, <1>10 DEF Next, ClientNext, Server

(* Every step of clients, kernel and server keeps the invariant of types,     *)
(* registries and batch.                                                      *)
LEMMA CoreStep ==
  CoreInv /\ [Next]_vars => CoreInv'
BY ConnectionsStep, TrafficStep, DataStep, ThreadStep, WindowStep, BatchStep, OutStep
   DEF CoreInv, TypeOK

(* In every reachable state the invariant holds. *)
THEOREM CoreInvariance == Spec => []CoreInv
<1>1. Init => CoreInv
  BY CoreInit
<1>2. CoreInv /\ [Next]_vars => CoreInv'
  BY CoreStep
<1> QED
  BY <1>1, <1>2, PTL DEF Spec

(* The variables of the server, the kernel and the clients have their types. *)
THEOREM TypeCorrect == Spec => []TypeOK
<1>1. CoreInv => TypeOK
  BY DEF CoreInv
<1> QED
  BY <1>1, CoreInvariance, PTL

(* An event is handled for the connection that it was reported for. *)
THEOREM BatchIsFresh == Spec => []BatchFresh
<1>1. CoreInv => BatchFresh
  <2> SUFFICES ASSUME CoreInv,
                      NEW e \in ToSet(batch)
                                  \cup (IF pc \in {"recv", "parse", "answer"} THEN {current} ELSE {}),
                      e.fd # listenfd
               PROVE  socket[e.fd] = e.client
    BY DEF BatchFresh
  <2>1. CASE e \in ToSet(batch)
    <3>1. PICK i \in 1 .. Len(batch) : e = batch[i]
      <4>1. DOMAIN batch = 1 .. Len(batch)
        BY LenProperties DEF CoreInv, TypeOK, ThreadTypeOK
      <4> QED
        BY <2>1, <4>1 DEF ToSet
    <3> QED
      BY <3>1 DEF CoreInv, BatchInv
  <2>2. CASE pc \in {"recv", "parse", "answer"} /\ e = current
    BY <2>2 DEF CoreInv, BatchInv
  <2> QED
    BY <2>1, <2>2
<1> QED
  BY <1>1, CoreInvariance, PTL

-----------------------------------------------------------------------------
(* The connection was made and not yet accepted.                              *)
Waits(c) == \E i \in 1 .. Len(backlog) : backlog[i] = c

(* The server has the connection.                                             *)
HasDescriptor(c) == \E fd \in Registered : socket[fd] = c

(* A connection waits for accept() or has one descriptor; one that has        *)
(* neither is no connection yet, or none any more.                            *)
PlacesInv ==
  /\ \A f, g \in Registered : socket[f] = socket[g] => f = g
  /\ \A i, j \in 1 .. Len(backlog) : backlog[i] = backlog[j] => i = j
  /\ \A c \in Clients : ~(Waits(c) /\ HasDescriptor(c))
  /\ \A c \in Clients :
       peer[c] \in {"open", "shut", "gone"} <=> Waits(c) \/ HasDescriptor(c)

(* Nothing has been exchanged with a client that was not accepted yet. *)
Untouched(c) == received[c] = 0 /\ executed[c] = 0 /\ stream[c] = <<>>

(* So a connection is accepted with nothing exchanged.                        *)
FreshInv == \A c \in Clients : peer[c] = "new" \/ Waits(c) => Untouched(c)

(* At the start there is no connection.                                       *)
LEMMA PlacesInit == Init => PlacesInv /\ FreshInv
BY DEF Init, PlacesInv, FreshInv, Untouched, Waits, HasDescriptor, Registered

(* The client of a descriptor in use is there, and does not wait. *)
LEMMA DescriptorOwner ==
  ASSUME CoreInv, PlacesInv, NEW fd \in Registered
  PROVE  /\ fd \in Descriptors /\ socket[fd] \in Clients
         /\ peer[socket[fd]] \in {"open", "shut", "gone"}
         /\ ~Waits(socket[fd])
BY RegisteredFacts DEF CoreInv, TypeOK, PlacesInv, HasDescriptor

(* accept() takes the head of the backlog. *)
LEMMA BacklogFacts ==
  ASSUME CoreInv, PlacesInv, backlog # <<>>
  PROVE  /\ Head(backlog) \in Clients /\ Waits(Head(backlog))
         /\ \A i \in 1 .. Len(Tail(backlog)) :
              /\ Tail(backlog)[i] # Head(backlog)
              /\ i + 1 \in 1 .. Len(backlog) /\ Tail(backlog)[i] = backlog[i + 1]
         /\ \A c \in Clients : c # Head(backlog) =>
              (Waits(c) <=> \E i \in 1 .. Len(Tail(backlog)) : Tail(backlog)[i] = c)
<1>1. /\ backlog \in Seq(Clients) /\ Len(backlog) \in Nat /\ Len(backlog) > 0
      /\ Head(backlog) = backlog[1] /\ Head(backlog) \in Clients
      /\ Len(Tail(backlog)) = Len(backlog) - 1
      /\ \A i \in 1 .. Len(Tail(backlog)) : Tail(backlog)[i] = backlog[i + 1]
  BY LenProperties, HeadTailProperties, EmptySeq DEF CoreInv, TypeOK, ConnectionsTypeOK
<1>2. Waits(Head(backlog))
  BY <1>1 DEF Waits
<1>3. ASSUME NEW i \in 1 .. Len(Tail(backlog))
      PROVE  /\ Tail(backlog)[i] # Head(backlog)
             /\ i + 1 \in 1 .. Len(backlog) /\ Tail(backlog)[i] = backlog[i + 1]
  <2>1. i + 1 \in 1 .. Len(backlog) /\ 1 \in 1 .. Len(backlog) /\ i + 1 # 1
    BY <1>1
  <2>2. backlog[i + 1] # backlog[1]
    BY <2>1 DEF PlacesInv
  <2> QED
    BY <1>1, <2>1, <2>2
<1>4. ASSUME NEW c \in Clients, c # Head(backlog)
      PROVE  Waits(c) <=> \E i \in 1 .. Len(Tail(backlog)) : Tail(backlog)[i] = c
  <2>1. ASSUME NEW i \in 1 .. Len(backlog), backlog[i] = c
        PROVE  i - 1 \in 1 .. Len(Tail(backlog)) /\ Tail(backlog)[i - 1] = c
    BY <1>1, <1>4, <2>1
  <2>2. ASSUME NEW i \in 1 .. Len(Tail(backlog)), Tail(backlog)[i] = c
        PROVE  i + 1 \in 1 .. Len(backlog) /\ backlog[i + 1] = c
    BY <1>3, <2>2
  <2> QED
    BY <2>1, <2>2 DEF Waits
<1> QED
  BY <1>1, <1>2, <1>3, <1>4

(* No step loses a connection or gives it two places. *)
LEMMA PlacesStep ==
  ASSUME CoreInv, PlacesInv, [Next]_vars
  PROVE  PlacesInv'
<1> USE DEF CoreInv, TypeOK
<1>0. backlog \in Seq(Clients) /\ Len(backlog) \in Nat
  BY LenProperties DEF ConnectionsTypeOK
<1>1. ASSUME UNCHANGED <<peer, backlog, socket>>
      PROVE  PlacesInv'
  BY <1>1 DEF PlacesInv, Waits, HasDescriptor, Registered
<1>2. ASSUME NEW c \in Clients, Connect(c)
      PROVE  PlacesInv'
  <2>1. /\ peer[c] = "new" /\ peer' = [peer EXCEPT ![c] = "open"]
        /\ backlog' = Append(backlog, c) /\ socket' = socket
    BY <1>2 DEF Connect, ClientStep
  <2>2. ~Waits(c) /\ ~HasDescriptor(c)
    BY <2>1 DEF PlacesInv
  <2>3. /\ Len(backlog') = Len(backlog) + 1 /\ backlog'[Len(backlog) + 1] = c
        /\ \A i \in 1 .. Len(backlog) : backlog'[i] = backlog[i]
    BY <1>0, <2>1, AppendProperties
  <2>4. \A d : Waits(d)' <=> Waits(d) \/ d = c
    BY <1>0, <2>3 DEF Waits
  <2>5. Registered' = Registered /\ \A d : HasDescriptor(d)' <=> HasDescriptor(d)
    BY <2>1 DEF HasDescriptor, Registered
  <2>6. \A i, j \in 1 .. Len(backlog') : backlog'[i] = backlog'[j] => i = j
    <3>1. \A i \in 1 .. Len(backlog) : backlog[i] # c
      BY <2>2 DEF Waits
    <3> QED
      BY <1>0, <2>3, <3>1 DEF PlacesInv
  <2>7. \A d \in Clients : ~(Waits(d)' /\ HasDescriptor(d)')
    BY <2>2, <2>4, <2>5 DEF PlacesInv
  <2>8. \A d \in Clients :
          peer'[d] \in {"open", "shut", "gone"} <=> Waits(d)' \/ HasDescriptor(d)'
    BY <2>1, <2>4, <2>5 DEF PlacesInv, ConnectionsTypeOK
  <2>9. \A f, g \in Registered' : socket'[f] = socket'[g] => f = g
    BY <2>1, <2>5 DEF PlacesInv
  <2> QED
    BY <2>6, <2>7, <2>8, <2>9 DEF PlacesInv
<1>3. ASSUME NEW c \in Clients, ClientShutdown(c) \/ ClientLeave(c)
      PROVE  PlacesInv'
  <2>1. /\ peer[c] \in {"open", "shut"} /\ UNCHANGED <<backlog, socket>>
        /\ peer' = [peer EXCEPT ![c] = "shut"] \/ peer' = [peer EXCEPT ![c] = "gone"]
    BY <1>3 DEF ClientShutdown, ClientLeave, ClientStep
  <2>2. \A d \in Clients : peer'[d] \in {"open", "shut", "gone"}
                           <=> peer[d] \in {"open", "shut", "gone"}
    BY <2>1 DEF ConnectionsTypeOK
  <2> QED
    BY <2>1, <2>2 DEF PlacesInv, Waits, HasDescriptor, Registered
<1>4. CASE Accept
  <2>0. PICK c \in Clients : c = Head(backlog)
    BY <1>4, BacklogFacts DEF Accept
  <2>1. PICK fd \in Descriptors : fd = Min(Free) /\ socket[fd] = NONE
    BY <1>4, MinOfDescriptors DEF Accept, Free
  <2>2. /\ backlog # <<>> /\ backlog' = Tail(backlog) /\ peer' = peer
        /\ socket' = [socket EXCEPT ![fd] = c]
    BY <1>4, <2>0, <2>1 DEF Accept
  <2>3. c \in Clients /\ Waits(c) /\ ~HasDescriptor(c) /\ c # NONE
    BY <2>0, <2>2, BacklogFacts, ServerAssumption DEF PlacesInv
  <2>4. /\ \A i \in 1 .. Len(backlog') : backlog'[i] # c
        /\ \A d \in Clients : d # c => (Waits(d) <=> Waits(d)')
        /\ \A i \in 1 .. Len(backlog') :
             i + 1 \in 1 .. Len(backlog) /\ backlog'[i] = backlog[i + 1]
    BY <2>0, <2>2, BacklogFacts DEF Waits
  <2>5. /\ Registered' = Registered \cup {fd} /\ fd \notin Registered
        /\ socket'[fd] = c
        /\ \A g \in Registered : socket'[g] = socket[g]
    BY <2>1, <2>2, <2>3 DEF Registered, ConnectionsTypeOK
  <2>6. \A d : HasDescriptor(d)' <=> HasDescriptor(d) \/ d = c
    BY <2>5 DEF HasDescriptor
  <2>7. ~Waits(c)'
    BY <2>4 DEF Waits
  <2>8. \A i, j \in 1 .. Len(backlog') : backlog'[i] = backlog'[j] => i = j
    <3> SUFFICES ASSUME NEW i \in 1 .. Len(backlog'), NEW j \in 1 .. Len(backlog'),
                        backlog'[i] = backlog'[j]
                 PROVE  i = j
      OBVIOUS
    <3>1. i + 1 = j + 1
      BY <2>4 DEF PlacesInv
    <3> QED
      BY <3>1
  <2>9. \A f, g \in Registered' : socket'[f] = socket'[g] => f = g
    BY <2>3, <2>5 DEF PlacesInv, HasDescriptor
  <2>10. \A d \in Clients : ~(Waits(d)' /\ HasDescriptor(d)')
    BY <2>4, <2>6, <2>7 DEF PlacesInv
  <2>11. \A d \in Clients :
           peer'[d] \in {"open", "shut", "gone"} <=> Waits(d)' \/ HasDescriptor(d)'
    BY <2>2, <2>3, <2>4, <2>6 DEF PlacesInv
  <2> QED
    BY <2>8, <2>9, <2>10, <2>11 DEF PlacesInv
<1>5. CASE AcceptSetupFails
  <2>1. PICK c \in Clients : c = Head(backlog)
    BY <1>5, BacklogFacts DEF AcceptSetupFails
  <2>2. /\ backlog # <<>> /\ backlog' = Tail(backlog) /\ socket' = socket
        /\ peer' = [peer EXCEPT ![c] = "refused"]
    BY <1>5, <2>1 DEF AcceptSetupFails
  <2>3. c \in Clients /\ Waits(c) /\ ~HasDescriptor(c)
    BY <2>1, <2>2, BacklogFacts DEF PlacesInv
  <2>4. /\ \A i \in 1 .. Len(backlog') : backlog'[i] # c
        /\ \A d \in Clients : d # c => (Waits(d) <=> Waits(d)')
        /\ \A i \in 1 .. Len(backlog') :
             i + 1 \in 1 .. Len(backlog) /\ backlog'[i] = backlog[i + 1]
    BY <2>1, <2>2, BacklogFacts DEF Waits
  <2>5. Registered' = Registered /\ \A d : HasDescriptor(d)' <=> HasDescriptor(d)
    BY <2>2 DEF HasDescriptor, Registered
  <2>6. ~Waits(c)'
    BY <2>4 DEF Waits
  <2>7. \A i, j \in 1 .. Len(backlog') : backlog'[i] = backlog'[j] => i = j
    <3> SUFFICES ASSUME NEW i \in 1 .. Len(backlog'), NEW j \in 1 .. Len(backlog'),
                        backlog'[i] = backlog'[j]
                 PROVE  i = j
      OBVIOUS
    <3>1. i + 1 = j + 1
      BY <2>4 DEF PlacesInv
    <3> QED
      BY <3>1
  <2>8. \A d \in Clients : ~(Waits(d)' /\ HasDescriptor(d)')
    BY <2>3, <2>4, <2>5 DEF PlacesInv
  <2>9. \A d \in Clients :
           peer'[d] \in {"open", "shut", "gone"} <=> Waits(d)' \/ HasDescriptor(d)'
    <3> SUFFICES ASSUME NEW d \in Clients
                 PROVE  peer'[d] \in {"open", "shut", "gone"}
                        <=> Waits(d)' \/ HasDescriptor(d)'
      OBVIOUS
    <3>1. CASE d = c
      BY <2>2, <2>3, <2>5, <2>6, <3>1 DEF ConnectionsTypeOK
    <3>2. CASE d # c
      BY <2>2, <2>4, <2>5, <3>2 DEF ConnectionsTypeOK, PlacesInv
    <3> QED
      BY <3>1, <3>2
  <2>10. \A f, g \in Registered' : socket'[f] = socket'[g] => f = g
    BY <2>2, <2>5 DEF PlacesInv
  <2> QED
    BY <2>7, <2>8, <2>9, <2>10 DEF PlacesInv
<1>6. ASSUME NEW fd, Closing(fd)
      PROVE  PlacesInv'
  <2>0. PICK c \in Clients : c = socket[fd]
    BY <1>6, DescriptorOwner DEF Closing
  <2>1. /\ c = socket[fd] /\ ~Waits(c) /\ fd \in Registered
        /\ peer' = [peer EXCEPT ![c] = "closed"] /\ backlog' = backlog
    BY <1>6, <2>0, DescriptorOwner DEF Closing, CloseSocket
  <2>2. Registered' = Registered \ {fd} /\ \A g \in Registered' : socket'[g] = socket[g]
    BY <1>6, CloseSocketFacts DEF Closing
  <2>3. \A d : HasDescriptor(d)' <=> HasDescriptor(d) /\ d # c
    BY <2>1, <2>2 DEF HasDescriptor, PlacesInv
  <2>4. \A d : Waits(d)' <=> Waits(d)
    BY <2>1 DEF Waits
  <2>5. \A d \in Clients :
           peer'[d] \in {"open", "shut", "gone"} <=> Waits(d)' \/ HasDescriptor(d)'
    <3> SUFFICES ASSUME NEW d \in Clients
                 PROVE  peer'[d] \in {"open", "shut", "gone"}
                        <=> Waits(d)' \/ HasDescriptor(d)'
      OBVIOUS
    <3>1. CASE d = c
      BY <2>1, <2>3, <2>4, <3>1 DEF ConnectionsTypeOK
    <3>2. CASE d # c
      BY <2>1, <2>3, <2>4, <3>2 DEF ConnectionsTypeOK, PlacesInv
    <3> QED
      BY <3>1, <3>2
  <2>6. \A d \in Clients : ~(Waits(d)' /\ HasDescriptor(d)')
    BY <2>3, <2>4 DEF PlacesInv
  <2>7. /\ \A f, g \in Registered' : socket'[f] = socket'[g] => f = g
        /\ \A i, j \in 1 .. Len(backlog') : backlog'[i] = backlog'[j] => i = j
    BY <2>1, <2>2 DEF PlacesInv
  <2> QED
    BY <2>5, <2>6, <2>7 DEF PlacesInv
<1>7. Execute => UNCHANGED <<peer, backlog, socket>>
  BY DEF Execute, kernel
<1> QED
  BY <1>1, <1>2, <1>3, <1>4, <1>5, <1>6, <1>7, ConnectionsKept, ClosingSteps
     DEF Next, ClientNext, Server

(* Steps that leave alone what a client and the server have exchanged. *)
LEMMA ExchangeKept ==
  \/ \E c \in Clients : Connect(c) \/ ClientRead(c) \/ ClientShutdown(c) \/ ClientLeave(c)
  \/ KeyEventRecorded
  \/ EpollWait \/ Dispatch \/ BatchDone \/ AcceptEnds
  \/ Accept \/ AcceptSetupFails \/ RecvEnds \/ RecvAgain \/ ParseDone
  \/ SendFails \/ Broadcast \/ PopEvent \/ QueueEmpty
  \/ \E fd \in Descriptors : SendEvent(fd)
  \/ FanoutDone
  \/ UNCHANGED vars
  => UNCHANGED <<sent, received, executed, stream>>
BY DEF Connect, ClientRead, ClientShutdown, ClientLeave, ClientStep, KeyEventRecorded,
       EpollWait, Dispatch, BatchDone, Accept, AcceptSetupFails, AcceptEnds, RecvEnds,
       RecvAgain, ParseDone, SendFails, Broadcast, PopEvent, QueueEmpty, SendEvent,
       FanoutDone, vars, kernel

(* Input is taken and answers are given for clients with a descriptor only. *)
LEMMA ExchangeOfOwner ==
  ASSUME CoreInv, RecvData \/ Execute \/ SendUnit
  PROVE  \E fd \in Registered :
           \A c \in Clients : c # socket[fd] =>
             /\ received'[c] = received[c] /\ sent'[c] = sent[c]
             /\ executed'[c] = executed[c] /\ stream'[c] = stream[c]
<1> USE DEF CoreInv, TypeOK, TrafficTypeOK, DataTypeOK
<1>1. CASE RecvData
  <2>1. /\ current.fd \in Registered
        /\ UNCHANGED <<executed, stream, sent>>
        /\ \A c \in Clients : c # socket[current.fd] => received'[c] = received[c]
    BY <1>1 DEF RecvData, BatchInv
  <2> QED
    BY <2>1
<1>2. CASE Execute
  <2>1. /\ current.fd \in Registered
        /\ UNCHANGED <<sent, received, stream>>
        /\ \A c \in Clients : c # socket[current.fd] => executed'[c] = executed[c]
    BY <1>2 DEF Execute, BatchInv, kernel
  <2> QED
    BY <2>1
<1>3. CASE SendUnit
  <2>1. /\ out.fd \in Registered
        /\ UNCHANGED <<sent, received, executed>>
        /\ \A c \in Clients : c # socket[out.fd] => stream'[c] = stream[c]
    BY <1>3 DEF SendUnit, BatchInv, OutInv
  <2> QED
    BY <2>1
<1> QED
  BY <1>1, <1>2, <1>3

(* A connection that has not been accepted has exchanged nothing. *)
LEMMA FreshStep ==
  ASSUME CoreInv, PlacesInv, FreshInv, [Next]_vars
  PROVE  FreshInv'
<1> USE DEF CoreInv, TypeOK
<1>1. ASSUME NEW c \in Clients, peer'[c] = "new" \/ Waits(c)'
      PROVE  peer[c] = "new" \/ Waits(c)
  <2>1. CASE UNCHANGED <<peer, backlog>>
    BY <1>1, <2>1 DEF Waits
  <2>2. ASSUME NEW d \in Clients, Connect(d)
        PROVE  peer[c] = "new" \/ Waits(c)
    <3>1. /\ peer[d] = "new" /\ peer' = [peer EXCEPT ![d] = "open"]
          /\ backlog' = Append(backlog, d)
      BY <2>2 DEF Connect
    <3>2. Waits(c)' => Waits(c) \/ c = d
      <4>1. backlog \in Seq(Clients) /\ Len(backlog) \in Nat
        BY LenProperties DEF ConnectionsTypeOK
      <4> QED
        BY <3>1, <4>1, AppendProperties DEF Waits
    <3> QED
      BY <1>1, <3>1, <3>2 DEF ConnectionsTypeOK
  <2>3. ASSUME NEW d \in Clients, ClientShutdown(d) \/ ClientLeave(d)
        PROVE  peer[c] = "new" \/ Waits(c)
    <3>1. /\ backlog' = backlog
          /\ peer' = [peer EXCEPT ![d] = "shut"] \/ peer' = [peer EXCEPT ![d] = "gone"]
      BY <2>3 DEF ClientShutdown, ClientLeave
    <3> QED
      BY <1>1, <3>1 DEF ConnectionsTypeOK, Waits
  <2>4. CASE Accept \/ AcceptSetupFails
    <3>1. /\ backlog # <<>> /\ backlog' = Tail(backlog)
          /\ peer' = peer \/ peer' = [peer EXCEPT ![Head(backlog)] = "refused"]
      BY <2>4 DEF Accept, AcceptSetupFails
    <3>2. Waits(c)' => Waits(c)
      BY <3>1, BacklogFacts DEF Waits
    <3> QED
      BY <1>1, <3>1, <3>2 DEF ConnectionsTypeOK
  <2>5. ASSUME NEW fd, Closing(fd)
        PROVE  peer[c] = "new" \/ Waits(c)
    BY <1>1, <2>5 DEF Closing, CloseSocket, ConnectionsTypeOK, Waits
  <2>6. Execute => UNCHANGED <<peer, backlog>>
    BY DEF Execute, kernel
  <2> QED
    BY <2>1, <2>2, <2>3, <2>4, <2>5, <2>6, ConnectionsKept, ClosingSteps
       DEF Next, ClientNext, Server
<1>2. ASSUME NEW c \in Clients, peer[c] = "new" \/ Waits(c)
      PROVE  /\ received'[c] = received[c]
             /\ executed'[c] = executed[c]
             /\ stream'[c] = stream[c]
  <2>1. CASE RecvData \/ Execute \/ SendUnit
    <3>1. PICK fd \in Registered :
            \A d \in Clients : d # socket[fd] =>
              /\ received'[d] = received[d] /\ sent'[d] = sent[d]
              /\ executed'[d] = executed[d] /\ stream'[d] = stream[d]
      BY <2>1, ExchangeOfOwner
    <3>2. c # socket[fd]
      BY <1>2, DescriptorOwner
    <3> QED
      BY <3>1, <3>2
  <2>2. ASSUME NEW d \in Clients, ClientSend(d)
        PROVE  UNCHANGED <<received, executed, stream>>
    BY <2>2 DEF ClientSend, ClientStep
  <2> QED
    BY <2>1, <2>2, ExchangeKept DEF Next, ClientNext, Server
<1> QED
  BY <1>1, <1>2 DEF FreshInv, Untouched

(* Every connection has one place, in every reachable state. *)
THEOREM PlacesInvariance == Spec => [](CoreInv /\ PlacesInv /\ FreshInv)
<1>1. Init => CoreInv /\ PlacesInv /\ FreshInv
  BY CoreInit, PlacesInit
<1>2. CoreInv /\ PlacesInv /\ FreshInv /\ [Next]_vars => (CoreInv /\ PlacesInv /\ FreshInv)'
  BY CoreStep, PlacesStep, FreshStep
<1> QED
  BY <1>1, <1>2, PTL DEF Spec

(* The three registries of the server agree, and every connection that the    *)
(* kernel still has is waiting to be accepted or has exactly one descriptor.  *)
THEOREM RegistriesAgree == Spec => []RegistryConsistent
<1>1. ASSUME CoreInv, PlacesInv, NEW c \in Clients
      PROVE  Cardinality({fd \in Registered : socket[fd] = c})
               + Cardinality({i \in 1 .. Len(backlog) : backlog[i] = c})
             = IF peer[c] \in {"open", "shut", "gone"} THEN 1 ELSE 0
  <2> DEFINE A == {fd \in Registered : socket[fd] = c}
             B == {i \in 1 .. Len(backlog) : backlog[i] = c}
  <2>1. CASE HasDescriptor(c)
    <3>1. PICK fd \in Registered : socket[fd] = c
      BY <2>1 DEF HasDescriptor
    <3>2. A = {fd} /\ B = {}
      BY <1>1, <2>1, <3>1 DEF PlacesInv, Waits
    <3>3. Cardinality(A) = 1 /\ Cardinality(B) = 0
      BY <3>2, FS_EmptySet, FS_Singleton
    <3>4. peer[c] \in {"open", "shut", "gone"}
      BY <1>1, <2>1 DEF PlacesInv
    <3> QED
      BY <3>3, <3>4
  <2>2. CASE Waits(c)
    <3>1. PICK i \in 1 .. Len(backlog) : backlog[i] = c
      BY <2>2 DEF Waits
    <3>2. B = {i} /\ A = {}
      BY <1>1, <2>2, <3>1 DEF PlacesInv, HasDescriptor
    <3>3. Cardinality(B) = 1 /\ Cardinality(A) = 0
      BY <3>2, FS_EmptySet, FS_Singleton
    <3>4. peer[c] \in {"open", "shut", "gone"}
      BY <1>1, <2>2 DEF PlacesInv
    <3> QED
      BY <3>3, <3>4
  <2>3. CASE ~HasDescriptor(c) /\ ~Waits(c)
    <3>1. A = {} /\ B = {}
      BY <2>3 DEF HasDescriptor, Waits
    <3>2. Cardinality(B) = 0 /\ Cardinality(A) = 0
      BY <3>1, FS_EmptySet
    <3>3. ~(peer[c] \in {"open", "shut", "gone"})
      BY <1>1, <2>3 DEF PlacesInv
    <3> QED
      BY <3>2, <3>3
  <2> QED
    BY <2>1, <2>2, <2>3
<1>2. CoreInv /\ PlacesInv => RegistryConsistent
  BY <1>1 DEF CoreInv, Registries, RegistryConsistent
<1> QED
  BY <1>2, PlacesInvariance, PTL

-----------------------------------------------------------------------------
(* The place where a request ends is the sum of the sizes up to it. *)
LEMMA UnitsFacts ==
  ASSUME NEW c \in Clients
  PROVE  /\ UnitsUpTo(c, 0) = 0
         /\ \A n \in 0 .. Len(Requests[c]) : UnitsUpTo(c, n) \in Nat
         /\ \A n \in 1 .. Len(Requests[c]) :
              UnitsUpTo(c, n) = UnitsUpTo(c, n - 1) + Requests[c][n]
<1> DEFINE s == Requests[c]
           Sums(g) == g = [i \in 0 .. Len(s) |-> IF i = 0 THEN 0 ELSE g[i - 1] + s[i]]
           step == [p \in Nat \X Nat |-> p[1] + p[2]]
<1>1. s \in Seq(Nat) /\ Len(s) \in Nat
  BY SizesFacts, SeqMonotonic
<1>2. step \in [Nat \X Nat -> Nat]
  OBVIOUS
<1>3. \A m, n \in Nat : step[<<m, n>>] = m + n
  OBVIOUS
<1> HIDE DEF s, step
<1>4. PICK g \in [0 .. Len(s) -> Nat] : Accumulates(g, step, 0, s, Len(s))
  BY <1>1, <1>2, AccumulationExists
<1>5. Sums(g)
  <2>1. ASSUME NEW i \in 0 .. Len(s)
        PROVE  g[i] = IF i = 0 THEN 0 ELSE g[i - 1] + s[i]
    <3>1. g[i] = IF i = 0 THEN 0 ELSE step[<<g[i - 1], s[i]>>]
      BY <1>4 DEF Accumulates
    <3>2. i # 0 => g[i - 1] \in Nat /\ s[i] \in Nat
      <4>1. i # 0 => i - 1 \in 0 .. Len(s) /\ i \in 1 .. Len(s)
        BY <1>1
      <4> QED
        BY <1>1, <1>4, <4>1, ElementOfSeq
    <3> QED
      BY <1>3, <3>1, <3>2
  <2> QED
    BY <2>1
<1> DEFINE units == CHOOSE f : Sums(f)
<1> HIDE DEF Sums
<1>6. Sums(units)
  BY <1>5
<1> HIDE DEF units
<1>7. \A n : UnitsUpTo(c, n) = units[n]
  BY DEF UnitsUpTo, units, Sums, s
<1>8. \A n \in 0 .. Len(s) : units[n] = IF n = 0 THEN 0 ELSE units[n - 1] + s[n]
  BY <1>6 DEF Sums
<1>9. \A n \in 0 .. Len(s) : units[n] \in Nat
  <2> DEFINE P(n) == n <= Len(s) => units[n] \in Nat
             S == {n \in Nat : P(n)}
  <2>1. 0 \in S
    BY <1>1, <1>8
  <2>2. ASSUME NEW n \in S PROVE n + 1 \in S
    <3>1. n \in Nat /\ (n <= Len(s) => units[n] \in Nat)
      OBVIOUS
    <3>2. n + 1 <= Len(s) => units[n + 1] = units[n] + s[n + 1] /\ s[n + 1] \in Nat
      BY <1>1, <1>8, <3>1, ElementOfSeq
    <3> QED
      BY <1>1, <3>1, <3>2
  <2> HIDE DEF P
  <2>3. S = Nat
    BY <2>1, <2>2, NatSetInduction
  <2> QED
    BY <2>3, <1>1 DEF P
<1> QED
  BY <1>1, <1>7, <1>8, <1>9 DEF s

(* It does not go back. *)
LEMMA UnitsMonotonic ==
  ASSUME NEW c \in Clients, NEW m \in 0 .. Len(Requests[c]), NEW n \in m .. Len(Requests[c])
  PROVE  UnitsUpTo(c, m) <= UnitsUpTo(c, n)
<1> DEFINE P(k) == m + k <= Len(Requests[c]) => UnitsUpTo(c, m) <= UnitsUpTo(c, m + k)
           S == {k \in Nat : P(k)}
<1>1. Len(Requests[c]) \in Nat /\ m \in Nat
  BY SizesFacts
<1>2. \A k \in 0 .. Len(Requests[c]) : UnitsUpTo(c, k) \in Nat
  BY UnitsFacts
<1>3. 0 \in S
  BY <1>1, <1>2
<1>4. ASSUME NEW k \in S PROVE k + 1 \in S
  <2> SUFFICES ASSUME m + (k + 1) <= Len(Requests[c])
               PROVE  UnitsUpTo(c, m) <= UnitsUpTo(c, m + (k + 1))
    OBVIOUS
  <2>1. k \in Nat /\ UnitsUpTo(c, m) <= UnitsUpTo(c, m + k)
    BY <1>1
  <2>2. (m + k) + 1 \in 1 .. Len(Requests[c]) /\ m + k \in 0 .. Len(Requests[c])
    BY <1>1, <2>1
  <2>3. UnitsUpTo(c, (m + k) + 1) = UnitsUpTo(c, m + k) + Requests[c][(m + k) + 1]
    <3>1. ((m + k) + 1) - 1 = m + k
      BY <1>1, <2>1
    <3>2. UnitsUpTo(c, (m + k) + 1)
            = UnitsUpTo(c, ((m + k) + 1) - 1) + Requests[c][(m + k) + 1]
      BY <2>2, UnitsFacts
    <3> QED
      BY <3>1, <3>2
  <2>4. Requests[c][(m + k) + 1] \in Nat
    BY <2>2, SizesFacts, ElementOfSeq
  <2>5. m + (k + 1) = (m + k) + 1
    BY <1>1, <2>1
  <2> QED
    BY <1>2, <2>1, <2>2, <2>3, <2>4, <2>5
<1> HIDE DEF P
<1>5. S = Nat
  BY <1>3, <1>4, NatSetInduction
<1>6. n - m \in Nat /\ m + (n - m) = n
  BY <1>1
<1>7. P(n - m)
  <2>1. n - m \in S
    BY <1>5, <1>6
  <2> QED
    BY <2>1
<1>8. n - m \in Nat /\ n <= Len(Requests[c]) /\ UnitsUpTo(c, m + (n - m)) = UnitsUpTo(c, n)
  BY <1>1, <1>6
<1> QED
  BY <1>6, <1>7, <1>8 DEF P

(* What the server received of a client was sent and was part of a request;   *)
(* no more requests are executed than there are; nothing of the input is      *)
(* lost or taken twice.                                                       *)
InputInv ==
  /\ \A c \in Clients : received[c] <= sent[c] /\ sent[c] <= TotalUnits(c)
  /\ \A c \in Clients : executed[c] <= Len(Requests[c])
  /\ InputAccounted

(* A descriptor in use has a buffer. *)
LEMMA PendingFacts ==
  ASSUME CoreInv, NEW fd \in Registered
  PROVE  Pending(fd) = receiveBuffers[fd] /\ Pending(fd) \in 0 .. MAX_FRAME
BY Zenon DEF CoreInv, TypeOK, Registries, Pending, DataTypeOK

(* What a recv() takes. *)
LEMMA RecvFacts ==
  ASSUME CoreInv, RecvData
  PROVE  \E fd \in Registered, units \in Nat :
           LET c == socket[fd]
           IN  /\ fd = current.fd /\ c \in Clients
               /\ units > 0 /\ units <= BUFFER_SIZE /\ received[c] + units <= sent[c]
               /\ received' = [received EXCEPT ![c] = received[c] + units]
               /\ UNCHANGED <<sent, executed, stream, backlog, batch, out, popped, joined>>
               /\ \/ /\ Pending(fd) + units > MAX_FRAME
                     /\ CloseSocket(fd) /\ pc' = "dispatch"
                  \/ /\ receiveBuffers' = WithBuffer(fd, Pending(fd) + units)
                     /\ pc' = "parse"
                     /\ UNCHANGED <<peer, unread, socket, watched>>
<1> USE DEF CoreInv, TypeOK
<1> DEFINE fd == current.fd
           c == socket[fd]
           units == Min({BUFFER_SIZE, sent[c] - received[c]})
<1>1. fd \in Registered
  BY DEF RecvData, BatchInv
<1>2. c \in Clients
  BY <1>1, RegisteredFacts
<1>3. sent[c] - received[c] \in Nat /\ sent[c] - received[c] > 0
  BY <1>2 DEF RecvData, TrafficTypeOK
<1>4. units \in Nat /\ units > 0 /\ units <= BUFFER_SIZE /\ units <= sent[c] - received[c]
  BY <1>3, SizesFacts, MinOfTwo
<1>5. /\ received' = [received EXCEPT ![c] = received[c] + units]
      /\ UNCHANGED <<sent, executed, stream, backlog, batch, out, popped, joined>>
      /\ \/ /\ Pending(fd) + units > MAX_FRAME
            /\ CloseSocket(fd) /\ pc' = "dispatch"
         \/ /\ receiveBuffers' = WithBuffer(fd, Pending(fd) + units)
            /\ pc' = "parse"
            /\ UNCHANGED <<peer, unread, socket, watched>>
  BY DEF RecvData, history
<1> HIDE DEF units
<1>6. received[c] + units <= sent[c]
  BY <1>2, <1>3, <1>4 DEF TrafficTypeOK
<1> QED
  BY <1>1, <1>2, <1>4, <1>5, <1>6

(* What executing a request takes from the input. *)
LEMMA ExecuteFacts ==
  ASSUME CoreInv, Execute
  PROVE  \E fd \in Registered :
           LET c == socket[fd]
               size == Requests[c][executed[c] + 1]
           IN  /\ fd = current.fd /\ c \in Clients /\ fd \in DOMAIN receiveBuffers
               /\ executed[c] + 1 \in 1 .. Len(Requests[c])
               /\ size \in Nat \ {0} /\ Pending(fd) >= size
               /\ receiveBuffers' = [receiveBuffers EXCEPT ![fd] = receiveBuffers[fd] - size]
               /\ executed' = [executed EXCEPT ![c] = executed[c] + 1]
               /\ out' = [fd |-> fd,
                          message |-> [kind |-> "RES", number |-> executed[c] + 1],
                          offset |-> 0]
               /\ pc' = "answer"
               /\ UNCHANGED <<kernel, batch, current, clients, windowVars, history>>
<1> USE DEF CoreInv, TypeOK
<1> DEFINE fd == current.fd
           c == socket[fd]
<1>1. fd \in Registered /\ fd \in DOMAIN receiveBuffers
  BY DEF Execute, BatchInv, Registries
<1>2. c \in Clients
  BY <1>1, RegisteredFacts
<1>3. executed[c] + 1 \in 1 .. Len(Requests[c]) /\ Pending(fd) >= Requests[c][executed[c] + 1]
  BY <1>2, SizesFacts DEF Execute, RequestPending, DataTypeOK
<1>4. Requests[c][executed[c] + 1] \in Nat \ {0}
  BY <1>2, <1>3, SizesFacts, ElementOfSeq
<1>5. /\ receiveBuffers' = [receiveBuffers EXCEPT
                              ![fd] = receiveBuffers[fd] - Requests[c][executed[c] + 1]]
      /\ executed' = [executed EXCEPT ![c] = executed[c] + 1]
      /\ out' = [fd |-> fd, message |-> [kind |-> "RES", number |-> executed[c] + 1],
                 offset |-> 0]
      /\ pc' = "answer"
      /\ UNCHANGED <<kernel, batch, current, clients, windowVars, history>>
  BY DEF Execute
<1> QED
  BY <1>1, <1>2, <1>3, <1>4, <1>5

(* At the start nothing has been received or executed.                        *)
LEMMA InputInit == Init => InputInv
<1> SUFFICES ASSUME Init PROVE InputInv
  OBVIOUS
<1>1. \A c \in Clients : TotalUnits(c) \in Nat /\ Len(Requests[c]) \in Nat
  BY SizesFacts, UnitsFacts DEF TotalUnits
<1> QED
  BY <1>1 DEF Init, InputInv, InputAccounted, Registered

(* Whatever a recv() returns, the input stays accounted for. *)
LEMMA InputStep ==
  ASSUME CoreInv, PlacesInv, FreshInv, InputInv, [Next]_vars
  PROVE  InputInv'
<1> USE DEF CoreInv, TypeOK
<1>0. \A c \in Clients : received[c] \in Nat /\ sent[c] \in Nat /\ executed[c] \in Nat
                         /\ TotalUnits(c) \in Nat
  <2>1. \A c \in Clients : TotalUnits(c) \in Nat
    BY SizesFacts, UnitsFacts DEF TotalUnits
  <2> QED
    BY <2>1 DEF TrafficTypeOK, DataTypeOK
<1>1. ASSUME UNCHANGED <<sent, received, executed>>
      PROVE  /\ \A c \in Clients : received'[c] <= sent'[c] /\ sent'[c] <= TotalUnits(c)
             /\ \A c \in Clients : executed'[c] <= Len(Requests[c])
  BY <1>1 DEF InputInv
<1>2. ASSUME UNCHANGED <<received, executed, socket, receiveBuffers>>
      PROVE  InputAccounted'
  BY <1>2 DEF InputInv, InputAccounted, Registered, Pending
<1>3. ASSUME NEW c \in Clients, ClientSend(c)
      PROVE  InputInv'
  <2>1. /\ UNCHANGED <<received, executed, socket, receiveBuffers>>
        /\ sent[c] < TotalUnits(c) /\ sent' = [sent EXCEPT ![c] = sent[c] + 1]
    BY <1>3 DEF ClientSend, ClientStep
  <2>2. \A d \in Clients : received'[d] <= sent'[d] /\ sent'[d] <= TotalUnits(d)
    BY <1>0, <2>1 DEF InputInv, TrafficTypeOK
  <2> QED
    BY <1>2, <2>1, <2>2 DEF InputInv
<1>4. CASE Accept
  <2>0. PICK c \in Clients : c = Head(backlog) /\ Waits(c)
    BY <1>4, BacklogFacts DEF Accept
  <2>1. PICK fd \in Descriptors : fd = Min(Free) /\ socket[fd] = NONE
    BY <1>4, MinOfDescriptors DEF Accept, Free
  <2>2. /\ socket' = [socket EXCEPT ![fd] = c]
        /\ receiveBuffers' = WithBuffer(fd, 0)
        /\ UNCHANGED <<sent, received, executed>>
    BY <1>4, <2>0, <2>1 DEF Accept
  <2>3. received[c] = 0 /\ executed[c] = 0 /\ UnitsUpTo(c, 0) = 0
    BY <2>0, UnitsFacts DEF FreshInv, Untouched
  <2>4. socket'[fd] = c /\ Pending(fd)' = 0
    BY <2>1, <2>2 DEF Pending, WithBuffer, ConnectionsTypeOK
  <2>5. \A g \in Registered' : g # fd =>
          g \in Registered /\ socket'[g] = socket[g] /\ Pending(g)' = Pending(g)
    BY <2>1, <2>2 DEF Registered, Pending, WithBuffer, ConnectionsTypeOK
  <2>6. ASSUME NEW g \in Registered'
        PROVE  received'[socket'[g]]
                 = UnitsUpTo(socket'[g], executed'[socket'[g]]) + Pending(g)'
    <3>1. CASE g = fd
      BY <2>2, <2>3, <2>4, <3>1
    <3>2. CASE g # fd
      BY <2>2, <2>5, <3>2 DEF InputInv, InputAccounted
    <3> QED
      BY <3>1, <3>2
  <2>7. InputAccounted'
    BY <2>6 DEF InputAccounted
  <2> QED
    BY <1>1, <2>2, <2>7 DEF InputInv
<1>5. ASSUME NEW fd, Closing(fd), UNCHANGED <<received, executed>>
      PROVE  InputAccounted'
  <2>1. Registered' \subseteq Registered
        /\ \A g \in Registered' : socket'[g] = socket[g] /\ Pending(g)' = Pending(g)
    BY <1>5, CloseSocketFacts DEF Closing
  <2> QED
    BY <1>5, <2>1 DEF InputInv, InputAccounted
<1>6. CASE RecvData
  <2>1. PICK fd \in Registered, units \in Nat :
           /\ socket[fd] \in Clients
           /\ received[socket[fd]] + units <= sent[socket[fd]]
           /\ received' = [received EXCEPT ![socket[fd]] = received[socket[fd]] + units]
           /\ UNCHANGED <<sent, executed>>
           /\ \/ CloseSocket(fd)
              \/ /\ receiveBuffers' = WithBuffer(fd, Pending(fd) + units)
                 /\ UNCHANGED socket
    BY <1>6, RecvFacts
  <2>2. PICK c \in Clients : c = socket[fd]
    BY <2>1
  <2>3. received'[c] = received[c] + units
        /\ \A d \in Clients : d # c => received'[d] = received[d]
    BY <2>1, <2>2 DEF TrafficTypeOK
  <2>4. \A d \in Clients : received'[d] <= sent'[d] /\ sent'[d] <= TotalUnits(d)
    BY <1>0, <2>1, <2>2, <2>3 DEF InputInv
  <2>5. \A g \in Registered : g # fd => socket[g] \in Clients /\ socket[g] # c
    BY <2>2, RegisteredFacts DEF PlacesInv
  <2>6. CASE CloseSocket(fd)
    <3>1. Registered' = Registered \ {fd}
          /\ \A g \in Registered' : socket'[g] = socket[g] /\ Pending(g)' = Pending(g)
      BY <2>6, CloseSocketFacts
    <3>2. InputAccounted'
      BY <2>1, <2>3, <2>5, <3>1 DEF InputInv, InputAccounted
    <3> QED
      BY <2>1, <2>4, <3>2 DEF InputInv
  <2>7. CASE receiveBuffers' = WithBuffer(fd, Pending(fd) + units) /\ UNCHANGED socket
    <3>1. Registered' = Registered
      BY <2>7 DEF Registered
    <3>2. Pending(fd)' = Pending(fd) + units
          /\ \A g \in Registered : g # fd => Pending(g)' = Pending(g)
      BY <2>7 DEF Pending, WithBuffer
    <3>3. ASSUME NEW g \in Registered
          PROVE  received'[socket'[g]]
                   = UnitsUpTo(socket'[g], executed'[socket'[g]]) + Pending(g)'
      <4>1. received[socket[g]] = UnitsUpTo(socket[g], executed[socket[g]]) + Pending(g)
        BY DEF InputInv, InputAccounted
      <4>2. CASE g = fd
        <5>1. UnitsUpTo(c, executed[c]) \in Nat /\ Pending(fd) \in Nat
          <6>1. executed[c] \in 0 .. Len(Requests[c])
            BY <1>0, SizesFacts DEF InputInv
          <6> QED
            BY <6>1, UnitsFacts, PendingFacts, SizesFacts
        <5>2. socket'[g] = c /\ executed' = executed
          BY <2>1, <2>2, <2>7, <4>2
        <5> QED
          BY <2>2, <2>3, <3>2, <4>1, <4>2, <5>1, <5>2
      <4>3. CASE g # fd
        BY <2>1, <2>3, <2>5, <2>7, <3>2, <4>1, <4>3
      <4> QED
        BY <4>2, <4>3
    <3>4. InputAccounted'
      BY <3>1, <3>3 DEF InputAccounted
    <3> QED
      BY <2>1, <2>4, <3>4 DEF InputInv
  <2> QED
    BY <2>1, <2>6, <2>7
<1>7. CASE Execute
  <2>1. PICK fd \in Registered :
           LET c == socket[fd]
               size == Requests[c][executed[c] + 1]
           IN  /\ c \in Clients /\ fd \in DOMAIN receiveBuffers
               /\ executed[c] + 1 \in 1 .. Len(Requests[c])
               /\ size \in Nat \ {0} /\ Pending(fd) >= size
               /\ receiveBuffers' = [receiveBuffers EXCEPT ![fd] = receiveBuffers[fd] - size]
               /\ executed' = [executed EXCEPT ![c] = executed[c] + 1]
               /\ UNCHANGED kernel
    BY <1>7, ExecuteFacts
  <2>2. PICK c \in Clients : c = socket[fd]
    BY <2>1
  <2> DEFINE n == executed[c] + 1
             size == Requests[c][n]
  <2>3. /\ executed'[c] = n /\ n \in 1 .. Len(Requests[c])
        /\ \A d \in Clients : d # c => executed'[d] = executed[d]
        /\ UNCHANGED <<sent, received, socket>>
    BY <2>1, <2>2 DEF DataTypeOK, kernel
  <2>4. \A d \in Clients : executed'[d] <= Len(Requests[d])
    <3> SUFFICES ASSUME NEW d \in Clients PROVE executed'[d] <= Len(Requests[d])
      OBVIOUS
    <3>1. CASE d = c
      <4>1. Len(Requests[c]) \in Nat
        BY SizesFacts
      <4> QED
        BY <2>3, <3>1, <4>1
    <3>2. CASE d # c
      BY <2>3, <3>2 DEF InputInv
    <3> QED
      BY <3>1, <3>2
  <2>5. Registered' = Registered
    BY <2>3 DEF Registered
  <2>6. \A g \in Registered : g # fd => socket[g] \in Clients /\ socket[g] # c
    BY <2>2, RegisteredFacts DEF PlacesInv
  <2>7. /\ Pending(fd)' = Pending(fd) - size
        /\ \A g \in Registered : g # fd => Pending(g)' = Pending(g)
    BY <2>1, <2>2 DEF Pending
  <2>8. /\ UnitsUpTo(c, n) = UnitsUpTo(c, executed[c]) + size
        /\ UnitsUpTo(c, executed[c]) \in Nat /\ size \in Nat /\ Pending(fd) \in Nat
    <3>1. n - 1 = executed[c] /\ n - 1 \in 0 .. Len(Requests[c])
      BY <1>0, <2>3
    <3>2. UnitsUpTo(c, n) = UnitsUpTo(c, n - 1) + Requests[c][n]
      BY <2>3, UnitsFacts
    <3>3. UnitsUpTo(c, n - 1) \in Nat
      BY <3>1, UnitsFacts
    <3>4. size \in Nat /\ Pending(fd) \in Nat
      BY <2>1, <2>2, PendingFacts, SizesFacts
    <3> QED
      BY <3>1, <3>2, <3>3, <3>4
  <2> HIDE DEF n, size
  <2>9. ASSUME NEW g \in Registered
        PROVE  received'[socket'[g]]
                 = UnitsUpTo(socket'[g], executed'[socket'[g]]) + Pending(g)'
    <3>1. received[socket[g]] = UnitsUpTo(socket[g], executed[socket[g]]) + Pending(g)
      BY DEF InputInv, InputAccounted
    <3>2. CASE g = fd
      <4>1. received[c] = UnitsUpTo(c, executed[c]) + Pending(fd)
        BY <2>2, <3>1, <3>2
      <4>2. received[c] = UnitsUpTo(c, n) + (Pending(fd) - size)
        BY <2>8, <4>1
      <4> QED
        BY <2>2, <2>3, <2>7, <3>2, <4>2
    <3>3. CASE g # fd
      BY <2>3, <2>6, <2>7, <3>1, <3>3
    <3> QED
      BY <3>2, <3>3
  <2>10. InputAccounted'
    BY <2>5, <2>9 DEF InputAccounted
  <2>11. \A d \in Clients : received'[d] <= sent'[d] /\ sent'[d] <= TotalUnits(d)
    BY <2>3 DEF InputInv
  <2> QED
    BY <2>4, <2>10, <2>11 DEF InputInv
<1>8. CASE SendUnit
  <2>1. UNCHANGED <<sent, received, executed, socket, receiveBuffers>>
    BY <1>8 DEF SendUnit
  <2> QED
    BY <1>1, <1>2, <2>1 DEF InputInv
<1>9. ASSUME \/ RecvEnds \/ RecvAgain \/ SendFails
      PROVE  InputInv'
  <2>1. UNCHANGED <<sent, received, executed>>
    BY <1>9, ExchangeKept
  <2> QED
    BY <1>1, <1>2, <1>5, <1>9, <2>1, ClosingSteps DEF InputInv
<1>10. ASSUME NEW c \in Clients, Connect(c) \/ ClientShutdown(c) \/ ClientLeave(c)
       PROVE  InputInv'
  <2>1. UNCHANGED <<sent, received, executed, socket, receiveBuffers>>
    BY <1>10 DEF Connect, ClientShutdown, ClientLeave, ClientStep
  <2> QED
    BY <1>1, <1>2, <2>1 DEF InputInv
<1>11. CASE AcceptSetupFails
  <2>1. UNCHANGED <<sent, received, executed, socket, receiveBuffers>>
    BY <1>11 DEF AcceptSetupFails
  <2> QED
    BY <1>1, <1>2, <2>1 DEF InputInv
<1>12. ASSUME UNCHANGED <<sent, received, executed, socket, receiveBuffers>>
       PROVE  InputInv'
  BY <1>1, <1>2, <1>12 DEF InputInv
<1> QED
  BY <1>3, <1>4, <1>6, <1>7, <1>8, <1>9, <1>10, <1>11, <1>12, ConnectionsKept, ExchangeKept
     DEF Next, ClientNext, Server

(* The invariant of connections and input. *)
ServerInv == CoreInv /\ PlacesInv /\ FreshInv /\ InputInv

(* Init establishes all its parts.                                            *)
LEMMA ServerInit == Init => ServerInv
BY CoreInit, PlacesInit, InputInit DEF ServerInv

(* Every step keeps all its parts.                                            *)
LEMMA ServerStep == ServerInv /\ [Next]_vars => ServerInv'
BY CoreStep, PlacesStep, FreshStep, InputStep DEF ServerInv

(* In every reachable state the invariant holds. *)
THEOREM ServerInvariance == Spec => []ServerInv
BY ServerInit, ServerStep, PTL DEF Spec

(* What was received from a client is the requests executed for it and what   *)
(* its buffer holds, however recv() cut the stream.                           *)
THEOREM InputIsAccounted == Spec => []InputAccounted
<1>1. ServerInv => InputAccounted
  BY DEF ServerInv, InputInv
<1> QED
  BY <1>1, ServerInvariance, PTL
=============================================================================
