----------------------------- MODULE TcpServer -----------------------------
(***************************************************************************)
(* The event loop of TcpServer: one thread that accepts clients, reads and *)
(* frames their requests, has DeviceManager execute them, answers, and     *)
(* after every batch of epoll events broadcasts the queued key events.     *)
(*                                                                         *)
(* A client's byte stream is counted in units; Requests[c] gives the sizes *)
(* of the requests c sends, terminator included.  A message to a client is *)
(* MessageUnits units long, so that send() may accept a part of it.  What  *)
(* a request does to the devices is left out: execute returns a response   *)
(* with the number of the request.  The queue of key events is             *)
(* KeyEventWindow, which DeviceManager implements (module KeyEvents).      *)
(*                                                                         *)
(* Sockets, epoll and the clients are external.                            *)
(***************************************************************************)
EXTENDS Integers, Sequences, FiniteSets, SequencesExt, FiniteSetsExt, KeyEventWindow

CONSTANTS
  Clients,        \* connections that clients may open, each at most once
  Descriptors,    \* file descriptors the process has for them
  Requests,       \* the sizes of a client's requests, in units
  MAX_EVENTS,     \* events one epoll_wait returns (16 in the code)
  BUFFER_SIZE,    \* units one recv returns (1024 bytes)
  MAX_FRAME,      \* limit on unparsed input (4096 bytes)
  SendBuffer,     \* units the kernel holds for a client that does not read
  MessageUnits,   \* units of a response or an event
  MaxKeyEvents,   \* bound: key events recorded in a behaviour
  Reading         \* the clients that go on reading what they are sent

listenfd == 0
NONE == "none"

(* A process has finitely many descriptors; the value for no connection is    *)
(* not a connection.                                                          *)
ASSUME ServerAssumption ==
  /\ Descriptors \subseteq Nat \ {0} /\ IsFiniteSet(Descriptors)
  /\ NONE \notin Clients
  /\ Requests \in [Clients -> Seq(Nat \ {0})]
  /\ {MAX_EVENTS, BUFFER_SIZE, MAX_FRAME, SendBuffer, MessageUnits} \subseteq Nat \ {0}
  /\ MaxKeyEvents \in Nat
  /\ Reading \subseteq Clients

VARIABLES
  (* the clients and the kernel *)
  peer,             \* what a client and its connection have come to
  backlog,          \* connections that wait to be accepted
  socket,           \* socket[fd]: the client a descriptor is connected to
  watched,          \* the descriptors epoll watches
  sent, received,   \* units a client has sent, units the server has received
  stream,           \* stream[c]: every unit the server's kernel took for c
  unread,           \* how many of them c has not read
  (* the server's data *)
  receiveBuffers,   \* units not yet parsed, for every registered descriptor
  executed,         \* requests executed for a client
  (* the server's thread *)
  pc,
  batch,            \* the events of epoll_wait not yet handled
  current,          \* the event being handled
  out,              \* the message being sent: to whom, what, units accepted
  clients,          \* broadcast: the descriptors that are still to get the event
  (* history *)
  popped,           \* the numbers of the events taken from the queue
  joined            \* how many had been taken when a client was registered

kernel  == <<peer, backlog, socket, watched, sent, received, stream, unread>>
thread  == <<pc, batch, current, out, clients>>
history == <<popped, joined>>
vars == <<kernel, receiveBuffers, executed, thread, windowVars, history>>

-----------------------------------------------------------------------------
Message == [kind : {"RES", "EVENT"}, number : Nat]
Event == [fd : Descriptors \cup {listenfd}, hangup : BOOLEAN,
          client : Clients \cup {NONE}]

NoEntry == [fd |-> listenfd, hangup |-> FALSE, client |-> NONE]
NothingOut == [fd |-> listenfd, message |-> [kind |-> "RES", number |-> 0], offset |-> 0]

Peer == {"new", "open", "shut", "gone", "refused", "closed"}

ConnectionsTypeOK ==
  /\ peer \in [Clients -> Peer]
  /\ backlog \in Seq(Clients)
  /\ socket \in [Descriptors -> Clients \cup {NONE}]
  /\ watched \subseteq Descriptors

TrafficTypeOK ==
  /\ sent \in [Clients -> Nat] /\ received \in [Clients -> Nat]
  /\ stream \in [Clients -> Seq(Message \X (1 .. MessageUnits))]
  /\ unread \in [Clients -> 0 .. SendBuffer]

DataTypeOK ==
  /\ DOMAIN receiveBuffers \subseteq Descriptors
  /\ receiveBuffers \in [DOMAIN receiveBuffers -> 0 .. MAX_FRAME]
  /\ executed \in [Clients -> Nat]

ThreadTypeOK ==
  /\ pc \in {"wait", "dispatch", "accept", "recv", "parse", "answer",
             "broadcast", "pop", "fanout", "push"}
  /\ batch \in Seq(Event) /\ current \in Event
  /\ out \in [fd : Descriptors \cup {listenfd}, message : Message,
              offset : 0 .. MessageUnits - 1]
  /\ clients \subseteq Descriptors

HistoryTypeOK ==
  /\ popped \in Seq(Nat)
  /\ joined \in [Clients -> Nat]

(* The variables have their types; no client has more in flight than its      *)
(* socket buffer takes, and no input is kept beyond the limit on a frame      *)
(* except for the one chunk that makes the server give the client up.         *)
TypeOK ==
  /\ ConnectionsTypeOK /\ TrafficTypeOK
  /\ DataTypeOK /\ ThreadTypeOK
  /\ WindowTypeOK /\ HistoryTypeOK

Init ==
  /\ peer = [c \in Clients |-> "new"]
  /\ backlog = <<>>
  /\ socket = [fd \in Descriptors |-> NONE]
  /\ watched = {}
  /\ sent = [c \in Clients |-> 0] /\ received = [c \in Clients |-> 0]
  /\ stream = [c \in Clients |-> <<>>]
  /\ unread = [c \in Clients |-> 0]
  /\ receiveBuffers = <<>>
  /\ executed = [c \in Clients |-> 0]
  /\ pc = "wait"
  /\ batch = <<>> /\ current = NoEntry
  /\ out = NothingOut
  /\ clients = {}
  /\ WindowInit
  /\ popped = <<>>
  /\ joined = [c \in Clients |-> 0]

-----------------------------------------------------------------------------
(* The clients (external). *)

(* Where the n-th request of a client ends in its stream. *)
UnitsUpTo(c, n) ==
  LET units[i \in 0 .. Len(Requests[c])] ==
        IF i = 0 THEN 0 ELSE units[i - 1] + Requests[c][i]
  IN  units[n]

TotalUnits(c) == UnitsUpTo(c, Len(Requests[c]))

ClientStep == UNCHANGED <<socket, watched, received, stream, receiveBuffers, executed,
                          thread, windowVars, history>>

(* The kernel completes the handshake before the server accepts. *)
Connect(c) ==
  /\ peer[c] = "new"
  /\ peer' = [peer EXCEPT ![c] = "open"]
  /\ backlog' = Append(backlog, c)
  /\ UNCHANGED <<sent, unread>>
  /\ ClientStep

ClientSend(c) ==
  /\ peer[c] = "open"
  /\ sent[c] < TotalUnits(c)
  /\ sent' = [sent EXCEPT ![c] = @ + 1]
  /\ UNCHANGED <<peer, backlog, unread>>
  /\ ClientStep

ClientRead(c) ==
  /\ peer[c] \in {"open", "shut"}
  /\ unread[c] > 0
  /\ unread' = [unread EXCEPT ![c] = @ - 1]
  /\ UNCHANGED <<peer, backlog, sent>>
  /\ ClientStep

(* The client ends its half of the connection and goes on reading. *)
ClientShutdown(c) ==
  /\ peer[c] = "open"
  /\ peer' = [peer EXCEPT ![c] = "shut"]
  /\ UNCHANGED <<backlog, sent, unread>>
  /\ ClientStep

(* The client closes or resets the connection: it reads no more. *)
ClientLeave(c) ==
  /\ peer[c] \in {"open", "shut"}
  /\ peer' = [peer EXCEPT ![c] = "gone"]
  /\ UNCHANGED <<backlog, sent, unread>>
  /\ ClientStep

(* The key changes state: DeviceManager's thread queues an event. *)
KeyEventRecorded ==
  /\ next <= MaxKeyEvents
  /\ Record
  /\ UNCHANGED <<kernel, receiveBuffers, executed, thread, history>>

-----------------------------------------------------------------------------
(* epoll_wait. *)

(* Readable: input, the end of the stream, or an error. *)
Readable(fd) ==
  LET c == socket[fd]
  IN  sent[c] > received[c] \/ peer[c] \in {"shut", "gone"}

Ready ==
  {[fd |-> fd, hangup |-> peer[socket[fd]] \in {"shut", "gone"}, client |-> socket[fd]] :
     fd \in {f \in watched : Readable(f)}}
  \cup (IF backlog = <<>> THEN {} ELSE {NoEntry})

(* Variant: a timeout skips the broadcast. *)
EpollWaitOrRetry ==
  /\ pc = "wait"
  /\ \E some \in kSubset(Min({MAX_EVENTS, Cardinality(Ready)}), Ready) :
       batch' \in SetToSeqs(some)
  /\ pc' = IF Ready = {} THEN "wait" ELSE "dispatch"
  /\ UNCHANGED <<kernel, receiveBuffers, executed, current, out, clients, windowVars,
                 history>>

(* All that is ready, in any order, or MAX_EVENTS of it; nothing when the     *)
(* timeout expires.                                                           *)
EpollWait ==
  /\ pc = "wait"
  /\ \E some \in kSubset(Min({MAX_EVENTS, Cardinality(Ready)}), Ready) :
       batch' \in SetToSeqs(some)
  /\ pc' = "dispatch"
  /\ UNCHANGED <<kernel, receiveBuffers, executed, current, out, clients, windowVars,
                 history>>

(* Every event of a client has EPOLLIN set: a hangup or an error sets it too. *)
Dispatch ==
  /\ pc = "dispatch"
  /\ batch # <<>>
  /\ current' = Head(batch)
  /\ batch' = Tail(batch)
  /\ pc' = IF Head(batch).fd = listenfd THEN "accept" ELSE "recv"
  /\ UNCHANGED <<kernel, receiveBuffers, executed, out, clients, windowVars, history>>

BatchDone ==
  /\ pc = "dispatch"
  /\ batch = <<>>
  /\ current' = NoEntry
  /\ pc' = "broadcast"
  /\ UNCHANGED <<kernel, receiveBuffers, executed, batch, out, clients, windowVars,
                 history>>

-----------------------------------------------------------------------------
(* Accepting: the inner loop of run(), until accept() has nothing to give. *)

(* receiveBuffers[fd] = units, which creates the entry if there is none. *)
WithBuffer(fd, units) ==
  [f \in DOMAIN receiveBuffers \cup {fd} |-> IF f = fd THEN units ELSE receiveBuffers[f]]

Free == {fd \in Descriptors : socket[fd] = NONE}

Accept ==
  /\ pc = "accept"
  /\ backlog # <<>>
  /\ Free # {}
  /\ LET c == Head(backlog)
         clientfd == Min(Free)
     IN  /\ socket' = [socket EXCEPT ![clientfd] = c]
         /\ watched' = watched \cup {clientfd}
         /\ receiveBuffers' = WithBuffer(clientfd, 0)
         /\ joined' = [joined EXCEPT ![c] = Len(popped)]
  /\ backlog' = Tail(backlog)
  /\ UNCHANGED <<peer, sent, received, stream, unread, executed, thread, windowVars,
                 popped>>

(* setNonBlocking or epoll_ctl fails: the client is closed again. *)
AcceptSetupFails ==
  /\ pc = "accept"
  /\ backlog # <<>>
  /\ Free # {}
  /\ peer' = [peer EXCEPT ![Head(backlog)] = "refused"]
  /\ backlog' = Tail(backlog)
  /\ UNCHANGED <<socket, watched, sent, received, stream, unread, receiveBuffers,
                 executed, thread, windowVars, history>>

(* EAGAIN, or an error: no free descriptor, no memory, a signal.  What waits  *)
(* is left in the backlog for the next round.                                 *)
AcceptEnds ==
  /\ pc = "accept"
  /\ pc' = "dispatch"
  /\ UNCHANGED <<kernel, receiveBuffers, executed, batch, current, out, clients,
                 windowVars, history>>

-----------------------------------------------------------------------------
(* Variant: the buffer is left behind. *)
CloseSocketOnly(fd) ==
  /\ peer' = [peer EXCEPT ![socket[fd]] = "closed"]
  /\ unread' = [unread EXCEPT ![socket[fd]] = 0]
  /\ socket' = [socket EXCEPT ![fd] = NONE]
  /\ watched' = watched \ {fd}
  /\ UNCHANGED receiveBuffers

(* closeSocket: out of epoll, out of receiveBuffers, closed. *)
CloseSocket(fd) ==
  /\ peer' = [peer EXCEPT ![socket[fd]] = "closed"]
  /\ unread' = [unread EXCEPT ![socket[fd]] = 0]
  /\ socket' = [socket EXCEPT ![fd] = NONE]
  /\ watched' = watched \ {fd}
  /\ receiveBuffers' = Restrict(receiveBuffers, DOMAIN receiveBuffers \ {fd})

(* handleClientRead.  receiveBuffers[fd] creates the entry if there is none. *)
Pending(fd) == IF fd \in DOMAIN receiveBuffers THEN receiveBuffers[fd] ELSE 0

(* Variant: a reported hangup ends the connection before the input is read. *)
RecvUnlessHangup ==
  LET fd == current.fd
      c == socket[fd]
      units == Min({BUFFER_SIZE, sent[c] - received[c]})
  IN  /\ pc = "recv"
      /\ sent[c] > received[c]
      /\ IF current.hangup
           THEN CloseSocket(fd) /\ pc' = "dispatch" /\ UNCHANGED received
           ELSE /\ received' = [received EXCEPT ![c] = @ + units]
                /\ receiveBuffers' = WithBuffer(fd, Pending(fd) + units)
                /\ pc' = "parse"
                /\ UNCHANGED <<peer, unread, socket, watched>>
      /\ UNCHANGED <<backlog, sent, stream, executed, batch, current, out, clients,
                     windowVars, history>>

(* Variant: the limit on the pending input left out. *)
RecvUnlimited ==
  LET fd == current.fd
      c == socket[fd]
      units == Min({BUFFER_SIZE, sent[c] - received[c]})
  IN  /\ pc = "recv"
      /\ sent[c] > received[c]
      /\ received' = [received EXCEPT ![c] = @ + units]
      /\ receiveBuffers' = WithBuffer(fd, Pending(fd) + units)
      /\ pc' = "parse"
      /\ UNCHANGED <<peer, unread, socket, watched, backlog, sent, stream, executed,
                     batch, current, out, clients, windowVars, history>>

(* Variant: pending input as long as the limit taken for too much. *)
RecvBelowLimit ==
  LET fd == current.fd
      c == socket[fd]
      units == Min({BUFFER_SIZE, sent[c] - received[c]})
  IN  /\ pc = "recv"
      /\ sent[c] > received[c]
      /\ received' = [received EXCEPT ![c] = @ + units]
      /\ IF Pending(fd) + units >= MAX_FRAME
           THEN CloseSocket(fd) /\ pc' = "dispatch"
           ELSE /\ receiveBuffers' = WithBuffer(fd, Pending(fd) + units)
                /\ pc' = "parse"
                /\ UNCHANGED <<peer, unread, socket, watched>>
      /\ UNCHANGED <<backlog, sent, stream, executed, batch, current, out, clients,
                     windowVars, history>>

(* recv returned data; too much unparsed input ends the connection. *)
RecvData ==
  LET fd == current.fd
      c == socket[fd]
      units == Min({BUFFER_SIZE, sent[c] - received[c]})
  IN  /\ pc = "recv"
      /\ sent[c] > received[c]
      /\ received' = [received EXCEPT ![c] = @ + units]
      /\ IF Pending(fd) + units > MAX_FRAME
           THEN CloseSocket(fd) /\ pc' = "dispatch"
           ELSE /\ receiveBuffers' = WithBuffer(fd, Pending(fd) + units)
                /\ pc' = "parse"
                /\ UNCHANGED <<peer, unread, socket, watched>>
      /\ UNCHANGED <<backlog, sent, stream, executed, batch, current, out, clients,
                     windowVars, history>>

(* Variant: the loop goes round again without moving on in the batch. *)
RecvEndsAgain ==
  /\ pc = "recv"
  /\ sent[socket[current.fd]] = received[socket[current.fd]]
  /\ peer[socket[current.fd]] \in {"shut", "gone"}
  /\ CloseSocket(current.fd)
  /\ pc' = "dispatch"
  /\ batch' = <<current>> \o batch
  /\ UNCHANGED <<backlog, sent, received, stream, executed, current, out, clients,
                 windowVars, history>>

(* recv returned 0 or an error: the caller closes the socket. *)
RecvEnds ==
  /\ pc = "recv"
  /\ sent[socket[current.fd]] = received[socket[current.fd]]
  /\ peer[socket[current.fd]] \in {"shut", "gone"}
  /\ CloseSocket(current.fd)
  /\ pc' = "dispatch"
  /\ UNCHANGED <<backlog, sent, received, stream, executed, batch, current, out, clients,
                 windowVars, history>>

(* EAGAIN: back to run(), which closes on a hangup that epoll_wait reported. *)
RecvAgain ==
  /\ pc = "recv"
  /\ sent[socket[current.fd]] = received[socket[current.fd]]
  /\ peer[socket[current.fd]] = "open"
  /\ IF current.hangup
       THEN CloseSocket(current.fd)
       ELSE UNCHANGED <<peer, unread, socket, watched, receiveBuffers>>
  /\ pc' = "dispatch"
  /\ UNCHANGED <<backlog, sent, received, stream, executed, batch, current, out, clients,
                 windowVars, history>>

(* Is there a newline in the pending input? *)
RequestPending(fd) ==
  LET c == socket[fd]
  IN  executed[c] < Len(Requests[c]) /\ Pending(fd) >= Requests[c][executed[c] + 1]

(* Variant: the request is executed and left in the buffer. *)
ExecuteAgain ==
  LET fd == current.fd
      c == socket[fd]
  IN  /\ pc = "parse"
      /\ RequestPending(fd)
      /\ executed' = [executed EXCEPT ![c] = @ + 1]
      /\ out' = [fd |-> fd, message |-> [kind |-> "RES", number |-> executed[c] + 1],
                 offset |-> 0]
      /\ pc' = "answer"
      /\ UNCHANGED <<kernel, receiveBuffers, batch, current, clients, windowVars, history>>

(* The first request is cut off the buffer and executed. *)
Execute ==
  LET fd == current.fd
      c == socket[fd]
  IN  /\ pc = "parse"
      /\ RequestPending(fd)
      /\ receiveBuffers' = [receiveBuffers EXCEPT ![fd] = @ - Requests[c][executed[c] + 1]]
      /\ executed' = [executed EXCEPT ![c] = @ + 1]
      /\ out' = [fd |-> fd, message |-> [kind |-> "RES", number |-> executed[c] + 1],
                 offset |-> 0]
      /\ pc' = "answer"
      /\ UNCHANGED <<kernel, batch, current, clients, windowVars, history>>

(* Variant: one request per recv, whatever else the buffer holds. *)
ParseStops ==
  /\ pc = "parse"
  /\ pc' = "recv"
  /\ UNCHANGED <<kernel, receiveBuffers, executed, batch, current, out, clients,
                 windowVars, history>>

ParseDone ==
  /\ pc = "parse"
  /\ ~RequestPending(current.fd)
  /\ pc' = "recv"
  /\ UNCHANGED <<kernel, receiveBuffers, executed, batch, current, out, clients,
                 windowVars, history>>

-----------------------------------------------------------------------------
(* sendAll, called with a response ("answer") or with an event ("push").      *)

(* Variant: EAGAIN taken for the end of the message. *)
SendOrSkip ==
  LET c == socket[out.fd]
      room == unread[c] < SendBuffer
  IN  /\ pc \in {"answer", "push"}
      /\ IF room
           THEN /\ unread' = [unread EXCEPT ![c] = @ + 1]
                /\ stream' = [stream EXCEPT ![c] = Append(@, <<out.message, out.offset + 1>>)]
           ELSE UNCHANGED <<unread, stream>>
      /\ IF room /\ out.offset + 1 < MessageUnits
           THEN out' = [out EXCEPT !.offset = @ + 1] /\ UNCHANGED pc
           ELSE /\ out' = NothingOut
                /\ pc' = IF pc = "answer" THEN "parse" ELSE "fanout"
      /\ UNCHANGED <<peer, backlog, socket, watched, sent, received, receiveBuffers,
                     executed, batch, current, clients, windowVars, history>>

(* The kernel takes a unit, or EAGAIN makes the loop try again until it does. *)
SendUnit ==
  LET c == socket[out.fd]
  IN  /\ pc \in {"answer", "push"}
      /\ unread[c] < SendBuffer
      /\ unread' = [unread EXCEPT ![c] = @ + 1]
      /\ stream' = [stream EXCEPT ![c] = Append(@, <<out.message, out.offset + 1>>)]
      /\ IF out.offset + 1 < MessageUnits
           THEN out' = [out EXCEPT !.offset = @ + 1] /\ UNCHANGED pc
           ELSE /\ out' = NothingOut
                /\ pc' = IF pc = "answer" THEN "parse" ELSE "fanout"
      /\ UNCHANGED <<peer, backlog, socket, watched, sent, received, receiveBuffers,
                     executed, batch, current, clients, windowVars, history>>

(* Variant: a failed send ends the broadcast of the event. *)
SendFailsReturns ==
  /\ pc \in {"answer", "push"}
  /\ peer[socket[out.fd]] = "gone"
  /\ CloseSocket(out.fd)
  /\ out' = NothingOut
  /\ clients' = {}
  /\ pc' = IF pc = "answer" THEN "dispatch" ELSE "fanout"
  /\ UNCHANGED <<backlog, sent, received, stream, executed, batch, current, windowVars,
                 history>>

(* EPIPE or ECONNRESET: the connection is closed, a broadcast goes on. *)
SendFails ==
  /\ pc \in {"answer", "push"}
  /\ peer[socket[out.fd]] = "gone"
  /\ CloseSocket(out.fd)
  /\ out' = NothingOut
  /\ pc' = IF pc = "answer" THEN "dispatch" ELSE "fanout"
  /\ UNCHANGED <<backlog, sent, received, stream, executed, batch, current, clients,
                 windowVars, history>>

-----------------------------------------------------------------------------
(* broadcastDeviceEvents, once per batch. *)

Broadcast ==
  /\ pc = "broadcast"
  /\ pc' = IF DOMAIN receiveBuffers = {} THEN "wait" ELSE "pop"
  /\ UNCHANGED <<kernel, receiveBuffers, executed, batch, current, out, clients,
                 windowVars, history>>

(* popEvent, and a copy of the descriptors to send the event to. *)
PopEvent ==
  /\ pc = "pop"
  /\ Deliver
  /\ popped' = Append(popped, first)
  /\ clients' = DOMAIN receiveBuffers
  /\ pc' = "fanout"
  /\ UNCHANGED <<kernel, receiveBuffers, executed, batch, current, out, joined>>

QueueEmpty ==
  /\ pc = "pop"
  /\ first = next
  /\ pc' = "wait"
  /\ UNCHANGED <<kernel, receiveBuffers, executed, batch, current, out, clients,
                 windowVars, history>>

SendEvent(fd) ==
  /\ pc = "fanout"
  /\ fd \in clients
  /\ clients' = clients \ {fd}
  /\ out' = [fd |-> fd, message |-> [kind |-> "EVENT", number |-> delivered.sequence],
             offset |-> 0]
  /\ pc' = "push"
  /\ UNCHANGED <<kernel, receiveBuffers, executed, batch, current, windowVars, history>>

FanoutDone ==
  /\ pc = "fanout"
  /\ clients = {}
  /\ pc' = "pop"
  /\ UNCHANGED <<kernel, receiveBuffers, executed, batch, current, out, clients,
                 windowVars, history>>

-----------------------------------------------------------------------------
ClientNext ==
  \/ \E c \in Clients :
       Connect(c) \/ ClientSend(c) \/ ClientRead(c) \/ ClientShutdown(c) \/ ClientLeave(c)
  \/ KeyEventRecorded

Server ==
  \/ EpollWait \/ Dispatch \/ BatchDone
  \/ Accept \/ AcceptSetupFails \/ AcceptEnds
  \/ RecvData \/ RecvEnds \/ RecvAgain
  \/ Execute \/ ParseDone
  \/ SendUnit \/ SendFails
  \/ Broadcast \/ PopEvent \/ QueueEmpty
  \/ \E fd \in Descriptors : SendEvent(fd)
  \/ FanoutDone

Next == ClientNext \/ Server

Spec == Init /\ [][Next]_vars

(* The process is scheduled, the errors of accept() do not last for ever     *)
(* while a connection waits and a descriptor is free, and the clients in      *)
(* Reading read what has arrived for them.  No client need send, end or close *)
(* anything.                                                                  *)
FairSpec ==
  /\ Spec
  /\ WF_vars(Server) /\ SF_vars(Accept)
  /\ \A c \in Reading : WF_vars(ClientRead(c))

-----------------------------------------------------------------------------
(* Properties. *)

Registered == {fd \in Descriptors : socket[fd] # NONE}

(* The three registries agree: a descriptor has a receive buffer exactly      *)
(* while it is open and exactly while epoll watches it; and no connection is  *)
(* lost or held twice: it waits for accept() or has one descriptor.           *)
RegistryConsistent ==
  /\ watched = Registered
  /\ DOMAIN receiveBuffers = Registered
  /\ \A c \in Clients :
       Cardinality({fd \in Registered : socket[fd] = c})
         + Cardinality({i \in 1 .. Len(backlog) : backlog[i] = c})
       = IF peer[c] \in {"open", "shut", "gone"} THEN 1 ELSE 0

(* No event of a batch is handled for another connection than the one it was  *)
(* reported for, although descriptors are closed and reused meanwhile.        *)
BatchFresh ==
  LET handled == IF pc \in {"recv", "parse", "answer"} THEN {current} ELSE {}
  IN  \A e \in ToSet(batch) \cup handled :
        e.fd # listenfd => socket[e.fd] = e.client

(* Framing loses and repeats nothing: what was received from a client is the  *)
(* requests executed for it and what is pending in its buffer.                *)
InputAccounted ==
  \A fd \in Registered :
    received[socket[fd]] = UnitsUpTo(socket[fd], executed[socket[fd]]) + Pending(fd)

(* A client's stream is whole messages, one after the other, whatever part of *)
(* a message each send() took; only a connection that has been closed, or the *)
(* message being sent, may end in the middle of one.                          *)
WholeMessages ==
  \A c \in Clients :
    /\ stream[c] # <<>> => stream[c][1][2] = 1
    /\ \A i \in 1 .. Len(stream[c]) - 1 :
         IF stream[c][i][2] = MessageUnits
           THEN stream[c][i + 1][2] = 1
           ELSE stream[c][i + 1] = <<stream[c][i][1], stream[c][i][2] + 1>>
    /\ stream[c] # <<>> /\ Last(stream[c])[2] < MessageUnits =>
         \/ peer[c] = "closed"
         \/ /\ out.fd \in Registered
            /\ socket[out.fd] = c
            /\ Last(stream[c]) = <<out.message, out.offset>>

(* The numbers of the responses, or of the events, begun in a stream. *)
Begins(unit, kind) == unit[1].kind = kind /\ unit[2] = 1

NumbersIn(units, kind) ==
  LET numbers[i \in 0 .. Len(units)] ==
        IF i = 0 THEN <<>>
        ELSE IF Begins(units[i], kind) THEN Append(numbers[i - 1], units[i][1].number)
        ELSE numbers[i - 1]
  IN  numbers[Len(units)]

Numbers(c, kind) == NumbersIn(stream[c], kind)

(* Requests are answered once each and in their order, and the server does    *)
(* not go back to epoll_wait with a complete request unanswered.              *)
Answered ==
  /\ \A c \in Clients :
       LET answers == Numbers(c, "RES")
       IN  /\ answers = [i \in 1 .. Len(answers) |-> i]
           /\ Len(answers) \in {executed[c] - 1, executed[c]}
  /\ pc = "wait" =>
       \A fd \in Registered :
         /\ ~RequestPending(fd)
         /\ Len(Numbers(socket[fd], "RES")) = executed[socket[fd]]

(* A registered client has been sent every event taken from the queue since   *)
(* it was registered, in order, but for the event whose broadcast has not     *)
(* come to it yet: the failure of one client takes nothing from the others.   *)
BroadcastComplete ==
  pc \in {"wait", "dispatch", "pop", "fanout"} =>
    \A fd \in Registered \ (IF pc = "fanout" THEN clients ELSE {}) :
      LET c == socket[fd]
      IN  Numbers(c, "EVENT") = SubSeq(popped, joined[c] + 1, Len(popped))

(* The connection of a client that is still there is closed only if one of    *)
(* its requests is longer than a frame may be, however much it sends in all,  *)
(* and in whatever portions that arrives.                                     *)
ClosedForCause ==
  [][\A c \in Clients :
       peer[c] = "open" /\ peer'[c] = "closed"
         => \E i \in 1 .. Len(Requests[c]) : Requests[c][i] > MAX_FRAME]_vars

(* A client that ends its half of the connection gets the answers to all the  *)
(* requests it completed before the server closes the other half, unless it   *)
(* stops reading or one of its requests is too long.                          *)
GracefulClose ==
  [][\A c \in Clients :
       peer[c] = "shut" /\ peer'[c] = "closed"
         => \/ \E i \in 1 .. Len(Requests[c]) : Requests[c][i] > MAX_FRAME
            \/ /\ received[c] = sent[c]
               /\ \A n \in 1 .. Len(Requests[c]) :
                    UnitsUpTo(c, n) <= sent[c] => n <= Len(Numbers(c, "RES"))
               /\ stream[c] # <<>> => Last(stream[c])[2] = MessageUnits]_vars

(* A request that a client has sent completely is answered, unless the        *)
(* connection ends first; for clients that read what they are sent.           *)
RequestsAnswered ==
  \A c \in Reading : \A n \in 1 .. Len(Requests[c]) :
    sent[c] >= UnitsUpTo(c, n)
      ~> \/ \E unit \in ToSet(stream[c]) :
              unit = <<[kind |-> "RES", number |-> n], MessageUnits>>
         \/ peer[c] \in {"gone", "refused", "closed"}

(* While some client is registered the queue of events empties: a key event   *)
(* does not wait for traffic on the sockets.                                  *)
QueueDrained == first < next /\ Registered # {} ~> first = next \/ Registered = {}

(* An event is taken from the queue only when there is a client to send it to. *)
PopOnlyForClients ==
  [][first' > first /\ next' = next => DOMAIN receiveBuffers # {}]_vars
=============================================================================
