# Verification of the i.MX6ULL device-control server

TLA+ models of the device-control server of this repository, the TLC runs that
check them and the theorems about them that TLAPS proves. Paths are relative to
the repository. `PROJECT.json` holds the machine-readable index: components, runs,
mutants, the lines each definition stands for, findings, hazards and theorems.

## 1. Inventory

| Component | Source | State | Operations | Model |
|---|---|---|---|---|
| Key events | `src/device_manager.cpp`, `src/key_device.cpp` | `keyPressed`, `keyEventCount`, `keyEvents` (64 places), `nextEventSequence` under `keyMutex`; `stopping` | thread: `keyMonitorLoop`, `waitEvent`; server: `popEvent`, `getStatus`, KEY GET, destructor | `KeyEvents`, `KeyEventWindow`, `KeyEventsProofs` |
| Event loop | `src/tcp_server.cpp` | descriptors, epoll set, `receiveBuffers` | `run` (accept, dispatch), `handleClientRead`, `sendAll`, `closeSocket`, `broadcastDeviceEvents` | `TcpServer`, `MCTcpServer`, `TcpServerProofs`, `TcpStreamsProofs`, `TcpClosingProofs` |
| Request execution | `src/device_manager.cpp`, `src/protocol.cpp` | `ledOn` | `parseRequest`; `execute`: LED, STATUS, KEY, CLIENTS, PING and the errors | `Requests`, `LedControl`, `PanelProofs`; the content of KEY GET in `KeyEvents` |
| LedDevice | `src/led_device.cpp` | `available_`, fixed when constructed | `set`, `get` | `LedControl` (character device) |
| platform_probe driver | `driver/platform_probe.c` | pin, `led_state`, misc device | probe, remove, read, write | `LedControl`, `PanelProofs` |
| LcdDisplay | `src/lcd_display.cpp` | frame buffer, `available_` | constructor, `update` | `Panel`, `PanelProofs` |
| imx6ull_device driver | `driver/imx6ull_device.c` | `device_state`, `data_changed`, wait queue | read, write, ioctl, poll | `CharDevice`, `CharDeviceProofs` |
| Qt HMI | `app/qt_hmi/main.cpp` | labels, `ledOn`, `receiveBuffer`, two timers | connect, reconnect, poll, toggle, parse | `Hmi`, `HmiProofs` |
| Process start | `src/main.cpp` | none | start, run | not modelled: straight line |
| Tools | `tools/` | the frame buffer | `fb_color_test`, `fb_status`, a sequential smoke test | painting in `Panel`; the smoke test is one of the clients of `TcpServer` |
| Build, device tree, generated code | `CMakeLists.txt`, `driver/*.dts`, `app/qt_hmi/main.moc` | none | none | not modelled |

How they interact. The server process has two threads. The main thread runs the
event loop: it reads requests from the sockets, calls `DeviceManager::execute`, sends
the answer, and after every batch of epoll events (or its one-second timeout) pops
the queued key events, sends each to every client and redraws the LCD from
`getStatus`. The key thread waits for input events in `poll`, filters repeated
states and appends to the queue. The threads meet only in the four variables under
`keyMutex` and in the atomic `stopping`. LED requests reach the kernel driver through
`/dev/imx6ull_device`, which a shell may use as well. The HMI is a client.

What is hard here, and what correctness means for each part:

- *Two threads, one queue.* A status must be a snapshot, numbers must be consecutive
  and alternate press and release, a full queue must lose its oldest event only, and
  shutdown must not hang. -> `KeyEvents`
- *One thread, many clients.* Requests arrive split or coalesced, `send` takes parts
  of messages, clients half-close, reset or stop reading, descriptors are reused while
  a batch is being handled, a send fails in the middle of a broadcast. Every complete
  request is answered once and in order, streams hold whole messages, the three
  registries of a connection agree, one client's failure takes nothing from the
  others. -> `TcpServer`
- *A device that others use too.* The driver is loaded and unloaded, a shell writes, the
  server restarts. Answers must be true of the LED at some moment of the request. ->
  `LedControl`
- *A protocol of words.* Documented requests must get their documented answer, lines
  that almost are one must change nothing. -> `Requests`, `LedControl`
- *A screen painted in place*, by a process that may end in between, over what other
  programs left. A finished picture must be the current status. -> `Panel`
- *One flag for all readers, writers and pollers.* No wakeup may be lost between the look
  at the flag and the sleep. -> `CharDevice`
- *A client that outlives its connections.* Old answers, half a line, clicks without a
  connection and a server that restarts must leave no trace in the end. -> `Hmi`

Every hazard is listed at its line in `PROJECT.json` with the properties that cover it
or the reason why none does.

## 2. Modules

### KeyEventWindow (abstract)

What `DeviceManager` promises about key events: a window `first .. next-1` of the
numbered changes of the key. `Record` extends it and forgets the oldest number of a full
window, `Deliver` hands over the oldest one. Odd numbers are presses.

### KeyEvents

| Code | Model |
|---|---|
| loop test and `waitEvent` | `CheckStopping`, `Poll`, `ReadEvent` (one `read` per step) |
| `lock_guard`, filter, record | `LockForKey`, `FilterEvent`, `RecordEvent`: the writes of the critical section are two steps, so that only the mutex hides the moment between them |
| `popEvent`, `getStatus`, KEY GET | `LockForServer(call)`, then `PopEvent` or `ReadStatus` |
| destructor | `Stop`, `Join` |
| kernel input buffer | `KeyEdge`, `KeyRepeat`, `DeviceGone`; on overflow the kernel keeps SYN_DROPPED and the newest event |

Timestamps are left out. Everything that is not a press or a release is `NOISE`. The model starts with the device open: without it there is no key thread.

`ImplementsWindow` is the refinement: with `first <- nextEventSequence - Len(keyEvents)`,
`next <- nextEventSequence` and `delivered <- event`, every behaviour is one of
`KeyEventWindow`.

### TcpServer

One action per system call result or branch of `run`, `handleClientRead`, `sendAll`
and `broadcastDeviceEvents`; `pc` says where the one thread is. A client's input is
counted in units and `Requests[c]` gives the sizes of its requests, so that a `recv`
may end inside a request or take several; a message to a client has `MessageUnits`
units and the kernel may take any part. The queue of events is the window of
`KeyEventWindow` (which `KeyEvents` implements), extended by the key thread at any time.
Clients connect, send, read, half-close and leave at any time.

- `EpollWait` is level-triggered: it returns what is ready, in any order, at most
  `MAX_EVENTS`. TCP sets EPOLLIN together with every hangup or error, so that each event
  of a client is first read from.
- `Accept` takes the lowest free descriptor, as the kernel does; `AcceptSetupFails` and
  `AcceptEnds` are the error branches. The loop may end by an error at any time, with
  connections left in the backlog and descriptors free or not.
- A client that closed or reset its connection is `gone`: a `send` to it may still be
  taken by the kernel, or fail.
- The line that closes on EPOLLRDHUP after a successful read (`tcp_server.cpp:288`) is
  modelled (`RecvAgain`) and never closes anything: a reported hangup has been read as
  the end of the stream before.
- `popped` and `joined` are history variables; `peer`, `stream` and `unread` belong to
  the clients.

Not in the model: failures of `start` and of `epoll_wait` (they end the process), EINTR
(a retry; one during `recv` is taken for an error by the code); what a request does to
the devices and the LCD update are in `LedControl` and `Panel`.

### Requests

`parseRequest` over a line as the sequence of its words (`operator>>` splits at any white
space, so blanks and carriage returns make no difference), and `Branch`: which way
`execute`, and `processRequestLine` behind it, go. `IsDocumented` says that a line is one of
the six requests of the repository's README, under any id; `Documented` has them under one
id and `Deviations` every line that misses one of these by a word, for the run.

### LedControl

`Receive`, `UseDevice`, `OpenDevice`, `WriteDevice` or `ReadDevice`, and `FinishSet` are
the steps of a LED or STATUS request in hardware mode, `SetSimulated` and
`StatusSimulated` the requests without a device, `ExecuteSimply` all that touch nothing;
`ExecuteOverrun` is the read past the end of the arguments: with one argument every outcome
is possible (`Asked` has the ones that go on), with none the process ends. `Probe`,
`Remove`, `platform_led_set` are the driver; `ShellWrite`, `Ends` and `Start` the
surroundings. The polarity of the pin is chosen initially. `available` is read once, in
`Start`, as the constructor does. An access through the node that a removed driver leaves
behind is undefined: it may fail or end what can be said (`StaleAccess`). `OpenFails` is
possible with a bound driver too, when the clients hold all descriptors of the process.
The module cannot be removed while the device is open.

`shown` and `writer` are history: the states of the LED during a request, and who set it
last. `RoundEnds` forgets the former, for the answers of a round are out then.

### Panel

Extends `LedControl` by the loop around it and by the LCD. `loop` says where
`TcpServer::run` is: serving the requests of a round (the steps of `LedControl`), or
painting the next area, or asleep. `BeginUpdate` takes the status and paints the
background, `PaintBar` and `PaintClients` the areas. An area is one value: its pixels are
painted by one loop with one colour; the white bar of clients is its length.
`StartServer` is the constructor, which may fail to map the frame buffer; the picture of
an earlier process stays in it. `ToolFills` and `ToolWrites` are `fb_color_test` and
`fb_status`, which may also be stopped in between (`disturbed` remembers them). What the
network, the key and the clients are at a round's end is any member of `Readings`.

### CharDevice

`driver/imx6ull_device.c`, which is another driver for the same device node. A call is
split where others can get in between: at the mutex, between the statements of a critical
section, before `copy_to_user` and before `wake_up_interruptible`. `BeginPoll` is
`poll_wait`, `CheckChanged` the rest of `device_poll`; `Awake` and `PollTimeout` are the
kernel's part of poll(). Calls that return before they touch anything change nothing and
are left out. `unread` and `taken` are history: has nobody read the last write, and what
did the last read take.

### Hmi

The signals of the socket (`Connected`, `ConnectFails`, `Disconnected`), the timers
(`Reconnect`, `requestStatus`), the button (`toggleLed`) and `readMessages`, which takes
one line per step. A line is the sequence of the things that the client looks for in it;
`Mid` is `mid()`, everything behind the first match, so a line that is glued to another
shows. A line that came in part has no effect until it is complete; so lines arrive
whole, except for the last one of a connection, of which `Disconnected` leaves any part
in `receiveBuffer`.

The server behind it is what the other modules show of it: key events are the window of
`KeyEventWindow`, requests are answered in order, the LED is a real one. `SetLed` is
anybody else who sets the LED, the requests of an older connection that the server still
finds in its socket included. `link` may break. The client notices in the end, for it writes
every second; the server need never notice, for it sets no keepalive and writes to a silent
peer only when there is an event. `lingering` counts the older connections that the server
keeps meanwhile: CLIENTS counts them too, and they take events. `Crash` forgets the events and closes all connections.
`spoiled` is history: has an event been lost, or half a line been kept.

## 3. Runs

| Run | Shows | Bounds |
|---|---|---|
| `key_events` | `TypeOK`, `StatusIsSnapshot`, `QueueAgrees`, `ImplementsWindow`, `EventuallyAgreesWithKey`, `StopEndsInJoin` | queue of 2, kernel buffer of 4, 4 changes of the key: the queue fills and is trimmed, the buffer overflows on a third unread change |
| `tcp_sessions` | `TypeOK`, `InputAccounted`, `WholeMessages`, `Answered`, `ClosedForCause`, `GracefulClose` | 2 clients; one sends two requests of 2 units (coalesced or split by a `recv` of 2), which together exceed the limit of 3, while the rest of one and a full `recv` just reach it; the other sends one of 4 units, beyond the limit; messages of 2 units into a buffer of 1, so every send is partial; one key event |
| `tcp_descriptors` | `RegistryConsistent`, `BatchFresh`, `BroadcastComplete` | 3 clients, 2 descriptors, batches of 2 out of 3 ready: reuse inside a batch, an exhausted table, failures during a broadcast, 2 events and a queue of 1 |
| `tcp_progress` | `RequestsAnswered`, `QueueDrained` | 2 clients that read, one with 2 requests, one event, batches hold all that is ready |
| `led_control` (module `Panel`) | `TypeOK`, `LedAgrees`, `AnswerTruthful`, `RecordAgrees`, `PictureCurrent`, `AnswersByTable` | all documented lines and all that miss one by a word; two readings that differ in everything, with 17 and 1 clients: the bar at its limit and getting shorter. Nothing else is bounded |
| `char_device` | `TypeOK`, `FlagExact`, `NoMissedWrite`, `PollReturns` | 3 processes: a writer, a reader and a poller, or two pollers and a writer, in any roles and any number of calls |
| `hmi` | `TypeOK`, `Armed`, `Reconnects`, `LabelsSettle`, `KeyLabelSettles` | 2 key events through a queue of 1; 2 disturbances out of clicks, failed attempts, lost connections, crashes and settings of others, in any mixture; a tick of the timer waits until nothing is under way, except for what clicks add |
| `tcp_slow_reader` (violated) | `RequestsAnswered` when one client does not read | 2 clients, buffer of 1 |
| `tcp_framing` (violated) | `ClosedForCause` when a frame of the maximal size is followed by another | limit 3, `recv` of 2 |
| `tcp_lost_events` (violated) | `PopOnlyForClients` | 2 events |
| `led_simulated` (violated) | `SimulatedStatus` | documented lines only |
| `led_node` (violated) | `NodeFollowsDriver` | none |

Why small bounds are enough: the code compares capacities and sizes only with each other
and treats all clients alike, so a queue, batch, buffer or descriptor table at its limit
behaves like one of another size at its limit, and two or three clients suffice for one to
fail, one to be bystander and one to take over a descriptor. Three processes can be a
writer between its unlock and its wake-up, a reader that takes the write in that moment,
and a poller on its way to sleep. Two disturbances are a fault and what meets it: a click
on a broken connection, a crash during a click, a second loss before the first was
noticed; each label depends on the newest line only, so a third one repeats what the
second left. The theorems remove the bounds for every safety property of the runs; liveness
rests on the bounds and on this argument.

Each property of a passing run has a mutant: a variant of one definition, written next
to it, that a plausible slip in the code would give. Under the run's own configuration
TLC finds the property violated.

### Fairness

- `KeyEvents!FairSpec`: both threads are scheduled (`WF` on the key thread and on a
  server call that has begun). `SF` on `LockForKey`: the server holds `keyMutex` for a few
  instructions and blocks in `epoll_wait` between its calls, so a waiting thread gets the
  mutex. Nothing obliges the key to move or the process to stop.
- `TcpServer!FairSpec`: the process is scheduled (`WF` on `Server`), and the clients in
  `Reading` read what has arrived. `SF` on `Accept`: errors of `accept` may come at any time,
  but not every time for ever while a connection waits and a descriptor is free. No client
  need send, close or leave. The run
  `tcp_slow_reader` shows why `Reading` has to be all of them: `sendAll` retries on
  EAGAIN for ever.
- `CharDevice!FairSpec`: a call that has begun goes on (`WF`); `SF` at the lock, since a
  kernel mutex hands over to its waiters in order. Nobody need begin a call, and poll()
  need not time out.
- `Hmi!FairSpec`: both event loops run, the timers fire and the client notices a broken
  connection at last: its requests of every second go unanswered until TCP gives up. The
  server need not notice (`Unregister` is not fair), so `LabelsSettle` says that the label of
  clients settles on what the server counts, older connections included. One `WF` for each
  group of such steps is enough, for the steps of a group wait for each other. Nobody need click, move the key or start a server again that
  is down: the properties say so by `~up`.
- `RequestsAnswered` is checked with batches as large as the number of descriptors. With
  more ready descriptors than a batch holds it relies on epoll's round robin, which is
  not modelled.

### Findings

1. `sendAll` spins on EAGAIN, so one client that does not read stops the whole server
   (`tcp_slow_reader`).
2. The limit on a frame is tested against all pending input, so legal frames are refused
   depending on how they arrive (`tcp_framing`).
3. `broadcastDeviceEvents` checks once that there is a client and goes on popping when
   the last one fails: the remaining events are lost (`tcp_lost_events`).
4. STATUS GET in simulated mode answers from a shadowed variable, always "off"
   (`led_simulated`).
5. `platform_probe_remove` leaves the device registered (`led_node`).

Seen in the code and not given a run of their own: a key that is down when the program
starts is not noticed until it moves, and edges that the kernel dropped are never made
up for (both are excluded by name in `EventuallyAgreesWithKey`); a driver loaded after
the server started is never used, although `simulated:true` is documented to mean that
the node is absent; `LED` with one argument reads past the end of a vector, and with none
it takes the second element of an empty one; with more it looks at the second one only, so
that `LED X ON` sets the LED and is answered OK (`AnswersByTable` excludes lines that name
the LED for these reasons). A peer that is lost without a FIN or a reset keeps its
descriptor and is counted by CLIENTS until a key event is sent to it. `fb_status`
reads one byte where both drivers demand room for two, so it always writes "LED OFF". The
HMI's labels of events and clients keep the closing brace; its key label follows
events alone, although KEY GET is polled, so after a lost event it stays wrong for as long as the
key rests (`KeyLabelSettles` excludes that by `spoiled`). In simulated mode finding 4 makes the HMI's next click always
switch on; `Hmi` models hardware mode. An ended process leaves its last picture on the
screen; and a program that paints over the picture is painted over at the next round.

## 4. Proofs

Every invariant and every action property that a passing run checks is a theorem for all
values of the constants, two of them under the hypothesis `RequestsFit` below. The proof
modules extend the modules they are about.

| Module | Theorems about the runs' properties |
|---|---|
| `KeyEventsProofs` | `TypeCorrect`, `StatusCorrect`, `QueueCorrect`, `Refinement` |
| `TcpServerProofs` | `TypeCorrect`, `BatchIsFresh`, `RegistriesAgree`, `InputIsAccounted` |
| `TcpStreamsProofs` | `MessagesAreWhole`, `RequestsAreAnswered`, `EventsReachEveryClient` |
| `TcpClosingProofs` | `OnlyLongFramesClose`, `ShutdownIsGraceful` |
| `PanelProofs` | `PanelTypes`, `LedsAgree`, `RecordsAgree`, `AnswersTruthful`, `PictureIsCurrent`, `AnswersFollowTheTable` |
| `CharDeviceProofs` | `TypeCorrect`, `FlagIsExact`, `NothingMissed` |
| `HmiProofs` | `LabelsAreTyped`, `AlwaysArmed` |
| `RecursionLemmas` | none; what the others need about recursive functions |

### Key events

`KeyEventsProofs` holds for every `MAX_KEY_EVENTS > 0`, every kernel buffer of three or more
places and every `MaxEdges`. `StatusIsSnapshot` and `QueueAgrees` are not inductive: inside
the key thread's critical section `keyPressed` is already new while the count, the queue and
the numbering are old. `IInv` says which of the two is the case and who holds the mutex:
`MutexOwned` ties the mutex to the program counters, `KeyAgrees` ties the parity of the
count to `keyPressed` (negated exactly while `keyPc = "record"`), `Numbered` ties the
queue to the count. A status is read with the mutex, hence, by `MutexOwned`, when the
parity agrees. `RecordEvent` appends the number after the count, whose parity is
`ParityStep`; trimming and popping drop the front, which shifts the numbering by one.
The refinement follows: `RecordEvent` is `Record`, a `PopEvent` on a queue that is not
empty is `Deliver`, every other step stutters. The assumptions are the two named ones of
`KeyEvents`.

`EventsComeInOrder` is what the window means to the server: the events that `popEvent` hands
over have rising numbers, and each is among the newest `MAX_KEY_EVENTS`. It is proved through
the refinement, from the one fact that the last event is older than all that wait.

### Event loop

The three modules about `TcpServer` hold for any set of clients, any finite set of
descriptors, any sequences of requests of any positive sizes, and any positive batch, buffer,
frame and message sizes (`ServerAssumption`). The invariants build on each other:

- `CoreInv`: the types; epoll set and buffers are those of the descriptors in use; a batch
  names no descriptor twice, every event in it the client its descriptor has, and the event
  in hand is out of it (`BatchInv`); a message goes to the descriptor in hand or to one that
  has been taken out of the round (`OutInv`). `BatchFresh` follows. It is inductive because
  the only descriptors a batch can close are the one in hand and, during a broadcast, with no
  batch, any other one, while `accept` hands out only free ones.
- `PlacesInv`: a connection waits in the backlog or has one descriptor, and one that has
  neither is not a connection. `RegistryConsistent`, which counts, follows. `FreshInv`:
  nothing has been exchanged before `accept`.
- `InputInv`: received <= sent <= all requests, and `InputAccounted`. Executing a request
  moves its size from the buffer to the sum of the executed ones, which is a recursive
  function; `RecursionLemmas` shows that it takes its recursive values.
- `WholeInv`: every stream is whole messages, but for the one in hand, whose last unit is the
  `offset`-th of the message in hand; a stream that ends within a message otherwise belongs
  to a connection that was closed.
- `PendingInv`: a complete request is in a buffer only while that buffer is being parsed, the
  fact that makes it safe to go back to `epoll_wait`. `AnswersInv`: the numbers of the
  responses begun are 1, 2, ... up to the requests executed, but for a response still owed,
  or lost with its connection. `Answered` follows.
- `BroadcastInv`: the events begun in the stream of a registered client are those popped
  since it was registered, without the last one while the client is still due for it
  (in the round, or its first unit not yet sent). `BroadcastComplete` follows.
- `HangupInv`: a reported hangup is still one, for a client does not resume its stream.

`ConnectionsCloseForCause` says, without any condition on sizes, when the server closes a
connection that is still there: only if a request of the client comes within `BUFFER_SIZE`
of the limit (`TooLong`: with the code's 1024 and 4096, one of more than 3073 bytes), or if
the client has ended its half, all its input was received and every complete request was
answered to the last byte (`WholeInv`: outside `sendAll` no stream of a connection that is
still there ends within a message). `OnlyLongFramesClose` and `ShutdownIsGraceful` are the properties of the run
`tcp_sessions`. They cannot hold for all sizes, since `tcp_framing` shows a legal frame
refused; they are proved for clients whose requests either leave that much room below the
limit or exceed it (`RequestsFit`). The constants of `tcp_sessions` satisfy it and those of
`tcp_framing` do not.

### Requests, LED and LCD

`PanelProofs` holds for any lines (sequences of words) and any readings with any number of
clients. `LedInvariance` is `Spec => []LedIInv`, the inductive invariant of `LedControl`;
`PanelImplementsLedControl` is `PanelSpec => Spec`: every step of the loop and the LCD is a
step of `LedControl` or leaves its variables alone. From these two come the properties of the
LED.

The argument. `RecordAgrees` and `AnswerTruthful` speak of the moments between requests.
`RecordInv` carries the first through a request: the record is the LED's state except
between the write and `FinishSet`, when the local variable `on` is; and the last writer
can be this server only if it has a device. `AnswerInv` carries the second: the LED's state
belongs to those the request has seen, so does the state that was written. `LevelShows` is
all that is known of the polarity. A STATUS answer is the driver's record, which is the
LED's state by `LedAgrees` because the driver is bound while it is open. `PictureInv` says
of every point of the painting that the areas behind it are the picture's and the others
blank (`Partial`, `Painted`), and that the LED's record cannot change while the loop
paints. `LoopInv` ties the loop to the request in progress: with it the types of the panel
follow.

`AnswersFollowTheTable` is about every line, where the run has the documented ones and those
that miss one by a word. `DocumentedCases` reads the table by command and arguments,
`BranchOfALine` shows that a documented line takes its own branch and any other line that
does not name the LED an error branch; `BranchInv` says that only requests for the LED or
its state are on their way to the device, and that there is a line exactly while one is
executed. The assumptions are `LinesAssumption` and `ReadingsAssumption`.

### Character device

`CharDeviceProofs` holds for any set of processes. `FlagExact` says nothing while the lock is
held; `HolderExact` says what the holder has done and has left. `NoMissedWrite` needs both: a
process goes to sleep upon a flag that it has read under the lock, which is then the truth,
and from a store to its wake-up there is a writer in "mark" or "wake". The one assumption
is that no process is the value for a free lock.

### HMI

`HmiProofs` holds for any bounds on events, disturbances and lines under way. For
`AlwaysArmed` the invariant adds that there is a link to be lost exactly when the socket is
connected. For `LabelsAreTyped` it adds what is on the wires (`WiresInv`): every line, and
whatever is left of one in the buffer, consists of words whose numbers a label may show. It
is carried through `Execute`, which answers all waiting requests at once by a recursive
function, and through cut and glued lines; `MidFindsTheNumber` says that `mid()` returns the
number behind the word, or more than a number.

### Recursive functions

The library's induction theorems take an operator as a parameter, which the provers cannot
instantiate. `RecursionLemmas` states induction on the natural numbers about a set, from the
well-foundedness of `<`, and from it that a function defined by recursion along a sequence
exists (`AccumulationExists`). The sums, filters and folds of the models are such functions,
so facts about them are proved by naming the set of indices up to which they hold.

### Only model-checked

Liveness: `EventuallyAgreesWithKey`, `StopEndsInJoin`, `RequestsAnswered`, `QueueDrained`,
`PollReturns`, `Reconnects`, `LabelsSettle`, `KeyLabelSettles`, since fairness and ENABLED
are out of the prover's reach. And the violated properties of the findings, for which the
counterexample is the result.

## 5. Not modelled

`src/main.cpp` starts the server and has no state. The sysfs branch of `LedDevice` is never
constructed by the program. `TcpServer::start` and `epoll_wait` end the process when they
fail. `protocol_smoke.py` and `device_ioctl_test.c` are straight sequences of calls that
the models make in any order. The rest is configuration, the device tree and generated
code. Pixels, glyphs, widgets, logs and timestamps are abstracted away.

## 6. Plan

Done: all modules of section 2, and in section 4 all safety properties of the passing runs.

Left, in this order:

1. An abstract specification of the event loop as its clients see it (requests in, answers
   and events out, a connection that ends), which `TcpServer` implements; the invariants of
   `TcpStreamsProofs` are what the refinement needs.
2. The converse of `Answered` for streams that were read: what a client has read is a prefix
   of the answers and events in the order in which the server began them.
