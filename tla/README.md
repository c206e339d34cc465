# Quekka: TLA+ models, checks and proofs

Quekka (the `tiny-mon` repository) is a small message queue written in C with a C++
library of in-memory tables. This directory models the parts that hold its logic: the
callback socket server, the fork server, the producer API with its configuration, the command
line client, the logger and the in-memory tables. Source paths below are
relative to the repository.

## 1. The system

| Component | Files | State | Operations | Status |
|---|---|---|---|---|
| socket server | `src/internal/libsocket.c:275-520`, `server.h` | listener, epoll handler, client manager, `running` | `socket_server_create/start/stop/destroy/disconnect/send`, event handlers | modelled |
| client manager | `libsocket.c:176-272`, `client.h` | singly linked list of `client_info_t`, count | `create/destroy/add/find/remove/count` | modelled |
| epoll handler | `src/internal/libepoll.c` | epoll descriptor, one batch of events | `create/destroy/add/remove/wait` | modelled |
| producer | `src/quekka/Quekka_producer.c`, `Quekka_message.h` | `_Thread_local g_producer` | `Quekka_producer_init`, `Quekka_publish` | modelled |
| error codes | `Quekka_quecode.c` | `_Thread_local quecode` | set, get, string | the code only |
| in-memory tables | `include/quekka/Quekka_mdb.hpp` | named tables, rows, callbacks, detached threads | `getTable`, `dropTable`, `upsert`, `erase` | modelled |
| logger | `Quekka_log.c` | one `g_logger`, a mutex, the buffer of its file | `logger_init/close`, setters, `log_write` | modelled |
| configuration | `Quekka_config.c` | ip and port | setters, getters | modelled |
| command line client | `src/cli/quekka-cli.cpp` | one connection | reads header and body of each frame | all but its options |
| fork server, echo helpers | `libsocket.c:81-175` | one process per connection | `socket_connect_with_client`, `comm_*` | modelled |
| server program | `src/server/quekka.c` | a listener | start-up; its callback is an empty stub | not modelled |
| protocol, subscriber, `quekka.cpp` | | | disabled, empty, not built | not modelled |

How they interact. `socket_server_start` runs one thread: `epoll_wait` fills a batch of
events, each is dispatched to `handle_accept` or `handle_client`, and these call the
application back (`on_connection`, `on_received`, `on_disconnected`). The application calls
`socket_server_disconnect` and `socket_server_stop` from inside a callback, and keeps
`client_info_t*` pointers into the client manager's list. The server and the kernel share
descriptors, which the kernel reuses. The producer is independent of the server: each thread
opens its own connection and sends frames of 4096 bytes without waiting. The tables are
independent of both: each change runs the table's callback in a detached thread. The command
line client reads frames such as the producer writes. The fork server gives each connection to
a child process; parent and children have copies of the logger, its mutex and the buffer of its
file, and share the file. All components log.

What is hard, and so what the properties are about:

- *Descriptor reuse.* `socket_server_disconnect` closes a descriptor and leaves its node in
  the list. `accept` returns the lowest free number, so several nodes may carry it, and an
  event of the current batch may name it. Find and remove go by number.
- *Edges.* Registrations are `EPOLLET`: an arrival is announced once, so a handler that stops
  reading too early loses it for good.
- *Partial failure.* Each accepted descriptor goes through `fcntl`, the list, `epoll_ctl`.
- *Stop.* The loop waits with timeout -1 and only a variable says stop.
- *Boundaries.* The producer slices by `QUEKKA_PAYLOAD_MAX`, copies one byte less, and counts
  in a `uint16_t` that is also an offset; `send` may be short.
- *Fork.* A child is forked while another thread is within a line of the log: it has a mutex
  nobody will release and half a line in its buffer.
- *Stream reading.* The client reads a header without waiting and one byte short, and a body one
  byte short, of frames that arrive in pieces.
- *Threads.* Callbacks of consecutive changes of a table run in any order.

## 2. Modules

| Module | Models | Used by |
|---|---|---|
| `SocketServer` | socket server, client manager, epoll handler | TLC and proofs |
| `MCSocketServer` | instances of it: what events carry, symmetry | TLC |
| `SocketServerProofs` | its inductive invariant, and which client a handle and an event belong to | TLAPS |
| `SocketServerEventProofs` | its edges, notices, leaks and the count of clients | TLAPS |
| `QuekkaConfig` | configuration, as operators | `QuekkaProducer` |
| `QuekkaProducer` | configuring a producer, connecting it, its frames | TLC and proofs |
| `QuekkaProducerProofs` | chunks, frames, what they carry | TLAPS |
| `MCQuekkaProducer` | strings for the runs of it | TLC |
| `QuekkaCli` | command line client | TLC and proofs |
| `QuekkaCliProofs` | what it takes off the connection and shows first | TLAPS |
| `QuekkaLog` | logger, per process | `ForkServer` |
| `ForkServer` | fork server and its children, composed with the logger | TLC and proofs |
| `ForkServerProofs` | descriptors per process, and the log file they share | TLAPS |
| `CommEcho` | an echo session | TLC and proofs |
| `CommEchoProofs` | replies and reads | TLAPS |
| `ChangeFeed` | abstract: feed of a table's changes to its listener | refinement |
| `QuekkaMdb` | in-memory tables | TLC and proofs |
| `QuekkaMdbProofs` | callbacks, futures, and that the tables implement the feed | TLAPS |

### SocketServer

`mgr` is the `client_manager_t`: a sequence of nodes, head first, and `client_count`; the
functions of the client manager are operators of the same names. `pc` is where the event loop
is: `loop` (the test of `running`), `wait` (inside `epoll_wait`), `dispatch` (the loop of
`libepoll.c:79`), `accept` and `client` (before a system call of `handle_accept`,
`handle_client`), or inside a callback. `batch` holds the events not yet dispatched, `cur` the
node the handler works on. One action is one system call or one return from a callback, so
peers and other events come between any two of them. Events of a batch are dispatched in any
order.

External, modelled as the code sees them: the descriptor table (`file`), `interest` and
`ready` lists of epoll, the accept queue, the peers (`peer`, `inbox`), and the application
(`app`: what it knows of each connection; it disconnects only clients it has been told of and
has neither disconnected nor seen disconnected). A received chunk is a unit; its bytes are not
modelled. `close` of a descriptor that is not open changes nothing. `send` is left out: it
changes nothing the server keeps.

`EventArg[f]` is what `epoll_event_callback` receives as `fd` for an event on `f`. Committed
code registers `NULL` (`libsocket.c:318`, `:448`, both marked TODO), so it receives 0;
`handle_accept` and `handle_client` are written for the descriptor. The committed value is the
subject of `ServerNullCtx`; the other runs give the descriptor, because with 0 nothing after
the registration is ever executed. `ListenNonblock` is FALSE in the committed code:
`socket_init` never sets `O_NONBLOCK`, so once events reach `handle_accept` its last `accept`
blocks the only thread (`Resting`) until another peer comes, a signal ends it
(`AcceptInterrupted`), or no descriptor is free. So it is in `ServerRests`, `ServerLive` and the
other runs but `ServerSafety`, which also takes the `EAGAIN` branch the loop is written for
(`AcceptEmpty`) and so reaches more states. The theorems hold for every `EventArg` and both
values of `ListenNonblock`; only `NoEdgeIsLost` says in its hypothesis what an event must carry.

### QuekkaProducer

`g_producer[t]` says whether thread `t` has a producer; `call[t]` is its call of
`Quekka_publish` with the loop variables `remaining` and `seq` (a `uint16_t`: `UInt16`). A frame
is a record of the header fields and the half-open interval of payload positions whose bytes
it carries, as `header_assemble` and `message_assemble` leave it: the interval is one short of
a chunk because of the NUL, `flags` is what the short `memcpy` leaves, the topic keeps
`sizeof(int)` bytes (`TOPIC_KEPT`; `strncpy` at line 134). `Acceptable` is the code's test: the size
passed must be the length of the payload, while `test_QuekkaProducer.cpp:82` passes the length of
topic and payload together and is rejected. `room[t]` is the send buffer in half frames, so that a `send` takes all,
half or nothing. Every frame is sent at its full size, so the wire is a sequence of frames.
`AfterSend` is the call after a turn: `short` remembers, for the properties only, that some `send`
of it took less than a frame. `flags` is always `QUEKKA_FLAG_MORE`, although
`Quekka_message.h:20` names a value for the last frame; and a payload of more than 65536 chunks is
sent from its start again when `seq` wraps, although `Quekka_message.h:28` calls `seq` the index of
a piece. `ProducerFrames` sends such payloads too; what it says of them is what does not depend on
`seq`.

`config[t]` is the `Quekka_config` the thread hands to `Quekka_producer_init`, `settings[t]` bounds
how often it sets it. The setters are the operators of `QuekkaConfig`: `set_address` copies the ip
without a NUL over the last one and keeps the port in host order, `set_ip` clears the field and
fills it, `set_port` swaps the port. A string is a sequence of characters. One longer than
`INET_ADDRSTRLEN` makes `set_address` write past the structure: the step `Overruns` to `undefined`.
`set_ip` cuts it. `test_QuekkaConfig.cpp:33` expects `set_address` to store network order, which
it does not. Where the producer connects to is not kept (section 5).

### QuekkaCli

`texts` are the bodies given to `processQuekkaData`, as intervals of the stream; `sent` the frames
the peer writes, of `H` cells of header and `P` of payload, `arrived` how far they arrived and
`ended` the end behind them. `Cell(n)` is the number a misplaced header finds in a cell. The
states `header` and `body` are the two `recv` calls of the callback: the first takes at most
`H - 1` cells and does not wait, the second asks for `payload_len - 1` and waits for them
(`MSG_WAITALL`). The failures of start-up, of `epoll_wait`, of either `recv` and of `malloc` are the
actions of `Failing`, each of which exits, in the runs that have them among their `Faults`. A body
of fewer cells than `CLEARED`, the `sizeof(pBodyBuffer)+1` bytes the code clears, ends with a NUL
(`nul`); behind a longer one `malloc` left either. `Shown` is what `%s` prints of the cells of a
body, `RunsOn` that it finds no end in or behind them. The callback's `fd` is 0:
`stdin` says whether that is a descriptor the program was started with (then the first `recv`
fails) or the connection. A `payload_len` of 0 asks for `SIZE_MAX` bytes: the model goes to
`undefined` and stops.

### QuekkaLog and ForkServer

Each process has its `g_logger`, `log_mutex` and `stream` (the FILE buffer); `disk` is the bag of
writes that reached the file. A call of `log_write` is the steps: level read without the mutex,
lock, prefix, text, flush and unlock. The functions that configure the logger lock first and then
act and unlock in one step, since nobody else may look at what the mutex guards in between, but a
fork may come before it. Console
output is not kept, but that it uses `args` up is: `Crash` may follow. `ForkServer` has the loop of
`socket_connect_with_client` in process `Main`, other `Threads` of the parent that log and
configure, and `Children` with copies of the logger's state as it was. The child closes the
listener, logs and exits, as in the code, whose `execl` is not there. `holders` and `listening` are the
descriptors per process. Nobody waits for a child, so an exited one still counts as one of
`Children`. Only lines the program logs itself have a choice of level; a task's `line` counts them.

### CommEcho

`input` is what arrived, `took` the reads, `replies` what was written, each a sequence of cells.
Read sizes are free up to `BUFFER_SIZE - 1`; the text of a read ends with its first NUL; a session
ends with a read that starts with quit, an end, or an error. `killed` is `SIGPIPE`.

### QuekkaMdb and ChangeFeed

`objects` are the tables ever created, `_tables` the names in use, `changes` every change made
with the state of its callback (`none`, `failed`, `started`, `called`, `done`). `getTable` of a
known name and `erase` of a missing key change nothing and are not actions. The listener keeps a
copy and applies what it is told. `waits`, chosen at the start, says whether the caller waits for
each future before its next call, as the unit test does (`test_QuekkaMdb.cpp:47-48`). In
`ChangeFeed` changes are numbered by `made`; a table's listener hears every change that did not fail
at most once, with its own values, and, if the caller waits, in order, fitting its copy; `Feed` maps
`QuekkaMdb` to it: the feed of a table is the set of its changes whose callback has not been called.

## 3. What is checked

`expect violation` runs are disagreements of the code with its own comments, headers or tests;
each is quoted under "findings" in `PROJECT.json`.

| Run | Instance | Shows |
|---|---|---|
| `ServerSafety` | 4 connections, 2 descriptors, batch 2, 3 clients, 1 chunk, all faults and uses | `HandleOwnsFd`, `HandleAlive`, `NoMisdelivery`, `OpenIsManaged`, `NoLostEdge`, `CountExplained`, `FreedAfterNotice`, `NotifiedOnce` |
| `ServerLive` | 2 connections, 2 chunks, blocking listener, signals, fair | `ConnectionAccepted`, `DataRead`, `EndReported`, `StopFromCallback` |
| `ServerNullCtx` | committed `EventArg` | no connection is accepted |
| `ServerNoDescriptors` | 3 connections, 2 descriptors | EMFILE leaves the queue unannounced |
| `ServerStopWait` | stop from outside the loop | it is not heard |
| `ServerRests` | 1 connection, blocking listener | `accept` does not return |
| `ProducerFrames` | 1 thread, 2 settings, 2 calls, lengths 2, 3, 7, 9, 10 at chunk size 3, `UINT16_MAX` 2, 4 half frames of room, all init failures | `ChunkOffset`, `OnlyBoundaryLost`, `InOrder` |
| `Mdb` | 2 names, 2 tables, 2 keys, 2 values, 3 changes, callers that wait and that do not, `std::thread` may throw | `KeyChain`, `FutureMeansHeard`, `ImplementsFeed` |
| `ForkLog` | 2 connections, 2 children, 1 other thread, 1 line each, 2 configurations, `accept` and `fork` may fail | `OnlyExitTears`, `ClientsApart`, `HungOffListener`, `PeerSeesEnd` |
| `CliStream` | 2 frames of payload size 4, lengths 1, 2, 5, 6, 2 bytes cleared, all failures | `FirstText`, `EndIsNoticed` |
| `CliDrained` | nothing fails | the client exits when it has read everything |
| `CommEcho` | 5 bytes of 3, buffer of 4 | `EchoesAll`, `SessionEnds` |

Bounds. Two descriptors with four connections make every descriptor be reused with up to two
stale nodes ahead of the newest connection; `MaxClients` 3 is reached only through stale nodes;
`MaxEvents` 2 is less than the three descriptors that may be ready. Threads of a producer share nothing but the
process, so one is enough for its properties. Connections are
interchangeable, hence the symmetry, used only in runs without liveness. For the producer the
lengths lie below, at and above the chunk size, at the last multiple that `seq` can count (9) and
beyond it (10); of the two strings one is longer than the field, so that it overruns it or is cut
to it, and the other is then set over its tail. For the tables, two objects are enough
for a name to be dropped and taken again while callbacks of the old object run, three changes for
a key to be created, deleted and created again. For the fork server two connections and two
children are what a child needs to inherit another's connection, two configurations open the file
and change the level within a line; one line of the thread is enough to fork within it. For the
client, length 1 asks for nothing, 2 for a body shorter than what is cleared, 5 for all of the frame
and 6 for a cell of the next one; a second frame is what a misplaced header is read from. Five bytes are a full read and a rest, or quit cut in two.

Deadlock is not checked: peers may stay silent, and a stopped server, a producer that has made
its calls, a client whose connection is closed and a child that waits for its mutex rest.

Fairness (`FairSpec`): the server's own thread keeps taking steps (`WF(EventLoop)`), and
`socket_server_start` is called once. Nothing is assumed of peers or of the application's other
calls. The liveness properties start from `Quiet` (no peer sends for ever), since
`handle_client` reads one client until `EAGAIN`: a peer that floods starves the others, and the
code does nothing against it. They also end when the server is stopped. All but
`ConnectionAccepted` further start from `AcceptReturns`: the loop is not left in the `accept` of
the blocking listener for ever. The code does not see to that (`ServerRests`), so it is a
hypothesis of the properties and no fairness: what is shown is that each time something ends
the `accept`, nothing is left unread or untold. In `ServerLive` that is a signal or another peer.

`QuekkaCli` and `CommEcho` assume that the program itself runs (`WF(Cli)`, `WF(Session)`) and nothing
of the peer. `ForkServer` assumes it of each child and of the parent's close after a fork, which
wait for nobody; nothing of the threads that share the parent's mutex.

Some properties state exceptions, because the code has them. `OnlyExitTears`: every
write of the log file is one whole line, once, except for what `exit` flushes in a child forked
within another thread's line. `ClientsApart`: a connection is open in one process at a time beyond
the moment of its fork. `HungOffListener`: a child that waits for ever for a copied mutex has
closed the listening socket. `PeerSeesEnd`: the peer of every child that does not hang sees the
end, also when the parent crashes. `FirstText`: the first body shows `flags` and the payload but
its last byte, and nothing of what follows its text, also when `payload_len` reaches into the next
frame; it shows nothing of a frame marked MORE (the 0 of `flags`, which it starts with, ends the
string) or whose header came in two pieces. `%s` prints on past the buffer only if the body fills
both what was cleared and the frame's text. `EchoesAll`: the replies are the reads, one by one,
however the bytes were cut, but for a read with a NUL and the last one when it is not answered.
`InOrder`: beyond what `seq` counts, frames of one call come in no order.

Every property of a passing run has a mutant in `PROJECT.json`: a plausible bug of a definition
(insertion at the tail, a missing `close`, one `recv` per event, an unbounded copy) under which
TLC finds it violated.

## 4. What is proved

Every safety property of a passing run, invariant, action property or refinement, is a theorem
too. Each theorem holds for all values of the constants that satisfy the `ASSUME` of its module,
and of the bounds: any number of connections, descriptors, threads, tables, frames, children. The
assumptions only give constants their types and keep `NoConn`, `Absent`, `Free` and the like apart
from what they stand beside; chunks, frames and buffers are at least two long, so that there is a
byte before the one the code leaves out. Two theorems have a hypothesis besides, named below.

Each proof module states its inductive invariant, which TLC has checked on the instance of the run,
proves `Init => IInv` and `IInv /\ [Next]_vars => IInv'`, with one lemma or case per action, and takes
the theorems from it.

### The socket server

| Theorem | Property |
|---|---|
| `TypeCorrect` | `TypeOK`: the count never leaves `0..CLIENT_MAX_CLIENTS` |
| `HandlesOwnTheirFd`, `HandlesAreAlive`, `NeverMisdelivered` | `HandleOwnsFd`, `HandleAlive`, `NoMisdelivery` |
| `NothingLeaks` | `OpenIsManaged` |
| `NoEdgeIsLost` | `NoLostEdge`, if `EventCarriesFd`: the event of a client carries its descriptor |
| `EveryNodeCounts` | `CountExplained` |
| `FreedOnlyAfterNotice`, `NotifiedOnlyOnce` | `FreedAfterNotice`, `NotifiedOnce` (action properties) |

None of the first safety properties is inductive: they say nothing about where stale nodes
are. The invariant `IInv` of `SocketServerProofs` adds

- `ListInv`: the count is the length of the list, and no connection has two nodes;
- `KnownInv`: connections in the accept queue are unknown to the application and to the list;
- `OwnerInv`: an open descriptor belongs to a connection whose node carries it and is the
  first with that number: stale nodes come only behind the current one;
- `HandleInv`: the connections the application holds have a node, and an undisconnected one owns
  its descriptor;
- `CurInv`: the node the handler works on is in the list and first of its number.

The argument turns on `client_manager_add` inserting at the head while `accept` returns only
closed descriptors: the new node becomes first of its number, and `find` and `remove` act on
it. A removal of the first node of a number never touches a connection that is open, because
the descriptor has just been closed. The lemmas `AddFacts`, `RemoveAtFacts`, `AddKeepsFirst`,
`RemoveKeepsFirst`, `AddThenRemove` and `FindType` carry that.

`SocketServerEventProofs` builds on it. `EventInv` adds that every open descriptor is registered
(`WatchedInv`) and its connection known to the application (`OpenInv`), and that a batch is dispatched
before the next one is fetched (`BatchInv`). The count then follows by a bijection from nodes to
clients and from connected clients to open descriptors (`CountNodes`, `CountOpen`). `NoLostEdge` is
inductive over these: an arrival marks its descriptor ready, a batch keeps it, and the reader leaves
only at `EAGAIN`, at the end, or when its descriptor is closed. With the committed `NULL` the
hypothesis is false; then no client is accepted either (`ServerNullCtx`).

### The producer and its configuration

`TypeCorrect`, `ChunksAreWhereTheyShould` (`ChunkOffset`), `ExactLoss` (`OnlyBoundaryLost`)
and `FramesInOrder` (`InOrder`), for every chunk size, width of `seq`
and size of the socket buffer. What depends on `seq` is said per payload (`Countable`), so that the
runs may go beyond. The invariant is that `seq * PAYLOAD_MAX` and what remains make up the payload (`OffsetInv`), that every
frame starts where its `seq` says and ends before what remains (`FrameInv`), and that what the
frames of the call carried is what was sliced off but the last byte of each full chunk (`CoverInv`);
`Wraps`, `ChunkOrder`, `InChunk` and `KeptGrows` are the arithmetic of it.

### The tables

`TypeCorrect`, `CallbacksFormChain` (`KeyChain`), `WaitedMeansHeard` (`FutureMeansHeard`) and `TablesAreFeed`:
`QuekkaMdb` implements `ChangeFeed`, each step of the tables being one of the feed or none. The
invariant says that a row is what its last change left, and each change starts from the one
before (`RowInv`); that a caller that waits has at most one callback on its way (`WaitInv`), by which
alone a copy lags behind (`CopyInv`); and which tables have callbacks (`ListenInv`).

### The fork server and the logger

`TypeCorrect`, `LinesAreWhole` (`OnlyExitTears`), `OneChildPerClient` (`ClientsApart`) and `HungLetsBind`
(`HungOffListener`). `PlaceInv` says which process has what open at each place of the loop, `ApartInv` that
connections are not shared between children. `MutexInv` says who holds the mutex of each process:
the task that is within a line or a configuring call, or in a child possibly a thread that the child
does not have; a child whose own line is dropped gets past that, all others wait in `lock`.
`StreamInv` says what the FILE buffer has at each place of a line, and `DiskInv` that the lines in the
file are of tasks done with them; so a new line is new, and its buffer had nothing else in it. Only
the buffer of a child that was forked within a line has something at `exit`.

### The client and the echo session

`QuekkaCliProofs`: `TypeCorrect` and `FirstFrameShown` (`FirstText`). `FirstInv` follows
the client from the first header to the first body, which `FirstTook` describes; `InFrame` and `FirstCells` say what is where in
the stream. `CommEchoProofs`: `TypeCorrect` and `RepliesAreReads` (`EchoesAll`), the second if
`PREFIX <= SPARE`: a response has as much spare room as its prefix takes. In the code that is 6 and 8.

### Only model-checked

Liveness, which is out of the prover's reach: `ConnectionAccepted`, `DataRead`, `EndReported`,
`StopFromCallback`, `PeerSeesEnd`, `EndIsNoticed`, `SessionEnds`. So are the runs that expect a violation. What
a recursive operator computes needs induction over its argument; none of the theorems is about one
(`FlattenSeq` is used in a bound of `CommEcho` only).

## 5. Not modelled

- Of the logger: console output, the BOM of a new file, a second file, layout, times. The comment at
  `Quekka_log.c:48` says that a child may call `logger_init` after `fork`; no child of the code does,
  so the model has no such step (`logger_init` would wait for a mutex copied while it was held,
  and its `fclose` would flush a copied buffer).
- Of the client: the options of `processArgs`; the bytes that are printed past a body without a
  NUL; and that `memset` clears nine bytes also of a shorter buffer, which stays within the smallest
  block glibc's `malloc` returns.
- Where a producer connects to. `socket_set_server_address` swaps the port once more, so of the two
  ways to set it the one that keeps it in host order, `set_address`, connects to the port
  named. `inet_pton` refuses a name such as the `localhost` of `Quekka_config.h:15`, and the address
  stays 0.0.0.0, on Linux this host.
- Descriptors the application opens for itself: in the model only `accept` takes a free number, so one
  that the application opens in `on_disconnected`, between its own `close` and that of
  `handle_client`, is not covered.
- A short `write` of a reply: `libsocket.c:160` looks only for a negative result. The descriptor is
  blocking, and `write` then takes all there is or fails.
- The capacity of a FILE buffer: a line longer than it reaches the log file in several writes, and
  `OnlyExitTears` does not hold of it.
- `comm_init`'s test of the descriptor; setup of sockets (`socket_init`, `bind`, `listen`), which exit or
  return on failure and keep no state.
- The program `src/server/quekka.c`: its callback does nothing yet, and its `-p` is not used. `quekka.cpp`, the protocol
  and the subscriber are not part of the build.
- Bytes: contents of chunks, topics and payloads, `message_id`, log text.
- Failures of `socket_server_create`: it undoes what it did and returns NULL; the model starts
  after a successful call.
- Times: `localtime` returns one buffer for all threads, and `Quekka_producer.c:130` calls it without
  the logger's mutex.
- Modelled, and shown by a single step, so that a property would only repeat it: `flags` never set
  (`message_assemble`), the port in host order and the tail of a longer ip (`set_address`), the
  connection closed after a payload of one byte (`RecvNothing`). The count of clients differs from the
  open connections by what `CountExplained` says, and the bytes a publish loses are those of
  `OnlyBoundaryLost`.
- Modelled, but judged by no property, since nothing says what should happen: a topic cut to
  `sizeof(int)` characters, a publish of a thread without a producer, an error code that is never
  reset, an `accept` that fails again and again, a client interrupted by a signal or started with stdin.
- Use of a dangling `client_info_t*` or table reference by the application, and unsynchronised
  access from two threads: undefined behaviour the callers must avoid.

## 6. Plan

1. Safety is proved as far as the runs state it. Next are properties the runs do not have yet: what
   `client_manager_count` may be at `destroyed`, and the descriptors `socket_server_destroy` leaves open.
2. Action properties for the parts of liveness arguments that are safety: no step of the event
   loop undoes what `DataRead` waits for, a child's steps only go forward.
3. `ChangeFeed` without waiting: how far a copy may be from its table when callbacks run in any order.
