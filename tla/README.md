# Verification of tmms (wl-tmm)

tmms is the start of a media server in C++: a log and task library (`src/base`)
and a network library (`src/network`) of the muduo family, one epoll loop per
thread, with TCP, UDP and DNS on top. This directory holds TLA+ modules that
model its core, the TLC configurations that check them on small instances, and
proofs that TLAPS checks. Paths below are relative to the repository's `src/`.

## 1. Inventory

| Component | State | Operations | Interacts with |
|---|---|---|---|
| `EventLoop` (`network/net/EventLoop.cc`) | `looping_`, `functions_` and `lock_`, `events_`, `pipe_event_`, `wheel_` | `Loop`, `Quit`, `RunInLoop`, `RunFunctions`, `WakeUp`, `AddEvent`, `DelEvent`, `EnableEventWriting`, timers | every other network component; foreign threads through `RunInLoop` |
| `PipeEvent` | a non-blocking pipe | `OnRead`, `Write`, `OnClose` | its loop |
| `TimingWheel` + `TTime` | four wheels of slots, `tick_`, `last_ts_` | `InsertEntry`, `RunAfter`, `RunEvery`, `OnTimer`, `PopUp` | called by the loop each turn; entries call back from their destructors |
| `EventLoopThread` | a thread, a mutex, a condition, a promise, `loop_` | constructor, `Run`, `StartEventLoop`, destructor | owns an `EventLoop` on the thread's stack |
| `EventLoopThreadPool` | a vector of the above, an index | `Start`, `GetNextLoop` | |
| `Acceptor` | listening socket | `Open`, `Start`, `Stop`, `OnRead`, `OnError`, `OnClose` | loop, `TcpServer` |
| `TcpServer` | `connections_` | `OnAccept`, `OnConnectionClose`, `Start`, `Stop` | acceptor, connections, the user's callbacks |
| `TcpConnection` | `closed_`, `message_buffer_`, `io_vec_li_`, `timeout_entry_` | `OnRead`, `OnWrite`, `OnClose`, `OnError`, `OnTimeout`, `Send`, `ForceClose`, idle timeout | loop, server, user |
| `MsgBuffer` | a vector, two indexes | `append`, `retrieve*`, `prepend`, `unwrite`, `readFd` | `TcpConnection`, parsers |
| `TcpClient` | `status_` | `Connect`, `OnRead`, `OnWrite`, `OnClose`, `Send` | `TcpConnection` |
| `UdpSocket`, `UdpServer`, `UdpClient` | `closed_`, a list of datagrams, an idle timeout | `OnRead`, `OnWrite`, `Send`, `OnClose` | loop |
| `DnsService` | table of hosts under a mutex, one worker | `AddHost`, `GetHostAddress`, `GetHosts`, `UpdateHost`, `Start`, `Stop`, `OnWork` | resolver, `InetAddress` |
| `TaskMgr`, `Task` | set of tasks under a mutex | `Add`, `Del`, `OnWork` | `FileMgr` (rotation check) from `main` |
| `FileMgr`, `FileLog`, `Logger` | log files, current day/hour/minute | `OnCheck`, `GetFileLog`, `Rotate*` | `TaskMgr` |
| `TestContext` | `state_`, `message_length_`, `message_body_` | `ParseMessage` | reads a connection's `MsgBuffer` |
| `Config` | `name_`, `cpu_start_`, `thread_num_`, `log_info_` | `LoadConfig`, `ParseLogInfo` | `main`, which opens the log it names |
| `InetAddress`, `SocketOpt` | an address as a text, a port, a family | conversions from and to socket addresses, `IsLanIp` and the like | `DnsService`, sockets |
| `StringUtils` | | path functions | the names of rotated logs |
| `Connection`, `Packet`, `LogStream` | contexts, a header, a line | getters, setters, formatting | |

What is hard:

* **threads**: any thread posts functions to any loop; the mutex is held while the
  functions run; a loop asleep in `epoll_wait` is woken by a pipe whose write may
  fail and whose read takes one word per edge; the start and the end of a loop's
  thread race with the calls of its owner;
* **edges**: all descriptors are registered with `EPOLLET`, so an edge that is
  not acted on is gone;
* **object lifetime**: a connection lives by its reference counts, timers run in
  destructors, foreign threads queue raw pointers;
* **descriptors** are reused by the kernel while events of the old one wait in the
  batch;
* **limits**: accept fails when descriptors run out and the acceptor answers by
  opening a new socket, which drops the backlog; a pipe and a socket fill up;
* **restarts**: a server is stopped and started on an acceptor that never closed;
  a UDP socket is started again with a queue; `OnWork` of the resolver ends and is
  started anew;
* **failed calls whose result is used**: `-1` as a `size_t` in `SendInLoop`, `res` of a
  `getaddrinfo` that failed;
* **time**: a clock of 16 bits, cascading wheels, callbacks that insert into the
  wheel being turned.

What makes each component correct, in a sentence: a function handed to a loop runs
once, in order and on its thread; a timer fires when its delay is over; `Run()` gives
a live loop; a connection is open exactly as long as loop and server know it, and is
destroyed once; a client that connects is accepted or refused; bytes, datagrams
and messages come out as they went in; a resolved host stays resolved with its own
addresses; a line that was logged is in a file that can be found.

## 2. The modules

Abstract specifications: `LoopExecutor` (what `RunInLoop` promises) and
`ByteQueue` (what `MsgBuffer` promises).

### EventLoop (refines LoopExecutor; proofs in EventLoopProofs)

A step is what one thread does between two points where another can interfere.
`RunInLoop` is `RunInLoopInline` on the loop's thread; elsewhere it is
`RunInLoopCall`, `LockAndPush`, `WakeUp`, `Unlock`. `Loop()` is `LoopCheck`,
`EpollWait` (or `EpollError`), `PipeOnRead`, `DispatchEnd`, `RunFunctionsLock`,
`RunFront`/`FuncReturn`, `RunFunctionsUnlock`, `TimerEnd`. A function is
the set of calls of `RunInLoop` it makes (`Caller`), which is enough to have
functions run functions, inline and across loops, with the lock held. The pipe
counts 8-byte words; `edge` is epoll's unreported edge. The kernel re-arms the
edge at every successful write, as Linux does for pipes with `EPOLLET`.

### TimingWheel and LoopTimers (proofs in TimingWheelProofs)

`TimingWheel` has the wheels as a set of cells (wheel, slot, rest, entry); a
cell of the minute, hour or day wheel is the `CallBackEntry` that inserts the
rest of the delay again. An entry's callback runs when its last cell is dropped.
The write through slot -1 for a delay of 0 is undefined: the process dies
(`halted`) or goes on without the entry. `LoopTimers` adds the loop: each turn
reads `NowMs`, with 16 bits and a sign, and calls `OnTimer`.

### EventLoopThread (proofs in ThreadProofs)

The constructor, `Run()` from several threads with `call_once`, the thread's
`StartEventLoop`, `Quit` by users, the destructor. The thread may run before the
members declared after `thread_` are constructed (`early` remembers that); what it
then left in them may be wiped or survive.

### TcpServer and Acceptor (proofs in TcpServerProofs)

`TcpServer` has one loop, its batch of events, `connections_`, `events_`, descriptors
that are reused, the functions queued by other threads, the idle timeout, the user's
references. Handlers run to their end on the loop's thread, so each is one step.
Wrong uses of memory that the code allows end in `fault`. The user is "careful"
(keeps each connection until it is closed and no call on it is queued, closes
no other connection from a message callback) or "careless"; nothing in the
code demands care, and the properties that need it say so.

`Acceptor` extends it with the listening socket and has the next-state relation of
the whole server. The accept loop is one `accept` per step (`Accept`, `AcceptEnds`,
`AcceptFails`), so that peers arrive, other threads queue calls and stop the server
between two of them. An `accept` that fails, with `EMFILE` or the error of a peer, ends
in `AcceptorOnClose`: the socket is closed and `Open` makes another one. The third kind
of user, the "operator", stops the server and starts it again; `restarted` remembers
a `Start` that found the acceptor still in `events_`.

### TcpSend and TcpClient (proofs in TcpSendProofs)

`TcpSend` is what a `TcpConnection` does with its bytes. A byte is (buffer,
index); `SendInLoop` writes directly if nothing is queued, the rest is queued.
`OnWrite` takes the queue node by node (`WriteHead`, reported as "writing"), since the
kernel takes the nodes of a `writev` one after the other while the peer may read.
The socket has `room`, and reports edges as epoll does: at `epoll_ctl`, when input
arrives, and when room appears after the socket was found full. `size_t` is `SizeT` values wide, so that the result of a
failed write wraps as in the code. An empty buffer is a node like any other, on
which `OnWrite` spins if it is at the end of the queue. `TcpClient` extends it with the
status machine that a client puts in front of `OnRead`, `OnWrite`, `OnClose` and `Send`, and has the
next-state relation; a connection that was accepted is the case in which the
status is "none". It ends when the connection is closed.

### UdpSocket (proofs in UdpSocketProofs)

One module for the socket, the server that opens it and the client that connects
it: the queue of datagrams, `SendInLoop` in its two forms, `OnRead`, `OnWrite`,
`OnError`. `OnClose` is taken as it is: `closed_` is tested the wrong way round, so
it closes nothing, and a client's merely leaves the loop. `EpollWait` reports one
of error, input and room, as `Loop()` does; `skipped` remembers that the last edge
told of room and something else was dispatched.

### TaskMgr, Config, LogFiles, StringUtils and Housekeeping (proofs in ThreadProofs)

`TaskMgr` has the set of tasks and `OnWork` with its two reads of the clock (`now`, and
`Restart`'s own), one task after the other in any order of the set, the lock held;
time is an `int16_t` of milliseconds. `LogFiles` has a `FileLog` as inodes, names
and a descriptor, and `OnCheck` with the steps of a rotation, between which other
threads write lines; the name of the rotated file is made with `StringUtils`, whose
paths are sequences of tokens. `Config` is what `LoadConfig` makes of the root of a
JSON file. `Housekeeping` composes them as `main()` does (`MainSpec`): it loads the config,
opens the log and sets its rotation, or exits, or dereferences a null `log_info_`; then
the callback of one task is the rotation check followed by `Restart`. The only things asked
of the constants are that this task is one that restarts itself and that paths are
sequences of tokens (`MainAssumption`).

### MsgBuffer (refines ByteQueue; proofs in MsgBufferProofs) and TestContext

The vector, the two indexes and the bytes, numbered as they come in. The
asserts about the length of a call are guards; the asserts about the buffer's own
state follow from `TypeOK`.

`TestContext` adds the owner of the buffer: a caller who uses every operation, or a
connection that reads pieces of any length and calls `ParseMessage`. Each byte of a
header has its value, in network order, and `readInt32` puts them together
(`HostToNetwork`, `NetworkToHost`): an int is taken apart by repeated division, its sign is
the first bit of its last byte, and a length may be negative. The bodies that have come
out are compared with those that were sent as numbered bytes, message by message and
piled up (`Bodies`, `Pile`). `ParseMessage` never
returns while part of a body is there: no step of the parser is enabled then
(`Spinning`), as in the code, which goes round its `while`.

### DnsService and InetAddress (proofs in DnsServiceProofs)

`DnsService` has the table, the thread step by step (`CopyHosts`, `NextHost`, `Lookup` or
`LookupFails`, `WaitEnds`, `UpdateHost`, `SleepEnds`) and the callers of `AddHost`,
`GetHostAddress`, `Start` and `Stop` between any two of these steps. `getaddrinfo` leaves
`res` unset when it fails: what is then read is null, an earlier answer or a wild
pointer (`unset`, `mixed` and "crashed"). `InetAddress` has the conversions: a text is split
at the first colon, `inet_pton` of something else leaves zeros, `is_ipv6_` is never
set from a text.

### Proof modules and MC modules

A module `XProofs` extends the component's module and holds its theorems; a module
`MCX` gives the constants of the runs. The comment in front of each property and each
theorem says what it is about; operators whose comment begins with "Mutant:" are
wrong variants of the definition that follows, under which a run finds its
property violated.

## 3. Runs

| Run | Checks | Bounds, and why they suffice |
|---|---|---|
| `event_loop` | `WakePending`, `ReadFindsData`, refinement of `LoopExecutor`, `PostedRuns`, `QuitExits` | two loops whose functions post to each other and one function inline, another thread that posts and quits; a pipe of one word, so that it is full and keeps stale words |
| `loop_timers` | `NeverLate`, `EveryStaysArmed`, `VanishesOnlyByFiring`, `NeverEarly` | wheels of 3, 3, 2 and 2 slots so that cascades of each of the reachable kinds occur within `MaxTick`, and one delay of more than an hour; the clock starts far from and just before its wrap |
| `event_loop_thread` | `RunGivesLoop`, `QuitOnLiveLoop`, `RunReturns`, `DestroyEnds` | three callers: two can race for `call_once` while the third destroys; the thread starts before or after the members are built |
| `tcp_server` | `CarefulNeverFaults`, `OpenIsRegistered`, `DestroyedOnce`, `ClosesItsOwn`, `ArmedWhileOpen`, `ListenerHears`, `PendingIsAccepted`, `PeerCloseEnds` | two connections and three descriptors, one of them the acceptor's, so that numbers are reused, by the acceptor too, and run out after a second `Start`; a queue of two calls, so that two calls on one connection meet; two starts |
| `tcp_client` | `StreamInOrder`, `QueueIsDriven`, `CompleteMeansFlushed`, `QueueDrains`, `ConnectCompletes`, `InputIsRead` | empty buffers and buffers below, at and above the room of 2 bytes; three sends, so that a partial write ends in, at and beyond a node; accepted and connecting sockets |
| `msg_buffer` | refinement of `ByteQueue`, `FramesInOrder`, `FrameArrives` | lengths 0, 1, 2 and 4 around a buffer of 3 and an extrabuf of 2, 8 bytes in all; messages with bodies that come whole and in parts, empty ones in the middle and at the end, one of negative length; with and without a callback |
| `udp_socket` | `DatagramsInOrder`, `DatagramsDrain` | four datagrams and a room of two, so that the queue and the socket are both full; two sockets, so that a server or client starts again with a queue |
| `housekeeping` | `NoLineLost`, `RestartedStays`, `RunsAgain` | a clock that wraps every 12 ms and goes round after two wraps, minutes of 3 ms, two minutes to the hour and two hours to the day, so that each field returns to a value it had; the check and another task; a sleep of 2 ms; 1 ms spent in callbacks, so that the two reads of the clock differ; two lines, so that one is in the renamed file and one in the new; five config files, with and without a log, a path and a name |
| `dns_service` | `AnswersAreOwn`, `LanIsPrivate`, `AnswersStay`, `HostIsResolved`, `StopReturns` | two hosts, so that one can get the other's answer; two answers each, one with an IPv6 address; addresses at and next to the ends of `IsLanIp`'s ranges; no tries or two |

`TypeOK` is no property of a run. It is proved for `EventLoop`, `MsgBuffer`, `UdpSocket`,
`Acceptor` with `TcpServer`, `TimingWheel`, and as `MainTypeOK` for `Housekeeping` with
`TaskMgr` and `LogFiles`; the others are there for the reader, and hold in the instances
above.

Properties whose code has a gap name it as an exception, at its lines:

* `NeverLate` excludes timers in the wheels of hours and days, which never move,
  and delays that `InsertEntry` refuses;
* `RunReturns` excludes a thread that outran the constructor (`early`), `DestroyEnds` a
  `Quit` before `looping_ = true` (`overtaken`);
* `PostedRuns` and `QuitExits` exclude two loops that wait for each other's lock (`Crossed`);
* `InputIsRead` excludes the input that comes along with the news of a connection
  (`early`), and it, `QueueIsDriven` and `QueueDrains` an empty buffer in the queue
  (`EmptyQueued`) or an `EPOLLOUT` that is skipped;
* `DatagramsDrain` excludes the `EPOLLOUT` that is skipped, the oversized datagram in
  front and the queue filled before the first start;
* `OpenIsRegistered`, `ListenerHears`, `PendingIsAccepted` and `PeerCloseEnds` exclude a
  server started again without its acceptor having been taken off (`restarted`);
  `CarefulNeverFaults` and `ClosesItsOwn` speak of the careful user;
* `FrameArrives` excludes a parser that spins on part of a body (`Spinning`), and an
  empty message until another byte follows;
* `AnswersAreOwn` excludes an answer read through an unset `res` (`mixed`); `HostIsResolved`
  and `StopReturns` a process that such a read, or a second `Start`, has ended;
* `RestartedStays` and `RunsAgain` exclude the wrap of the clock; `NoLineLost` counts the
  lines of a rotated file that the next rotation replaces (`overwritten`).

Three runs show where the code differs from what its tests, its log lines or its
own branches say; TLC finds each counterexample:

* `loop_timers_every`: a `RunEvery` timer stops for ever when `NowMs` wraps;
* `tcp_server_plain`: a peer that closes a connection only the server holds
  terminates the process;
* `tcp_send_stray`: a `Send` that meets a full socket sends one byte from before
  the buffer.

### What else modelling showed

The following is modelled as the code has it, and has no run of its own.

* The name of a rotated log has no date in it, so each rotation replaces the file of
  the one before; a rotation whose `open` fails ends rotation for good
  (`base/FileMgr.cc`).
* The range 172.16 to 172.31 is written 17.16 to 17.31 in `IsLanIp` and `IsWanIp`;
  `is_ipv6_` is never set from a text, so the socket address of an IPv6 answer is
  0.0.0.0 (`network/base/InetAddress.cc`).
* `getaddrinfo`'s failure is tested against a value it never returns, and `res` is then
  read unset; a second `Start` of `DnsService` assigns to a joinable thread and
  terminates (`network/DnsService.cc`).
* A config without "log" makes `main` dereference a null pointer; only "Day" and "HOUR" are
  understood, and nothing gives `kRotateMinute` (`base/Config.cc`).
* `TestContext` spins on a body that is not complete and on a negative length.
* `OnWrite` spins on an empty buffer at the end of the queue, and a `Send` of size 0 calls
  `write_complete_cb_` at once, whatever is queued.
* `TcpServer::Start` after `Start` without `Stop` leaves a socket that is not in epoll, or a
  stale entry of `events_`; an accept error after `Stop` undoes it; clients stay in the
  backlog of a stopped server, whose socket goes on listening; an accept error, of
  one peer or for want of a descriptor, refuses the whole backlog.
* The wheels of hours and days never turn.
* `UdpSocket::OnClose` tests `closed_` the wrong way round.

### Fairness

* Threads run: weak fairness of every loop step outside `epoll_wait`, and of
  the steps inside `RunInLoop`. A poster gets the mutex although the loop takes
  it again and again: strong fairness of `LockAndPush`, the behaviour of a mutex
  that does not starve.
* `epoll_wait` reports an armed pipe in the end even if signals interrupt it:
  strong fairness of `EpollWait` with an edge. Its timeout of 1000 ms is a
  hypothesis (`Timeout`) of `QuitExits` alone, so that `PostedRuns` shows the
  pipe to be enough.
* The loop of a server waits, dispatches, accepts and runs its queue (`EpollWait`,
  `DispatchNext`, `RunFunctions`); `Tick` has no fairness, since the clock may stop it
  (`loop_timers_every`). Nobody has to connect, close, start or stop.
* In `TcpClient` the loop and its handlers run and the peer keeps reading once
  connected; nobody has to connect, send or close.
* In `UdpSocket` the loop and its handlers run and the network takes what is in the
  socket; nothing has to arrive.
* In `TestContext` the loop's thread runs `ParseMessage`; bytes come or not.
* In `Housekeeping` only the thread that calls `OnWork` runs on; lines are written or not.
* In `EventLoopThread` nobody has to call `Run` or to destroy the object.
* In `DnsService` the thread runs and a `join` returns once it has ended; strong fairness of
  each `Lookup(h)` says that a host's lookups do not fail for ever, which is the
  condition of `HostIsResolved` and not something the code could ensure. `StopReturns`
  does not depend on it.

## 4. Proofs

TLAPS checks every theorem below for all values of the constants that satisfy the named
assumptions of the modules. A property that TLC checks and a theorem states is marked
in PROJECT.json.

### EventLoopProofs

For every set of loops, threads and functions, every `Caller` and `Target`, and
every capacity of the pipe: `TypeCorrect`, `WakeUpNotLost` (`[]WakePending`),
`OnReadFindsData` (`[]ReadFindsData`), `EventLoopImplementsExecutor`. They assume
`LoopsAssumption` and `PipeAssumption`: targets are loops, callers are threads or
functions, the pipe holds at least one word.

`WakePending` is not inductive. It is strengthened with what makes it true:
whoever is inside `RunInLoop` after `LockAndPush` holds the lock (`LockInv`), so
the loop cannot be running functions; an edge or a reported pipe means words in
the pipe (`PipeInv`), because each reported edge takes one word and each word
came with an edge; outside `wait` and `dispatch` the queue will be drained
before the next wait; the stack holds the queue's front while functions run
(`QueueInv`). The refinement needs in addition that a function handed over is in
one place only: with its caller, in the queue, or executed (`HistoryInv`).

### TcpServerProofs

For any connections, descriptors, idle time, queue and number of starts:
`TypeCorrect`, `CarefulIsSafe`, `DestroyIsOnce`, `OpenIsArmed`, `EventsAreExact`
(`[]OpenIsRegistered`), `EventsAreOwn` (`[]ClosesItsOwn`), `BacklogIsHeard`
(`[]ListenerHears`). They assume that descriptors are positive and that there is at
least one start.

The invariant is built in layers, each inductive relative to those above it: types and
the order of the first start (`UpInv`); the life of a connection, with the reference a
careful user holds (`LifeInv`); descriptors, one for each open thing (`FdInv`);
what `events_` knows (`RegInv`); the batch, whose events still belong to
whom they were reported for (`BatchInv`); the listening socket's edge (`HearInv`). The
steps fall into six kinds, by what they open and close: nothing, some connections, the
listening socket, an accepted connection, a client that arrives, `Stop`. Each layer is
proved over the six kinds, and one lemma (`StepKinds`) shows that there are no others.

### TimingWheelProofs

For wheels of any sizes of which each divides the next, any timers, delays,
intervals and start of the clock: `TypeCorrect`, `EveryGoesOn` (`[]EveryStaysArmed`),
`NothingVanishes` (`VanishesOnlyByFiring`), and, if all delays are such as the wheels
take (`Taken`: those that `InsertEntry` does not refuse), `NothingIsLate` (`[]NeverLate`)
and `NothingIsEarly` (`NeverEarly`).

The provers do little with `%` and `\div`, so the first lemmas say what they do to a
neighbour and a multiple (`ModNext`, `DivBound`, `DivMono`). Only the wheels of seconds and
minutes move. `Expiry` is the tick at which a cell lets its timer go; `TimeInv` says
that no cell outlasts the deadline of its timer, and that one of them comes within a
minute of it. A tick is taken in two halves, the second wheel and then the minute
wheel: `Mid` is the expiry seen between them, and each half keeps the bounds.

`NeverEarly` is about true time. `EarlyInv` says that what a timer is still owed is at most
what the ticks left to one of its cells must take: a tick comes only when the stamps
differ by `TickMs`, and across a wrap of the clock they never differ by more
than the time that has passed (`Elapsed`, `Left`). A timer in the wheels of hours and days
(`Stuck`) never runs, so it is not early.

### TcpSendProofs

For every room, all sizes, every width of `size_t` and a peer that sends or not:
`QueueStaysDriven` (`[]QueueIsDriven`), `StreamStaysInOrder` (`[]StreamInOrder`) and
`CompletionIsTrue` (`CompleteMeansFlushed`). For the first, the invariant adds that nothing
is queued before the connection is made and that `EPOLLOUT` is reported only to who
asked for it (`DriveInv`). That a direct write calls the callback with nothing left rests
on the arithmetic of `size_t`: size minus the -1 of a failed write is 0 modulo its width
for no size the assumption admits.

`StreamInOrder` is an invariant of three parts. A node of the queue goes to the end of its
buffer, and nodes are in the order of the calls of `Send` (`QueueInv`); the bytes on the
wire are in order, all before those of the queue (`WireInv`); a byte that was handed
over is on the wire or some node reaches it (`NoneLost`). Byte 0 of a buffer stands for the
one in front of it, which a failed first write adds, and the property excepts it.

`InputStaysHeard` (`[]InputIsHeard`) is the counterpart of `QueueIsDriven` for reading: input has
an edge or a report, except the input whose edge a client took as the news of its
connection.

### ThreadProofs

`LoopIsThere` (`[]RunGivesLoop`) and `QuitReachesLoop` (`[]QuitOnLiveLoop`), for any number
of callers: nobody has returned from `Run` before the promise was kept and the thread
never goes back behind it (`RunInv`); it leaves `Loop()` only when somebody has quit it
(`QuitInv`). `RunIsNeverStuck` (`[]RunIsServed`) says why `Run` returns, unless the thread has
outrun the constructor: a caller that finds `lock_` taken has only to wait for the thread
to test `running_`; and after the signal the thread is awake and on its way to the
promise. The invariant (`ServeInv`) says who holds `lock_`, that the thread is past its test
only after the signal, and that one caller at most is inside `call_once`.

For `Housekeeping`, with any tasks and intervals, any width of `NowMs`, lengths of minutes,
hours and days, number of lines and config files: `LinesAreKept` (`[]NoLineLost`),
`RestartKeepsTheTask` (`RestartedStays`) and `MainTypes` (`[]MainTypeOK`).

`NoLineLost` needs to know where the descriptor points (`NamedInv`): at the file with the
log's name, or, from `rename` until `dup2` and for good if `open` fails, at the one with the
rotated name. This rests on the two names being different, which is no assumption
but a lemma about `StringUtils` (`RotatedDiffers`): `FilePath` leaves out the separator that
ends the directory and what follows it has none, so that for every path that `open`
takes the rotated name is another one. `RestartedStays` needs that the task whose callback
has run is not due unless the clock has wrapped between the two reads of it or on the
way to the new time (`TaskInv`).

### DnsServiceProofs

`AnswersAreKept` (`AnswersStay`) holds for any hosts and answers because the thread carries
a list that is not empty to `UpdateHost` and a host that is in the table (`WorkInv`).
`AnswersOfHost` (`[]AnswersAreOwn`) adds that the entry of a host holds addresses of that
host only, that the list is empty before each lookup, and that what is about to be
written are answers of the one host being resolved (`OwnInv`); and that an index of
any sign ends up inside the list, by the arithmetic of `size_t` (`IndexOfInRange`).
`LanIsExact` (`[]LanIsPrivate`) shows the comparisons of 32-bit numbers to be those of the
first one or two bytes.

### MsgBufferProofs and UdpSocketProofs

For every `kCheapPrepend`, `kInitialSize`, size of `extrabuf` and set of lengths
(`BufferAssumption`: they are natural numbers): `TypeCorrect` and
`MsgBufferImplementsQueue`. `TypeOK` is not inductive: `retrieveAll` puts both indexes at
`kCheapPrepend`, which must be inside the vector. `IsBuffer` adds that the vector is
never shorter than its front, which holds because it never shrinks. A lemma per private
operation (`ResizeKeeps`, `MoveKeeps`, `EnsureKeeps`, `CopyPuts`, `WritePuts`, `AppendPuts`) says
what it does to the readable bytes; the lemma of each public operation shows it a
step of `ByteQueue`, `readFd` being two writes joined by `IncomingInTwo`.

For every set of messages that fit in an int, with or without a negative length at the
end, and pieces of any length: `FramesStayInOrder` (`ContextSpec => []FramesInOrder`) and
`OwnersKeepTheQueue` (a `TestContext` takes only steps of a `MsgBuffer`). The invariant
(`FrameInv`) says that the buffer holds the bytes that follow those taken out, and that
the parser has taken n messages whole, and the header of the next one if its state is
"body". `NetworkIsBack` is the lemma on the header: an int of any number of bytes comes
back, sign and all, from its bytes in network order.

What the recursive functions of `TestContext` compute (`Rest`, `IntOf`, `End`, `Pile`) is
proved by induction in another guise. The library's induction theorems take an operator
as a parameter, which the provers cannot instantiate, but `WFMin`, that a set of
numbers which is not empty has a least element, takes none: `Upward` is induction for
the set of the numbers that satisfy something, `Recursion` gives a function that is
defined by its predecessor, and `StaysIn` the set it stays in.

For every room and every number of sends and sockets (`UdpAssumption`): `SendsInOrder`
(`[]DatagramsInOrder`) and `TypeCorrect`. The wire followed by the queue is what was
handed to `Send`: `SendInLoop` appends to it wherever it puts the datagram, `OnWrite`
moves the border between the two. `DatagramsStayDriven` (`[]DatagramsAreDriven`): whatever is queued
on a socket in the loop has something that is going to send it; `OnWrite` stops only at an
empty queue, a full socket or a datagram too big, since a refused one makes a client
leave the loop.

### What is only model-checked

Liveness under fairness, which is out of the prover's reach: `PostedRuns`, `QuitExits`,
`RunReturns`, `DestroyEnds`, `PendingIsAccepted`, `PeerCloseEnds`, `QueueDrains`,
`ConnectCompletes`, `InputIsRead`, `FrameArrives`, `DatagramsDrain`, `RunsAgain`,
`HostIsResolved`, `StopReturns`. For four of them the invariant they rest on is proved
(`QueueIsDriven` for `QueueDrains`, `InputIsHeard` for `InputIsRead`, `DatagramsAreDriven` for
`DatagramsDrain`, `RunIsServed` for `RunReturns`): a state in which nothing is going to
happen is never reached, for any constants. What fairness adds is left to TLC. Every
invariant, action property and refinement that a
passing run checks is a theorem. The three properties that a run refutes have, of course,
a counterexample and no proof.

## 5. Not modelled

* `EventLoopThreadPool`, `Connection`, `Logger`, `LogStream`, `Packet`, the templates of
  `Singeton` and `NonCopyable`, the vendored jsoncpp: vectors, setters, formatting and
  idioms, with no behaviour over time of their own. `SocketOpt` is modelled where it
  converts addresses; its options are not.
* The destructor of `Acceptor`, which calls `shared_from_this` and so terminates.
* The data race on `events_` at the first `WakeUp` (`network/net/EventLoop.cc:230`) is taken
  as an atomic insertion; several loops in one thread; `EnableEventReading`, which has
  no caller.
* `TcpClient`: a second `Connect` (`closed_` is never reset), and `Connect` called after
  other operations (`status_` is not initialised).
* `UdpSocket`: empty datagrams, starting a socket that is in the loop, destruction,
  the idle timeout, whose callback only logs. What a queued datagram contains: the
  model tells datagrams apart by number, and `OnWrite` passes `buf->addr` where the
  payload belongs (`network/net/UdpSocket.cc:98`).
* Several logs and `RemoveFileLog`, which has no caller: `LogFiles` has one log, of one
  `rotateType_` chosen at the start. A second `LoadConfig`, and JSON values of a type other
  than the one asked for.
* Intervals of `RunEvery` that are not whole seconds.
* Buffers handed to `Send` are assumed to stay unchanged until written. Lengths in
  `MsgBuffer` stay far below 2^64; searching it (`findCRLF`, `findEOL`) changes nothing.

## 6. Plan

Done, in this order: event loop, wheels, loop thread, server with acceptor, sending
and client, buffer with framing, datagrams, housekeeping from the config file on,
DNS; proofs of all safety properties.

Worth doing next:

1. The first `WakeUp` with the outcomes of its race on `events_`.
2. A second life of a `TcpClient` and of a `UdpSocket`, with descriptors as state, as in
   `TcpServer`; the destruction of a `UdpServer` with calls queued.
3. The safety half of the other liveness properties as theorems, such as `StopReturns` and
   `HostIsResolved`: from a state in which the action is due, no other step takes its
   cause away.
