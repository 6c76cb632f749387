# A verification project for libremo

libremo (`src/`) is a C++ library for remote procedure calls between processes.
This directory models it in TLA+, from the intrusive list and the socket
descriptors up to nested remote calls, checks the models with TLC and proves the
safety properties for every value of the constants with TLAPS.

## 1. The system: components, state, operations

| Component | Source (below `src/src/`) | State | Operations |
|---|---|---|---|
| Packet pool | `utils/recycling.h`, `l1_transport/packet.*`, `Transport::take_packet` | intrusive free list (`m_first`, `m_next`), back pointer `m_pool` per packet, 16 packets per transport | `take`, `add`, `recycle` |
| Packet and buffers | `l1_transport/packet.*`, `buffer.*` | header buffer growing left, payload buffer growing right from a common border | `set_header_capacity`, `drop_header`, `grow`, `set_size` |
| Framing | `l1_transport/channel.cpp` (`determine_packet_size`), `tcp/tcp-channel.cpp` | receive packet `m_rx_packet` per channel, bytes in flight in the kernel | `send`/`do_send`, `receive_chunk`, `prepare_rx_packet` |
| Channel state | `channel.*`, `tcp-channel.cpp` | `m_state` in opening, open, closing, closed, closed_by_peer | `connect`, `close`, `closed`, `enter_state` |
| TCP transport and its thread | `transport.*`, `tcp/tcp-transport.*` | channel set `m_channels`, socket set `m_sockets`, UDP "pseudo queue" of channel pointers | constructor, `connect`, accept, poll loop, `shutdown`, `join`, destructor |
| Sockets | `l0_system/socket.*` | one descriptor and one callback per object, poll array | construction, moves, `accept`, `close`; `SocketSet::add/remove/poll` |
| Worker | `l0_system/worker.*` | thread state, termination flag, registry of workers | `startup`, `run`, `shutdown`, `join` |
| Timer | `utils/timer.*`, `utils/list.*` | list of timers, recursive mutex, condition variable, cancel flag | `start`, `reset`, `cancel`, `action`, `shutdown` |
| Active objects | `utils/active.*` | queue of deferred calls, mutex and condition variable | enqueue, `action`, `shutdown`, destructor |
| Intrusive list | `utils/list.*` | `m_first`, `m_last`, `m_count`, the links of every item | `push_front`, `push_back`, `remove`, `move_to_*` |
| Fire and forget | `utils/async.*` | static vector of futures | `fire_and_forget` |
| RPC | `l3_rpc/*` | item table, one result slot per remote endpoint, endpoint's own packet pool | `bind`, `register_item`, `call`, `receive_call`, `receive_result` |
| Codec | `l1_transport/reader.*`, `writer.*`, `l0_system/types.*` | byte cursor, type flags | `write`, `read` |
| Support | `utils/logger.*`, `colors.*`, `settings.*`, `url.*`, `l0_system/error.*`, `system.*`, `endianness.h` | none of interest | formatting, parsing |

How they interact. The application thread creates a `TcpTransport`, whose
`TcpThread` is a `Worker` that polls a set of sockets. `connect` hands a new
channel to that thread by sending its address over a local UDP socket; the
request to stop is a null address on the same socket. Received bytes go into a
packet of the transport's pool, and complete packets go to the receive handler
of the channel *on the worker thread*. Timers and active objects are workers
with a mutex and a condition variable instead of a poll loop. Remote procedure
calls loop back inside one process at this commit: nothing connects `l3_rpc` to
a channel yet.

What is hard:

* **Concurrency.** Two threads per transport share channels, states and the set
  of channels, mostly without locks; pools are used by any thread; `Timer::reset`
  is not synchronised with the thread that waits for the timer.
* **Ordering.** Streams are cut anywhere; hang-up and unread data are reported
  together; requests to stop must not overtake work that was handed over before.
* **Failure.** Exceptions leave callbacks in the middle of a pass and are
  swallowed by `Worker::run`; peers reset connections, also before they are
  accepted; `accept` fails; pools run out of packets.
* **Termination.** Every destructor joins a thread without a timeout.

What makes each component correct:

| Component | Correctness |
|---|---|
| Packet pool | the links are one acyclic list of exactly the free packets; a packet has one owner; what `take` hands out is empty; a request is refused only by an empty pool |
| Framing | what the handler sees is a prefix of what was sent, whole, in order; every byte that was read is used; senders and receivers make progress |
| Channel state | an end is put down to the right side; no data is read from a closed channel; a channel is closed when it is destroyed |
| TCP transport | callbacks run for the sockets the events belong to; no live connection is forgotten; the transport can be destroyed at any time, unless it is starved by exceptions, and closes everything |
| Timer | only timers in the list fire; a due timer fires and is put off first; the thread waits for the earliest timer; it can be stopped at any time |
| Active object | calls run in order, once, on a whole object; nothing put before the request to stop is lost; the destructor returns |
| Sockets | an open descriptor has one owner, is closed once and keeps its callback; nobody else's file is closed |
| Intrusive list | forward and backward links describe the same sequence, `m_count` its length |
| RPC | a caller gets the result of its own call, at any depth of nesting; packets return to the pool on every path |
| Items | a name denotes at most one item; no item is called after it was deleted |
| Codec | what is written is what is read, for every value of every type |
| Packet and buffers | header and payload stay inside the buffer and do not overlap |
| Fire and forget | a task that was started finishes; completed futures do not pile up; exit does not hang |

## 2. Plan: what exists and what is left

| Module | Stands for | Composition, abstract specification |
|---|---|---|
| `PacketPool` | free list | implements `PoolService`, an atomic set |
| `Framing` | one direction of a connection | alone; its receiver is abstracted to a few outcomes in `TcpTransport` |
| `TcpTransport` | application thread, worker, peers | composes Transport, Channel, TcpChannel, SocketSet and Worker |
| `LinkedList` | intrusive list | its links represent a sequence |
| `Timer` | timers and their thread | on the links of `LinkedList` |
| `ActiveObject` | queue and thread | implements `SerialCalls`, an ordered log of calls |
| `Packet` | header and payload windows | operators; used by `Codec` |
| `Codec` | writer, reader, the reader of the log | on a `Packet` that is looped back, framed or sent back |
| `Rpc` | endpoints, items, nested calls | implements `CallStack`, a stack of calls |
| `Socket` | descriptors of `sys::Socket` | with the kernel's table and other code that uses it |

Every module but the abstract ones has a configuration for TLC, alone or through a
module that uses it, and a module of proofs: that of `Codec` covers `Packet`, that of
`Timer` covers `LinkedList`.

Left, the most important first:

1. Two senders on one channel, and two channels whose handlers answer each other:
   both concern the lock and the timeout that `do_send` does not have.
2. A pseudo queue that loses datagrams, and a second application thread, in
   `TcpTransport`.
3. `async`: futures under a lock and the destruction of statics at exit.

The runs are one for each distinct question; the configurations that document
known deviations only are kept beside them (section 8).

## 3. Modules and the code

Every critical section of the code is one action, and so is every access to
shared state outside one: where the code reads something, lets go of it and uses
it later, the model has two steps. A module names its variables and actions after
the code, and its comments say what each stands for; `PROJECT.json` maps every
definition to lines.

* **`PacketPool`.** `m_first`, `m_next` and `m_pool` are the links, `owned[t]` the
  packets in `packet_ptr`s of thread `t`, `blank` what `recycle` resets, `pc` and
  `cur` the place inside a call. `Take` and `Add` are the two critical sections;
  `TakeReturn`/`TakeThrow` is `take_packet`, and recycling takes three steps
  (`RecycleReset`, `RecycleCheck`, which reads `m_pool` without the lock, and
  `Add`). `Move` hands a packet to another thread.
* **`PoolService`.** What callers rely on: an atomic set.
* **`Framing`.** A byte is its position in the stream. `ends`, `written`, `read`,
  `base` are positions; the receive packet holds `[base, read)`. `SendStart` is
  `prepare_to_send`, `SendSome`, `SendWouldBlock`, `SendReady`, `SendFail` one
  round each of the loop in `do_send`. One call of `receive_chunk` is one action:
  `ReceivePart`, `ReceiveExact`, `ReceiveExcess`, `ReceiveExcessThrows` by what
  `determine_packet_size` finds, `ReceiveEof` when `recv` returns 0. The history
  `lost` says that `ReceiveExcessThrows` has dropped bytes; from then on the size
  read is arbitrary (`FrameSizes`).
* **`TcpTransport`.** `upc` is the place of the application thread in the
  constructor, `connect`, `close` and the destructor; `wpc` that of the worker in
  `Worker::run`, `SocketSet::poll` and the callbacks. `sockset`/`revents`/`idx` are
  the vectors and the index of the downward loop of `poll`; callbacks append to
  them and remove from them (`Erase`) while the loop is under way. `ctrlq` is the
  pseudo queue. A receive is `ReceivePart`, `ReceiveExact`, `ReceiveExcess`,
  `ReceiveExcessThrows`, `HandlerThrows`, `OutOfPackets`, `ReceiveError` or `ReceiveEof`.
  An event of the listening socket is `HandleIncoming` and `AcceptInsert`, or
  `AcceptRefused` (`accept` throws, say for want of descriptors, and the connections go on
  waiting), or `AcceptAborted` (the peer has reset: `accept` throws, or the log line after it
  does, and the connection is gone without a channel). The application may call `close()`
  of a channel it knows again and again. `closed()`
  reads `m_state` in one step and writes the new state in another (`Closed`),
  because the application thread may call `close()` in between. `Throw` is an
  exception that reaches `run`; `BeginShutdown`, `CloseChannel`, `AllClosed` are
  `do_shutdown`.
* **`LinkedList`.** A list is a record of its members and of the pointers of every
  item; each operation assigns the pointers in the order of the code.
  `InOrder` follows `get_first` and `get_next`, `Represents` relates links and
  sequence.
* **`Timer`.** `m_timers` is such a list, `left[t]` the time until
  `m_trigger_time`, `timer` and `wleft` the locals of `action`. `Scan` reads one
  trigger time per step, as `get_next_timer` takes the lock of one timer at a time;
  `Arm` moves the timer to the back, reads the trigger time again and waits;
  `Check`, `FireReset`, `FireNotify` follow a timeout; a callback that throws leads back to
  `Worker::run`, with `m_cancel` as it was. `Tick` lets time pass. The
  history `raced` says that the timer chosen was reset while it was being chosen.
* **`ActiveObject`.** `log` is everything ever put, `taken` how much `get` has
  removed, `ran` what was run. `put` is `Enqueue` (or `Shutdown`,
  `DestructorShutdown`, `CallEnqueues`) and the notification after the mutex
  was released; `Get`, `Execute`, `CallEnds`, `Terminate` are the thread. The
  members of its base class `Worker` are `m_thread_state`, `m_thread` and `s_workers`, one
  write per step: `Startup`, `StartThread`, `AssignThread` are the constructor, which
  the thread overtakes, `AroundLoop` the steps of `run()` outside its loop,
  `Join` and `EnterJoined` the end.
* **`SerialCalls`.** The promise: the next call is run if nothing before it was a
  request to stop.
* **`Packet`.** A packet is one array of bytes and two windows of start, capacity and
  size. `AppendPayload` and `PrependHeader` are the two `grow()`s with what is written
  into the new room, `DropHeader` and `Accessible` the reader's side.
* **`Codec`.** A value is a type id and its bytes. `write_value` writes the type byte,
  with the number of bytes of a scalar in its upper half, and the bytes that the
  loop over them counts (`WireSize`: the least number to clear until nothing is left of the
  value); `read_value`, `read_ptr`, `read_cstr` and `read_typed_value` take
  one value off the bytes of a packet. A loop over a payload is `Offsets`, the sequence of
  places at which a parser finds values; `read_args` follows it with the reader's
  parser and `to_string` with `format_value`, the parser of the log, which is code of
  its own. Loops over arguments, as in `write_result` and `read_result`, are recursive
  functions of how many were handled. One behaviour is one call: `BeginCall`,
  `WriteArg`, `WriteSize`, then `Loopback` or `Frame`/`Transfer` (through a TCP
  channel, with its header) or `SendBack`, `ReadCall`, `Reply`, `ReadResult`. An
  exception of the code is the stage `failed` with its error. The history `sent` keeps
  what the caller passed, the number of elements written for each pointer and how often
  the call was framed: `Clean` says that it was framed once at most and that every
  array has one element, which is what the reader supports.
* **`Rpc`.** `stack` holds the calls under way; `free` is each endpoint's free list in its
  order, because which packet is taken next decides what is overwritten; `slot` is
  `m_received_result`, `content` the result a packet holds, also after it was
  recycled. `Call` is `call`, `send_packet` and `handle_call` up to the bound
  function, `Return` the reply and `handle_result`, `TakeResult` the rest of `call`.
  `Throw`, `Unwind`, `Catch` are exceptions, one frame per step. `held` is what functions
  keep of the strings that calls returned to them: pointers into packets that were recycled,
  with what they pointed to at first. `Read` is what is found there later, and `Written` and
  `Copied` what becomes of it while the next packet is written. A call that is received
  makes the strings that came through its endpoint `old` (a history): its reply takes the
  packet they lie in.
* **`CallStack`.** The promise: calls nest, and each ends with the answer of its own
  function or fails.
* **`Socket`.** `m_sockfd` and `m_receive_ready` are the members of each object, `table`
  what the kernel has given out. `Construct`, `Create`, `MoveConstruct`,
  `MoveAssign`, `Destroy`, `accept` are the members that own or release a descriptor;
  `ForeignOpen` and `ForeignClose` are other code in the process, which gets the
  numbers that were freed. `close` refuses a descriptor
  that is not open and may report an error of one that it does close (`CloseReports`): an
  assignment is then left half way, and a destructor ends the program (`aborted`).
* **`MC...`** give the constants values for TLC; **`...Proofs`** hold the theorems.

Definitions called `X_Y` are mutations of `X`: a plausible mistake in that piece of
code, with which the property named in `PROJECT.json` is violated.

## 4. Runs

| Run | Question | Properties | Result |
|---|---|---|---|
| `pool` | Do the links, the ownership and the reset of packets survive every interleaving of take, hand over and recycle? | `FreeListSound`, `OwnershipSound`, `ImplementsService` | yes |
| `framing` | Does the handler see what was sent, however the stream is cut, and do both sides progress? What is left when the pool runs out? | `Delivery`, `BufferSound`, `SenderUnblocked`, `FirstDelivered` | yes, until a packet for excess bytes is missing; no overrun and nothing twice even then |
| `framing_stuck` | Is every packet whose bytes were read delivered? | `EveryPacketDelivered` | no, section 7 |
| `tcp` | Is the poll loop right while sockets come and go, and are ends and shutdown handled soundly in every interleaving of application, worker and peers, exceptions included? | `WakeupsGenuine`, `ReceiveSound`, `LiveConnectionMonitored`, `BlameSound`, `ShutdownClosesAll` | yes |
| `tcp_live` | Can the transport always be destroyed, are ends noticed and connections accepted, in spite of exceptions? | `JoinReturns`, `EndNoticed`, `ConnectionAccepted` | yes, unless from some time on an exception cuts every pass short, or, for the destructor, racing insertions have lost a channel (section 8) |
| `tcp_destroy` | Are channels closed when they are destroyed? | `ClosedBeforeDestroyed` | no, section 7 |
| `timer` | Do the right timers fire, is no wake-up lost, does the thread wait for the earliest timer, can it be stopped? | `FiresSound`, `ListSound`, `NoLostWakeup`, `EarliestUnlessReset`, `ShutdownCompletes`, `DueFires` | yes; the earliest only unless a `reset` intervenes |
| `active` | Are calls run in order, once, on the object's own thread, up to the request to stop, and does the destructor return? | `WorkerSound`, `NoLostWakeup`, `AllRunBeforeStop`, `DestructorReturns`, `ImplementsSerialCalls` | yes, the liveness of `SerialCalls` included |
| `codec` | Is what was written what is read, in calls and results, and do the writer, the reader and the log agree? | `PacketSound`, `CallRoundTrip`, `ResultRoundTrip`, `ReaderAccepts`, `LoggingAgrees` | yes, but for a sign |
| `codec_float` | Does every number arrive as it was passed? | `NumbersArrive` | no, section 7 |
| `rpc` | Does every call get its own answer, however calls nest and fail, and does every packet come back? | `PacketsAccounted`, `SlotIsForInnermost`, `ArgumentsArrive`, `CalledAsBound`, `OutOfPacketsOnlyAtDepth`, `ImplementsCallStack` | yes, if arguments are evaluated from right to left, and for a string that a caller keeps until its endpoint receives the next call (section 8) |
| `socket` | Is a descriptor ever closed twice, leaked, or taken from other code? | `DescriptorsOwned`, `CallbackFollows`, `ForeignUntouched` | no |

A property with several parts is a conjunction of named ones, each with its comment
in the module: `OwnershipSound` of `ExclusiveOwner`, `FreshIsEmpty`,
`RecycleNeverThrows`; `Delivery` of `PrefixDelivery`, `Aligned`, `NoByteTwice`;
`BufferSound` of `RoomToReceive`, `NeverOverrun`; `ReceiveSound` of
`NoReceiveOnClosed`, `AcceptedHeard`; `FiresSound` of `FiresOnlyListed`,
`RearmedBeforeCallback`; `PacketSound` of `TypeOK`,
`WindowsSound`, `WireIsPacket`;
`DescriptorsOwned` of `OneOwner`, `NoneLeaked`, `NoneClosedTwice`.

Every module with variables states `TypeOK`, the abstract ones excepted. Where it is
proved no run repeats it, except that of `Codec`, where it is part of `PacketSound`.

`CHECK_DEADLOCK FALSE` is set where the system really stops: when the bounded
number of packets or calls is used up, the object is destroyed, or a destructor that
throws has ended the program.

## 5. Bounds, and why they are enough

* `pool`: 3 packets and 2 threads. A list of three has a head, an inner element
  and an end; two threads are enough to be inside `recycle` and `take` at once.
* `framing`: header of 2 bytes, payloads of 0 or 2, buffer of 4, kernel buffer of
  6, at most 4 packets (2 in `framing_stuck`). A header can be split, the largest
  packet just fits the buffer, two of the smallest fit it together, the kernel
  blocks the sender in the middle of a packet.
* `tcp`: one outgoing and one incoming connection, two packets in the pool, one
  chunk in flight per socket: a removal below an addition in one pass, an
  exception with other sockets still to be served, and excess data for which there
  is a second packet or none, all occur.
  `tcp_live`: the same connections with one packet, and only the incoming peer sends
  data (`Talkers`), for the sake of its size. Insertions race, the pool runs out before
  a first packet is taken and may stay empty, `accept` and handlers
  fail as often as they like, so each excuse of the three properties is taken in some
  behaviour and none in others.
* `timer`: one timer that is always due and one with interval 2; 3 calls of the
  application; a trigger time further back than 2 ticks (`MaxLag`) is not told
  apart. One thread may have a call between its change and its notification while
  the timer thread is anywhere.
* `active`: 2 threads, 4 items put by them and the owner (`MaxPuts`), and the
  destructor's request on top, so that there are calls on both sides of a
  request and two notifications under way.
* `codec`: a packet of 24 bytes, 8 of them for headers, so that names, strings and
  pointers fill it; at most 3 arguments, each of every kind and at the edges of its
  encoding (zero, one significant byte, all bytes, negative, a float of which only the
  sign is left, the empty string, two elements behind a pointer); array sizes
  1 and 2; up to 3 sends, because a third one starts from a packet whose
  header was dropped and written twice.
* `rpc`: two endpoints of two packets and calls three deep: one endpoint runs out
  while the other does not, and a call through one is inside a call through the
  other. The endpoints are interchangeable (`SYMMETRY`); strings are not, as `CallStack`
  compares them. A function keeps one string at a time (`MaxHeld`) beside those it is
  just being given, across any calls it makes. Signatures of one and of two strings, a name
  that is not valid, an argument of another type, an argument and a result that do not
  fit. `RightToLeft` is TRUE: C++
  leaves the order open in which `dynamic_call` takes its arguments from the list,
  and the code needs the order in which GCC and MSVC evaluate the arguments of a
  call; Clang goes from left to right. With FALSE TLC reports `ArgumentsArrive` at once.
* `socket`: three objects and three descriptors, interchangeable (`SYMMETRY`): a source,
  a target and a third object or foreign file that gets the number just freed.

The theorems of section 9 cover every number of each of these.

## 6. Fairness

* `Framing`: weak fairness of `Receive` and of `Send`. `poll` is level triggered and
  reports a readable socket again and again; `do_send` is a loop around a wait.
  Nobody has to send or close. The liveness properties end with `lost`: what comes
  after framing was lost is not promised.
* `TcpTransport`: weak fairness of the worker, and of the application thread inside a
  call. Peers need not do anything, and nothing is assumed about what succeeds: `accept`
  may be refused and handlers may throw for ever. The properties name what that costs
  instead. `Starved` says that the worker makes passes for ever and from some time on
  finishes none; any number of exceptions with a finished pass after each is no excuse.
  `Orphan` is a channel that `do_shutdown` waits for, whose peer stays, and that
  `m_channels` has lost.
* `Timer`: weak fairness of the timer thread, of calls that have begun and of time,
  and strong fairness of the timeout for each timer: a wait whose time has come
  is left with a timeout sooner or later even if some of its rounds end by a
  notification or for no reason.
* `ActiveObject`: weak fairness of its thread and of calls that have begun; a call
  that runs ends.
* `PacketPool`, `Codec`, `Rpc`, `Socket`: none; nothing in them waits.

No run assumes that mutexes are fair: a lock is a guard, and no property depends on
who gets it first.

## 7. Findings

Each is a counterexample TLC finds in a module that otherwise passes.

* **`framing_stuck`.** After a chunk with more than one packet only the first is
  delivered. The excess is not examined again until `poll` reports new bytes, so a
  complete packet waits for the next one, possibly for ever.
* **`tcp_destroy`.** `close_channels` calls `close()` on channels that have ended
  already; they go back to `closing` and stay there, and `~Channel` asserts that
  they are closed. A `shutdown()` that fails leaves the others unclosed as well.
* **`codec_float`.** `write_value` leaves out the bytes that are zero by comparing what
  is left of the value with zero, which minus zero is too. Of a negative float or
  double whose top byte holds the sign only, the last byte is not sent, and the
  number arrives positive.

## 8. Known deviations outside the list of runs

The modules state these too; the cfg file named reproduces the counterexample.

* `DiscardOnlyIncomplete` (`MCFramingDiscard.cfg`): the peer's shutdown discards
  a complete packet left over from a chunk, as if it were incomplete.
* `KeepsExcess` (`MCFramingPool.cfg`): when the pool has no packet for the excess
  bytes the exception drops them together with the complete packet: from then on
  the stream is parsed from the middle of a packet.
* `JoinReturnsIfAccepting` (`MCTcpStarved.cfg`): `receive_chunk` takes a
  packet before it learns that the peer has closed, and an ended channel keeps
  it. With the pool empty every pass ends in an exception before it reaches the
  control socket: `join` never returns. An `accept` that keeps failing (the property
  leaves this out) does the same, since the listening socket comes before the control
  socket in the pass, and so does a handler that throws at every packet of a stream
  that does not end.
* `NoConcurrentInsert` (`MCTcpInsert.cfg`): `connect` and the worker insert into
  `m_channels` at the same time. If that loses a channel, `close_channels` does not see it
  and `do_shutdown` waits for its socket until the peer goes: `join` does not return.
* `OwnThread` (`MCTcpOwnThread.cfg`): a connection is accepted before `startup` has
  assigned `m_thread`, so that `is_self()` is false on the worker
  (`worker.cpp:72`). The calls of an active object are not affected: nobody can
  enqueue one before the constructor has returned (`WorkerSound`).
* `NotResetBeforeFire` (`MCTimerReset.cfg`): a timer that is reset after the check
  fires at once.
* `WaitsForEarliest` (`MCTimerLate.cfg`): `action` reads the trigger time of the timer
  it chose a second time; after a `reset` in between it waits for the later time and
  another timer fires late. The run checks the weaker `EarliestUnlessReset`.
* `StringsStay` (`MCRpcKept.cfg`): a string that a call returned is a pointer into a packet
  that has been recycled. The reply of the next call that its endpoint receives takes
  just this packet: after `a = call f; b = call g` the string `a` is that of `b`, or is
  written over otherwise, and `a` as an argument or an answer passes that on. The
  properties of `rpc` promise strings until then only.
* `RunsOnWholeObject` (`MCActiveDestroyed.cfg`): the base class works off the queue
  after the derived class, whose members the calls use, has been destroyed.

Hazards that no module states: `send` on the pseudo queue, a UDP socket, may lose a
channel or the request to stop when its buffer is full (`tcp-transport.cpp:198`);
futures of `async` are destroyed with the statics while tasks may still add to them.

## 9. Proofs

The assumptions are those the modules state about their constants, nothing else.

* **`PacketPoolProofs`** (any finite set of packets, any set of threads). The
  invariant is the conjunction of the checked ones with `CallSound`, which says
  what a thread's place tells about the packet it works on; without it a
  recycling thread might add a packet that is already in the list. Taking removes
  the first element of the witness sequence, adding puts one in front (`PopSound`
  and `PushSound`); that the list has no more elements than there are packets
  comes from the library's facts about injections. `PoolImplementsService` maps
  every step to one of `PoolService` or to a stutter.
* **`FramingProofs`** (any sizes, any number of packets, also after the pool has run
  out). The invariant adds `FramesSound` (frames follow each other without a gap and
  each fits the buffer) and `Positions` (`base <= read <= written <= Total`). From
  them: the frame that starts at `base` is the one after the last delivered, so what
  `determine_packet_size` reads is its size, and a chunk either completes it or
  leaves room. What needs this alignment is claimed until `lost`; the bound of the
  buffer and that no byte is delivered twice hold for any size that is read.
* **`TcpTransportProofs`** (any finite set of connections, any pool, any data). The
  invariant has six parts beside `TypeOK`: `SetInv` (the socket set holds every
  socket once, and the worker's place in it), `Waiting` (events still to be handled
  are still true), `Phase` (the request to stop is the last datagram, and how
  far `do_shutdown` is), `Channels` (for each channel where it is in each of its
  states), `QueueInv` (no channel is in the pseudo queue twice) and `Hands` (what
  either thread knows of the channel it is working on). One lemma per action and part; the vectors are handled by
  lemmas about appending, erasing and replacing.
* **`TimerProofs`** (any timers, threads, intervals). Its first part is about lists of
  any length: each operation on links that represent a
  sequence gives links that represent the changed sequence; the sequence is the
  witness, the links are compared position by position. `SoundList` says that the links
  represent some sequence, and the theorems of the first part carry it through
  every operation. `Choice` says what the scan has established so far, `Firing`
  what is known of the timer waited for, `WithinInterval` and `AddsTimer` bound the
  trigger times and the targets of calls.
* **`ActiveObjectProofs`** (any threads, any bound on calls). `Progress` says that up to
  the first request to stop the i-th call run is the i-th item put, and `Ends`
  that the thread ends only after such a request, `Starts` how far the constructor
  and the thread can be apart, and `Members` what the members of `Worker` hold at each
  place of the two; `CallsOnOwnThread` follows from these. `NoLostWakeup` is inductive with
  them because the thread tests the queue and falls asleep under one lock.
  `CallsRunBeforeStop` and the refinement of the safety part of `SerialCalls`
  follow.
* **`RpcProofs`** (any endpoints, packets, names, depth). `OnlyInnermostReplied`: an answer is
  taken before anything else happens. `HeldIntact`: a string
  that a function keeps and that is not `old` lies, unchanged, in a packet that is free but
  not the next one to be taken, which is why recycling the reply first and the call's packet after it
  matters; `StringsStayForAWhile` states what this means for callers.
  `AnswerInSlot`, `PassedOn` and `Found` say the same of the result, the arguments and
  the item. `ArgumentsArrive` has `RightToLeft` as its hypothesis, because the code
  needs it. That a pool is empty only while as many calls are under way through its own endpoint
  (`OutOfPacketsAtDepth`) is counted with the library's facts
  about cardinalities and injections. `CallsAreAStack` maps each
  step to one of `CallStack` or to a stutter.
* **`SocketProofs`** (any objects and descriptors). The properties are inductive together: that no
  `close` is refused needs that what an object holds is open, which needs that no
  other object can close it. An assignment whose `close` reports an error keeps them too.

* **`CodecProofs`** (any sizes of packets and headers, any names, values, results and
  array sizes, any number of arguments and sends). `CodecAssumption` says that these are
  values of the types for which `TypeInfo` is specialised, that a pointer leads to one
  element at least, that a string holds no NUL, and that the length of a packet fits
  into the four bytes of its header. The proof has four layers:
  * *Packets.* A packet that is written is `Open`: its windows meet at the border and
    appending to the one or prepending to the other keeps it so. The length in the header
    is the payload's (`LengthFacts`, four divisions by 256), so `Frame` cuts what was
    sent where the sender ended (`TransferFacts`).
  * *Values.* For each kind of type, wherever its bytes lie in a payload
    (`Carries`), the reader returns what was written and stops behind it, and so does the
    log's parser (`ReadBack`). Of any bytes at all the reader makes a value or one of its
    errors (`ReadTyped`).
  * *Payloads.* A payload is pieces laid end to end from some offset to its end (`Laid`),
    and appending a piece keeps that (`LaidAppend`, `CallGrows`). The offsets a parser
    visits form a chain, and two chains from one start are the same (`OneChain`), which
    gives the argument list (`ArgsRead`, `CallRead`), the output parameters
    (`ResultRead`) and that the log sees the same values (`ParsersAgree`).
  * *Steps.* `CodecInv` adds to the checked properties that what is in `tx` is the call
    so far (`Writing`) or the answer that fits it (`Answering`), and that it is in `rx`
    when it arrives (`Handling`, `Answering`), as long as the sender is `Clean`. The
    round trips alone are not inductive: they speak of the end of a call and need to
    know what was in the packet before.

  What a recursive function computes is proved by induction on a *set*: the numbers up to
  which the claim holds are a set, and if some number were missing the library's
  `WFMin` would give the least one (`LeastNumber`, `Upwards`, `Downwards`). This needs no
  theorem with an operator for a parameter, which the provers cannot instantiate.

Only model-checked: all liveness and the liveness part of `SerialCalls` (the prover
supports neither fairness nor ENABLED). Every safety property of the passing runs is
proved; the properties of section 7 and 8 that do not hold are of course not.

## 10. Not modelled

Section 2 says what is left of the plan. Left out for good: address resolution, socket
options and the Windows variants (calls to the operating system), logging and
colours (text under one lock; the parser of packets for the log is modelled), URL
parsing, error and contract macros, the clock (sequential and without state), the
empty `Settings`, and byte order on a big-endian machine.

In the modelled parts:

* Pool: packets of a transport's pool that the application holds while others wait, and
  destruction of a pool while packets are out.
* Framing and transport: two threads that send on one channel, receive handlers that
  call `close()` or `send()` on the worker thread, a second application thread; a `poll`
  that fails (`EINTR`: the pass is not made, a shutdown ends early); a control datagram
  that `poll` reports and `recv` then does not deliver, which `handle_cmd` would take
  for the request to stop (`tcp-transport.cpp:179-182`) or leave by an exception; accept and
  state handlers that throw.
* Timer and active object: a callback that destroys its own timer, a call that destroys
  its own object.
* Sockets: errors of the other system calls beyond "nothing changes".
* RPC: threads that share a remote endpoint (one slot, no lock: nothing about results
  would hold), destruction of endpoints while calls are under way, and
  `unregister_item`, which nothing in the repository calls. Calls loop back inside
  the process at this commit; there is no RPC over a channel to model.
* Codec: packets that were not made by this writer.
* List: an item that moves between two lists.
