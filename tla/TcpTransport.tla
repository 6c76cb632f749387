---------------------------- MODULE TcpTransport ----------------------------
(***************************************************************************)
(* A TCP transport and its worker thread: TcpTransport and TcpThread       *)
(* (src/src/l1_transport/tcp/tcp-transport.cpp) with the parts of          *)
(* Transport, Channel, TcpChannel, SocketSet and Worker they drive.        *)
(*                                                                         *)
(* One application thread creates the transport, connects, closes channels *)
(* and destroys the transport.  The worker polls the socket set: entry 1   *)
(* is the control socket (the UDP "pseudo queue" by which the application  *)
(* thread hands over channels and, as nullptr, the request to stop), entry *)
(* 2 the listening socket, then one entry per channel.  It runs callbacks  *)
(* from the last entry down to the first; an exception in one of them      *)
(* skips the rest of the pass.  Peers connect, send, shut down and reset   *)
(* at any time.                                                            *)
(*                                                                         *)
(* Sizes of packets and chunks are abstracted (see Framing): a chunk of    *)
(* data leaves the receive packet partial, completes it exactly, or        *)
(* completes it with excess bytes.                                         *)
(***************************************************************************)
EXTENDS Naturals, Sequences, FiniteSets

CONSTANTS
    Outgoing,      \* channels the application may open with connect()
    Incoming,      \* channels peers may open
    CTRL, SERVER,  \* the two special sockets m_ctrl_in and m_serversock
    NULL,          \* nullptr, the shutdown sentinel
    PoolSize,      \* PACKET_POOL_SIZE
    Talkers,       \* channels whose peers send data (bound)
    MaxData        \* bound on the chunks waiting in one socket

Chan == Outgoing \cup Incoming

ASSUME TransportAssumption ==
    /\ Outgoing \cap Incoming = {}
    /\ Chan \cap {CTRL, SERVER, NULL} = {} /\ CTRL # SERVER
    /\ IsFiniteSet(Chan) /\ Talkers \subseteq Chan
    /\ PoolSize \in Nat /\ MaxData \in Nat

VARIABLES
    upc, ucur,   \* application thread: its place and the channel it works on
    registered,  \* m_channels
    handler,     \* channels with a receive handler
    cstate,      \* Channel::m_state
    rx,          \* m_rx_packet: "none", "empty" or "partial"
    ctrlq,       \* datagrams in m_ctrl_in
    sockset,     \* SocketSet::m_sockets
    revents,     \* SocketSet::m_pollfds[].revents
    idx,         \* entries idx, idx - 1, ... are still to be looked at
    wpc, wcur,   \* worker thread: its place and the channel it works on
    wnew,        \* the state computed by Channel::closed()
    stop,        \* m_termination_requested
    toClose,     \* channels close_channels() has still to visit
    disturbed,   \* the shutdown met an already ended channel or an exception
    backlog,     \* connections waiting in m_serversock
    data,        \* chunks waiting in a channel's socket
    peer,        \* the other end: "none", "up", "fin", "reset" or "gone"
    shut         \* our end was shut down

userVars == <<upc, ucur>>
channelVars == <<handler, cstate, rx>>
setVars == <<sockset, revents, idx>>
workerVars == <<wpc, wcur, wnew, stop, toClose, disturbed>>
kernelVars == <<backlog, data, peer, shut>>
vars == <<userVars, registered, channelVars, ctrlq, setVars, workerVars, kernelVars>>

-----------------------------------------------------------------------------
(* The sockets, as the kernel reports them. *)

Readable(s) ==
    CASE s = CTRL   -> ctrlq # <<>>
      [] s = SERVER -> backlog # {}
      [] OTHER      -> data[s] > 0 \/ peer[s] \in {"fin", "reset", "gone"} \/ shut[s]

\* Both directions of the connection are down.
HungUp(c) == peer[c] \in {"reset", "gone"} \/ (shut[c] /\ peer[c] = "fin")

\* Mutation of Events: the listening socket is polled without POLLIN.
Events_ServerIgnored(s) ==
    IF ~Readable(s) \/ s = SERVER THEN {"none"}
    ELSE IF s \in Chan /\ data[s] = 0 /\ HungUp(s) THEN {"in", "hup"}
    ELSE {"in"}

\* What poll() may report.  A hang-up is reported together with POLLIN by Linux
\* and alone by other systems.
Events(s) ==
    IF ~Readable(s) THEN {"none"}
    ELSE IF s \in Chan /\ data[s] = 0 /\ HungUp(s) THEN {"in", "hup"}
    ELSE {"in"}

\* shutdown() fails with ENOTCONN on a connection that is down; on one that is
\* shut from both sides that depends on the last acknowledgement.
MayShutDown(c) == peer[c] \notin {"reset", "gone"}
MayNotShutDown(c) == HungUp(c)

Taken == {c \in Chan : rx[c] # "none"}
Free == PoolSize - Cardinality(Taken)   \* packets left in m_packet_pool

\* s without its k-th element (std::vector::erase).
Erase(s, k) == [j \in 1..(Len(s) - 1) |-> IF j < k THEN s[j] ELSE s[j + 1]]

\* Where x is in s, and s without x (SocketSet::remove).
Place(s, x) == CHOOSE j \in 1..Len(s) : s[j] = x
Without(s, x) == Erase(s, Place(s, x))

InSet(c) == \E j \in 1..Len(sockset) : sockset[j] = c

Queued(c) == \E j \in 1..Len(ctrlq) : ctrlq[j] = c

\* do_shutdown() has removed the special sockets.
Draining == ~InSet(CTRL)

Ended == {"closed", "closed_by_peer"}

-----------------------------------------------------------------------------
Init ==
    /\ upc = "new" /\ ucur = NULL
    /\ registered = {} /\ handler = {}
    /\ cstate = [c \in Chan |-> "none"]
    /\ rx = [c \in Chan |-> "none"]
    /\ ctrlq = <<>>
    /\ sockset = <<CTRL, SERVER>> /\ revents = <<"none", "none">> /\ idx = 0
    /\ wpc = "new" /\ wcur = NULL /\ wnew = "none"
    /\ stop = FALSE /\ toClose = {} /\ disturbed = FALSE
    /\ backlog = {}
    /\ data = [c \in Chan |-> 0]
    /\ peer = [c \in Chan |-> "none"]
    /\ shut = [c \in Chan |-> FALSE]

-----------------------------------------------------------------------------
(* The application thread. *)

\* Worker::startup constructs the std::thread, which runs at once ...
StartThread ==
    /\ upc = "new" /\ wpc = "new"
    /\ upc' = "started" /\ wpc' = "poll"
    /\ UNCHANGED <<ucur, registered, channelVars, ctrlq, setVars, wcur, wnew,
                   stop, toClose, disturbed, kernelVars>>

\* ... and then moves it into m_thread, which is_self() reads.
AssignThread ==
    /\ upc = "started"
    /\ upc' = "idle"
    /\ UNCHANGED <<ucur, registered, channelVars, ctrlq, setVars, workerVars, kernelVars>>

\* TcpTransport::connect: the blocking connect of the socket succeeds ...
Connect(c) ==
    /\ upc = "idle" /\ cstate[c] = "none"
    /\ upc' = "insert" /\ ucur' = c
    /\ cstate' = [cstate EXCEPT ![c] = "open"]
    /\ peer' = [peer EXCEPT ![c] = "up"]
    /\ UNCHANGED <<registered, handler, rx, ctrlq, setVars, workerVars, backlog, data, shut>>

\* ... or throws: the channel stays "opening" and nobody owns it.
ConnectFails(c) ==
    /\ upc = "idle" /\ cstate[c] = "none"
    /\ cstate' = [cstate EXCEPT ![c] = "opening"]
    /\ UNCHANGED <<userVars, registered, handler, rx, ctrlq, setVars, workerVars, kernelVars>>

\* Transport::add_channel.  m_channels has no lock: when the worker inserts at
\* the same time, one of the two insertions may be lost.
Insert(c, other) == \/ registered' = registered \cup {c}
                    \/ other /\ registered' = registered

ConnectInsert ==
    /\ upc = "insert"
    /\ Insert(ucur, wpc = "insert")
    /\ upc' = "enqueue"
    /\ UNCHANGED <<ucur, channelVars, ctrlq, setVars, workerVars, kernelVars>>

\* TcpThread::add_channel sends the channel's address to the worker.
ConnectEnqueue ==
    /\ upc = "enqueue"
    /\ ctrlq' = Append(ctrlq, ucur)
    /\ upc' = "idle" /\ ucur' = NULL
    /\ UNCHANGED <<registered, channelVars, setVars, workerVars, kernelVars>>

\* The application has a pointer to c: connect() returned it, or the accept
\* handler was called with it.
Known(c) == IF c \in Outgoing THEN cstate[c] \notin {"none", "opening"} ELSE c \in handler

\* Channel::on_receive, after connect() has returned the channel.
SetHandler(c) ==
    /\ upc = "idle" /\ Known(c)
    /\ handler' = handler \cup {c}
    /\ UNCHANGED <<userVars, registered, cstate, rx, ctrlq, setVars, workerVars, kernelVars>>

\* Mutation of Close: the state is not entered before the socket is shut down.
Close_StateNotEntered(c) ==
    /\ upc = "idle" /\ Known(c)
    /\ upc' = "close" /\ ucur' = c
    /\ UNCHANGED <<registered, channelVars, ctrlq, setVars, workerVars, kernelVars>>

\* TcpChannel::close enters `closing' ...  An application that knows the channel
\* may call it at any time, of a channel that has ended as well.
Close(c) ==
    /\ upc = "idle" /\ Known(c)
    /\ upc' = "close" /\ ucur' = c
    /\ cstate' = [cstate EXCEPT ![c] = "closing"]
    /\ UNCHANGED <<registered, handler, rx, ctrlq, setVars, workerVars, kernelVars>>

\* ... and shuts the socket down, which may throw.
CloseShutdown ==
    /\ upc = "close"
    /\ \/ MayShutDown(ucur) /\ shut' = [shut EXCEPT ![ucur] = TRUE]
       \/ MayNotShutDown(ucur) /\ shut' = shut
    /\ upc' = "idle" /\ ucur' = NULL
    /\ UNCHANGED <<registered, channelVars, ctrlq, setVars, workerVars, backlog, data, peer>>

\* Mutation of Shutdown: the termination flag is set as Worker::shutdown does.
Shutdown_SetsFlag ==
    /\ upc = "idle"
    /\ stop' = TRUE
    /\ ctrlq' = Append(ctrlq, NULL)
    /\ upc' = "join"
    /\ UNCHANGED <<ucur, registered, channelVars, setVars, wpc, wcur, wnew,
                   toClose, disturbed, kernelVars>>

\* ~TcpTransport: TcpThread::shutdown queues the sentinel ...
Shutdown ==
    /\ upc = "idle"
    /\ ctrlq' = Append(ctrlq, NULL)
    /\ upc' = "join"
    /\ UNCHANGED <<ucur, registered, channelVars, setVars, workerVars, kernelVars>>

\* ... and Worker::join waits for the thread; ~Transport then deletes every
\* channel of m_channels, which must be closed by then.
Join ==
    /\ upc = "join" /\ wpc = "terminated"
    /\ upc' = "joined"
    /\ UNCHANGED <<ucur, registered, channelVars, ctrlq, setVars, workerVars, kernelVars>>

-----------------------------------------------------------------------------
(* The worker thread: Worker::run calls action(), one poll and one pass over
   the set, until the termination flag is set, then do_shutdown().          *)

\* Where run() goes on when action() or, in do_shutdown(), a pass is over.
AfterPass ==
    /\ idx' = 0
    /\ wpc' = IF Draining THEN (IF sockset = <<>> THEN "terminated" ELSE "poll")
              ELSE IF stop THEN "shutdown" ELSE "poll"

\* An exception leaves the pass; run() catches it.  In do_shutdown() it ends
\* the thread.
Throw ==
    /\ idx' = 0
    /\ wpc' = IF Draining THEN "terminated" ELSE IF stop THEN "shutdown" ELSE "poll"
    /\ disturbed' = (disturbed \/ Draining)
    /\ revents' = [j \in 1..Len(sockset) |-> "none"]

\* SocketSet::poll blocks until a socket has an event.
Poll ==
    /\ wpc = "poll"
    /\ revents' \in [1..Len(sockset) -> {"none", "in", "hup"}]
    /\ \A j \in 1..Len(sockset) : revents'[j] \in Events(sockset[j])
    /\ \E j \in 1..Len(sockset) : revents'[j] # "none"
    /\ idx' = Len(sockset)
    /\ wpc' = "pass"
    /\ UNCHANGED <<userVars, registered, channelVars, ctrlq, sockset, wcur, wnew,
                   stop, toClose, disturbed, kernelVars>>

\* The downward loop has come to socket s, for which poll() reported event e.
At(s, e) ==
    /\ wpc = "pass"
    /\ \E j \in 1..idx : /\ sockset[j] = s /\ revents[j] = e
                         /\ \A k \in (j + 1)..idx : revents[k] = "none"
Index(s) == Place(sockset, s)

\* The loop goes on below the entry of s.
Proceed(s) == idx' = Index(s) - 1 /\ wpc' = "pass"

\* All the sockets of the pass have been looked at.
NothingLeft == wpc = "pass" /\ \A j \in 1..idx : revents[j] = "none"

PassEnd ==
    /\ NothingLeft
    /\ revents' = [j \in 1..Len(sockset) |-> "none"]
    /\ AfterPass
    /\ UNCHANGED <<userVars, registered, channelVars, ctrlq, sockset, wcur, wnew,
                   stop, toClose, disturbed, kernelVars>>

\* SocketSet::add appends; the new entry has not been polled.
AddSocket(c) == /\ sockset' = Append(sockset, c)
                /\ revents' = Append(revents, "none")

\* handle_cmd: one datagram per event, a channel to listen on or the sentinel.
HandleCmd ==
    /\ At(CTRL, "in")
    /\ ctrlq' = Tail(ctrlq)
    /\ IF Head(ctrlq) = NULL
       THEN stop' = TRUE /\ UNCHANGED <<sockset, revents>>
       ELSE AddSocket(Head(ctrlq)) /\ stop' = stop
    /\ Proceed(CTRL)
    /\ UNCHANGED <<userVars, registered, channelVars, wcur, wnew, toClose, disturbed, kernelVars>>

\* handle_incoming_connection: accept, construct the channel, listen on it ...
HandleIncoming(c) ==
    /\ At(SERVER, "in") /\ c \in backlog
    /\ backlog' = backlog \ {c}
    /\ cstate' = [cstate EXCEPT ![c] = "open"]
    /\ AddSocket(c)
    /\ idx' = Index(SERVER) - 1 /\ wpc' = "insert" /\ wcur' = c
    /\ UNCHANGED <<userVars, registered, handler, rx, ctrlq, wnew, stop, toClose,
                   disturbed, data, peer, shut>>

\* ... unless accept() throws: descriptors have run out, say, and the connections
\* stay where they are ...
AcceptRefused ==
    /\ At(SERVER, "in")
    /\ Throw
    /\ UNCHANGED <<userVars, registered, channelVars, ctrlq, sockset, wcur, wnew,
                   stop, toClose, kernelVars>>

\* ... or the peer has reset the connection: accept() fails with ECONNABORTED, or it
\* succeeds and the log asks the new socket for its peer, which throws and destroys
\* the socket.  (An accepted socket without a log line becomes a channel.)
AcceptAborted(c) ==
    /\ At(SERVER, "in") /\ c \in backlog /\ peer[c] = "reset"
    /\ backlog' = backlog \ {c}
    /\ Throw
    /\ UNCHANGED <<userVars, registered, channelVars, ctrlq, sockset, wcur, wnew,
                   stop, toClose, data, peer, shut>>

\* Mutation of AcceptInsert: the accept handler is not called.
AcceptInsert_HandlerNotCalled ==
    /\ wpc = "insert"
    /\ Insert(wcur, upc = "insert")
    /\ wpc' = "pass" /\ wcur' = NULL
    /\ UNCHANGED <<userVars, channelVars, ctrlq, setVars, wnew, stop, toClose,
                   disturbed, kernelVars>>

\* ... then Transport::accept: insert into m_channels and call the accept
\* handler, which sets the receive handler.
AcceptInsert ==
    /\ wpc = "insert"
    /\ Insert(wcur, upc = "insert")
    /\ handler' = handler \cup {wcur}
    /\ wpc' = "pass" /\ wcur' = NULL
    /\ UNCHANGED <<userVars, cstate, rx, ctrlq, setVars, wnew, stop, toClose,
                   disturbed, kernelVars>>

-----------------------------------------------------------------------------
(* TcpChannel::receive_chunk, by what recv() and the pool return. *)

\* Frames the part of receive_chunk that leaves everything but the receive
\* packet and the socket's data alone.
Consume(c) == /\ data[c] > 0
              /\ data' = [data EXCEPT ![c] = @ - 1]
              /\ UNCHANGED <<userVars, registered, handler, cstate, ctrlq, sockset,
                             wcur, wnew, stop, toClose, backlog, peer, shut>>

\* prepare_rx_packet finds a packet.
HasPacket(c) == rx[c] # "none" \/ Free > 0

\* The header or the payload is still incomplete.
ReceivePart(c) ==
    /\ At(c, "in") /\ HasPacket(c)
    /\ Consume(c)
    /\ rx' = [rx EXCEPT ![c] = "partial"]
    /\ Proceed(c)
    /\ UNCHANGED <<revents, disturbed>>

\* Exactly one packet; the handler gets it and it returns to the pool.
ReceiveExact(c) ==
    /\ At(c, "in") /\ HasPacket(c)
    /\ Consume(c)
    /\ rx' = [rx EXCEPT ![c] = "none"]
    /\ Proceed(c)
    /\ UNCHANGED <<revents, disturbed>>

\* One packet and more: the excess needs a second packet of the pool.
FreeForExcess(c) == IF rx[c] = "none" THEN Free > 1 ELSE Free > 0

ReceiveExcess(c) ==
    /\ At(c, "in") /\ HasPacket(c) /\ FreeForExcess(c)
    /\ Consume(c)
    /\ rx' = [rx EXCEPT ![c] = "partial"]
    /\ Proceed(c)
    /\ UNCHANGED <<revents, disturbed>>

\* No second packet: take_packet throws, the received bytes are dropped.
ReceiveExcessThrows(c) ==
    /\ At(c, "in") /\ HasPacket(c) /\ ~FreeForExcess(c)
    /\ Consume(c)
    /\ rx' = [rx EXCEPT ![c] = "none"]
    /\ Throw

\* The receive handler throws; it runs last, when the excess has been kept.
HandlerThrows(c) ==
    /\ At(c, "in") /\ HasPacket(c) /\ c \in handler
    /\ Consume(c)
    /\ \/ rx' = [rx EXCEPT ![c] = "none"]
       \/ FreeForExcess(c) /\ rx' = [rx EXCEPT ![c] = "partial"]
    /\ Throw

\* No packet at all: take_packet throws before recv().
OutOfPackets(c) ==
    /\ At(c, "in") /\ ~HasPacket(c)
    /\ Throw
    /\ UNCHANGED <<userVars, registered, channelVars, ctrlq, sockset, wcur, wnew,
                   stop, toClose, kernelVars>>

\* recv() reports the reset: Socket::recv throws.  An empty packet stays.
ReceiveError(c) ==
    /\ At(c, "in") /\ HasPacket(c)
    /\ data[c] = 0 /\ peer[c] = "reset"
    /\ peer' = [peer EXCEPT ![c] = "gone"]
    /\ rx' = [rx EXCEPT ![c] = IF @ = "none" THEN "empty" ELSE @]
    /\ Throw
    /\ UNCHANGED <<userVars, registered, handler, cstate, ctrlq, sockset, wcur, wnew,
                   stop, toClose, backlog, data, shut>>

\* Channel::closed reads m_state to tell who closed the channel ...
BeginClosed(c) == /\ wnew' = IF cstate[c] = "closing" THEN "closed" ELSE "closed_by_peer"
                  /\ wcur' = c
                  /\ wpc' = "closed"

\* recv() returns 0: an incomplete packet is dropped, an empty one stays.
ReceiveEof(c) ==
    /\ At(c, "in") /\ HasPacket(c)
    /\ data[c] = 0 /\ (shut[c] \/ peer[c] \in {"fin", "gone"}) /\ peer[c] # "reset"
    /\ rx' = [rx EXCEPT ![c] = IF @ = "partial" THEN "none" ELSE "empty"]
    /\ BeginClosed(c)
    /\ idx' = Index(c) - 1
    /\ UNCHANGED <<userVars, registered, handler, cstate, ctrlq, sockset, revents,
                   stop, toClose, disturbed, kernelVars>>

\* Mutation of Disconnected: POLLHUP is tested before POLLIN.
Disconnected_BeforeData(c) ==
    /\ At(c, "hup") \/ (At(c, "in") /\ HungUp(c))
    /\ BeginClosed(c)
    /\ idx' = Index(c) - 1
    /\ UNCHANGED <<userVars, registered, channelVars, ctrlq, sockset, revents,
                   stop, toClose, disturbed, kernelVars>>

\* POLLHUP without POLLIN: Socket::disconnected calls closed() directly.
Disconnected(c) ==
    /\ At(c, "hup")
    /\ BeginClosed(c)
    /\ idx' = Index(c) - 1
    /\ UNCHANGED <<userVars, registered, channelVars, ctrlq, sockset, revents,
                   stop, toClose, disturbed, kernelVars>>

\* Mutations of RemoveSocket: m_pollfds keeps the entry of the removed socket;
\* the socket is not removed at all.
RemoveSocket_PollfdsKept(c) ==
    /\ sockset' = Without(sockset, c)
    /\ revents' = revents

RemoveSocket_Forgotten(c) == UNCHANGED <<sockset, revents>>

RemoveSocket(c) ==
    /\ sockset' = Without(sockset, c)
    /\ revents' = Erase(revents, Index(c))

\* ... enters that state, and TcpTransport::closed stops listening.
Closed ==
    /\ wpc = "closed"
    /\ cstate' = [cstate EXCEPT ![wcur] = wnew]
    /\ RemoveSocket(wcur)
    /\ wpc' = "pass" /\ wcur' = NULL /\ wnew' = "none"
    /\ UNCHANGED <<userVars, registered, handler, rx, ctrlq, idx, stop, toClose,
                   disturbed, kernelVars>>

-----------------------------------------------------------------------------
(* TcpThread::do_shutdown. *)

BeginShutdown ==
    /\ wpc = "shutdown"
    /\ sockset' = Without(Without(sockset, CTRL), SERVER)
    /\ revents' = [j \in 1..Len(sockset') |-> "none"]
    /\ toClose' = registered
    /\ wpc' = "closeall"
    /\ UNCHANGED <<userVars, registered, channelVars, ctrlq, idx, wcur, wnew, stop,
                   disturbed, kernelVars>>

\* Mutation of CloseChannel: the state is entered, the socket stays up.
CloseChannel_SocketStaysUp(c) ==
    /\ wpc = "closeall" /\ c \in toClose
    /\ cstate' = [cstate EXCEPT ![c] = "closing"]
    /\ toClose' = toClose \ {c}
    /\ disturbed' = (disturbed \/ ~(InSet(c) \/ Queued(c)))
    /\ UNCHANGED <<userVars, registered, handler, rx, ctrlq, setVars, wpc, wcur, wnew,
                   stop, kernelVars>>

\* close_channels calls close() on every channel of m_channels, on those that
\* have ended as well.
CloseChannel(c) ==
    /\ wpc = "closeall" /\ c \in toClose
    /\ cstate' = [cstate EXCEPT ![c] = "closing"]
    /\ \/ /\ MayShutDown(c)
          /\ shut' = [shut EXCEPT ![c] = TRUE]
          /\ toClose' = toClose \ {c}
          /\ disturbed' = (disturbed \/ ~(InSet(c) \/ Queued(c)))
          /\ wpc' = wpc
       \/ \* close() throws out of do_shutdown
          /\ MayNotShutDown(c)
          /\ disturbed' = TRUE
          /\ toClose' = {}
          /\ wpc' = "terminated"
          /\ shut' = shut
    /\ UNCHANGED <<userVars, registered, handler, rx, ctrlq, setVars, wcur, wnew, stop,
                   backlog, data, peer>>

\* The loop "wait for sockets to properly disconnect" begins.
AllClosed ==
    /\ wpc = "closeall" /\ toClose = {}
    /\ wpc' = IF sockset = <<>> THEN "terminated" ELSE "poll"
    /\ UNCHANGED <<userVars, registered, channelVars, ctrlq, setVars, wcur, wnew, stop,
                   toClose, disturbed, kernelVars>>

-----------------------------------------------------------------------------
(* The peers. *)

PeerConnects(c) ==
    /\ peer[c] = "none" /\ ~Draining
    /\ peer' = [peer EXCEPT ![c] = "up"]
    /\ backlog' = backlog \cup {c}
    /\ UNCHANGED <<userVars, registered, channelVars, ctrlq, setVars, workerVars, data, shut>>

PeerSends(c) ==
    /\ c \in Talkers /\ peer[c] = "up" /\ ~shut[c] /\ data[c] < MaxData
    /\ data' = [data EXCEPT ![c] = @ + 1]
    /\ UNCHANGED <<userVars, registered, channelVars, ctrlq, setVars, workerVars,
                   backlog, peer, shut>>

PeerEnds(c, how) ==
    /\ peer[c] = "up"
    /\ peer' = [peer EXCEPT ![c] = how]
    /\ UNCHANGED <<userVars, registered, channelVars, ctrlq, setVars, workerVars,
                   backlog, data, shut>>

-----------------------------------------------------------------------------
Startup == StartThread \/ AssignThread

Connecting == ConnectInsert \/ ConnectEnqueue

Application ==
    \/ Startup \/ Connecting
    \/ \E c \in Outgoing : Connect(c) \/ ConnectFails(c) \/ SetHandler(c)
    \/ \E c \in Chan : Close(c)
    \/ CloseShutdown \/ Shutdown \/ Join

ReceiveChunk(c) ==
    \/ ReceivePart(c) \/ ReceiveExact(c) \/ ReceiveExcess(c) \/ ReceiveExcessThrows(c)
    \/ HandlerThrows(c) \/ OutOfPackets(c) \/ ReceiveError(c) \/ ReceiveEof(c)

Worker ==
    \/ Poll \/ PassEnd \/ HandleCmd \/ AcceptInsert \/ AcceptRefused
    \/ \E c \in Incoming : HandleIncoming(c) \/ AcceptAborted(c)
    \/ \E c \in Chan : ReceiveChunk(c) \/ Disconnected(c) \/ CloseChannel(c)
    \/ Closed \/ BeginShutdown \/ AllClosed

Peers ==
    \/ \E c \in Incoming : PeerConnects(c)
    \/ \E c \in Chan : PeerSends(c) \/ PeerEnds(c, "fin") \/ PeerEnds(c, "reset")

Next == Application \/ Worker \/ Peers

Spec == Init /\ [][Next]_vars

\* The scheduler runs the worker whenever it can run, and the application thread
\* once it is inside a call; nobody has to connect, close or shut down.
FairSpec == /\ Spec
            /\ WF_vars(Worker)
            /\ WF_vars(Startup \/ Connecting \/ CloseShutdown \/ Join)

-----------------------------------------------------------------------------
Datagram == Chan \cup {NULL}

TypeOK ==
    /\ upc \in {"new", "started", "idle", "insert", "enqueue", "close", "join", "joined"}
    /\ ucur \in Chan \cup {NULL} /\ wcur \in Chan \cup {NULL}
    /\ registered \subseteq Chan /\ handler \subseteq Chan /\ toClose \subseteq Chan
    /\ cstate \in [Chan -> {"none", "opening", "open", "closing", "closed", "closed_by_peer"}]
    /\ rx \in [Chan -> {"none", "empty", "partial"}]
    /\ ctrlq \in Seq(Datagram)
    /\ sockset \in Seq(Chan \cup {CTRL, SERVER})
    /\ revents \in Seq({"none", "in", "hup"})
    /\ idx \in 0..Len(sockset)
    /\ wpc \in {"new", "poll", "pass", "insert", "closed", "shutdown", "closeall", "terminated"}
    /\ wnew \in {"none", "closed", "closed_by_peer"}
    /\ stop \in BOOLEAN /\ disturbed \in BOOLEAN
    /\ backlog \subseteq Incoming
    /\ data \in [Chan -> 0..MaxData]
    /\ peer \in [Chan -> {"none", "up", "fin", "reset", "gone"}]
    /\ shut \in [Chan -> BOOLEAN]

\* SocketSet::poll, "iterate downwards, to allow callbacks removing the socket":
\* callbacks add and remove sockets during a pass, yet every event still to be
\* handled belongs to the socket poll() reported it for, so that no callback
\* runs for a socket that has nothing to say.
WakeupsGenuine ==
    /\ Len(revents) = Len(sockset)
    /\ \A j \in 1..idx :
          wpc \in {"pass", "insert", "closed"} /\ revents[j] # "none"
              => revents[j] \in Events(sockset[j]) \cup {"in"} /\ Readable(sockset[j])

\* receive_chunk's precondition "channel must not receive data while closed", in
\* spite of close() on the application thread.
NoReceiveOnClosed ==
    \A c \in Chan : At(c, "in") => cstate[c] \notin Ended

\* A connection on which the peer can still be heard is looked after: its socket
\* is in the set, or on its way there.
LiveConnectionMonitored ==
    \A c \in Chan :
        /\ cstate[c] \notin {"none", "opening"}
        /\ data[c] > 0 \/ (peer[c] = "up" /\ ~shut[c])
        => InSet(c) \/ Queued(c) \/ ucur = c

\* "an unsolicited close means that the peer closed the channel": an end caused
\* by our own close() is never put down to the peer, whichever thread is faster.
BlameSound ==
    \A c \in Chan : cstate[c] = "closed_by_peer" => peer[c] # "up"

\* An accepted channel has its receive handler before its first data is read:
\* do_add_channel comes before the accept handler, but in the same callback.
AcceptedHeard ==
    \A c \in Incoming : At(c, "in") => c \in handler

\* When the worker reads data, neither close() on another thread nor the order of
\* accepting has left the channel without a state or a handler to receive with.
ReceiveSound == NoReceiveOnClosed /\ AcceptedHeard

\* The sentinel queues behind the channels handed over, so that none is missed:
\* after an undisturbed shutdown every channel of the transport is closed.
ShutdownClosesAll ==
    upc = "joined" /\ ~disturbed => \A c \in registered : cstate[c] \in Ended

\* The worker makes passes for ever, but from some time on none is finished: every
\* one is cut short by an exception, and the sockets below the one that throws, the
\* control socket last of all, are not looked at any more.
Starved == []<>(wpc = "pass") /\ <>[]~NothingLeft

\* A channel do_shutdown waits for and nobody closes: the two threads inserted at the
\* same time, m_channels has lost it, and its peer stays.
Orphan(c) == Draining /\ InSet(c) /\ c \notin registered /\ peer[c] = "up" /\ ~shut[c]

\* ~TcpTransport returns from join(), however many exceptions there were, unless
\* every pass ends in one or it waits for a channel m_channels has lost.
JoinReturns ==
    Starved \/ (upc = "join" ~> upc = "joined" \/ \E c \in Chan : Orphan(c))

\* The end of a connection in the set is noticed, unless the worker is starved.
EndNoticed ==
    \A c \in Chan :
        Starved \/ (InSet(c) /\ peer[c] \in {"fin", "reset"}
                       ~> ~InSet(c) \/ wpc = "terminated")

\* A waiting connection becomes a channel, unless the worker is starved, the peer has
\* reset the connection or the transport shuts down.
ConnectionAccepted ==
    \A c \in Incoming :
        Starved \/ (c \in backlog ~> InSet(c) \/ peer[c] = "reset" \/ Draining)

-----------------------------------------------------------------------------
(* Claims of the sources that the code does not keep. *)

\* ~Channel, "channel must be closed before destroying": ~Transport deletes every
\* channel of m_channels after join().
ClosedBeforeDestroyed ==
    upc = "joined" => \A c \in registered : cstate[c] \in Ended

\* worker.h, join "waits for termination of the worker thread": it returns, unless the
\* operating system refuses accept() for ever.
JoinReturnsIfAccepting ==
    []<><<AcceptRefused>>_vars \/ (upc = "join" ~> upc = "joined")

\* tcp-transport.h, the thread is separate "in order to avoid concurrent access to
\* member variables": the two threads never insert into m_channels together.
NoConcurrentInsert == ~(upc = "insert" /\ wpc = "insert")

\* do_add_channel and remove_channel, "must be called from own thread": is_self()
\* holds on the worker thread once m_thread has been assigned.
OwnThread ==
    [][\A c \in Chan : HandleIncoming(c) => upc # "started"]_vars
=============================================================================
