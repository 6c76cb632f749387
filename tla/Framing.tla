------------------------------- MODULE Framing -------------------------------
(***************************************************************************)
(* Message framing on one direction of a TCP connection:                   *)
(* TcpChannel::prepare_to_send, do_send and receive_chunk                  *)
(* (src/src/l1_transport/tcp/tcp-channel.cpp) with                         *)
(* Channel::determine_packet_size (channel.cpp).                           *)
(*                                                                         *)
(* Bytes are positions in the stream: the i-th packet handed to send()     *)
(* occupies [FrameStart(i), ends[i]), a header of HeaderSize bytes that    *)
(* holds the payload size, then the payload.  The kernel carries the bytes *)
(* from `read' to `written', at most SockBuf of them, and splits or merges *)
(* packets as it likes.  The receive packet m_rx_packet holds the bytes    *)
(* from `base' to `read'.                                                  *)
(***************************************************************************)
EXTENDS Naturals, Sequences

CONSTANTS
    HeaderSize,     \* sizeof(uint32_t), the framing header
    BufSize,        \* REMO_MAX_PACKET_SIZE, capacity of m_rx_packet
    Payloads,       \* payload sizes the senders use
    SockBuf,        \* bytes the kernel buffers between the two sockets
    MaxPackets      \* bound on the packets sent in a run

ASSUME FramingAssumption ==
    /\ HeaderSize \in Nat \ {0}
    /\ BufSize \in Nat /\ HeaderSize <= BufSize
    /\ SockBuf \in Nat \ {0}
    /\ Payloads \subseteq Nat
    /\ \A n \in Payloads : HeaderSize + n <= BufSize
    /\ MaxPackets \in Nat

VARIABLES
    ends,       \* ends[i]: stream position behind the i-th packet sent
    written,    \* bytes the sender's socket has accepted
    spc,        \* sender: "idle", "sending", "waiting" for POLLOUT, "broken"
    sendShut,   \* the sending side has shut its socket down
    recvShut,   \* the receiving side has shut its socket down
    read,       \* bytes recv() has returned
    base,       \* stream position of the first byte of m_rx_packet
    hasRx,      \* m_rx_packet holds a packet of the pool
    rstate,     \* receiving channel: "open" or "closed"
    delivered,  \* stream intervals handed to the receive handler, in order
    lost        \* history: bytes were dropped because the pool had run out

senderVars == <<ends, written, spc, sendShut>>
receiverVars == <<recvShut, read, base, hasRx, rstate, delivered, lost>>
vars == <<ends, written, spc, sendShut,
          recvShut, read, base, hasRx, rstate, delivered, lost>>

FrameStart(i) == IF i = 1 THEN 0 ELSE ends[i - 1]
Total == IF ends = <<>> THEN 0 ELSE ends[Len(ends)]

Readable == written - read    \* bytes recv() could return
RxSize == read - base         \* m_rx_packet->get_size()
Room == BufSize - RxSize      \* the size passed to recv()

-----------------------------------------------------------------------------
Init == /\ ends = <<>> /\ written = 0 /\ spc = "idle" /\ sendShut = FALSE
        /\ recvShut = FALSE /\ read = 0 /\ base = 0 /\ hasRx = FALSE
        /\ rstate = "open" /\ delivered = <<>> /\ lost = FALSE

\* Channel::send: prepare_to_send writes the payload size into the header and
\* do_send starts its loop.
SendStart(n) ==
    /\ spc = "idle"
    /\ ~sendShut
    /\ Len(ends) < MaxPackets
    /\ ends' = Append(ends, Total + HeaderSize + n)
    /\ spc' = "sending"
    /\ UNCHANGED <<written, sendShut, receiverVars>>

\* One round of do_send: the socket accepts k bytes, possibly fewer than the
\* rest of the packet.
SendSome(k) ==
    /\ spc = "sending"
    /\ ~sendShut
    /\ k <= Total - written
    /\ k <= SockBuf - Readable
    /\ written' = written + k
    /\ spc' = IF written' = Total THEN "idle" ELSE "sending"
    /\ UNCHANGED <<ends, sendShut, receiverVars>>

\* The send buffer is full: WouldBlock, then wait_send_ready().
SendWouldBlock ==
    /\ spc = "sending"
    /\ ~sendShut /\ ~recvShut
    /\ Readable >= SockBuf
    /\ spc' = "waiting"
    /\ UNCHANGED <<ends, written, sendShut, receiverVars>>

\* Mutation of SendReady: wait_send_ready polls for the wrong event.
SendReady_WrongEvent ==
    /\ spc = "waiting"
    /\ sendShut \/ recvShut
    /\ spc' = "sending"
    /\ UNCHANGED <<ends, written, sendShut, receiverVars>>

SendReady ==
    /\ spc = "waiting"
    /\ Readable < SockBuf \/ sendShut \/ recvShut
    /\ spc' = "sending"
    /\ UNCHANGED <<ends, written, sendShut, receiverVars>>

\* The socket reports an error (EPIPE, ECONNRESET): send() throws out of
\* do_send and the rest of the packet is never written.
SendFail ==
    /\ spc = "sending"
    /\ sendShut \/ recvShut
    /\ spc' = "broken"
    /\ UNCHANGED <<ends, written, sendShut, receiverVars>>

\* Channel::close on the sending side, by any thread at any time.
SenderClose ==
    /\ ~sendShut
    /\ sendShut' = TRUE
    /\ UNCHANGED <<ends, written, spc, receiverVars>>

\* Channel::close on the receiving side.
ReceiverClose ==
    /\ ~recvShut
    /\ recvShut' = TRUE
    /\ UNCHANGED <<senderVars, read, base, hasRx, rstate, delivered, lost>>

-----------------------------------------------------------------------------
(* receive_chunk, one call per poll event; it always gets a receive packet
   first (prepare_rx_packet).  When the pool is empty that throws and nothing
   changes, so only the successful calls are steps.                         *)

\* What determine_packet_size reads at stream position b: the size of the frame
\* that starts there, and anything at all in the middle of a frame.
FrameSizes(b) ==
    LET S == {i \in 1..Len(ends) : FrameStart(i) = b}
    IN  IF S # {} THEN {ends[i] - b : i \in S} ELSE HeaderSize..(BufSize + 1)

\* Mutation of IsComplete: one byte more is needed.
IsComplete_Strict(f, size) == size >= HeaderSize /\ f < size

\* determine_packet_size does not return PACKET_INCOMPLETE.
IsComplete(f, size) == size >= HeaderSize /\ f <= size

\* Mutation of Received: the remaining room is not computed from what the
\* packet already holds.
Received_WholeBuffer(k) ==
    /\ rstate = "open"
    /\ k <= BufSize
    /\ k <= Readable
    /\ read' = read + k

\* recv() returned k bytes; k = 0 is WouldBlock after a spurious wake-up, which
\* the code lets through to the size test.
Received(k) ==
    /\ rstate = "open"
    /\ Room > 0
    /\ k <= Room
    /\ k <= Readable
    /\ read' = read + k

Deliver(f) == delivered' = Append(delivered, <<base, base + f>>)

\* Header or payload still incomplete: keep what arrived.
ReceivePart(k) ==
    /\ Received(k)
    /\ \E f \in FrameSizes(base) : ~IsComplete(f, RxSize + k)
    /\ hasRx' = TRUE
    /\ UNCHANGED <<senderVars, recvShut, base, rstate, delivered, lost>>

\* Exactly one packet: deliver it, the next call takes a new receive packet.
ReceiveExact(k) ==
    /\ Received(k)
    /\ RxSize + k \in FrameSizes(base)
    /\ IsComplete(RxSize + k, RxSize + k)
    /\ Deliver(RxSize + k)
    /\ base' = read'
    /\ hasRx' = FALSE
    /\ UNCHANGED <<senderVars, recvShut, rstate, lost>>

\* Mutations of ReceiveExcess: the excess is dropped; it stays, but the size of
\* the delivered packet is not truncated.
ReceiveExcess_Dropped(k, f) ==
    /\ Received(k)
    /\ f \in FrameSizes(base) /\ f < RxSize + k
    /\ IsComplete(f, RxSize + k)
    /\ Deliver(f)
    /\ base' = read'
    /\ hasRx' = TRUE
    /\ UNCHANGED <<senderVars, recvShut, rstate, lost>>

ReceiveExcess_NotTruncated(k, f) ==
    /\ Received(k)
    /\ f \in FrameSizes(base) /\ f < RxSize + k
    /\ IsComplete(f, RxSize + k)
    /\ Deliver(RxSize + k)
    /\ base' = base + f
    /\ hasRx' = TRUE
    /\ UNCHANGED <<senderVars, recvShut, rstate, lost>>

\* More than one packet: the excess moves to a new receive packet, the first
\* packet is truncated and delivered.  Only one packet is delivered per call.
ReceiveExcess(k, f) ==
    /\ Received(k)
    /\ f \in FrameSizes(base) /\ f < RxSize + k
    /\ IsComplete(f, RxSize + k)
    /\ Deliver(f)
    /\ base' = base + f
    /\ hasRx' = TRUE
    /\ UNCHANGED <<senderVars, recvShut, rstate, lost>>

\* As ReceiveExcess, but the pool has no packet for the excess: the second
\* prepare_rx_packet throws after the complete packet was moved out of
\* m_rx_packet, and unwinding recycles it with the excess.
ReceiveExcessThrows(k) ==
    /\ Received(k)
    /\ \E f \in FrameSizes(base) : f < RxSize + k /\ IsComplete(f, RxSize + k)
    /\ base' = read'
    /\ hasRx' = FALSE
    /\ lost' = TRUE
    /\ UNCHANGED <<senderVars, recvShut, rstate, delivered>>

\* recv() returned 0: the peer closed and everything was read, or we shut the
\* socket down, or recv() was called with a full buffer.  Whatever m_rx_packet
\* holds is discarded; an empty one is kept.
ReceiveEof ==
    /\ rstate = "open"
    /\ (sendShut /\ Readable = 0) \/ recvShut \/ Room = 0
    /\ base' = read
    /\ hasRx' = (RxSize = 0)
    /\ rstate' = "closed"
    /\ UNCHANGED <<senderVars, recvShut, read, delivered, lost>>

-----------------------------------------------------------------------------
Send == \/ \E k \in 1..SockBuf : SendSome(k)
        \/ SendWouldBlock \/ SendReady \/ SendFail

Chunk(k) == \/ ReceivePart(k) \/ ReceiveExact(k) \/ ReceiveExcessThrows(k)
            \/ \E f \in 1..(BufSize + 1) : ReceiveExcess(k, f)

Receive == ReceiveEof \/ \E k \in 1..BufSize : Chunk(k)

\* a wake-up without data (or, before a first byte, without effect)
ReceiveSpurious == Readable = 0 /\ Chunk(0)

Next == \/ \E n \in Payloads : SendStart(n)
        \/ Send \/ SenderClose \/ ReceiverClose
        \/ Receive \/ ReceiveSpurious

Spec == Init /\ [][Next]_vars

\* poll() keeps reporting a readable socket, and a thread in do_send keeps
\* looping; nothing makes anybody send or close.
FairSpec == Spec /\ WF_vars(Receive) /\ WF_vars(Send)

-----------------------------------------------------------------------------
TypeOK ==
    /\ ends \in Seq(Nat) /\ written \in Nat /\ read \in Nat /\ base \in Nat
    /\ spc \in {"idle", "sending", "waiting", "broken"}
    /\ sendShut \in BOOLEAN /\ recvShut \in BOOLEAN /\ hasRx \in BOOLEAN
    /\ rstate \in {"open", "closed"} /\ lost \in BOOLEAN
    /\ delivered \in Seq(Nat \X Nat)

\* While the channel is open and nothing was dropped, recv() is always called
\* with room in the buffer; a call with size 0 would return 0 and be taken for
\* the peer's shutdown.
RoomToReceive == lost \/ rstate = "closed" \/ RxSize < BufSize

\* The receive handler sees exactly the packets that were sent, whole, in order
\* and without repetition, however the stream was cut, as long as the pool had
\* a packet for every excess.
PrefixDelivery ==
    lost \/ /\ Len(delivered) <= Len(ends)
            /\ \A i \in 1..Len(delivered) : delivered[i] = <<FrameStart(i), ends[i]>>

\* What an open channel keeps starts where the last delivered packet ended:
\* excess bytes become the start of the next packet.
KeepsExcess ==
    rstate = "open" =>
        base = IF delivered = <<>> THEN 0 ELSE delivered[Len(delivered)][2]

\* No byte goes missing unless the pool was exhausted at the wrong moment.
Aligned == lost \/ KeepsExcess

\* The receive packet never holds more than its buffer, even when framing was
\* lost (the pre- and postcondition of receive_chunk).
NeverOverrun == RxSize <= BufSize

\* No byte of the stream is delivered twice and packets are delivered in stream
\* order, even when framing was lost.
NoByteTwice ==
    /\ \A i \in 1..Len(delivered) :
          /\ delivered[i][1] < delivered[i][2]
          /\ i > 1 => delivered[i - 1][2] <= delivered[i][1]
    /\ delivered # <<>> => delivered[Len(delivered)][2] <= base

\* Delivery through any cuts of the stream and any shortage of packets.
Delivery == PrefixDelivery /\ Aligned /\ NoByteTwice

\* recv() is called with room and with no more than there is (receive_chunk).
BufferSound == RoomToReceive /\ NeverOverrun

\* A sender that waits in wait_send_ready() gets on: the receiver never stops
\* draining the connection.
SenderUnblocked == spc = "waiting" ~> (spc # "waiting" \/ lost)

\* A first packet that was written completely is delivered unless a side closes.
FirstDelivered ==
    (ends # <<>> /\ written >= ends[1]) ~> (delivered # <<>> \/ sendShut \/ recvShut \/ lost)

-----------------------------------------------------------------------------
(* Claims of the sources that the code does not keep. *)

\* tcp-channel.cpp, peer shutdown: only an incomplete packet is discarded, i.e.
\* the first frame in the buffer reaches beyond the bytes received.
DiscardOnlyIncomplete ==
    [][ReceiveEof /\ ~recvShut /\ RxSize > 0
         => \E f \in FrameSizes(base) : ~IsComplete(f, RxSize)]_vars

\* channel.h: the receive callback is invoked when a packet was received, so a
\* packet whose bytes have all been read is eventually delivered (if nobody
\* closes).
EveryPacketDelivered ==
    \A i \in 1..MaxPackets :
        (i <= Len(ends) /\ read >= ends[i])
            ~> (Len(delivered) >= i \/ sendShut \/ recvShut \/ lost)
=============================================================================
