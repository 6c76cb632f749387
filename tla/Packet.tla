-------------------------------- MODULE Packet --------------------------------
(***************************************************************************)
(* trans::Packet and its two windows, LBuffer and RBuffer                  *)
(* (src/src/l1_transport/packet.cpp, buffer.cpp).  A packet is one array   *)
(* of bytes; the header window grows to the left and the payload window to *)
(* the right from a common border.  A window is a record of the start of   *)
(* its data, its capacity and its size, all in bytes; packets are values   *)
(* and every operation returns the packet it leaves behind.                *)
(***************************************************************************)
EXTENDS Naturals, Sequences

CONSTANTS BufSize,    \* REMO_MAX_PACKET_SIZE
          HeaderCap   \* REMO_MAX_PACKET_HEADER_SIZE

ASSUME PacketAssumption == BufSize \in Nat /\ HeaderCap \in Nat /\ HeaderCap < BufSize

Byte == 0..255
Window == [data : Nat, cap : Nat, size : Nat]
Packets == [bytes : [0..(BufSize - 1) -> Byte], header : Window, payload : Window]

\* Buffer::init
MakeWindow(data, cap, size) == [data |-> data, cap |-> cap, size |-> size]

\* Packet::set_header_capacity: both windows are emptied and meet at the border.
SetHeaderCapacity(p, border) ==
    [bytes   |-> p.bytes,
     header  |-> MakeWindow(border, border, 0),
     payload |-> MakeWindow(border, BufSize - border, 0)]

\* A packet as its constructor and Packet::recycle leave it; recycling keeps the
\* bytes, which nothing reads.
FreshPacket ==
    SetHeaderCapacity([bytes   |-> [i \in 0..(BufSize - 1) |-> 0],
                       header  |-> MakeWindow(0, 0, 0),
                       payload |-> MakeWindow(0, 0, 0)], HeaderCap)

PacketSize(p) == p.header.size + p.payload.size    \* Packet::get_size

\* Mutation of Fits: the test of a window that grows by one byte.
Fits_One(w, n) == w.size < w.cap

\* The test of both grow() functions, which throw ERR_PACKET_FULL otherwise.
Fits(w, n) == w.size + n <= w.cap

GrowRight(w, n) == [w EXCEPT !.size = @ + n]    \* RBuffer::grow

\* LBuffer::grow moves the start of the data.
GrowLeft(w, n) == MakeWindow(w.data - n, w.cap, w.size + n)

\* Packet::drop_header: the payload loses its first n bytes and keeps its
\* capacity.
DropHeader(p, n) ==
    [p EXCEPT !.payload = MakeWindow(@.data + n, @.cap, @.size - n)]

\* The bytes of a packet after the sequence bs was written from position `at'.
Put(p, at, bs) ==
    [p EXCEPT !.bytes = [i \in DOMAIN @ |->
        IF at <= i /\ i < at + Len(bs) THEN bs[i - at + 1] ELSE @[i]]]

\* Buffer::access_read and access_write allow offsets inside the window only and
\* throw ERR_BAD_PACKET_ACCESS otherwise.
Accessible(w, offset, n) == offset + n <= w.size

\* n bytes of the array from position `at'.
BytesAt(p, at, n) == [i \in 1..n |-> p.bytes[at + i - 1]]
Contents(p, w) == BytesAt(p, w.data, w.size)

\* Writer::write on the payload: grow the window, then fill what was gained.
AppendPayload(p, bs) ==
    LET w == p.payload
    IN  [Put(p, w.data + w.size, bs) EXCEPT !.payload = GrowRight(w, Len(bs))]

\* Mutation of PrependHeader: LBuffer::grow as RBuffer::grow.
PrependHeader_Right(p, bs) ==
    [Put(p, p.header.data, bs) EXCEPT !.header = GrowRight(@, Len(bs))]

\* Writer::write on the header.
PrependHeader(p, bs) ==
    LET w == GrowLeft(p.header, Len(bs))
    IN  [Put(p, w.data, bs) EXCEPT !.header = w]

\* What do_send puts on the wire: get_size() bytes from get_data(), which is the
\* start of the header window.
OnWire(p) == BytesAt(p, p.header.data, PacketSize(p))
=============================================================================
