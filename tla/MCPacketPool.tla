---------------------------- MODULE MCPacketPool ----------------------------
(* PacketPool for TLC: three packets and two threads. *)
EXTENDS PacketPool

CONSTANTS p1, p2, p3, t1, t2

MCPacket == {p1, p2, p3}
MCThread == {t1, t2}
=============================================================================
