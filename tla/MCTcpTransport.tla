--------------------------- MODULE MCTcpTransport ---------------------------
(* TcpTransport for TLC: two connections are enough for one to end while the
   worker deals with the other, for a removal below an addition in one pass and
   for one of two close() calls of a shutdown to fail.                      *)
EXTENDS TcpTransport

CONSTANTS o1, i1, i2

OneOutgoing == {o1}
OneIncoming == {i1}
TwoIncoming == {i1, i2}
Everyone == Chan
=============================================================================
