------------------------------ MODULE MCFraming ------------------------------
(* Framing for TLC.  Sizes are scaled down: a header of two bytes so that it
   can be split, payloads of zero and two bytes, so that the largest packet
   just fits the receive buffer and two of the smallest fit it together, and a
   kernel buffer smaller than the largest stream.                           *)
EXTENDS Framing

MCPayloads == {0, 2}
=============================================================================
