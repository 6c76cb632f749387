---------------------------- MODULE MCActiveObject ----------------------------
(* ActiveObject for TLC: two threads, so that one notifies while the other is
   between push and notify, and room for calls on both sides of a sentinel.  *)
EXTENDS ActiveObject

CONSTANTS t1, t2
MCThread == {t1, t2}
=============================================================================
