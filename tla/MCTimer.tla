------------------------------- MODULE MCTimer -------------------------------
(* Timer for TLC: a timer that is always due and one with a real interval, so
   that one can be due while the thread waits for the other.                *)
EXTENDS Timer, TLC

CONSTANTS fast, slow, u1

MCTimers == {fast, slow}
MCInterval == (fast :> 0) @@ (slow :> 2)
=============================================================================
