----------------------------- MODULE SerialCalls -----------------------------
(***************************************************************************)
(* What an active object promises: calls handed over by any thread are run *)
(* one after the other, in the order in which they were handed over, each  *)
(* once, up to the first request to stop.                                  *)
(***************************************************************************)
EXTENDS Naturals, Sequences

VARIABLES log,  \* what was handed over: TRUE for a call, FALSE for a request to stop
          ran   \* positions in log of the calls that were run

vars == <<log, ran>>

Init == log = <<>> /\ ran = <<>>

Hand(item) == log' = Append(log, item) /\ UNCHANGED ran

\* The next call is run.
RunNext ==
    LET k == Len(ran) + 1
    IN  /\ k <= Len(log)
        /\ \A i \in 1..k : log[i]
        /\ ran' = Append(ran, k)
        /\ UNCHANGED log

Next == (\E item \in BOOLEAN : Hand(item)) \/ RunNext

Spec == Init /\ [][Next]_vars

FairSpec == Spec /\ WF_vars(RunNext)
=============================================================================
