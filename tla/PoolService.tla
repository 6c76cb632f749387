----------------------------- MODULE PoolService -----------------------------
(***************************************************************************)
(* What RecyclingPool (src/src/utils/recycling.h) promises its callers: an *)
(* atomic pool of packets.  A request gets some free packet, or is turned  *)
(* away, and the latter only while the pool is empty.                      *)
(***************************************************************************)
CONSTANTS Packet, Thread

VARIABLES
    free,     \* packets in the pool
    owned,    \* owned[t]: packets thread t is responsible for
    starved   \* threads whose request found the pool empty

vars == <<free, owned, starved>>

Init == /\ free = Packet
        /\ owned = [t \in Thread |-> {}]
        /\ starved = {}

Take(t) == \E p \in free :
    /\ free' = free \ {p}
    /\ owned' = [owned EXCEPT ![t] = @ \cup {p}]
    /\ UNCHANGED starved

TurnAway(t) == /\ free = {}
               /\ starved' = starved \cup {t}
               /\ UNCHANGED <<free, owned>>

\* the caller has handled ERR_OUT_OF_PACKETS
GiveUp(t) == /\ t \in starved
             /\ starved' = starved \ {t}
             /\ UNCHANGED <<free, owned>>

Move(t, u) == \E p \in owned[t] :
    /\ t # u
    /\ owned' = [owned EXCEPT ![t] = @ \ {p}, ![u] = @ \cup {p}]
    /\ UNCHANGED <<free, starved>>

Give(t) == \E p \in owned[t] :
    /\ free' = free \cup {p}
    /\ owned' = [owned EXCEPT ![t] = @ \ {p}]
    /\ UNCHANGED starved

Next == \E t \in Thread :
    \/ Take(t) \/ TurnAway(t) \/ GiveUp(t) \/ Give(t)
    \/ \E u \in Thread : Move(t, u)

Spec == Init /\ [][Next]_vars
=============================================================================
