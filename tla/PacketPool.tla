----------------------------- MODULE PacketPool -----------------------------
(***************************************************************************)
(* The packet pool of a transport: class template RecyclingPool and its    *)
(* intrusive element Recyclable (src/src/utils/recycling.h), instantiated  *)
(* with Packet (src/src/l1_transport/packet.cpp) and used through          *)
(* Transport::take_packet and the deleter of packet_ptr.                   *)
(*                                                                         *)
(* Free packets form a singly linked list threaded through the packets     *)
(* themselves (m_first, m_next); a packet remembers the pool it was taken  *)
(* from (m_pool) and that back pointer is what decides whether it may be   *)
(* recycled or destroyed.  take() and add() run under the pool's mutex;    *)
(* Packet::recycle resets the packet before it calls the base class, which *)
(* reads m_pool, and only add() takes the mutex.                           *)
(***************************************************************************)
EXTENDS Naturals, FiniteSets

CONSTANTS Packet,  \* the packets alloc_packets() puts into the pool
          Thread,  \* the threads that take, pass on and recycle packets
          NULL     \* the null pointer

ASSUME PoolAssumption == /\ IsFiniteSet(Packet)
                         /\ NULL \notin Packet

VARIABLES
    m_first,  \* head of the free list
    m_next,   \* m_next[p]: next free packet; stale while p is taken
    m_pool,   \* m_pool[p]: TRUE iff p's back pointer names the pool
    blank,    \* blank[p]: p is empty and has its default header capacity
    held,     \* held[t]: the packets thread t owns through a packet_ptr
    pc,       \* where thread t is inside take_packet() or recycle()
    cur       \* the object that call works on

vars == <<m_first, m_next, m_pool, blank, held, pc, cur>>

\* Replaces held[t] and the progress of t's call in one go.
Step(t, to, object) == /\ pc' = [pc EXCEPT ![t] = to]
                       /\ cur' = [cur EXCEPT ![t] = object]

\* The free list as a sequence s of n packets: m_first names its first element,
\* each element names the next one, and nothing is named twice.
IsFreeList(n, s) ==
    /\ m_first = IF n = 0 THEN NULL ELSE s[1]
    /\ \A i \in 1..n : m_next[s[i]] = IF i = n THEN NULL ELSE s[i + 1]
    /\ \A i, j \in 1..n : s[i] = s[j] => i = j

-----------------------------------------------------------------------------
\* alloc_packets(): every packet is constructed and added, in some order.
Init ==
    /\ m_pool = [p \in Packet |-> FALSE]
    /\ blank = [p \in Packet |-> TRUE]
    /\ held = [t \in Thread |-> {}]
    /\ pc = [t \in Thread |-> "idle"]
    /\ cur = [t \in Thread |-> NULL]
    /\ m_first \in Packet \cup {NULL}
    /\ m_next \in [Packet -> Packet \cup {NULL}]
    /\ \E s \in [1..Cardinality(Packet) -> Packet] : IsFreeList(Cardinality(Packet), s)

\* Mutations of Take: the head is not unlinked; the back pointer is not set.
Take_HeadKept(t) ==
    /\ pc[t] = "idle"
    /\ Step(t, "taken", m_first)
    /\ m_pool' = IF m_first # NULL THEN [m_pool EXCEPT ![m_first] = TRUE] ELSE m_pool
    /\ UNCHANGED <<m_first, m_next, blank, held>>

Take_PoolNotSet(t) ==
    /\ pc[t] = "idle"
    /\ Step(t, "taken", m_first)
    /\ m_first' = IF m_first # NULL THEN m_next[m_first] ELSE NULL
    /\ UNCHANGED <<m_next, m_pool, blank, held>>

\* RecyclingPool::take, one critical section: unlink the first packet and set
\* its back pointer, or return the null pointer.
Take(t) ==
    /\ pc[t] = "idle"
    /\ Step(t, "taken", m_first)
    /\ IF m_first # NULL
       THEN /\ m_first' = m_next[m_first]
            /\ m_pool' = [m_pool EXCEPT ![m_first] = TRUE]
       ELSE UNCHANGED <<m_first, m_pool>>
    /\ UNCHANGED <<m_next, blank, held>>

\* The rest of take_packet(): a null pointer throws ERR_OUT_OF_PACKETS, a
\* packet goes to the caller.
TakeReturn(t) ==
    /\ pc[t] = "taken"
    /\ cur[t] # NULL
    /\ held' = [held EXCEPT ![t] = @ \cup {cur[t]}]
    /\ Step(t, "idle", NULL)
    /\ UNCHANGED <<m_first, m_next, m_pool, blank>>

TakeThrow(t) ==
    /\ pc[t] = "taken"
    /\ cur[t] = NULL
    /\ Step(t, "idle", NULL)
    /\ UNCHANGED <<m_first, m_next, m_pool, blank, held>>

\* The owner writes a payload, grows it with received bytes, or moves the
\* header border.
Write(t, p) ==
    /\ pc[t] = "idle"
    /\ p \in held[t]
    /\ blank' = [blank EXCEPT ![p] = FALSE]
    /\ UNCHANGED <<m_first, m_next, m_pool, held, pc, cur>>

\* A packet_ptr is moved to another thread (the receive packet a channel got
\* on the worker thread is destroyed by the thread that destroys the channel).
Move(t, u, p) ==
    /\ pc[t] = "idle"
    /\ p \in held[t]
    /\ t # u
    /\ held' = [held EXCEPT ![t] = @ \ {p}, ![u] = @ \cup {p}]
    /\ UNCHANGED <<m_first, m_next, m_pool, blank, pc, cur>>

\* Mutation of RecycleReset: the packet goes back as it is.
RecycleReset_NoReset(t, p) ==
    /\ pc[t] = "idle"
    /\ p \in held[t]
    /\ held' = [held EXCEPT ![t] = @ \ {p}]
    /\ Step(t, "reset", p)
    /\ UNCHANGED <<m_first, m_next, m_pool, blank>>

\* ~packet_ptr calls Packet::recycle: the packet is reset while still owned.
RecycleReset(t, p) ==
    /\ pc[t] = "idle"
    /\ p \in held[t]
    /\ blank' = [blank EXCEPT ![p] = TRUE]
    /\ held' = [held EXCEPT ![t] = @ \ {p}]
    /\ Step(t, "reset", p)
    /\ UNCHANGED <<m_first, m_next, m_pool>>

\* Recyclable::recycle reads m_pool outside the mutex; a packet without a pool
\* throws ERR_CANNOT_RECYCLE out of a deleter.
RecycleCheck(t) ==
    /\ pc[t] = "reset"
    /\ Step(t, IF m_pool[cur[t]] THEN "add" ELSE "cannot_recycle", cur[t])
    /\ UNCHANGED <<m_first, m_next, m_pool, blank, held>>

\* Mutations of Add: the new head is not linked to the old one; add() reads
\* m_first, leaves the critical section, and another thread's push is lost.
Add_NextNotSet(t) ==
    /\ pc[t] = "add"
    /\ m_pool' = [m_pool EXCEPT ![cur[t]] = FALSE]
    /\ m_first' = cur[t]
    /\ Step(t, "idle", NULL)
    /\ UNCHANGED <<m_next, blank, held>>

Add_PushLost(t) ==
    /\ pc[t] = "add"
    /\ m_pool' = [m_pool EXCEPT ![cur[t]] = FALSE]
    /\ m_next' = [m_next EXCEPT ![cur[t]] = m_first]
    /\ m_first' \in {cur[t], m_first}
    /\ Step(t, "idle", NULL)
    /\ UNCHANGED <<blank, held>>

\* RecyclingPool::add, one critical section: clear the back pointer and push.
Add(t) ==
    /\ pc[t] = "add"
    /\ m_pool' = [m_pool EXCEPT ![cur[t]] = FALSE]
    /\ m_next' = [m_next EXCEPT ![cur[t]] = m_first]
    /\ m_first' = cur[t]
    /\ Step(t, "idle", NULL)
    /\ UNCHANGED <<blank, held>>

ThreadStep(t) ==
    \/ Take(t) \/ TakeReturn(t) \/ TakeThrow(t)
    \/ \E p \in Packet : Write(t, p) \/ RecycleReset(t, p)
    \/ \E p \in Packet, u \in Thread : Move(t, u, p)
    \/ RecycleCheck(t) \/ Add(t)

Next == \E t \in Thread : ThreadStep(t)

Spec == Init /\ [][Next]_vars

-----------------------------------------------------------------------------
\* The packets thread t is responsible for, the one in its running call included.
Owned(t) == held[t] \cup ({cur[t]} \ {NULL})

TypeOK ==
    /\ m_first \in Packet \cup {NULL}
    /\ m_next \in [Packet -> Packet \cup {NULL}]
    /\ m_pool \in [Packet -> BOOLEAN]
    /\ blank \in [Packet -> BOOLEAN]
    /\ held \in [Thread -> SUBSET Packet]
    /\ pc \in [Thread -> {"idle", "taken", "reset", "add", "cannot_recycle"}]
    /\ cur \in [Thread -> Packet \cup {NULL}]

\* The linked list is well formed whatever the threads do: following m_first and
\* m_next visits exactly the packets whose back pointer is clear, each once, and
\* stops.  A cycle or a lost tail would make take() hand out a packet twice or
\* run dry early.
FreeListSound ==
    \E n \in 0..Cardinality(Packet) : \E s \in [1..n -> Packet] :
        /\ IsFreeList(n, s)
        /\ {s[i] : i \in 1..n} = {p \in Packet : ~m_pool[p]}

\* A taken packet has exactly one owner: no two threads, and no thread together
\* with the free list, ever refer to the same packet.
ExclusiveOwner ==
    /\ \A t, u \in Thread : t # u => Owned(t) \cap Owned(u) = {}
    /\ \A t \in Thread : cur[t] \notin held[t]
    /\ \A t \in Thread : \A p \in Owned(t) : m_pool[p]

\* Packets on the free list have been reset, so "a fresh packet must be empty"
\* (the assertion of take_packet) holds for the packet take() just returned.
FreshIsEmpty ==
    /\ \A p \in Packet : ~m_pool[p] => blank[p]
    /\ \A t \in Thread : pc[t] = "taken" /\ cur[t] # NULL => blank[cur[t]]

\* recycle() never throws ERR_CANNOT_RECYCLE: packet_ptr destroys only packets
\* that came out of a pool.
RecycleNeverThrows == \A t \in Thread : pc[t] # "cannot_recycle"

\* A packet taken is the caller's alone and empty, and can always be given back,
\* in every interleaving of take, hand over and recycle.
OwnershipSound == ExclusiveOwner /\ FreshIsEmpty /\ RecycleNeverThrows

-----------------------------------------------------------------------------
\* What callers may rely on, with the free list as a plain set.
Service == INSTANCE PoolService
           WITH free <- {p \in Packet : ~m_pool[p]},
                owned <- [t \in Thread |-> Owned(t)],
                starved <- {t \in Thread : pc[t] = "taken" /\ cur[t] = NULL}

\* The linked list implements the set: take() returns a packet whenever one is
\* free and reports exhaustion only when none is.
ImplementsService == Service!Spec
=============================================================================
