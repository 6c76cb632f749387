-------------------------- MODULE PacketPoolProofs --------------------------
(***************************************************************************)
(* The free list of PacketPool is sound for any finite set of packets and  *)
(* any set of threads, and the pool implements PoolService.                *)
(***************************************************************************)
EXTENDS PacketPool, FiniteSetTheorems, TLAPS

\* What a thread's program counter says about the object it works on.
CallSound ==
    \A t \in Thread :
        /\ pc[t] # "cannot_recycle"
        /\ pc[t] = "idle" => cur[t] = NULL
        /\ pc[t] \in {"reset", "add"} => cur[t] \in Packet /\ blank[cur[t]]

\* The inductive invariant: every checked invariant and CallSound.
IInv == /\ TypeOK
        /\ FreeListSound
        /\ ExclusiveOwner
        /\ FreshIsEmpty
        /\ CallSound

\* n represents the free list by s.
Represents(n, s) == /\ IsFreeList(n, s)
                    /\ {s[i] : i \in 1..n} = {p \in Packet : ~m_pool[p]}

-----------------------------------------------------------------------------
\* A sequence without repetitions over a finite set is no longer than the set.
LEMMA InjectiveSequenceBound ==
    ASSUME NEW S, IsFiniteSet(S), NEW n \in Nat, NEW s \in [1..n -> S],
           \A i, j \in 1..n : s[i] = s[j] => i = j
    PROVE  /\ n <= Cardinality(S)
           /\ n = Cardinality(S) => \A x \in S : \E i \in 1..n : s[i] = x
<1>1. s \in Injection(1..n, S)
  BY DEF Injection, IsInjective
<1>2. Cardinality(1..n) = n
  BY FS_Interval
<1>3. QED
  BY <1>1, <1>2, FS_Injection DEF Surjection

LEMMA PacketCount == Cardinality(Packet) \in Nat
BY PoolAssumption, FS_CardinalityType

\* Popping the head of a sound list leaves a sound list.
LEMMA PopSound ==
    ASSUME TypeOK, FreeListSound, m_first # NULL,
           m_first' = m_next[m_first], m_next' = m_next,
           m_pool' = [m_pool EXCEPT ![m_first] = TRUE]
    PROVE  FreeListSound'
<1>0. PICK n \in 0..Cardinality(Packet) : \E s \in [1..n -> Packet] : Represents(n, s)
  BY DEF FreeListSound, Represents
<1>1. PICK s \in [1..n -> Packet] : Represents(n, s)
  BY <1>0
<1>2. n \in Nat /\ n >= 1
  BY <1>0, <1>1, PacketCount DEF Represents, IsFreeList
<1>3. 1 \in 1..n /\ m_first = s[1] /\ s[1] \in Packet
  BY <1>1, <1>2 DEF Represents, IsFreeList
<1> DEFINE r == [i \in 1..(n - 1) |-> s[i + 1]]
<1>4. n - 1 \in 0..Cardinality(Packet) /\ r \in [1..(n - 1) -> Packet]
  BY <1>2, PacketCount
<1>5. m_first' = IF n - 1 = 0 THEN NULL ELSE r[1]
  BY <1>1, <1>2, <1>3 DEF Represents, IsFreeList
<1>6. \A i \in 1..(n - 1) : m_next'[r[i]] = IF i = n - 1 THEN NULL ELSE r[i + 1]
  BY <1>1, <1>2 DEF Represents, IsFreeList
<1>7. \A i, j \in 1..(n - 1) : r[i] = r[j] => i = j
  BY <1>1, <1>2 DEF Represents, IsFreeList
<1>8. {r[i] : i \in 1..(n - 1)} = {p \in Packet : ~m_pool'[p]}
  <2>1. ASSUME NEW i \in 1..(n - 1) PROVE r[i] \in Packet /\ ~m_pool'[r[i]]
    <3>1. i + 1 \in 1..n /\ i + 1 # 1 /\ r[i] = s[i + 1]
      BY <1>2, <2>1
    <3>2. s[i + 1] # s[1] /\ s[i + 1] \in Packet
      BY <3>1, <1>1, <1>3 DEF Represents, IsFreeList
    <3>3. ~m_pool[s[i + 1]]
      BY <3>1, <1>1 DEF Represents
    <3> QED BY <3>1, <3>2, <3>3, <1>3 DEF TypeOK
  <2>2. ASSUME NEW p \in Packet, ~m_pool'[p] PROVE \E i \in 1..(n - 1) : r[i] = p
    <3>1. ~m_pool[p] /\ p # s[1]
      BY <2>2, <1>3 DEF TypeOK
    <3>2. PICK i \in 1..n : s[i] = p
      BY <3>1, <1>1 DEF Represents
    <3>3. i # 1 /\ i - 1 \in 1..(n - 1) /\ (i - 1) + 1 = i
      BY <3>1, <3>2, <1>2
    <3> QED BY <3>2, <3>3
  <2> QED BY <2>1, <2>2
<1>9. FreeListSound'
  <2>1. IsFreeList(n - 1, r)'
    BY <1>5, <1>6, <1>7 DEF IsFreeList
  <2> QED BY <1>4, <1>8, <2>1 DEF FreeListSound
<1> QED BY <1>9

\* The head of a sound list is a free packet, and an empty list means that no
\* packet is free.
LEMMA PopSoundHead ==
    ASSUME TypeOK, FreeListSound
    PROVE  /\ m_first # NULL => ~m_pool[m_first]
           /\ m_first = NULL => {p \in Packet : ~m_pool[p]} = {}
<1>0. PICK n \in 0..Cardinality(Packet) : \E s \in [1..n -> Packet] : Represents(n, s)
  BY DEF FreeListSound, Represents
<1>1. PICK s \in [1..n -> Packet] : Represents(n, s)
  BY <1>0
<1>2. n \in Nat
  BY <1>0, PacketCount
<1>3. CASE n = 0
  BY <1>1, <1>3 DEF Represents, IsFreeList
<1>4. CASE n # 0
  <2>1. 1 \in 1..n /\ m_first = s[1] /\ s[1] \in Packet
    BY <1>1, <1>2, <1>4 DEF Represents, IsFreeList
  <2> QED BY <1>1, <2>1, PoolAssumption DEF Represents
<1> QED BY <1>3, <1>4

\* Pushing a packet that is not on a sound list leaves a sound list.
LEMMA PushSound ==
    ASSUME TypeOK, FreeListSound, NEW p \in Packet, m_pool[p],
           m_first' = p, m_next' = [m_next EXCEPT ![p] = m_first],
           m_pool' = [m_pool EXCEPT ![p] = FALSE]
    PROVE  FreeListSound'
<1>0. PICK n \in 0..Cardinality(Packet) : \E s \in [1..n -> Packet] : Represents(n, s)
  BY DEF FreeListSound, Represents
<1>1. PICK s \in [1..n -> Packet] : Represents(n, s)
  BY <1>0
<1>2. n \in Nat /\ n + 1 \in Nat
  BY <1>0, PacketCount
<1> DEFINE r == [i \in 1..(n + 1) |-> IF i = 1 THEN p ELSE s[i - 1]]
<1>3. r \in [1..(n + 1) -> Packet]
  BY <1>2
<1>4. \A i \in 1..n : s[i] # p /\ s[i] \in Packet
  BY <1>1 DEF Represents
<1>5. r[1] = p /\ \A i \in 1..(n + 1) : i # 1 => i - 1 \in 1..n /\ r[i] = s[i - 1]
  BY <1>2
<1>6. \A i, j \in 1..(n + 1) : r[i] = r[j] => i = j
  BY <1>1, <1>2, <1>4, <1>5 DEF Represents, IsFreeList
<1>7. n + 1 \in 0..Cardinality(Packet)
  <2>1. n + 1 <= Cardinality(Packet)
    BY <1>2, <1>3, <1>6, PoolAssumption, InjectiveSequenceBound
  <2> QED BY <2>1, <1>2, PacketCount
<1>8. m_next' \in [Packet -> Packet \cup {NULL}]
  BY DEF TypeOK
<1>9. \A i \in 1..(n + 1) :
         m_next'[r[i]] = IF i = n + 1 THEN NULL ELSE r[i + 1]
  <2> SUFFICES ASSUME NEW i \in 1..(n + 1)
               PROVE  m_next'[r[i]] = IF i = n + 1 THEN NULL ELSE r[i + 1]
    OBVIOUS
  <2>1. CASE i = 1
    <3>1. m_next'[r[i]] = m_first
      BY <2>1, <1>5 DEF TypeOK
    <3>2. n # 0 => i + 1 \in 1..(n + 1) /\ r[i + 1] = s[1]
      BY <2>1, <1>2
    <3> QED BY <3>1, <3>2, <2>1, <1>1, <1>2 DEF Represents, IsFreeList
  <2>2. CASE i # 1
    <3>1. i - 1 \in 1..n /\ r[i] = s[i - 1]
      BY <2>2, <1>5
    <3>2. m_next'[r[i]] = m_next[s[i - 1]]
      BY <3>1, <1>4 DEF TypeOK
    <3>3. m_next[s[i - 1]] = IF i - 1 = n THEN NULL ELSE s[(i - 1) + 1]
      BY <3>1, <1>1 DEF Represents, IsFreeList
    <3>4. i # n + 1 => i + 1 \in 1..(n + 1) /\ r[i + 1] = s[i]
      BY <2>2, <1>2
    <3> QED BY <3>1, <3>2, <3>3, <3>4, <1>2
  <2> QED BY <2>1, <2>2
<1>10. {r[i] : i \in 1..(n + 1)} = {q \in Packet : ~m_pool'[q]}
  <2>1. ASSUME NEW i \in 1..(n + 1) PROVE r[i] \in Packet /\ ~m_pool'[r[i]]
    <3>1. CASE i = 1
      BY <3>1, <1>5 DEF TypeOK
    <3>2. CASE i # 1
      <4>1. i - 1 \in 1..n /\ r[i] = s[i - 1]
        BY <3>2, <1>5
      <4>2. ~m_pool[s[i - 1]]
        BY <4>1, <1>1 DEF Represents
      <4> QED BY <4>1, <4>2, <1>4 DEF TypeOK
    <3> QED BY <3>1, <3>2
  <2>2. ASSUME NEW q \in Packet, ~m_pool'[q] PROVE \E i \in 1..(n + 1) : r[i] = q
    <3>1. CASE q = p
      <4>1. 1 \in 1..(n + 1)
        BY <1>2
      <4> QED BY <4>1, <3>1, <1>5
    <3>2. CASE q # p
      <4>1. ~m_pool[q]
        BY <2>2, <3>2 DEF TypeOK
      <4>2. PICK i \in 1..n : s[i] = q
        BY <4>1, <1>1 DEF Represents
      <4>3. i + 1 \in 1..(n + 1) /\ r[i + 1] = s[i]
        BY <1>2, <4>2
      <4> QED BY <4>2, <4>3
    <3> QED BY <3>1, <3>2
  <2> QED BY <2>1, <2>2
<1>11. IsFreeList(n + 1, r)'
  BY <1>2, <1>5, <1>6, <1>9 DEF IsFreeList
<1> QED BY <1>3, <1>7, <1>10, <1>11 DEF FreeListSound

\* A step that leaves the list and the back pointers alone keeps it sound.
LEMMA ListUntouched ==
    ASSUME FreeListSound, UNCHANGED <<m_first, m_next, m_pool>>
    PROVE  FreeListSound'
BY DEF FreeListSound, IsFreeList

-----------------------------------------------------------------------------
\* The packets are in one list, reset, and nobody owns any of them.
LEMMA InitIInv == Init => IInv
<1> SUFFICES ASSUME Init PROVE IInv
  OBVIOUS
<1>1. TypeOK
  BY DEF Init, TypeOK
<1>2. FreeListSound
  <2> DEFINE n == Cardinality(Packet)
  <2>1. PICK s \in [1..n -> Packet] : IsFreeList(n, s)
    BY DEF Init
  <2>2. n \in 0..Cardinality(Packet) /\ n \in Nat
    BY PacketCount
  <2>3. \A p \in Packet : \E i \in 1..n : s[i] = p
    BY <2>1, <2>2, PoolAssumption, InjectiveSequenceBound DEF IsFreeList
  <2>4. {s[i] : i \in 1..n} = {p \in Packet : ~m_pool[p]}
    BY <2>3 DEF Init
  <2> QED BY <2>1, <2>2, <2>4 DEF FreeListSound
<1>3. ExclusiveOwner
  BY DEF Init, ExclusiveOwner, Owned
<1>4. FreshIsEmpty
  BY DEF Init, FreshIsEmpty
<1>5. CallSound
  BY DEF Init, CallSound
<1> QED BY <1>1, <1>2, <1>3, <1>4, <1>5 DEF IInv

\* Typing needs one fact beyond itself: the object of a running add() is a packet.
LEMMA StepTypeOK == IInv /\ [Next]_vars => TypeOK'
<1> SUFFICES ASSUME IInv, [Next]_vars PROVE TypeOK'
  OBVIOUS
<1> USE PoolAssumption DEF IInv, TypeOK, Step
<1>1. CASE UNCHANGED vars
  BY <1>1 DEF vars
<1>2. ASSUME NEW t \in Thread, Take(t) PROVE TypeOK'
  BY <1>2 DEF Take
<1>3. ASSUME NEW t \in Thread, TakeReturn(t) \/ TakeThrow(t) PROVE TypeOK'
  BY <1>3 DEF TakeReturn, TakeThrow
<1>4. ASSUME NEW t \in Thread, NEW p \in Packet, Write(t, p)
      PROVE  TypeOK'
  BY <1>4 DEF Write
<1>8. ASSUME NEW t \in Thread, NEW p \in Packet, RecycleReset(t, p)
      PROVE  TypeOK'
  BY <1>8 DEF RecycleReset
<1>5. ASSUME NEW t \in Thread, NEW u \in Thread, NEW p \in Packet, Move(t, u, p)
      PROVE  TypeOK'
  BY <1>5 DEF Move
<1>6. ASSUME NEW t \in Thread, RecycleCheck(t) PROVE TypeOK'
  BY <1>6 DEF RecycleCheck
<1>7. ASSUME NEW t \in Thread, Add(t) PROVE TypeOK'
  BY <1>7 DEF Add, CallSound
<1> QED BY <1>1, <1>2, <1>3, <1>4, <1>5, <1>6, <1>7, <1>8 DEF Next, ThreadStep

\* Only take() and add() touch the list: PopSound and PushSound.
LEMMA StepFreeList == IInv /\ [Next]_vars => FreeListSound'
<1> SUFFICES ASSUME IInv, [Next]_vars PROVE FreeListSound'
  OBVIOUS
<1> USE DEF IInv
<1>1. CASE UNCHANGED vars
  BY <1>1, ListUntouched DEF vars
<1>2. ASSUME NEW t \in Thread, Take(t) PROVE FreeListSound'
  <2>1. CASE m_first = NULL
    BY <1>2, <2>1, ListUntouched DEF Take
  <2>2. CASE m_first # NULL
    BY <1>2, <2>2, PopSound DEF Take
  <2> QED BY <2>1, <2>2
<1>3. ASSUME NEW t \in Thread, TakeReturn(t) \/ TakeThrow(t) \/ RecycleCheck(t)
      PROVE  FreeListSound'
  BY <1>3, ListUntouched DEF TakeReturn, TakeThrow, RecycleCheck
<1>4. ASSUME NEW t \in Thread, NEW p \in Packet, Write(t, p) \/ RecycleReset(t, p)
      PROVE  FreeListSound'
  BY <1>4, ListUntouched DEF Write, RecycleReset
<1>5. ASSUME NEW t \in Thread, NEW u \in Thread, NEW p \in Packet, Move(t, u, p)
      PROVE  FreeListSound'
  BY <1>5, ListUntouched DEF Move
<1>6. ASSUME NEW t \in Thread, Add(t) PROVE FreeListSound'
  <2>1. cur[t] \in Packet /\ m_pool[cur[t]]
    BY <1>6, PoolAssumption DEF Add, CallSound, ExclusiveOwner, Owned
  <2> QED BY <1>6, <2>1, PushSound DEF Add
<1> QED BY <1>1, <1>2, <1>3, <1>4, <1>5, <1>6 DEF Next, ThreadStep

\* Ownership, reset packets and the call positions are kept by every step.
LEMMA StepOwner ==
    IInv /\ [Next]_vars => ExclusiveOwner' /\ FreshIsEmpty' /\ CallSound'
<1> SUFFICES ASSUME IInv, [Next]_vars
             PROVE  ExclusiveOwner' /\ FreshIsEmpty' /\ CallSound'
  OBVIOUS
<1> USE PoolAssumption
    DEF IInv, TypeOK, ExclusiveOwner, FreshIsEmpty, CallSound, Owned, Step
<1>1. CASE UNCHANGED vars
  BY <1>1 DEF vars
<1>2. ASSUME NEW t \in Thread, Take(t)
      PROVE  ExclusiveOwner' /\ FreshIsEmpty' /\ CallSound'
  <2>1. m_first # NULL => ~m_pool[m_first]
    BY <1>2, PopSoundHead
  <2>2. ExclusiveOwner'
    BY <1>2, <2>1 DEF Take
  <2>3. FreshIsEmpty'
    BY <1>2, <2>1 DEF Take
  <2>4. CallSound'
    BY <1>2 DEF Take
  <2> QED BY <2>2, <2>3, <2>4
<1>3. ASSUME NEW t \in Thread, TakeReturn(t)
      PROVE  ExclusiveOwner' /\ FreshIsEmpty' /\ CallSound'
  BY <1>3 DEF TakeReturn
<1>4. ASSUME NEW t \in Thread, TakeThrow(t)
      PROVE  ExclusiveOwner' /\ FreshIsEmpty' /\ CallSound'
  BY <1>4 DEF TakeThrow
<1>5. ASSUME NEW t \in Thread, NEW p \in Packet, Write(t, p)
      PROVE  ExclusiveOwner' /\ FreshIsEmpty' /\ CallSound'
  BY <1>5 DEF Write
<1>6. ASSUME NEW t \in Thread, NEW p \in Packet, RecycleReset(t, p)
      PROVE  ExclusiveOwner' /\ FreshIsEmpty' /\ CallSound'
  BY <1>6 DEF RecycleReset
<1>7. ASSUME NEW t \in Thread, NEW u \in Thread, NEW p \in Packet, Move(t, u, p)
      PROVE  ExclusiveOwner' /\ FreshIsEmpty' /\ CallSound'
  BY <1>7 DEF Move
<1>8. ASSUME NEW t \in Thread, RecycleCheck(t)
      PROVE  ExclusiveOwner' /\ FreshIsEmpty' /\ CallSound'
  BY <1>8 DEF RecycleCheck
<1>9. ASSUME NEW t \in Thread, Add(t)
      PROVE  ExclusiveOwner' /\ FreshIsEmpty' /\ CallSound'
  BY <1>9 DEF Add
<1> QED BY <1>1, <1>2, <1>3, <1>4, <1>5, <1>6, <1>7, <1>8, <1>9
        DEF Next, ThreadStep

\* The free list is sound, ownership exclusive and every call position sound in
\* every reachable state.
THEOREM PoolInvariant == Spec => []IInv
<1>1. Init => IInv
  BY InitIInv
<1>2. IInv /\ [Next]_vars => IInv'
  BY StepTypeOK, StepFreeList, StepOwner DEF IInv
<1> QED BY <1>1, <1>2, PTL DEF Spec

\* take()'s and add()'s pointer surgery keeps one acyclic list of exactly the
\* free packets (RecyclingPool::take, RecyclingPool::add).
THEOREM FreeListAlwaysSound == Spec => []FreeListSound
BY PoolInvariant, PTL DEF IInv

\* A packet never has two owners, take_packet's assertion that a fresh packet is
\* empty never fails, and the deleter of packet_ptr never throws ERR_CANNOT_RECYCLE.
THEOREM OwnershipSafe == Spec => []OwnershipSound
<1>1. IInv => OwnershipSound
  BY DEF IInv, CallSound, OwnershipSound, RecycleNeverThrows
<1> QED BY <1>1, PoolInvariant, PTL

-----------------------------------------------------------------------------
\* The refinement mapping, as in the INSTANCE of PacketPool.
FreeSet == {p \in Packet : ~m_pool[p]}
OwnedMap == [t \in Thread |-> Owned(t)]
StarvedSet == {t \in Thread : pc[t] = "taken" /\ cur[t] = NULL}

\* A step that keeps the three mapped values is a stuttering step of the service.
LEMMA Stutters ==
    ASSUME FreeSet' = FreeSet, OwnedMap' = OwnedMap, StarvedSet' = StarvedSet
    PROVE  [Service!Next]_(Service!vars)
BY DEF FreeSet, OwnedMap, StarvedSet, Service!vars

\* Every step of the linked list is a step of the service or invisible to it.
LEMMA StepImplements == IInv /\ [Next]_vars => [Service!Next]_(Service!vars)
<1> SUFFICES ASSUME IInv, [Next]_vars PROVE [Service!Next]_(Service!vars)
  OBVIOUS
<1> USE PoolAssumption DEF IInv, TypeOK, Step, Owned, FreeSet, OwnedMap, StarvedSet
<1>1. CASE UNCHANGED vars
  <2>1. FreeSet' = FreeSet /\ OwnedMap' = OwnedMap /\ StarvedSet' = StarvedSet
    BY <1>1 DEF vars
  <2> QED BY <2>1, Stutters
<1>2. ASSUME NEW t \in Thread, Take(t) PROVE Service!Next
  <2>1. CASE m_first = NULL
    <3>1. FreeSet = {} /\ FreeSet' = FreeSet
      BY <1>2, <2>1, PopSoundHead DEF Take
    <3>2. OwnedMap' = OwnedMap
      BY <1>2, <2>1 DEF Take, CallSound
    <3>3. StarvedSet' = StarvedSet \cup {t}
      BY <1>2, <2>1 DEF Take
    <3>4. Service!TurnAway(t)
      BY <3>1, <3>2, <3>3 DEF Service!TurnAway
    <3> QED BY <3>4 DEF Service!Next
  <2>2. CASE m_first # NULL
    <3>1. m_first \in FreeSet
      BY <2>2, PopSoundHead
    <3>2. FreeSet' = FreeSet \ {m_first}
      BY <1>2, <2>2 DEF Take
    <3>3. OwnedMap' = [OwnedMap EXCEPT ![t] = @ \cup {m_first}]
      <4>1. (Owned(t))' = Owned(t) \cup {m_first}
        BY <1>2, <2>2 DEF Take, CallSound
      <4>2. ASSUME NEW u \in Thread, u # t PROVE (Owned(u))' = Owned(u)
        BY <1>2, <4>2 DEF Take
      <4> HIDE DEF Owned
      <4> QED BY <4>1, <4>2
    <3>4. StarvedSet' = StarvedSet
      BY <1>2, <2>2 DEF Take
    <3>5. Service!Take(t)
      BY <3>1, <3>2, <3>3, <3>4 DEF Service!Take
    <3> QED BY <3>5 DEF Service!Next
  <2> QED BY <2>1, <2>2
<1>3. ASSUME NEW t \in Thread, TakeReturn(t) PROVE [Service!Next]_(Service!vars)
  <2>1. FreeSet' = FreeSet /\ OwnedMap' = OwnedMap /\ StarvedSet' = StarvedSet
    BY <1>3 DEF TakeReturn
  <2> QED BY <2>1, Stutters
<1>4. ASSUME NEW t \in Thread, TakeThrow(t) PROVE Service!Next
  <2>1. FreeSet' = FreeSet /\ OwnedMap' = OwnedMap
    BY <1>4 DEF TakeThrow
  <2>2. t \in StarvedSet /\ StarvedSet' = StarvedSet \ {t}
    BY <1>4 DEF TakeThrow
  <2>3. Service!GiveUp(t)
    BY <2>1, <2>2 DEF Service!GiveUp
  <2> QED BY <2>3 DEF Service!Next
<1>5. ASSUME NEW t \in Thread, NEW p \in Packet, Write(t, p)
      PROVE  [Service!Next]_(Service!vars)
  <2>1. FreeSet' = FreeSet /\ OwnedMap' = OwnedMap /\ StarvedSet' = StarvedSet
    BY <1>5 DEF Write
  <2> QED BY <2>1, Stutters
<1>6. ASSUME NEW t \in Thread, NEW p \in Packet, RecycleReset(t, p)
      PROVE  [Service!Next]_(Service!vars)
  <2>1. FreeSet' = FreeSet /\ StarvedSet' = StarvedSet
    BY <1>6 DEF RecycleReset
  <2>2. OwnedMap' = OwnedMap
    BY <1>6 DEF RecycleReset, CallSound
  <2> QED BY <2>1, <2>2, Stutters
<1>7. ASSUME NEW t \in Thread, NEW u \in Thread, NEW p \in Packet, Move(t, u, p)
      PROVE  Service!Next
  <2>1. FreeSet' = FreeSet /\ StarvedSet' = StarvedSet
    BY <1>7 DEF Move
  <2>2. p \in OwnedMap[t]
    BY <1>7 DEF Move
  <2>3. cur[t] = NULL /\ p # cur[u]
    BY <1>7 DEF Move, CallSound, ExclusiveOwner
  <2>4. OwnedMap' = [OwnedMap EXCEPT ![t] = @ \ {p}, ![u] = @ \cup {p}]
    BY <1>7, <2>3 DEF Move
  <2>5. Service!Move(t, u)
    BY <1>7, <2>1, <2>2, <2>4 DEF Service!Move, Move
  <2> QED BY <2>5 DEF Service!Next
<1>8. ASSUME NEW t \in Thread, RecycleCheck(t) PROVE [Service!Next]_(Service!vars)
  <2>1. FreeSet' = FreeSet /\ OwnedMap' = OwnedMap /\ StarvedSet' = StarvedSet
    BY <1>8 DEF RecycleCheck
  <2> QED BY <2>1, Stutters
<1>9. ASSUME NEW t \in Thread, Add(t) PROVE Service!Next
  <2>1. cur[t] \in Packet /\ cur[t] \in OwnedMap[t] /\ cur[t] \notin held[t]
    BY <1>9 DEF Add, CallSound, ExclusiveOwner
  <2>2. FreeSet' = FreeSet \cup {cur[t]}
    BY <1>9, <2>1 DEF Add
  <2>3. OwnedMap' = [OwnedMap EXCEPT ![t] = @ \ {cur[t]}]
    <3>1. (Owned(t))' = Owned(t) \ {cur[t]}
      BY <1>9, <2>1 DEF Add
    <3>2. ASSUME NEW u \in Thread, u # t PROVE (Owned(u))' = Owned(u)
      BY <1>9, <3>2 DEF Add
    <3> HIDE DEF Owned
    <3> QED BY <3>1, <3>2
  <2>4. StarvedSet' = StarvedSet
    BY <1>9 DEF Add
  <2>5. Service!Give(t)
    BY <2>1, <2>2, <2>3, <2>4 DEF Service!Give
  <2> QED BY <2>5 DEF Service!Next
<1> QED BY <1>1, <1>2, <1>3, <1>4, <1>5, <1>6, <1>7, <1>8, <1>9
        DEF Next, ThreadStep

\* The intrusive list implements an atomic set of packets: take() hands out a
\* packet whenever one is free, and turns a caller away only when none is.
THEOREM PoolImplementsService == Spec => ImplementsService
<1>1. Init => Service!Init
  BY DEF Init, Service!Init, Owned
<1>2. IInv /\ [Next]_vars => [Service!Next]_(Service!vars)
  BY StepImplements
<1> QED BY <1>1, <1>2, PoolInvariant, PTL DEF Spec, ImplementsService, Service!Spec
=============================================================================
