------------------------------ MODULE RpcProofs ------------------------------
(* Safety of Rpc for any number of endpoints, packets and nested calls: no
   packet is lost, the result slot belongs to the innermost call, arguments
   arrive, and calls implement CallStack.                                   *)
EXTENDS Rpc, FiniteSetTheorems, TLAPS

\* Only the innermost call can have been answered, and then nothing is thrown.
OnlyInnermostReplied ==
    \A i \in DOMAIN stack : stack[i].phase = "replied" => i = Len(stack) /\ exc = None

\* A string that a running function has got from a call lies where it was as long
\* as no other call went through its endpoint; the next call takes another packet.
HeldIntact ==
    \A h \in held :
        /\ h.level <= Len(stack)
        /\ stack # <<>> /\ Top.phase = "replied" => h.level # Len(stack)
        /\ h \notin old =>
              /\ content[h.remote][h.packet] = h.value
              /\ free[h.remote] # <<>>
              /\ Head(free[h.remote]) # h.packet
              /\ \A i \in DOMAIN stack : i > h.level => stack[i].remote # h.remote

AnswerInSlot ==
    stack # <<>> /\ Top.phase = "replied" =>
        content[Top.remote][slot[Top.remote]] = Top.answer

\* With the order of the compiler the arguments of each call are in place.
PassedOn == RightToLeft => ArgumentsArrive

Found == \A i \in DOMAIN stack : items[stack[i].name] # Nothing

IInv ==
    /\ TypeOK
    /\ OnlyInnermostReplied
    /\ SlotIsForInnermost
    /\ PacketsAccounted
    /\ HeldIntact
    /\ AnswerInSlot
    /\ PassedOn
    /\ CalledAsBound
    /\ Found

-----------------------------------------------------------------------------
(* Lemmas about sequences. *)

Unrepeated(s) == \A i, j \in DOMAIN s : s[i] = s[j] => i = j

LEMMA TailFacts ==
    ASSUME NEW S, NEW s \in Seq(S), s # <<>>, Unrepeated(s)
    PROVE  /\ Head(s) \in S /\ Head(s) \in ToSet(s)
           /\ Tail(s) \in Seq(S)
           /\ Unrepeated(Tail(s))
           /\ ToSet(Tail(s)) = ToSet(s) \ {Head(s)}
<1>1. Len(s) \in Nat \ {0} /\ DOMAIN s = 1..Len(s) /\ Head(s) = s[1]
    OBVIOUS
<1>2. /\ Tail(s) \in Seq(S) /\ DOMAIN Tail(s) = 1..(Len(s) - 1)
      /\ \A i \in 1..(Len(s) - 1) : Tail(s)[i] = s[i + 1]
    BY <1>1
<1>3. Head(s) \in S /\ Head(s) \in ToSet(s)
    BY <1>1 DEF ToSet
<1>4. Unrepeated(Tail(s))
    BY <1>1, <1>2 DEF Unrepeated
<1>5. ToSet(Tail(s)) = ToSet(s) \ {Head(s)}
  <2>1. ASSUME NEW x \in ToSet(Tail(s)) PROVE x \in ToSet(s) \ {Head(s)}
    <3>1. PICK i \in 1..(Len(s) - 1) : x = s[i + 1]
        BY <1>2 DEF ToSet
    <3>2. i + 1 \in 1..Len(s) /\ i + 1 # 1
        BY <1>1
    <3> QED
        BY <1>1, <3>1, <3>2 DEF ToSet, Unrepeated
  <2>2. ASSUME NEW x \in ToSet(s) \ {Head(s)} PROVE x \in ToSet(Tail(s))
    <3>1. PICK i \in 1..Len(s) : x = s[i]
        BY <1>1 DEF ToSet
    <3>2. i # 1 /\ i - 1 \in 1..(Len(s) - 1) /\ (i - 1) + 1 = i
        BY <1>1, <2>2, <3>1
    <3>3. Tail(s)[i - 1] = x
        BY <1>2, <3>1, <3>2
    <3> QED
        BY <1>2, <3>2, <3>3 DEF ToSet
  <2> QED
    BY <2>1, <2>2
<1> QED
    BY <1>2, <1>3, <1>4, <1>5

LEMMA ConsFacts ==
    ASSUME NEW S, NEW s \in Seq(S), NEW x \in S, x \notin ToSet(s), Unrepeated(s)
    PROVE  /\ <<x>> \o s \in Seq(S)
           /\ Unrepeated(<<x>> \o s)
           /\ ToSet(<<x>> \o s) = ToSet(s) \cup {x}
           /\ <<x>> \o s # <<>> /\ Head(<<x>> \o s) = x
<1> DEFINE t == <<x>> \o s
<1>1. Len(s) \in Nat /\ DOMAIN s = 1..Len(s)
    OBVIOUS
<1>2. /\ t \in Seq(S) /\ Len(t) = Len(s) + 1 /\ DOMAIN t = 1..(Len(s) + 1)
      /\ t[1] = x /\ \A i \in 2..(Len(s) + 1) : t[i] = s[i - 1]
    BY <1>1
<1>3. ToSet(t) = ToSet(s) \cup {x}
  <2>1. ASSUME NEW y \in ToSet(t) PROVE y \in ToSet(s) \cup {x}
    <3>1. PICK i \in 1..(Len(s) + 1) : y = t[i]
        BY <1>2 DEF ToSet
    <3>2. i = 1 \/ (i \in 2..(Len(s) + 1) /\ i - 1 \in 1..Len(s))
        BY <1>1
    <3> QED
        BY <1>1, <1>2, <3>1, <3>2 DEF ToSet
  <2>2. ASSUME NEW y \in ToSet(s) PROVE y \in ToSet(t)
    <3>1. PICK i \in 1..Len(s) : y = s[i]
        BY <1>1 DEF ToSet
    <3>2. i + 1 \in 2..(Len(s) + 1) /\ (i + 1) - 1 = i
        BY <1>1
    <3>3. t[i + 1] = y
        BY <1>2, <3>1, <3>2
    <3> QED
        BY <1>1, <1>2, <3>2, <3>3 DEF ToSet
  <2>3. x \in ToSet(t)
    BY <1>1, <1>2 DEF ToSet
  <2> QED
    BY <2>1, <2>2, <2>3
<1>4. Unrepeated(t)
  <2> SUFFICES ASSUME NEW i \in DOMAIN t, NEW j \in DOMAIN t, t[i] = t[j] PROVE i = j
    BY DEF Unrepeated
  <2>1. \A k \in DOMAIN t : k # 1 => k - 1 \in DOMAIN s /\ t[k] = s[k - 1] /\ t[k] # x
    BY <1>1, <1>2 DEF ToSet
  <2> QED
    BY <1>1, <1>2, <2>1 DEF Unrepeated
<1>5. t # <<>> /\ Head(t) = x
    BY <1>1, <1>2
<1> QED
    BY <1>2, <1>3, <1>4, <1>5

LEMMA PoppedFacts ==
    ASSUME NEW S, NEW s \in Seq(S), s # <<>>
    PROVE  /\ Len(s) \in Nat \ {0} /\ DOMAIN s = 1..Len(s)
           /\ SubSeq(s, 1, Len(s) - 1) \in Seq(S)
           /\ Len(SubSeq(s, 1, Len(s) - 1)) = Len(s) - 1
           /\ DOMAIN SubSeq(s, 1, Len(s) - 1) = 1..(Len(s) - 1)
           /\ \A i \in 1..(Len(s) - 1) : SubSeq(s, 1, Len(s) - 1)[i] = s[i]
<1>1. Len(s) \in Nat \ {0} /\ DOMAIN s = 1..Len(s)
    OBVIOUS
<1>2. \A i \in 1..(Len(s) - 1) : s[i] \in S
    BY <1>1
<1>3. /\ Len(SubSeq(s, 1, Len(s) - 1)) = Len(s) - 1
      /\ \A i \in 1..(Len(s) - 1) : SubSeq(s, 1, Len(s) - 1)[i] = s[i]
    BY <1>1
<1>4. SubSeq(s, 1, Len(s) - 1) \in Seq(S)
    BY <1>1, <1>2
<1> QED
    BY <1>1, <1>3, <1>4

LEMMA AppendFacts ==
    ASSUME NEW S, NEW s \in Seq(S), NEW x \in S
    PROVE  /\ Append(s, x) \in Seq(S)
           /\ DOMAIN s = 1..Len(s) /\ Len(s) \in Nat
           /\ Len(Append(s, x)) = Len(s) + 1
           /\ DOMAIN Append(s, x) = 1..(Len(s) + 1)
           /\ \A i \in 1..Len(s) : Append(s, x)[i] = s[i]
           /\ Append(s, x)[Len(s) + 1] = x
    OBVIOUS

LEMMA ReverseType ==
    ASSUME NEW S, NEW s \in Seq(S)
    PROVE  Reverse(s) \in Seq(S)
<1>1. Len(s) \in Nat /\ \A i \in 1..Len(s) : s[i] \in S /\ (Len(s) - i) + 1 \in 1..Len(s)
    OBVIOUS
<1>2. Reverse(s) = [i \in 1..Len(s) |-> s[(Len(s) - i) + 1]]
    BY DEF Reverse
<1>3. \A i \in 1..Len(s) : s[(Len(s) - i) + 1] \in S
    BY <1>1
<1> QED
    BY <1>1, <1>2, <1>3

-----------------------------------------------------------------------------
(* What happens to the packets of one endpoint: its free list f, the packets u of
   the calls through it, and its slot s.                                       *)

Accounts(f, u, s) ==
    /\ ToSet(f) \cup u \cup ({s} \ {Nothing}) = Packets
    /\ ToSet(f) \cap (u \cup ({s} \ {Nothing})) = {}
    /\ Unrepeated(f)
    /\ s \notin u

LEMMA TakeForCall ==
    ASSUME NEW f \in Seq(Packets), NEW u, NEW s \in Packets \cup {Nothing},
           Accounts(f, u, s), f # <<>>
    PROVE  Head(f) \notin u /\ Accounts(Tail(f), u \cup {Head(f)}, s)
    BY TailFacts, RpcAssumption DEF Accounts

LEMMA TakeForReply ==
    ASSUME NEW f \in Seq(Packets), NEW u, Accounts(f, u, Nothing), f # <<>>
    PROVE  Accounts(Tail(f), u, Head(f))
    BY TailFacts, RpcAssumption DEF Accounts

LEMMA GiveBack ==
    ASSUME NEW f \in Seq(Packets), NEW u, NEW s \in Packets \cup {Nothing},
           NEW p \in u, Accounts(f, u, s)
    PROVE  /\ Accounts(<<p>> \o f, u \ {p}, s)
           /\ p \in Packets /\ p \notin ToSet(f)
<1>1. p \in Packets /\ p \notin ToSet(f)
    BY DEF Accounts
<1>2. Unrepeated(<<p>> \o f) /\ ToSet(<<p>> \o f) = ToSet(f) \cup {p}
    BY <1>1, ConsFacts DEF Accounts
<1> QED
    BY <1>1, <1>2 DEF Accounts

LEMMA EmptySlot ==
    ASSUME NEW f \in Seq(Packets), NEW u, NEW s \in Packets, Accounts(f, u, s)
    PROVE  Accounts(<<s>> \o f, u, Nothing) /\ s \notin ToSet(f)
<1>1. s # Nothing /\ s \notin ToSet(f)
    BY RpcAssumption DEF Accounts
<1>2. Unrepeated(<<s>> \o f) /\ ToSet(<<s>> \o f) = ToSet(f) \cup {s}
    BY <1>1, ConsFacts DEF Accounts
<1>3. Nothing \notin u
    BY RpcAssumption DEF Accounts
<1> QED
    BY <1>1, <1>2, <1>3 DEF Accounts

Used(r) == {stack[i].packet : i \in CallsOn(r)}
CallsDiffer(r) == \A i, j \in CallsOn(r) : stack[i].packet = stack[j].packet => i = j

LEMMA AccountsOfEach ==
    PacketsAccounted <=> \A r \in Remotes : Accounts(free[r], Used(r), slot[r])
                                           /\ CallsDiffer(r)
<1>1. ASSUME NEW r
      PROVE  (\A i \in CallsOn(r) : stack[i].packet # slot[r]) <=> slot[r] \notin Used(r)
    BY DEF Used
<1> QED
    BY <1>1 DEF PacketsAccounted, Accounts, Used, Busy, Unrepeated, CallsDiffer

LEMMA AccountsOfEachNext ==
    (\A r \in Remotes : Accounts(free'[r], Used(r)', slot'[r]) /\ CallsDiffer(r)')
        => PacketsAccounted'
<1>1. ASSUME NEW r
      PROVE  (\A i \in CallsOn(r)' : stack'[i].packet # slot'[r])
             <=> slot'[r] \notin Used(r)'
    BY DEF Used
<1> QED
    BY <1>1 DEF PacketsAccounted, Accounts, Used, Busy, Unrepeated, CallsDiffer

-----------------------------------------------------------------------------
(* What happens to the stack. *)

LEMMA PushFrame ==
    ASSUME stack \in Seq(Frame), NEW f \in Frame, stack' = Append(stack, f)
    PROVE  /\ stack' \in Seq(Frame) /\ stack' # <<>>
           /\ DOMAIN stack = 1..Len(stack) /\ Len(stack) \in Nat
           /\ Len(stack') = Len(stack) + 1 /\ DOMAIN stack' = 1..(Len(stack) + 1)
           /\ \A i \in 1..Len(stack) : stack'[i] = stack[i]
           /\ stack'[Len(stack) + 1] = f /\ Top' = f
           /\ \A r \in Remotes : r # f.remote =>
                  Used(r)' = Used(r) /\ (CallsDiffer(r) => CallsDiffer(r)')
           /\ f.packet \notin Used(f.remote) /\ CallsDiffer(f.remote) =>
                  Used(f.remote)' = Used(f.remote) \cup {f.packet}
                  /\ CallsDiffer(f.remote)'
<1>1. /\ stack' \in Seq(Frame) /\ stack' # <<>>
      /\ DOMAIN stack = 1..Len(stack) /\ Len(stack) \in Nat
      /\ Len(stack') = Len(stack) + 1 /\ DOMAIN stack' = 1..(Len(stack) + 1)
      /\ \A i \in 1..Len(stack) : stack'[i] = stack[i]
      /\ stack'[Len(stack) + 1] = f
    BY AppendFacts
<1>2. Top' = f
    BY <1>1 DEF Top
<1>3. ASSUME NEW r \in Remotes
      PROVE  CallsOn(r)' = IF r = f.remote THEN CallsOn(r) \cup {Len(stack) + 1}
                                           ELSE CallsOn(r)
    BY <1>1 DEF CallsOn
<1>4. \A r \in Remotes : \A i \in CallsOn(r) : stack'[i] = stack[i] /\ i \in 1..Len(stack)
    BY <1>1 DEF CallsOn
<1>5. ASSUME NEW r \in Remotes, r # f.remote
      PROVE  Used(r)' = Used(r) /\ (CallsDiffer(r) => CallsDiffer(r)')
    BY <1>3, <1>4, <1>5 DEF Used, CallsDiffer
<1>6. f.remote \in Remotes
    BY DEF Frame
<1>7. ASSUME f.packet \notin Used(f.remote), CallsDiffer(f.remote)
      PROVE  Used(f.remote)' = Used(f.remote) \cup {f.packet} /\ CallsDiffer(f.remote)'
  <2>1. CallsOn(f.remote)' = CallsOn(f.remote) \cup {Len(stack) + 1}
    BY <1>3, <1>6
  <2>2. \A i \in CallsOn(f.remote) : stack'[i].packet = stack[i].packet
                                     /\ stack[i].packet # f.packet
    BY <1>4, <1>6, <1>7 DEF Used
  <2>3. stack'[Len(stack) + 1].packet = f.packet
    BY <1>1
  <2>4. CallsDiffer(f.remote)'
    BY <2>1, <2>2, <2>3, <1>7 DEF CallsDiffer
  <2>5. Used(f.remote)' = {stack'[i].packet : i \in CallsOn(f.remote) \cup {Len(stack) + 1}}
    BY <2>1 DEF Used
  <2>6. {stack'[i].packet : i \in CallsOn(f.remote)} = Used(f.remote)
    BY <2>2 DEF Used
  <2>7. {stack'[i].packet : i \in CallsOn(f.remote) \cup {Len(stack) + 1}}
        = {stack'[i].packet : i \in CallsOn(f.remote)} \cup {stack'[Len(stack) + 1].packet}
    OBVIOUS
  <2> QED
    BY <2>3, <2>4, <2>5, <2>6, <2>7
<1> QED
    BY <1>1, <1>2, <1>5, <1>7

LEMMA PopFrame ==
    ASSUME stack \in Seq(Frame), stack # <<>>, stack' = Popped
    PROVE  /\ stack' \in Seq(Frame) /\ Top \in Frame
           /\ Len(stack) \in Nat \ {0} /\ DOMAIN stack = 1..Len(stack)
           /\ Len(stack') = Len(stack) - 1 /\ DOMAIN stack' = 1..(Len(stack) - 1)
           /\ \A i \in 1..(Len(stack) - 1) : stack'[i] = stack[i]
           /\ Top.packet \in Used(Top.remote)
           /\ \A r \in Remotes : /\ r # Top.remote => Used(r)' = Used(r)
                                 /\ CallsDiffer(r) => CallsDiffer(r)'
           /\ \A r \in Remotes : r = Top.remote /\ CallsDiffer(r) =>
                                 Used(r)' = Used(r) \ {Top.packet}
<1> DEFINE n == Len(stack)
<1>1. /\ stack' \in Seq(Frame)
      /\ n \in Nat \ {0} /\ DOMAIN stack = 1..n
      /\ Len(stack') = n - 1 /\ DOMAIN stack' = 1..(n - 1)
      /\ \A i \in 1..(n - 1) : stack'[i] = stack[i]
  <2>1. Popped = SubSeq(stack, 1, Len(stack) - 1)
    BY DEF Popped
  <2> QED
    BY <2>1, PoppedFacts
<1>2. Top \in Frame /\ Top.remote \in Remotes
  <2>1. Top \in Frame
    BY <1>1 DEF Top
  <2> QED
    BY <2>1 DEF Frame
<1>3. \A r \in Remotes : CallsOn(r)' = CallsOn(r) \ {n}
    BY <1>1 DEF CallsOn
<1>4. n \in CallsOn(Top.remote)
    BY <1>1 DEF CallsOn, Top
<1>5. \A r \in Remotes : r # Top.remote => n \notin CallsOn(r)
    BY DEF CallsOn, Top
<1>6. \A r \in Remotes : \A i \in CallsOn(r) \ {n} : stack'[i] = stack[i]
    BY <1>1 DEF CallsOn
<1>7. Top.packet \in Used(Top.remote)
    BY <1>4 DEF Used, Top
<1>8. ASSUME NEW r \in Remotes
      PROVE  /\ r # Top.remote => Used(r)' = Used(r)
             /\ CallsDiffer(r) => CallsDiffer(r)'
    BY <1>3, <1>5, <1>6 DEF Used, CallsDiffer
<1>9. ASSUME NEW r \in Remotes, r = Top.remote, CallsDiffer(r)
      PROVE  Used(r)' = Used(r) \ {Top.packet}
  <2>1. \A i \in CallsOn(r) : i # n <=> stack[i].packet # Top.packet
    BY <1>4, <1>9 DEF CallsDiffer, Top
  <2>2. Used(r)' = {stack[i].packet : i \in CallsOn(r) \ {n}}
    BY <1>3, <1>6 DEF Used
  <2> QED
    BY <2>1, <2>2 DEF Used
<1> HIDE DEF n
<1> QED
    BY <1>1, <1>2, <1>7, <1>8, <1>9 DEF n

-----------------------------------------------------------------------------
(* Every step preserves IInv. *)

LEMMA FrameFacts ==
    ASSUME stack \in Seq(Frame), NEW i \in DOMAIN stack
    PROVE  /\ i \in 1..Len(stack)
           /\ stack[i].remote \in Remotes /\ stack[i].packet \in Packets
           /\ stack[i].name \in Names /\ stack[i].args \in ArgLists
           /\ stack[i].phase \in {"running", "replied"}
<1>1. i \in 1..Len(stack) /\ stack[i] \in Frame
    OBVIOUS
<1> QED
    BY <1>1 DEF Frame

NoneReplied == \A i \in DOMAIN stack : stack[i].phase = "running"

LEMMA InitEstablishesIInv == Init => IInv
<1> SUFFICES ASSUME Init PROVE IInv
    OBVIOUS
<1> USE DEF Init
<1>1. DOMAIN stack = {} /\ stack = <<>> /\ stack \in Seq(Frame)
    OBVIOUS
<1>2. PoolSize \in Nat \ {0} /\ Nothing \notin Packets /\ Packets = 1..PoolSize
    BY RpcAssumption DEF Packets
<1> DEFINE f == [i \in Packets |-> PoolSize + 1 - i]
<1>3. \A i \in Packets : PoolSize + 1 - i \in Packets
    BY <1>2
<1>4. f \in Seq(Packets) /\ DOMAIN f = Packets
    BY <1>2, <1>3
<1>5. Unrepeated(f)
    BY <1>2 DEF Unrepeated
<1>6. ToSet(f) = Packets
  <2>1. \A p \in Packets : PoolSize + 1 - p \in Packets /\ f[PoolSize + 1 - p] = p
    BY <1>2
  <2> QED
    BY <1>3, <2>1 DEF ToSet
<1>7. TypeOK
  <2>1. free \in [Remotes -> Seq(Packets)]
    BY <1>4
  <2> QED
    BY <1>1, <2>1 DEF TypeOK, None, Contents
<1>8. PacketsAccounted
  <2>1. \A r \in Remotes : CallsOn(r) = {} /\ Used(r) = {}
    BY <1>1 DEF CallsOn, Used
  <2>2. \A r \in Remotes : free[r] = f /\ slot[r] = Nothing
    OBVIOUS
  <2>3. \A r \in Remotes : Accounts(free[r], Used(r), slot[r]) /\ CallsDiffer(r)
    BY <1>5, <1>6, <2>1, <2>2 DEF Accounts, CallsDiffer
  <2> QED
    BY <2>3, AccountsOfEach
<1>9. SlotIsForInnermost /\ OnlyInnermostReplied /\ AnswerInSlot
    BY <1>1 DEF SlotIsForInnermost, OnlyInnermostReplied, AnswerInSlot
<1>10. PassedOn /\ CalledAsBound /\ Found
    BY <1>1 DEF PassedOn, ArgumentsArrive, CalledAsBound, Found
<1>11. HeldIntact
    BY DEF HeldIntact
<1> QED
    BY <1>7, <1>8, <1>9, <1>10, <1>11 DEF IInv

LEMMA WhileRunning ==
    ASSUME IInv, exc # None \/ Running
    PROVE  NoneReplied /\ \A r \in Remotes : slot[r] = Nothing
<1>1. stack \in Seq(Frame)
    BY DEF IInv, TypeOK
<1>2. \A i \in DOMAIN stack : i \in 1..Len(stack) /\ stack[i].phase \in {"running", "replied"}
    BY <1>1, FrameFacts
<1>3. NoneReplied
    BY <1>2 DEF IInv, OnlyInnermostReplied, Running, Top, NoneReplied
<1>4. stack # <<>> => Len(stack) \in DOMAIN stack
    BY <1>1
<1>5. \A r \in Remotes : slot[r] = Nothing
    BY <1>3, <1>4 DEF IInv, SlotIsForInnermost, NoneReplied, Top
<1> QED
    BY <1>3, <1>5

\* Steps that leave the calls and the packets alone: Bind, Throw, Catch.
LEMMA SameCalls ==
    ASSUME IInv, UNCHANGED <<stack, free, slot, content, held, old>>,
           TypeOK', NoneReplied \/ exc' = None,
           \A n \in Names : items[n] # Nothing => items'[n] = items[n]
    PROVE  IInv'
<1>1. \A i \in DOMAIN stack : stack[i].name \in Names
    BY FrameFacts DEF IInv, TypeOK
<1>2. CalledAsBound' /\ Found'
    BY <1>1 DEF IInv, CalledAsBound, Found, Types
<1>3. OnlyInnermostReplied'
    BY DEF IInv, OnlyInnermostReplied, NoneReplied
<1>4. SlotIsForInnermost' /\ AnswerInSlot' /\ PassedOn'
    BY DEF IInv, SlotIsForInnermost, AnswerInSlot, PassedOn, ArgumentsArrive, Top
<1>5. PacketsAccounted'
    BY DEF IInv, PacketsAccounted, Busy, CallsOn
<1>6. HeldIntact'
    BY DEF IInv, HeldIntact, Top
<1> QED
    BY <1>2, <1>3, <1>4, <1>5, <1>6 DEF IInv

LEMMA BindStep ==
    ASSUME IInv, NEW name \in Names, NEW sig \in Signatures, Bind(name, sig)
    PROVE  IInv'
<1>1. NoneReplied
    BY WhileRunning DEF Bind
<1>2. TypeOK'
    BY DEF IInv, TypeOK, Bind
<1>3. \A n \in Names : items[n] # Nothing => items'[n] = items[n]
    BY DEF IInv, TypeOK, Bind
<1> QED
    BY <1>1, <1>2, <1>3, SameCalls DEF Bind

LEMMA ThrowStep == ASSUME IInv, Throw PROVE IInv'
<1>1. NoneReplied
    BY WhileRunning DEF Throw
<1>2. TypeOK'
    BY DEF IInv, TypeOK, Throw
<1> QED
    BY <1>1, <1>2, SameCalls DEF Throw

LEMMA CatchStep == ASSUME IInv, Catch PROVE IInv'
<1>1. TypeOK'
    BY DEF IInv, TypeOK, Catch
<1> QED
    BY <1>1, SameCalls DEF Catch

LEMMA CallRefusedStep ==
    ASSUME IInv, Running, NEW r \in Remotes, NEW name, NEW args,
           free[r] = <<>> \/ Reception(name, args) # None,
           CallRefused(r, name, args)
    PROVE  IInv'
<1>1. NoneReplied
    BY WhileRunning
<1>2. exc' \in {"ERR_OUT_OF_PACKETS", "ERR_PACKET_FULL", "ERR_RPC_NOT_FOUND",
                "ERR_PARAM_NUM_MISMATCH", "ERR_PARAM_TYPE_MISMATCH",
                "ERR_BAD_VALUE_ACCESS"}
    BY DEF CallRefused, Reception, Check
<1>3. content' \in [Remotes -> [Packets -> Contents]]
    BY DEF CallRefused, IInv, TypeOK, Contents
<1>4. TypeOK'
    BY <1>2, <1>3 DEF CallRefused, IInv, TypeOK
<1>5. stack # <<>> => Top.phase = "running"
    BY DEF Running
<1>6. OnlyInnermostReplied' /\ SlotIsForInnermost' /\ PassedOn' /\ AnswerInSlot'
    BY <1>1, <1>5 DEF CallRefused, IInv, OnlyInnermostReplied, NoneReplied,
                      SlotIsForInnermost, PassedOn, ArgumentsArrive, AnswerInSlot,
                      Top
<1>7. PacketsAccounted' /\ CalledAsBound' /\ Found'
    BY DEF CallRefused, IInv, PacketsAccounted, Busy, CallsOn, CalledAsBound, Found
<1>8. HeldIntact'
  <2> SUFFICES ASSUME NEW h \in held, h \notin old
               PROVE  content'[h.remote][h.packet] = content[h.remote][h.packet]
    BY DEF CallRefused, IInv, HeldIntact, Top
  <2>1. h.remote \in Remotes /\ h.packet \in Packets /\ Head(free[h.remote]) # h.packet
    BY DEF IInv, TypeOK, HeldIntact, Held
  <2> QED
    BY <2>1 DEF CallRefused, IInv, TypeOK
<1> QED
    BY <1>4, <1>6, <1>7, <1>8 DEF IInv

\* What is read through the pointer of a string.
LEMMA ReadFacts ==
    ASSUME IInv, NEW h \in held
    PROVE  Read(h) \in Contents /\ (h \notin old => Read(h) = h.value)
<1>1. Read(h) \in Contents
    BY DEF Read, Contents, Results
<1>2. h.value \in Strings
    BY DEF IInv, TypeOK, Held
<1> QED
    BY <1>1, <1>2 DEF Read, IInv, HeldIntact

\* The arguments are in the packet of the call as the caller gave them, but for old
\* strings.
LEMMA TextIntact ==
    ASSUME IInv, NEW r \in Remotes, free[r] # <<>>, NEW args \in ArgLists,
           NEW from \in Sources(args)
    PROVE  LET text == Written(args, from, r, Head(free[r]))
           IN  /\ args \in Seq(Arguments) /\ text \in Seq(Received)
               /\ DOMAIN text = DOMAIN args
               /\ \A i \in DOMAIN args : text[i].type = args[i].type
               /\ \A i \in DOMAIN args : from[i] \notin old => text[i] = args[i]
<1> DEFINE text == Written(args, from, r, Head(free[r]))
<1>1. args \in Seq(Arguments) /\ DOMAIN args = 1..Len(args) /\ Len(args) \in Nat
  <2>1. args \in Seq(Arguments)
    BY RpcAssumption
  <2> QED
    BY <2>1
<1>2. DOMAIN text = DOMAIN args
    BY DEF Written
<1>3. ASSUME NEW i \in DOMAIN args
      PROVE  /\ text[i] \in Received /\ text[i].type = args[i].type
             /\ from[i] \notin old => text[i] = args[i]
  <2>1. args[i] \in Arguments
    BY <1>1
  <2>2. /\ from[i] \in held \cup {Nothing}
        /\ from[i] # Nothing => from[i].value = args[i].v
    BY DEF Sources, Pointers, Own
  <2>3. args[i] \in Received
    BY <2>1 DEF Arguments, Received, Contents
  <2>4. ASSUME NEW x \in Contents
        PROVE  /\ [args[i] EXCEPT !.v = x] \in Received
               /\ [args[i] EXCEPT !.v = x].type = args[i].type
               /\ x = args[i].v => [args[i] EXCEPT !.v = x] = args[i]
    BY <2>1 DEF Arguments, Received
  <2>5. CASE from[i] = Nothing
    BY <2>3, <2>5 DEF Written
  <2>6. CASE from[i] # Nothing
    <3>1. from[i] \in held
      BY <2>2, <2>6
    <3>2. Read(from[i]) \in Contents /\ (from[i] \notin old => Read(from[i]) = args[i].v)
      BY <2>2, <2>6, <3>1, ReadFacts
    <3>3. Garbled \in Contents
      BY DEF Contents
    <3>4. from[i] \notin old => ~(<<from[i].remote, from[i].packet>> = <<r, Head(free[r])>>)
      BY <3>1 DEF IInv, HeldIntact
    <3>5. text[i] = IF <<from[i].remote, from[i].packet>> = <<r, Head(free[r])>>
                    THEN [args[i] EXCEPT !.v = Garbled]
                    ELSE [args[i] EXCEPT !.v = Read(from[i])]
      BY <2>6 DEF Written
    <3> HIDE DEF text
    <3> QED
      BY <2>4, <3>2, <3>3, <3>4, <3>5
  <2> QED
    BY <2>5, <2>6
<1>4. text \in Seq(Received)
  <2>1. text = [i \in 1..Len(args) |-> text[i]]
    BY <1>1 DEF Written
  <2>2. \A i \in 1..Len(args) : text[i] \in Received
    BY <1>1, <1>3
  <2> HIDE DEF text
  <2> QED
    BY <1>1, <2>1, <2>2
<1> QED
    BY <1>1, <1>2, <1>3, <1>4

\* Whatever the order, the types are passed as those of the arguments are.
LEMMA PassedFacts ==
    ASSUME NEW args \in Seq(Arguments), NEW text \in Seq(Received),
           DOMAIN text = DOMAIN args,
           \A i \in DOMAIN args : text[i].type = args[i].type
    PROVE  Passed(text) \in Seq(Received) /\ Types(Passed(text)) = Types(Passed(args))
<1>1. Passed(text) \in Seq(Received)
    BY ReverseType DEF Passed
<1>2. Len(text) = Len(args) /\ Len(args) \in Nat /\ DOMAIN args = 1..Len(args)
    OBVIOUS
<1>3. CASE RightToLeft
    BY <1>1, <1>3 DEF Passed, Types
<1>4. CASE ~RightToLeft
  <2>1. /\ Reverse(text) = [i \in 1..Len(args) |-> text[(Len(args) - i) + 1]]
        /\ Reverse(args) = [i \in 1..Len(args) |-> args[(Len(args) - i) + 1]]
    BY <1>2 DEF Reverse
  <2>2. \A i \in 1..Len(args) : (Len(args) - i) + 1 \in DOMAIN args
    BY <1>2
  <2>3. \A i \in 1..Len(args) :
            text[(Len(args) - i) + 1].type = args[(Len(args) - i) + 1].type
    BY <2>2
  <2>4. Types(Reverse(text)) = Types(Reverse(args))
    BY <2>1, <2>3 DEF Types
  <2> QED
    BY <1>1, <1>4, <2>4 DEF Passed
<1> QED
    BY <1>3, <1>4

LEMMA CallReceivedStep ==
    ASSUME IInv, Running, NEW r \in Remotes, NEW name \in Names, NEW args \in ArgLists,
           NEW from \in Sources(args),
           free[r] # <<>>, Reception(name, args) = None,
           CallReceived(r, name, args, from)
    PROVE  IInv'
<1> DEFINE p == Head(free[r])
           text == Written(args, from, r, p)
           f == [remote |-> r, packet |-> p, name |-> name, args |-> args,
                 outdated |-> {i \in DOMAIN args : from[i] \in old},
                 passed |-> Passed(text), phase |-> "running", answer |-> Nothing]
<1>1. NoneReplied /\ slot[r] = Nothing
    BY WhileRunning
<1>2. free[r] \in Seq(Packets) /\ stack \in Seq(Frame)
    BY DEF IInv, TypeOK
<1>3. p \in Packets
    BY <1>2
<1>4. Accounts(free[r], Used(r), slot[r]) /\ CallsDiffer(r)
    BY AccountsOfEach DEF IInv
<1>5. p \notin Used(r) /\ Accounts(Tail(free[r]), Used(r) \cup {p}, slot[r])
  <2>1. slot[r] \in Packets \cup {Nothing}
    BY <1>1
  <2> QED
    BY <1>2, <1>4, <2>1, TakeForCall
<1>6. /\ args \in Seq(Arguments) /\ text \in Seq(Received)
      /\ DOMAIN text = DOMAIN args
      /\ \A i \in DOMAIN args : text[i].type = args[i].type
      /\ \A i \in DOMAIN args : from[i] \notin old => text[i] = args[i]
    BY TextIntact
<1> HIDE DEF text
<1>7. Passed(text) \in Seq(Received) /\ Types(Passed(text)) = Types(Passed(args))
    BY <1>6, PassedFacts
<1>8. f \in Frame
  <2>1. {i \in DOMAIN args : from[i] \in old} \in SUBSET Nat
    BY <1>6
  <2> QED
    BY <1>3, <1>7, <2>1 DEF Frame, Contents
<1>9. stack' = Append(stack, f)
    BY DEF CallReceived, text
<1>10. /\ f.remote = r /\ f.packet = p /\ f.name = name /\ f.args = args
       /\ f.outdated = {i \in DOMAIN args : from[i] \in old}
       /\ f.passed = Passed(text) /\ f.phase = "running"
    OBVIOUS
<1> HIDE DEF f
<1>11. /\ stack' \in Seq(Frame) /\ stack' # <<>>
       /\ DOMAIN stack = 1..Len(stack) /\ Len(stack) \in Nat
       /\ Len(stack') = Len(stack) + 1 /\ DOMAIN stack' = 1..(Len(stack) + 1)
       /\ \A i \in 1..Len(stack) : stack'[i] = stack[i]
       /\ stack'[Len(stack) + 1] = f /\ Top' = f
       /\ \A q \in Remotes : q # r =>
              Used(q)' = Used(q) /\ (CallsDiffer(q) => CallsDiffer(q)')
       /\ Used(r)' = Used(r) \cup {p} /\ CallsDiffer(r)'
    BY <1>2, <1>4, <1>5, <1>8, <1>9, <1>10, PushFrame
<1>12. NoneReplied'
    BY <1>1, <1>10, <1>11 DEF NoneReplied
<1>13. TypeOK'
  <2>1. Tail(free[r]) \in Seq(Packets)
    BY <1>2
  <2>2. free' \in [Remotes -> Seq(Packets)]
    BY <2>1 DEF CallReceived, Taken, IInv, TypeOK
  <2>3. content' \in [Remotes -> [Packets -> Contents]]
    BY DEF CallReceived, IInv, TypeOK, Contents
  <2>4. held' \subseteq Held /\ old' \subseteq held'
    BY DEF CallReceived, IInv, TypeOK
  <2> QED
    BY <1>11, <2>2, <2>3, <2>4 DEF CallReceived, IInv, TypeOK
<1>14. OnlyInnermostReplied' /\ AnswerInSlot'
    BY <1>10, <1>11, <1>12 DEF OnlyInnermostReplied, NoneReplied, AnswerInSlot
<1>15. SlotIsForInnermost'
  <2>1. \A q \in Remotes : slot'[q] = Nothing
    BY WhileRunning DEF CallReceived
  <2> QED
    BY <1>10, <1>11, <2>1 DEF SlotIsForInnermost
<1>16. PacketsAccounted'
  <2> SUFFICES ASSUME NEW q \in Remotes
               PROVE  Accounts(free'[q], Used(q)', slot'[q]) /\ CallsDiffer(q)'
    BY AccountsOfEachNext
  <2>1. CASE q = r
    BY <1>5, <1>11, <2>1 DEF CallReceived, Taken, IInv, TypeOK
  <2>2. CASE q # r
    BY <1>11, <2>2, AccountsOfEach DEF CallReceived, Taken, IInv, TypeOK
  <2> QED
    BY <2>1, <2>2
<1>17. PassedOn'
  <2> SUFFICES ASSUME RightToLeft, NEW i \in DOMAIN stack'
               PROVE  /\ DOMAIN stack'[i].passed = DOMAIN stack'[i].args
                      /\ \A j \in DOMAIN stack'[i].args \ stack'[i].outdated :
                             stack'[i].passed[j] = stack'[i].args[j]
    BY DEF PassedOn, ArgumentsArrive
  <2>1. CASE i \in 1..Len(stack)
    BY <1>11, <2>1 DEF PassedOn, ArgumentsArrive, IInv
  <2>2. CASE i = Len(stack) + 1
    <3>1. stack'[i] = f /\ Passed(text) = text
      BY <1>11, <2>2 DEF Passed
    <3>2. DOMAIN f.passed = DOMAIN f.args
      BY <1>6, <1>10, <3>1
    <3>3. \A j \in DOMAIN args \ f.outdated : from[j] \notin old
      BY <1>10
    <3>4. \A j \in DOMAIN f.args \ f.outdated : f.passed[j] = f.args[j]
      BY <1>6, <1>10, <3>1, <3>3
    <3> QED
      BY <3>1, <3>2, <3>4
  <2> QED
    BY <1>11, <2>1, <2>2
<1>18. CalledAsBound' /\ Found'
  <2>1. items[name] # Nothing /\ items[name] = Types(Passed(args))
    BY DEF Reception, Check, None
  <2> QED
    BY <1>7, <1>10, <1>11, <2>1 DEF CalledAsBound, Found, IInv, CallReceived, Types
<1>19. HeldIntact'
  <2> SUFFICES ASSUME NEW h \in held
               PROVE  /\ h.level <= Len(stack')
                      /\ h \notin old' =>
                            /\ content'[h.remote][h.packet] = h.value
                            /\ free'[h.remote] # <<>>
                            /\ Head(free'[h.remote]) # h.packet
                            /\ \A i \in DOMAIN stack' :
                                   i > h.level => stack'[i].remote # h.remote
    BY <1>10, <1>11 DEF HeldIntact, CallReceived
  <2>1. h.level \in Nat /\ h.remote \in Remotes /\ h.level <= Len(stack)
    BY DEF IInv, TypeOK, HeldIntact, Held
  <2>2. h.level <= Len(stack')
    BY <1>11, <2>1
  <2>3. ASSUME h \notin old'
        PROVE  /\ content'[h.remote][h.packet] = h.value
               /\ free'[h.remote] # <<>>
               /\ Head(free'[h.remote]) # h.packet
               /\ \A i \in DOMAIN stack' : i > h.level => stack'[i].remote # h.remote
    <3>1. h \notin old /\ h.remote # r
      BY <2>3 DEF CallReceived
    <3>2. content'[h.remote] = content[h.remote] /\ free'[h.remote] = free[h.remote]
      BY <2>1, <3>1 DEF CallReceived, Taken, IInv, TypeOK
    <3>3. \A i \in DOMAIN stack' : i > h.level => stack'[i].remote # h.remote
      BY <1>10, <1>11, <3>1 DEF IInv, HeldIntact
    <3> QED
      BY <3>1, <3>2, <3>3 DEF IInv, HeldIntact
  <2> QED
    BY <2>2, <2>3
<1> QED
    BY <1>13, <1>14, <1>15, <1>16, <1>17, <1>18, <1>19 DEF IInv

\* The innermost call ends without an answer and its packet goes back.
GivenUp ==
    /\ stack # <<>> /\ NoneReplied
    /\ stack' = Popped
    /\ free' = Recycled(Top.remote, <<Top.packet>>)
    /\ ForgetOwn
    /\ UNCHANGED <<items, slot>>

LEMMA GivenUpStep ==
    ASSUME IInv, GivenUp, \A r \in Remotes : slot[r] = Nothing,
           content' \in [Remotes -> [Packets -> Contents]],
           \A q \in Remotes : q # Top.remote => content'[q] = content[q],
           exc' \in {exc, "ERR_OUT_OF_PACKETS", "ERR_PACKET_FULL"}
    PROVE  IInv'
<1>1. stack \in Seq(Frame) /\ stack # <<>> /\ stack' = Popped
    BY DEF IInv, TypeOK, GivenUp
<1> DEFINE r == Top.remote
           p == Top.packet
<1>2. /\ stack' \in Seq(Frame) /\ Top \in Frame
      /\ Len(stack) \in Nat \ {0} /\ DOMAIN stack = 1..Len(stack)
      /\ Len(stack') = Len(stack) - 1 /\ DOMAIN stack' = 1..(Len(stack) - 1)
      /\ \A i \in 1..(Len(stack) - 1) : stack'[i] = stack[i]
      /\ p \in Used(r)
      /\ \A q \in Remotes : /\ q # r => Used(q)' = Used(q)
                            /\ CallsDiffer(q) => CallsDiffer(q)'
                            /\ q = r /\ CallsDiffer(q) => Used(q)' = Used(q) \ {p}
    BY <1>1, PopFrame
<1>3. r \in Remotes
    BY <1>2 DEF Frame
<1>4. free[r] \in Seq(Packets) /\ slot[r] \in Packets \cup {Nothing}
    BY <1>3 DEF IInv, TypeOK
<1>5. \A q \in Remotes : Accounts(free[q], Used(q), slot[q]) /\ CallsDiffer(q)
    BY AccountsOfEach DEF IInv
<1>6. /\ Accounts(<<p>> \o free[r], Used(r) \ {p}, slot[r])
      /\ p \in Packets /\ p \notin ToSet(free[r])
    BY <1>2, <1>3, <1>4, <1>5, GiveBack
<1>7. NoneReplied' /\ (stack' # <<>> => Top'.phase = "running")
  <2>1. NoneReplied'
    BY <1>2 DEF GivenUp, NoneReplied
  <2>2. stack' # <<>> => Len(stack') \in DOMAIN stack'
    BY <1>2
  <2> QED
    BY <2>1, <2>2 DEF NoneReplied, Top
<1>8. TypeOK'
  <2>1. <<p>> \o free[r] \in Seq(Packets)
    BY <1>4, <1>6
  <2>2. free' \in [Remotes -> Seq(Packets)]
    BY <2>1 DEF GivenUp, Recycled, IInv, TypeOK
  <2> QED
    BY <1>2, <2>2 DEF GivenUp, ForgetOwn, IInv, TypeOK
<1>9. OnlyInnermostReplied' /\ AnswerInSlot' /\ SlotIsForInnermost'
    BY <1>7 DEF OnlyInnermostReplied, NoneReplied, AnswerInSlot, SlotIsForInnermost, GivenUp
<1>10. PacketsAccounted'
  <2> SUFFICES ASSUME NEW q \in Remotes
               PROVE  Accounts(free'[q], Used(q)', slot'[q]) /\ CallsDiffer(q)'
    BY AccountsOfEachNext
  <2>1. CASE q = r
    BY <1>2, <1>5, <1>6, <2>1 DEF GivenUp, Recycled, IInv, TypeOK
  <2>2. CASE q # r
    BY <1>2, <1>5, <2>2 DEF GivenUp, Recycled, IInv, TypeOK
  <2> QED
    BY <2>1, <2>2
<1>11. PassedOn' /\ CalledAsBound' /\ Found'
    BY <1>2 DEF PassedOn, ArgumentsArrive, CalledAsBound, Found, IInv, GivenUp
<1>12. HeldIntact'
  <2> SUFFICES ASSUME NEW h \in held, h \notin Own
               PROVE  /\ h.level <= Len(stack')
                      /\ h \notin old =>
                            /\ content'[h.remote][h.packet] = h.value
                            /\ free'[h.remote] # <<>>
                            /\ Head(free'[h.remote]) # h.packet
                            /\ \A i \in DOMAIN stack' :
                                   i > h.level => stack'[i].remote # h.remote
    BY <1>7 DEF HeldIntact, GivenUp, ForgetOwn
  <2>1. h.level \in Nat /\ h.remote \in Remotes /\ h.level < Len(stack)
    <3>1. h.level \in Nat /\ h.remote \in Remotes
      BY DEF IInv, TypeOK, Held
    <3>2. h.level <= Len(stack) /\ h.level # Len(stack)
      BY DEF IInv, HeldIntact, Own
    <3> QED
      BY <1>2, <3>1, <3>2
  <2>2. ASSUME h \notin old
        PROVE  /\ content'[h.remote][h.packet] = h.value
               /\ free'[h.remote] # <<>>
               /\ Head(free'[h.remote]) # h.packet
               /\ \A i \in DOMAIN stack' : i > h.level => stack'[i].remote # h.remote
    <3>1. h.remote # r
      BY <1>2, <2>1, <2>2 DEF IInv, HeldIntact, Top
    <3>2. content'[h.remote] = content[h.remote] /\ free'[h.remote] = free[h.remote]
      BY <2>1, <3>1 DEF GivenUp, Recycled, IInv, TypeOK
    <3>3. \A i \in DOMAIN stack' : i \in DOMAIN stack /\ stack'[i] = stack[i]
      BY <1>2
    <3> QED
      BY <2>2, <3>2, <3>3 DEF IInv, HeldIntact
  <2> QED
    BY <1>2, <2>1, <2>2
<1> QED
    BY <1>8, <1>9, <1>10, <1>11, <1>12 DEF IInv

LEMMA UnwindStep == ASSUME IInv, Unwind PROVE IInv'
<1>1. GivenUp
    BY WhileRunning DEF Unwind, GivenUp
<1>2. \A r \in Remotes : slot[r] = Nothing
    BY WhileRunning DEF Unwind
<1> QED
    BY <1>1, <1>2, GivenUpStep DEF Unwind, IInv, TypeOK

LEMMA ReplyFailsStep ==
    ASSUME IInv, Running, stack # <<>>, NEW e \in {"ERR_OUT_OF_PACKETS", "ERR_PACKET_FULL"},
           ReplyFails(e),
           content' \in [Remotes -> [Packets -> Contents]],
           \A q \in Remotes : q # Top.remote => content'[q] = content[q]
    PROVE  IInv'
<1>1. GivenUp
    BY WhileRunning DEF ReplyFails, GivenUp
<1>2. \A r \in Remotes : slot[r] = Nothing
    BY WhileRunning
<1>3. exc' \in {exc, "ERR_OUT_OF_PACKETS", "ERR_PACKET_FULL"}
    BY DEF ReplyFails
<1> QED
    BY <1>1, <1>2, <1>3, GivenUpStep

\* What a function returns is copied before anything is written over it.
LEMMA CopyIntact ==
    ASSUME IInv, NEW v \in Results, NEW h \in Pointers(v)
    PROVE  Copied(v, h) = Answer(v, h) /\ Answer(v, h) \in Contents
<1>1. v \in Contents
    BY DEF Contents
<1>2. CASE h = Nothing
    BY <1>1, <1>2 DEF Copied, Answer
<1>3. CASE h # Nothing
  <2>1. h \in held /\ h.value = v
    BY <1>3 DEF Pointers, Own
  <2> QED
    BY <1>1, <1>3, <2>1, ReadFacts DEF Copied, Answer
<1> QED
    BY <1>2, <1>3

LEMMA ReplyStep ==
    ASSUME IInv, Running, stack # <<>>, NEW v \in Results, NEW h \in Pointers(v),
           free[Top.remote] # <<>>, Reply(v, h)
    PROVE  IInv'
<1> DEFINE n == Len(stack)
           r == Top.remote
           p == Head(free[r])
           a == Answer(v, h)
<1>1. NoneReplied /\ \A q \in Remotes : slot[q] = Nothing
    BY WhileRunning
<1>2. stack \in Seq(Frame) /\ n \in Nat \ {0} /\ DOMAIN stack = 1..n /\ n \in DOMAIN stack
  <2>1. stack \in Seq(Frame)
    BY DEF IInv, TypeOK
  <2> QED
    BY <2>1
<1>3. r \in Remotes /\ Top = stack[n]
  <2>1. stack[n].remote \in Remotes
    BY <1>2, FrameFacts
  <2> QED
    BY <2>1 DEF Top
<1>4. free[r] \in Seq(Packets)
    BY <1>3 DEF IInv, TypeOK
<1>5. p \in Packets /\ Tail(free[r]) \in Seq(Packets)
    BY <1>4
<1>6. \A q \in Remotes : Accounts(free[q], Used(q), Nothing) /\ CallsDiffer(q)
    BY <1>1, AccountsOfEach DEF IInv
<1>7. Accounts(Tail(free[r]), Used(r), p)
    BY <1>3, <1>4, <1>6, TakeForReply
<1>8. /\ stack' = [stack EXCEPT ![n].phase = "replied", ![n].answer = a]
      /\ slot' = [slot EXCEPT ![r] = p]
      /\ free' = [free EXCEPT ![r] = Tail(@)]
      /\ content' = [content EXCEPT ![r][p] = a]
      /\ UNCHANGED <<items, exc, last>> /\ ForgetOwn
  <2>1. free' = [free EXCEPT ![r] = Tail(@)]
    BY <1>1, <1>3 DEF Reply, IInv, TypeOK
  <2> QED
    BY <2>1, CopyIntact DEF Reply
<1>9. \A i \in DOMAIN stack : stack[i] \in Frame
    BY <1>2
<1> HIDE DEF a
<1>23. a \in Contents
    BY CopyIntact DEF a
<1> DEFINE g == [stack[n] EXCEPT !.phase = "replied", !.answer = a]
<1>10. g \in Frame
    BY <1>2, <1>9, <1>23 DEF Frame
<1>11. g.phase = "replied" /\ g.answer = a /\ g.remote = r
    BY <1>2, <1>3, <1>9 DEF Frame
<1>12. stack' = [stack EXCEPT ![n] = g]
    BY <1>2, <1>8, <1>9 DEF Frame
<1>13. /\ stack' \in Seq(Frame) /\ Len(stack') = n /\ DOMAIN stack' = DOMAIN stack
       /\ \A i \in DOMAIN stack : i # n => stack'[i] = stack[i]
       /\ stack'[n] = g
    BY <1>2, <1>10, <1>12
<1>14. \A i \in DOMAIN stack : /\ stack'[i].remote = stack[i].remote
                              /\ stack'[i].packet = stack[i].packet
                              /\ stack'[i].name = stack[i].name
                              /\ stack'[i].args = stack[i].args
                              /\ stack'[i].passed = stack[i].passed
                              /\ stack'[i].outdated = stack[i].outdated
  <2>1. /\ g.remote = stack[n].remote /\ g.packet = stack[n].packet
        /\ g.name = stack[n].name /\ g.args = stack[n].args
        /\ g.passed = stack[n].passed /\ g.outdated = stack[n].outdated
    BY <1>2, <1>9 DEF Frame
  <2> QED
    BY <1>13, <2>1
<1>15. Top' = g /\ stack' # <<>>
    BY <1>2, <1>13 DEF Top
<1> HIDE DEF g
<1>16. TypeOK'
  <2>1. free' \in [Remotes -> Seq(Packets)]
    BY <1>5, <1>8 DEF IInv, TypeOK
  <2>2. slot' \in [Remotes -> Packets \cup {Nothing}]
    BY <1>5, <1>8 DEF IInv, TypeOK
  <2>3. content' \in [Remotes -> [Packets -> Contents]]
    BY <1>8, <1>23 DEF IInv, TypeOK
  <2>4. held' \subseteq Held /\ old' \subseteq held'
    BY <1>8 DEF ForgetOwn, IInv, TypeOK
  <2> QED
    BY <1>8, <1>13, <2>1, <2>2, <2>3, <2>4 DEF IInv, TypeOK
<1>17. OnlyInnermostReplied'
  <2>1. \A i \in DOMAIN stack : i # n => stack'[i].phase = "running"
    BY <1>1, <1>13 DEF NoneReplied
  <2> QED
    BY <1>8, <1>13, <2>1 DEF OnlyInnermostReplied, Running
<1>18. SlotIsForInnermost'
  <2>1. p # Nothing
    BY <1>5, RpcAssumption
  <2>2. \A q \in Remotes : slot'[q] # Nothing <=> q = r
    BY <1>1, <1>3, <1>8, <2>1 DEF IInv, TypeOK
  <2> QED
    BY <1>11, <1>15, <2>2 DEF SlotIsForInnermost
<1>19. AnswerInSlot'
  <2>1. slot'[r] = p /\ content'[r][p] = a
    BY <1>3, <1>5, <1>8 DEF IInv, TypeOK
  <2> QED
    BY <1>11, <1>15, <2>1 DEF AnswerInSlot
<1>20. PacketsAccounted'
  <2> SUFFICES ASSUME NEW q \in Remotes
               PROVE  Accounts(free'[q], Used(q)', slot'[q]) /\ CallsDiffer(q)'
    BY AccountsOfEachNext
  <2>1. CallsOn(q)' = CallsOn(q)
    BY <1>13, <1>14 DEF CallsOn
  <2>2. \A i \in CallsOn(q) : stack'[i].packet = stack[i].packet
    BY <1>14 DEF CallsOn
  <2>3. Used(q)' = Used(q) /\ CallsDiffer(q)'
    BY <1>6, <2>1, <2>2 DEF Used, CallsDiffer
  <2>4. q = r => free'[q] = Tail(free[r]) /\ slot'[q] = p
    BY <1>8 DEF IInv, TypeOK
  <2>5. q # r => free'[q] = free[q] /\ slot'[q] = Nothing
    BY <1>1, <1>8 DEF IInv, TypeOK
  <2> QED
    BY <1>6, <1>7, <2>3, <2>4, <2>5
<1>21. PassedOn' /\ CalledAsBound' /\ Found'
    BY <1>8, <1>13, <1>14 DEF PassedOn, ArgumentsArrive, CalledAsBound, Found, IInv
<1>22. HeldIntact'
  <2> SUFFICES ASSUME NEW k \in held, k \notin Own
               PROVE  /\ k.level <= Len(stack) /\ k.level # Len(stack)
                      /\ k \notin old =>
                            /\ content'[k.remote][k.packet] = k.value
                            /\ free'[k.remote] # <<>>
                            /\ Head(free'[k.remote]) # k.packet
                            /\ \A i \in DOMAIN stack' :
                                   i > k.level => stack'[i].remote # k.remote
    BY <1>8, <1>13 DEF HeldIntact, ForgetOwn
  <2>1. k.level \in Nat /\ k.remote \in Remotes /\ k.level < Len(stack)
    <3>1. k.level \in Nat /\ k.remote \in Remotes
      BY DEF IInv, TypeOK, Held
    <3>2. k.level <= Len(stack) /\ k.level # Len(stack)
      BY DEF IInv, HeldIntact, Own
    <3> QED
      BY <1>2, <3>1, <3>2
  <2>2. ASSUME k \notin old
        PROVE  /\ content'[k.remote][k.packet] = k.value
               /\ free'[k.remote] # <<>>
               /\ Head(free'[k.remote]) # k.packet
               /\ \A i \in DOMAIN stack' : i > k.level => stack'[i].remote # k.remote
    <3>1. k.remote # r
      BY <1>2, <1>3, <2>1, <2>2 DEF IInv, HeldIntact
    <3>2. content'[k.remote] = content[k.remote] /\ free'[k.remote] = free[k.remote]
      BY <1>8, <2>1, <3>1 DEF IInv, TypeOK
    <3> QED
      BY <1>13, <1>14, <2>2, <3>2 DEF IInv, HeldIntact
  <2> QED
    BY <2>1, <2>2
<1> QED
    BY <1>16, <1>17, <1>18, <1>19, <1>20, <1>21, <1>22 DEF IInv

LEMMA ReturnStep ==
    ASSUME IInv, NEW v \in Results, Return(v)
    PROVE  IInv'
<1>1. Running /\ stack # <<>>
    BY DEF Return
<1>2. CASE ReplyFails("ERR_OUT_OF_PACKETS") /\ UNCHANGED content
  <2>1. /\ content' \in [Remotes -> [Packets -> Contents]]
        /\ \A q \in Remotes : q # Top.remote => content'[q] = content[q]
    BY <1>2 DEF IInv, TypeOK
  <2> QED
    BY <1>1, <1>2, <2>1, ReplyFailsStep
<1>3. CASE /\ ReplyFails("ERR_PACKET_FULL")
           /\ content' = [content EXCEPT ![Top.remote][Head(free[Top.remote])] = Nothing]
  <2>1. /\ content' \in [Remotes -> [Packets -> Contents]]
        /\ \A q \in Remotes : q # Top.remote => content'[q] = content[q]
    BY <1>3 DEF IInv, TypeOK, Contents
  <2> QED
    BY <1>1, <1>3, <2>1, ReplyFailsStep
<1>4. CASE free[Top.remote] # <<>> /\ \E h \in Pointers(v) : Reply(v, h)
    BY <1>1, <1>4, ReplyStep
<1> QED
    BY <1>2, <1>3, <1>4 DEF Return

LEMMA TakeResultStep == ASSUME IInv, TakeResult PROVE IInv'
<1> DEFINE r == Top.remote
           c == Top.packet
           p == slot[r]
<1>1. stack \in Seq(Frame) /\ stack # <<>> /\ stack' = Popped
    BY DEF IInv, TypeOK, TakeResult
<1>2. /\ stack' \in Seq(Frame) /\ Top \in Frame
      /\ Len(stack) \in Nat \ {0} /\ DOMAIN stack = 1..Len(stack)
      /\ Len(stack') = Len(stack) - 1 /\ DOMAIN stack' = 1..(Len(stack) - 1)
      /\ \A i \in 1..(Len(stack) - 1) : stack'[i] = stack[i]
      /\ c \in Used(r)
      /\ \A q \in Remotes : /\ q # r => Used(q)' = Used(q)
                            /\ CallsDiffer(q) => CallsDiffer(q)'
                            /\ q = r /\ CallsDiffer(q) => Used(q)' = Used(q) \ {c}
    BY <1>1, PopFrame
<1>3. r \in Remotes
    BY <1>2 DEF Frame
<1>4. free[r] \in Seq(Packets) /\ p \in Packets
    BY <1>3 DEF IInv, TypeOK, TakeResult
<1>5. \A q \in Remotes : Accounts(free[q], Used(q), slot[q]) /\ CallsDiffer(q)
    BY AccountsOfEach DEF IInv
<1>6. /\ p \notin ToSet(free[r]) /\ Accounts(<<p>> \o free[r], Used(r), Nothing)
      /\ p \notin Used(r)
    BY <1>3, <1>4, <1>5, EmptySlot DEF Accounts
<1>7. <<p>> \o free[r] \in Seq(Packets)
    BY <1>4
<1>8. /\ Accounts(<<c>> \o (<<p>> \o free[r]), Used(r) \ {c}, Nothing)
      /\ c \in Packets /\ c \notin ToSet(<<p>> \o free[r])
  <2>1. Nothing \in Packets \cup {Nothing}
    OBVIOUS
  <2> QED
    BY <1>2, <1>6, <1>7, <2>1, GiveBack
<1>9. /\ <<c>> \o (<<p>> \o free[r]) = <<c, p>> \o free[r]
      /\ <<c, p>> \o free[r] \in Seq(Packets) /\ <<c, p>> \o free[r] # <<>>
      /\ Head(<<c, p>> \o free[r]) = c
    BY <1>4, <1>8
<1>10. c # p
    BY <1>2, <1>6
<1>11. \A q \in Remotes : free'[q] = IF q = r THEN <<c, p>> \o free[r] ELSE free[q]
    BY <1>3 DEF TakeResult, Recycled, IInv, TypeOK
<1>12. slot' = [slot EXCEPT ![r] = Nothing] /\ UNCHANGED <<items, content, exc>>
    BY DEF TakeResult
<1>13. \A q \in Remotes : slot'[q] = Nothing
    BY <1>12 DEF IInv, TypeOK, SlotIsForInnermost
<1>14. \A i \in DOMAIN stack' : stack'[i].phase = "running"
  <2> SUFFICES ASSUME NEW i \in DOMAIN stack' PROVE stack'[i].phase = "running"
    OBVIOUS
  <2>1. i \in DOMAIN stack /\ i # Len(stack) /\ stack'[i] = stack[i]
    BY <1>2
  <2> QED
    BY <1>1, <2>1, FrameFacts DEF IInv, OnlyInnermostReplied
<1>15. stack' # <<>> => Top'.phase = "running"
  <2>1. stack' # <<>> => Len(stack') \in DOMAIN stack'
    BY <1>2
  <2> QED
    BY <1>14, <2>1 DEF Top
<1>16. /\ held' \subseteq Held /\ old' \subseteq held'
       /\ \A h \in held' : h \in held \/ h \in Got(r, p)
       /\ \A h \in held' : h \notin old' => h \notin old \/ h \in Got(r, p)
  <2>1. /\ old' = (old \cap held') \ Got(r, p)
        /\ \E kept \in SUBSET (Callers \cup Got(r, p)) : held' = (held \ Callers) \cup kept
    BY DEF TakeResult, Keep
  <2>2. Callers \subseteq held
    BY DEF Callers
  <2>3. Got(r, p) \subseteq Held
    BY <1>2, <1>3, <1>4 DEF Got, Held
  <2> QED
    BY <2>1, <2>2, <2>3 DEF IInv, TypeOK
<1>17. TypeOK'
  <2>1. free' \in [Remotes -> Seq(Packets)]
    BY <1>9 DEF TakeResult, Recycled, IInv, TypeOK
  <2> QED
    BY <1>2, <1>12, <1>16, <2>1 DEF IInv, TypeOK
<1>18. OnlyInnermostReplied' /\ AnswerInSlot' /\ SlotIsForInnermost'
    BY <1>13, <1>14, <1>15 DEF OnlyInnermostReplied, AnswerInSlot, SlotIsForInnermost
<1>19. PacketsAccounted'
  <2> SUFFICES ASSUME NEW q \in Remotes
               PROVE  Accounts(free'[q], Used(q)', slot'[q]) /\ CallsDiffer(q)'
    BY AccountsOfEachNext
  <2>1. CASE q = r
    BY <1>2, <1>5, <1>8, <1>9, <1>11, <1>13, <2>1
  <2>2. CASE q # r
    BY <1>2, <1>5, <1>11, <1>12, <2>2 DEF IInv, TypeOK
  <2> QED
    BY <2>1, <2>2
<1>20. PassedOn' /\ CalledAsBound' /\ Found'
    BY <1>2, <1>12 DEF PassedOn, ArgumentsArrive, CalledAsBound, Found, IInv
<1>21. HeldIntact'
  <2> SUFFICES ASSUME NEW h \in held'
               PROVE  /\ h.level <= Len(stack')
                      /\ h \notin old' =>
                            /\ content[h.remote][h.packet] = h.value
                            /\ free'[h.remote] # <<>>
                            /\ Head(free'[h.remote]) # h.packet
                            /\ \A i \in DOMAIN stack' :
                                   i > h.level => stack'[i].remote # h.remote
    BY <1>12, <1>15 DEF HeldIntact
  <2>1. CASE h \in Got(r, p)
    <3>1. /\ h.level = Len(stack) - 1 /\ h.remote = r /\ h.packet = p
          /\ h.value = content[r][p]
      BY <2>1 DEF Got
    <3>2. \A i \in DOMAIN stack' : ~(i > h.level)
      BY <1>2, <3>1
    <3> QED
      <4>1. h.level <= Len(stack')
        BY <1>2, <3>1
      <4>2. free'[r] = <<c, p>> \o free[r]
        BY <1>3, <1>11
      <4> HIDE DEF c, p, r
      <4> QED
        BY <1>9, <1>10, <3>1, <3>2, <4>1, <4>2
  <2>2. CASE h \in held /\ h \notin Got(r, p)
    <3>1. h.level \in Nat /\ h.remote \in Remotes /\ h.level < Len(stack)
      BY <1>1, <1>2, <2>2 DEF IInv, TypeOK, HeldIntact, Held, TakeResult
    <3>2. ASSUME h \notin old'
          PROVE  /\ content[h.remote][h.packet] = h.value
                 /\ free'[h.remote] # <<>>
                 /\ Head(free'[h.remote]) # h.packet
                 /\ \A i \in DOMAIN stack' : i > h.level => stack'[i].remote # h.remote
      <4>1. h \notin old
        BY <1>16, <2>2, <3>2
      <4>2. h.remote # r
        BY <1>2, <2>2, <3>1, <4>1 DEF IInv, HeldIntact, Top
      <4>3. \A i \in DOMAIN stack' : i \in DOMAIN stack /\ stack'[i] = stack[i]
        BY <1>2
      <4>4. free'[h.remote] = free[h.remote]
        BY <1>11, <3>1, <4>2
      <4> QED
        BY <2>2, <4>1, <4>3, <4>4 DEF IInv, HeldIntact
    <3> QED
      BY <1>2, <3>1, <3>2
  <2> QED
    BY <1>16, <2>1, <2>2
<1> QED
    BY <1>17, <1>18, <1>19, <1>20, <1>21 DEF IInv

LEMMA NextPreservesIInv == IInv /\ [Next]_vars => IInv'
<1> SUFFICES ASSUME IInv, [Next]_vars PROVE IInv'
    OBVIOUS
<1>1. CASE \E name \in Names, sig \in Signatures : Bind(name, sig)
    BY <1>1, BindStep
<1>2. CASE \E r \in Remotes, name \in Names, args \in ArgLists : Call(r, name, args)
  <2>1. PICK r \in Remotes, name \in Names, args \in ArgLists : Call(r, name, args)
    BY <1>2
  <2>2. CASE CallRefused(r, name, args)
         /\ (free[r] = <<>> \/ Reception(name, args) # None)
    BY <2>1, <2>2, CallRefusedStep DEF Call
  <2>3. CASE /\ free[r] # <<>> /\ Reception(name, args) = None
             /\ \E from \in Sources(args) : CallReceived(r, name, args, from)
    BY <2>1, <2>3, CallReceivedStep DEF Call
  <2> QED
    BY <2>1, <2>2, <2>3 DEF Call
<1>3. CASE \E v \in Results : Return(v)
    BY <1>3, ReturnStep
<1>4. CASE TakeResult
    BY <1>4, TakeResultStep
<1>5. CASE Throw
    BY <1>5, ThrowStep
<1>6. CASE Unwind
    BY <1>6, UnwindStep
<1>7. CASE Catch
    BY <1>7, CatchStep
<1>8. CASE UNCHANGED vars
  <2>1. TypeOK'
    BY <1>8 DEF vars, IInv, TypeOK
  <2>2. UNCHANGED <<stack, free, slot, content, held, old>>
    BY <1>8 DEF vars
  <2>3. OnlyInnermostReplied' /\ CalledAsBound' /\ Found'
    BY <1>8 DEF vars, IInv, OnlyInnermostReplied, CalledAsBound, Found
  <2>4. SlotIsForInnermost' /\ AnswerInSlot' /\ PassedOn'
    BY <2>2 DEF IInv, SlotIsForInnermost, AnswerInSlot, PassedOn, ArgumentsArrive, Top
  <2>5. PacketsAccounted'
    BY <2>2 DEF IInv, PacketsAccounted, Busy, CallsOn
  <2>6. HeldIntact'
    BY <2>2 DEF IInv, HeldIntact, Top
  <2> QED
    BY <2>1, <2>3, <2>4, <2>5, <2>6 DEF IInv
<1> QED
    BY <1>1, <1>2, <1>3, <1>4, <1>5, <1>6, <1>7, <1>8 DEF Next

-----------------------------------------------------------------------------
(* The theorems. *)

\* IInv holds in every state: calls, packets, slots and the strings in flight fit
\* together however calls nest and fail.
THEOREM RpcInvariant == Spec => []IInv
    BY InitEstablishesIInv, NextPreservesIInv, PTL DEF Spec

\* No packet of any endpoint is lost or used twice, for any size of the pools and
\* any depth of calls, whatever is thrown.
THEOREM NoPacketIsLost == Spec => [](TypeOK /\ PacketsAccounted)
<1>1. IInv => TypeOK /\ PacketsAccounted
    BY DEF IInv
<1> QED
    BY <1>1, RpcInvariant, PTL

\* The result slot of an endpoint is full only for the innermost call.
THEOREM SlotOfInnermost == Spec => []SlotIsForInnermost
<1>1. IInv => SlotIsForInnermost
    BY DEF IInv
<1> QED
    BY <1>1, RpcInvariant, PTL

\* A running function has the types of its arguments and keeps its name.
THEOREM CallsAreBound == Spec => []CalledAsBound
<1>1. IInv => CalledAsBound
    BY DEF IInv
<1> QED
    BY <1>1, RpcInvariant, PTL

\* With a compiler that evaluates arguments from right to left a function gets its
\* arguments in the order in which the caller passed them, the strings among them
\* that the caller got from calls, unless their endpoints have received other calls
\* since.
THEOREM ArgumentsInOrder == RightToLeft => (Spec => []ArgumentsArrive)
<1>1. SUFFICES ASSUME RightToLeft PROVE Spec => []ArgumentsArrive
    OBVIOUS
<1>2. IInv => ArgumentsArrive
    BY <1>1 DEF IInv, PassedOn
<1> QED
    BY <1>2, RpcInvariant, PTL

\* A string that a call has returned stays what it is, whatever is called, bound,
\* refused or thrown, as long as no other call through its endpoint is received.
THEOREM StringsStayForAWhile == Spec => [](\A h \in held \ old : Read(h) = h.value)
<1>1. IInv => \A h \in held \ old : Read(h) = h.value
    BY ReadFacts
<1> QED
    BY <1>1, RpcInvariant, PTL

\* An endpoint without a packet has as many calls under way as its pool has
\* packets.
LEMMA EmptyPoolAtDepth ==
    ASSUME IInv, Running, NEW r \in Remotes, free[r] = <<>>
    PROVE  Cardinality(CallsOn(r)) = PoolSize
<1>1. Accounts(free[r], Used(r), Nothing) /\ CallsDiffer(r)
    BY WhileRunning, AccountsOfEach DEF IInv
<1>2. ToSet(free[r]) = {}
    BY DEF ToSet
<1>3. Used(r) = 1..PoolSize
    BY <1>1, <1>2 DEF Accounts, Packets
<1> DEFINE f == [i \in CallsOn(r) |-> stack[i].packet]
<1>4. f \in [CallsOn(r) -> 1..PoolSize]
    BY <1>3 DEF Used
<1>5. \A i, j \in CallsOn(r) : f[i] = f[j] => i = j
    BY <1>1 DEF CallsDiffer
<1>6. \A p \in 1..PoolSize : \E i \in CallsOn(r) : f[i] = p
    BY <1>3 DEF Used
<1>7. f \in Injection(CallsOn(r), 1..PoolSize) /\ f \in Surjection(CallsOn(r), 1..PoolSize)
    BY <1>4, <1>5, <1>6 DEF Injection, IsInjective, Surjection
<1>8. IsFiniteSet(1..PoolSize) /\ Cardinality(1..PoolSize) = PoolSize
    BY RpcAssumption, FS_Interval
<1> HIDE DEF f
<1> QED
    BY <1>7, <1>8, FS_Injection

\* Calls through an endpoint fail for want of packets only if there are as many
\* under way through this endpoint as its pool has packets.
THEOREM OutOfPacketsAtDepth == Spec => OutOfPacketsOnlyAtDepth
<1> DEFINE A == \A r \in Remotes :
                    (CallsThrough(r) \/ ReturnsThrough(r)) /\ exc' = "ERR_OUT_OF_PACKETS"
                        => Cardinality(CallsOn(r)) = PoolSize
<1>1. IInv => A
  <2> SUFFICES ASSUME IInv, NEW r \in Remotes, exc' = "ERR_OUT_OF_PACKETS",
                      CallsThrough(r) \/ ReturnsThrough(r)
               PROVE  Cardinality(CallsOn(r)) = PoolSize
    OBVIOUS
  <2>1. CASE CallsThrough(r)
    <3>1. PICK name \in Names, args \in ArgLists : Call(r, name, args)
      BY <2>1 DEF CallsThrough
    <3>2. free[r] = <<>> /\ Running
      BY <3>1 DEF Call, CallRefused, CallReceived, Reception, Check, None, Running
    <3> QED
      BY <3>2, EmptyPoolAtDepth
  <2>2. CASE ReturnsThrough(r)
    <3>1. Running /\ free[r] = <<>>
      BY <2>2 DEF ReturnsThrough, Return, ReplyFails, Reply, Running, None
    <3> QED
      BY <3>1, EmptyPoolAtDepth
  <2> QED
    BY <2>1, <2>2
<1> QED
    BY <1>1, RpcInvariant, PTL DEF Spec, OutOfPacketsOnlyAtDepth

-----------------------------------------------------------------------------
(* Calls implement CallStack. *)

\* What CallStack sees of a call and of the stack.
Entry(f) ==
    [call  |-> <<f.name, f.args>>,
     ended |-> IF f.phase = "running" THEN [ok |-> FALSE]
               ELSE [ok |-> TRUE, answer |-> f.answer]]
Pending == [i \in DOMAIN stack |-> Entry(stack[i])]

LEMMA EntryAnswered ==
    ASSUME NEW f, NEW g, NEW v,
           g.phase = "replied", g.answer = v, g.name = f.name, g.args = f.args
    PROVE  Entry(g) = [Entry(f) EXCEPT !.ended = [ok |-> TRUE, answer |-> v]]
<1> DEFINE a == [ok |-> TRUE, answer |-> v]
           c == <<f.name, f.args>>
           e == IF f.phase = "running" THEN [ok |-> FALSE]
                ELSE [ok |-> TRUE, answer |-> f.answer]
<1>1. Entry(g) = [call |-> c, ended |-> a]
    BY DEF Entry
<1>2. Entry(f) = [call |-> c, ended |-> e]
    BY DEF Entry
<1> HIDE DEF a, c, e
<1>3. [[call |-> c, ended |-> e] EXCEPT !.ended = a] = [call |-> c, ended |-> a]
    OBVIOUS
<1>4. Entry(g) = [Entry(f) EXCEPT !.ended = a]
    BY <1>1, <1>2, <1>3
<1> QED
    BY <1>4 DEF a

LEMMA PendingFacts ==
    ASSUME stack \in Seq(Frame)
    PROVE  /\ Pending \in Seq({Entry(f) : f \in Frame})
           /\ Len(Pending) = Len(stack) /\ DOMAIN Pending = 1..Len(stack)
           /\ DOMAIN stack = 1..Len(stack) /\ Len(stack) \in Nat
           /\ \A i \in 1..Len(stack) : Pending[i] = Entry(stack[i])
<1>1. /\ DOMAIN stack = 1..Len(stack) /\ Len(stack) \in Nat
      /\ \A i \in 1..Len(stack) : stack[i] \in Frame
    OBVIOUS
<1>2. Pending = [i \in 1..Len(stack) |-> Entry(stack[i])]
    BY <1>1 DEF Pending
<1>3. \A i \in 1..Len(stack) : Entry(stack[i]) \in {Entry(f) : f \in Frame}
    BY <1>1
<1>4. Pending \in Seq({Entry(f) : f \in Frame})
    BY <1>1, <1>2, <1>3
<1>5. Len(Pending) = Len(stack)
    BY <1>1, <1>2
<1> QED
    BY <1>1, <1>2, <1>4, <1>5

LEMMA PendingPushed ==
    ASSUME stack \in Seq(Frame), NEW f \in Frame, stack' = Append(stack, f)
    PROVE  Pending' = Append(Pending, Entry(f))
<1> DEFINE S == {Entry(g) : g \in Frame}
<1>1. /\ Pending \in Seq(S) /\ Len(Pending) = Len(stack)
      /\ DOMAIN stack = 1..Len(stack) /\ Len(stack) \in Nat
      /\ \A i \in 1..Len(stack) : Pending[i] = Entry(stack[i])
    BY PendingFacts
<1>2. /\ DOMAIN stack' = 1..(Len(stack) + 1)
      /\ \A i \in 1..Len(stack) : stack'[i] = stack[i]
      /\ stack'[Len(stack) + 1] = f
    BY AppendFacts
<1>3. /\ Append(Pending, Entry(f)) \in Seq(S)
      /\ DOMAIN Append(Pending, Entry(f)) = 1..(Len(stack) + 1)
      /\ \A i \in 1..Len(stack) : Append(Pending, Entry(f))[i] = Pending[i]
      /\ Append(Pending, Entry(f))[Len(stack) + 1] = Entry(f)
  <2>1. Entry(f) \in S
    OBVIOUS
  <2> QED
    BY <1>1, <2>1, AppendFacts
<1>4. Pending' = [i \in DOMAIN stack' |-> Entry(stack'[i])]
    BY DEF Pending, Entry
<1>5. \A i \in 1..(Len(stack) + 1) : Append(Pending, Entry(f))[i] = Entry(stack'[i])
  <2> SUFFICES ASSUME NEW i \in 1..(Len(stack) + 1)
               PROVE  Append(Pending, Entry(f))[i] = Entry(stack'[i])
    OBVIOUS
  <2>1. i \in 1..Len(stack) \/ i = Len(stack) + 1
    BY <1>1
  <2> QED
    BY <1>1, <1>2, <1>3, <2>1
<1>6. Append(Pending, Entry(f)) = [i \in 1..(Len(stack) + 1) |-> Append(Pending, Entry(f))[i]]
  <2> DEFINE q == Append(Pending, Entry(f))
  <2>1. q \in Seq(S) /\ DOMAIN q = 1..(Len(stack) + 1)
    BY <1>3
  <2> HIDE DEF q
  <2>2. q = [i \in 1..(Len(stack) + 1) |-> q[i]]
    BY <2>1
  <2> QED
    BY <2>2 DEF q
<1> QED
    BY <1>2, <1>4, <1>5, <1>6

LEMMA PendingPopped ==
    ASSUME stack \in Seq(Frame), stack # <<>>, stack' = Popped
    PROVE  /\ Pending # <<>>
           /\ Pending[Len(Pending)] = Entry(Top)
           /\ Pending' = SubSeq(Pending, 1, Len(Pending) - 1)
<1> DEFINE S == {Entry(g) : g \in Frame}
           q == SubSeq(Pending, 1, Len(Pending) - 1)
<1>1. /\ Pending \in Seq(S) /\ Len(Pending) = Len(stack)
      /\ DOMAIN stack = 1..Len(stack) /\ Len(stack) \in Nat \ {0}
      /\ \A i \in 1..Len(stack) : Pending[i] = Entry(stack[i])
    BY PendingFacts, PoppedFacts
<1>2. /\ DOMAIN stack' = 1..(Len(stack) - 1)
      /\ \A i \in 1..(Len(stack) - 1) : stack'[i] = stack[i]
    BY PopFrame
<1>3. Pending # <<>> /\ Pending[Len(Pending)] = Entry(Top)
    BY <1>1 DEF Top
<1>4. /\ DOMAIN q = 1..(Len(stack) - 1) /\ q \in Seq(S)
      /\ \A i \in 1..(Len(stack) - 1) : q[i] = Pending[i]
    BY <1>1, <1>3, PoppedFacts
<1>5. Pending' = [i \in DOMAIN stack' |-> Entry(stack'[i])]
    BY DEF Pending, Entry
<1>6. \A i \in 1..(Len(stack) - 1) : q[i] = Entry(stack'[i])
    BY <1>1, <1>2, <1>4
<1>7. q = [i \in 1..(Len(stack) - 1) |-> q[i]]
    BY <1>4
<1> HIDE DEF q
<1>8. Pending' = q
    BY <1>2, <1>5, <1>6, <1>7
<1> QED
    BY <1>3, <1>8 DEF q

LEMMA WhilePending ==
    ASSUME IInv, stack # <<>>
    PROVE  /\ Pending # <<>> /\ Len(Pending) = Len(stack)
           /\ Pending[Len(Pending)] = Entry(Top)
           /\ Top.phase \in {"running", "replied"}
<1>1. stack \in Seq(Frame)
    BY DEF IInv, TypeOK
<1>2. Len(stack) \in Nat \ {0} /\ Len(stack) \in DOMAIN stack
    BY <1>1
<1>3. Pending # <<>> /\ Len(Pending) = Len(stack) /\ Pending[Len(Pending)] = Entry(Top)
    BY <1>1, <1>2, PendingFacts DEF Top
<1>4. Top.phase \in {"running", "replied"}
    BY <1>1, <1>2, FrameFacts DEF Top
<1> QED
    BY <1>3, <1>4

LEMMA MappedUnanswered ==
    ASSUME IInv, exc # None \/ Running
    PROVE  Service!Unanswered
<1>1. CASE stack = <<>>
  <2>1. Pending = <<>>
    BY <1>1 DEF Pending
  <2> QED
    BY <2>1 DEF Service!Unanswered, Pending, Entry
<1>2. CASE stack # <<>>
  <2>1. Top.phase = "running"
  <3>1. stack \in Seq(Frame)
    BY DEF IInv, TypeOK
  <3>2. Len(stack) \in DOMAIN stack
    BY <1>2, <3>1
  <3> QED
    BY <3>2, WhileRunning DEF NoneReplied, Top
  <2>2. ~Pending[Len(Pending)].ended.ok
    BY <1>2, <2>1, WhilePending DEF Entry
  <2> QED
    BY <2>2 DEF Service!Unanswered, Service!Innermost, Pending, Entry
<1> QED
    BY <1>1, <1>2

\* Every step of the endpoints is a step of CallStack or leaves its variables alone.
LEMMA StepsOfCallStack == IInv /\ [Next]_vars => [Service!Next]_(Service!vars)
<1> SUFFICES ASSUME IInv, [Next]_vars PROVE [Service!Next]_(Service!vars)
    OBVIOUS
<1>1. stack \in Seq(Frame)
    BY DEF IInv, TypeOK
<1>2. ASSUME stack' = stack, last' = last PROVE [Service!Next]_(Service!vars)
    BY <1>2 DEF Service!vars
<1>3. ASSUME GivenUp, last' = [ok |-> FALSE], exc # None \/ Running
      PROVE  [Service!Next]_(Service!vars)
  <2>1. Service!Unanswered
    BY <1>3, MappedUnanswered
  <2>2. Pending # <<>> /\ Pending' = SubSeq(Pending, 1, Len(Pending) - 1)
    BY <1>1, <1>3, PendingPopped DEF GivenUp
  <2>3. Service!Fail
    BY <1>3, <2>1, <2>2 DEF Service!Fail, Service!Failed, Pending, Entry
  <2> QED
    BY <2>3 DEF Service!Next
<1>4. CASE \E r \in Remotes, name \in Names, args \in ArgLists : Call(r, name, args)
  <2>1. PICK r \in Remotes, name \in Names, args \in ArgLists : Call(r, name, args)
    BY <1>4
  <2>2. Service!Unanswered
    BY <2>1, MappedUnanswered DEF Call
  <2>3. CASE CallRefused(r, name, args)
    <3>1. Pending' = Pending
      BY <2>3 DEF CallRefused, Pending, Entry
    <3>2. Service!Refuse
      BY <2>2, <2>3, <3>1 DEF CallRefused, Service!Refuse, Service!Failed, Pending, Entry
    <3> QED
      BY <3>2 DEF Service!Next
  <2>4. ASSUME free[r] # <<>>, NEW from \in Sources(args),
               CallReceived(r, name, args, from)
        PROVE  [Service!Next]_(Service!vars)
    <3> DEFINE text == Written(args, from, r, Head(free[r]))
               f == [remote |-> r, packet |-> Head(free[r]), name |-> name, args |-> args,
                     outdated |-> {i \in DOMAIN args : from[i] \in old},
                     passed |-> Passed(text), phase |-> "running", answer |-> Nothing]
    <3>1. /\ args \in Seq(Arguments) /\ text \in Seq(Received)
          /\ DOMAIN text = DOMAIN args
          /\ \A i \in DOMAIN args : text[i].type = args[i].type
      BY <2>4, TextIntact
    <3> HIDE DEF text
    <3>2. Head(free[r]) \in Packets /\ Passed(text) \in Seq(Received)
      <4>1. free[r] \in Seq(Packets)
        BY DEF IInv, TypeOK
      <4> QED
        BY <2>4, <3>1, <4>1, PassedFacts
    <3>3. f \in Frame /\ stack' = Append(stack, f)
      <4>1. {i \in DOMAIN args : from[i] \in old} \in SUBSET Nat
        BY <3>1
      <4> QED
        BY <2>4, <3>2, <4>1 DEF CallReceived, Frame, Contents, text
    <3>4. Pending' = Append(Pending, Entry(f))
      BY <1>1, <3>3, PendingPushed
    <3>5. Entry(f) = [call |-> <<name, args>>, ended |-> [ok |-> FALSE]]
      BY DEF Entry
    <3>6. Service!Begin(<<name, args>>)
      BY <2>2, <2>4, <3>4, <3>5
         DEF Service!Begin, Service!Failed, CallReceived, Pending, Entry
    <3>7. <<name, args>> \in Names \X ArgLists
      OBVIOUS
    <3> QED
      BY <3>6, <3>7 DEF Service!Next
  <2> QED
    BY <2>1, <2>3, <2>4 DEF Call
<1>5. CASE \E v \in Results : Return(v)
  <2>1. PICK v \in Results : Return(v)
    BY <1>5
  <2>2. Running /\ stack # <<>>
    BY <2>1 DEF Return
  <2>3. ASSUME NEW e, ReplyFails(e) PROVE [Service!Next]_(Service!vars)
    <3>1. GivenUp
      BY <2>2, <2>3, WhileRunning DEF ReplyFails, GivenUp
    <3> QED
      BY <1>3, <2>2, <2>3, <3>1 DEF ReplyFails
  <2>4. ASSUME NEW h \in Pointers(v), Reply(v, h)
        PROVE  [Service!Next]_(Service!vars)
    <3>0. PICK a \in Contents : a = Answer(v, h)
      BY CopyIntact
    <3> DEFINE n == Len(stack)
               g == [stack[n] EXCEPT !.phase = "replied", !.answer = a]
    <3>1. n \in Nat \ {0} /\ DOMAIN stack = 1..n /\ stack[n] \in Frame
      BY <1>1, <2>2
    <3>2. stack' = [stack EXCEPT ![n] = g] /\ last' = last
      BY <2>4, <3>1, <3>0 DEF Reply, Frame
    <3>3. Entry(g) = [Entry(stack[n]) EXCEPT !.ended = [ok |-> TRUE, answer |-> a]]
      <4>1. /\ g.phase = "replied" /\ g.answer = a
            /\ g.name = stack[n].name /\ g.args = stack[n].args
        BY <3>1 DEF Frame
      <4> HIDE DEF g
      <4> QED
        BY <4>1, EntryAnswered
    <3> HIDE DEF g
    <3>4. Pending' = [Pending EXCEPT ![n] = Entry(g)]
      BY <3>1, <3>2 DEF Pending, Entry
    <3>5. Len(Pending) = n /\ Pending # <<>> /\ Pending[n] = Entry(stack[n])
      BY <2>2, WhilePending DEF Top
    <3>6. Pending' = [Pending EXCEPT ![Len(Pending)].ended = [ok |-> TRUE, answer |-> a]]
      BY <3>3, <3>4, <3>5
    <3>7. Service!Unanswered
      BY <2>2, MappedUnanswered
    <3>8. Service!Answer(a)
      BY <3>2, <3>5, <3>6, <3>7 DEF Service!Answer, Service!Answered, Pending, Entry
    <3> QED
      BY <3>8 DEF Service!Next
  <2> QED
    BY <2>1, <2>3, <2>4 DEF Return
<1>6. CASE TakeResult
  <2>1. stack # <<>> /\ Top.phase = "replied" /\ stack' = Popped
    BY <1>6 DEF TakeResult
  <2>2. /\ Pending # <<>> /\ Pending[Len(Pending)] = Entry(Top)
        /\ Pending' = SubSeq(Pending, 1, Len(Pending) - 1)
    BY <1>1, <2>1, PendingPopped
  <2>3. Entry(Top).ended = [ok |-> TRUE, answer |-> Top.answer]
    BY <2>1 DEF Entry
  <2>4. last' = [ok |-> TRUE, answer |-> Top.answer]
    BY <1>6, <2>1 DEF TakeResult, IInv, AnswerInSlot
  <2>5. /\ Pending[Len(Pending)].ended.ok
        /\ last' = Pending[Len(Pending)].ended
    BY <2>2, <2>3, <2>4
  <2>6. Service!Deliver
    BY <2>2, <2>5 DEF Service!Deliver, Service!Innermost, Pending, Entry
  <2> QED
    BY <2>6 DEF Service!Next
<1>7. CASE Unwind
  <2>1. GivenUp
    BY <1>7, WhileRunning DEF Unwind, GivenUp
  <2> QED
    BY <1>3, <1>7, <2>1 DEF Unwind
<1>8. CASE (\E name \in Names, sig \in Signatures : Bind(name, sig)) \/ Throw \/ Catch
    BY <1>2, <1>8 DEF Bind, Throw, Catch
<1>9. CASE UNCHANGED vars
    BY <1>2, <1>9 DEF vars
<1> QED
    BY <1>4, <1>5, <1>6, <1>7, <1>8, <1>9 DEF Next

\* Calls through any number of endpoints, nested to any depth, with functions that
\* throw and packets that run out, behave as a stack of calls each of which gets
\* its own answer or fails, where the answer is a string of another call only as it
\* was got or, if it is old, as it is then.
THEOREM CallsAreAStack == Spec => ImplementsCallStack
<1>1. Init => Service!Init
  <2>1. SUFFICES ASSUME Init PROVE Service!Init
    OBVIOUS
  <2>2. stack = <<>> /\ last = [ok |-> FALSE] /\ Pending = <<>>
    BY <2>1 DEF Init, Pending
  <2> QED
    BY <2>2 DEF Service!Init, Service!Failed, Pending, Entry
<1> QED
    BY <1>1, StepsOfCallStack, RpcInvariant, PTL DEF Spec, ImplementsCallStack, Service!Spec
=============================================================================
