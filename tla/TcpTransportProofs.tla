-------------------------- MODULE TcpTransportProofs --------------------------
(***************************************************************************)
(* TcpTransport for any number of connections, packets and chunks: the     *)
(* safety properties of its run hold of every behaviour.  What has to be   *)
(* known is where each channel is (in the backlog, in the pseudo queue, in *)
(* the set, or on its way), that the set holds it once, and how far the    *)
(* worker has come with the shutdown.                                      *)
(***************************************************************************)
EXTENDS TcpTransport, TLAPS

\* The places of the worker within a pass over the set.
PassPlaces == {"pass", "insert", "closed"}

Sockets == Chan \cup {CTRL, SERVER}

Distinct(q) == \A i, j \in 1..Len(q) : q[i] = q[j] => i = j

\* The socket set holds every socket once, and the worker's place in it.
SetInv ==
  /\ Distinct(sockset) /\ Len(revents) = Len(sockset)
  /\ InSet(SERVER) <=> InSet(CTRL)
  /\ wpc \notin PassPlaces => idx = 0
  /\ wpc = "closed" => /\ wcur \in Chan /\ idx + 1 <= Len(sockset)
                       /\ sockset[idx + 1] = wcur
  /\ wpc = "insert" => wcur \in Incoming /\ InSet(wcur)

\* The event e is still true of socket s.
Down(s) == s \in Chan /\ data[s] = 0 /\ HungUp(s)
Pending(s, e) == Readable(s) /\ (e = "hup" => Down(s))

\* The events that are still to be handled are.
Waiting == wpc \in PassPlaces =>
  \A j \in 1..idx : revents[j] # "none" => Pending(sockset[j], revents[j])

\* The shutdown: the sentinel is the last datagram, the worker stops after it, and
\* do_shutdown takes the special sockets out first.
Phase ==
  /\ \A j \in 1..Len(ctrlq) : ctrlq[j] = NULL => j = Len(ctrlq) /\ upc \in {"join", "joined"}
  /\ stop => ctrlq = <<>> /\ upc \in {"join", "joined"}
  /\ Draining => stop
  /\ wpc = "shutdown" => stop
  /\ wpc \in {"new", "insert", "shutdown"} => ~Draining
  /\ wpc \in {"closeall", "terminated"} => Draining
  /\ toClose # {} => wpc = "closeall" /\ toClose \subseteq registered
  /\ upc = "joined" => wpc = "terminated"

Unused == {"none", "opening"}

\* connect() has the channel in its hands; the accept handler is still to be called.
Handing(c) == upc \in {"insert", "enqueue"} /\ ucur = c
Accepting(c) == wpc = "insert" /\ wcur = c

\* Where channel c is in each of its states, and what of the properties is about it.
Facts(c) ==
  /\ InSet(c) => cstate[c] \in {"open", "closing"}
  /\ Queued(c) => cstate[c] \in {"open", "closing"} /\ ~InSet(c) /\ c \notin Incoming
  /\ Handing(c) => cstate[c] = "open" /\ ~InSet(c) /\ ~Queued(c) /\ c \notin Incoming
  /\ c \in backlog \/ peer[c] = "none" => cstate[c] \in Unused
  /\ c \in backlog => peer[c] # "none"
  /\ c \in Outgoing /\ cstate[c] \in Unused => peer[c] = "none"
  /\ c \in registered \cup handler => cstate[c] \notin Unused
  /\ shut[c] => cstate[c] \in {"closing"} \cup Ended
  /\ cstate[c] = "closed_by_peer" => peer[c] # "up"
  /\ cstate[c] \notin Unused /\ (data[c] > 0 \/ (peer[c] = "up" /\ ~shut[c]))
        => InSet(c) \/ Queued(c) \/ Handing(c)
  /\ c \in Incoming /\ InSet(c) => c \in handler \/ Accepting(c)
  /\ Draining /\ ~disturbed /\ c \in registered \ toClose => cstate[c] \in Ended \/ InSet(c)

Channels == \A c \in Chan : Facts(c)

\* The pseudo queue holds no channel twice.
QueueInv == Distinct(ctrlq)

\* Channels in the hands of one of the threads.
Hands ==
  /\ upc \in {"insert", "enqueue"} => ucur \in Chan
  /\ upc = "close" => ucur \in Chan /\ cstate[ucur] \in {"closing"} \cup Ended
  /\ wpc = "closed" => /\ wnew \in Ended /\ data[wcur] = 0 /\ (shut[wcur] \/ peer[wcur] # "up")
                       /\ wnew = "closed_by_peer" => peer[wcur] # "up"
  /\ wpc = "terminated" /\ ~disturbed => sockset = <<>> /\ toClose = {}

IInv == /\ TypeOK /\ SetInv /\ Waiting /\ Phase /\ Channels /\ QueueInv /\ Hands

-----------------------------------------------------------------------------
(* Sequences. *)

LEMMA AppendFacts ==
  ASSUME NEW S, NEW q \in Seq(S), NEW x \in S
  PROVE  /\ Append(q, x) \in Seq(S) /\ Len(q) \in Nat /\ Len(Append(q, x)) = Len(q) + 1
         /\ \A i \in 1..Len(q) : Append(q, x)[i] = q[i]
         /\ Append(q, x)[Len(q) + 1] = x
  OBVIOUS

LEMMA TailFacts ==
  ASSUME NEW S, NEW q \in Seq(S), q # <<>>
  PROVE  /\ Tail(q) \in Seq(S) /\ Len(q) \in Nat \ {0} /\ Len(Tail(q)) = Len(q) - 1
         /\ \A i \in 1..(Len(q) - 1) : Tail(q)[i] = q[i + 1]
         /\ Head(q) = q[1] /\ Head(q) \in S
  OBVIOUS

LEMMA EraseFacts ==
  ASSUME NEW S, NEW q \in Seq(S), NEW k \in 1..Len(q)
  PROVE  /\ Erase(q, k) \in Seq(S) /\ Len(q) \in Nat \ {0} /\ Len(Erase(q, k)) = Len(q) - 1
         /\ \A i \in 1..(Len(q) - 1) : Erase(q, k)[i] = IF i < k THEN q[i] ELSE q[i + 1]
  <1>1. Len(q) \in Nat \ {0} /\ \A i \in 1..Len(q) : q[i] \in S
    OBVIOUS
  <1>2. \A i \in 1..(Len(q) - 1) : (IF i < k THEN q[i] ELSE q[i + 1]) \in S
    BY <1>1
  <1>3. Len(q) - 1 \in Nat
    BY <1>1
  <1> DEFINE n == Len(q) - 1
             e == [i \in 1..n |-> IF i < k THEN q[i] ELSE q[i + 1]]
  <1>4. e \in [1..n -> S]
    BY <1>2
  <1>5. e = Erase(q, k)
    BY DEF Erase
  <1> HIDE DEF e
  <1>6. e \in Seq(S) /\ Len(e) = n
    BY <1>3, <1>4
  <1> QED
    BY <1>1, <1>5, <1>6 DEF e

LEMMA PlaceFacts ==
  ASSUME NEW S, NEW q \in Seq(S), Distinct(q), NEW j \in 1..Len(q)
  PROVE  Place(q, q[j]) = j
  BY DEF Distinct, Place

\* Removing the k-th of different elements.
LEMMA EraseDistinct ==
  ASSUME NEW S, NEW q \in Seq(S), Distinct(q), NEW k \in 1..Len(q)
  PROVE  /\ Distinct(Erase(q, k))
         /\ \A x : (\E i \in 1..Len(Erase(q, k)) : Erase(q, k)[i] = x)
                     <=> x # q[k] /\ \E i \in 1..Len(q) : q[i] = x
  <1> DEFINE e == Erase(q, k)
             n == Len(q)
             from(i) == IF i < k THEN i ELSE i + 1
  <1>1. /\ n \in Nat \ {0} /\ Len(e) = n - 1
        /\ \A i \in 1..(n - 1) : e[i] = IF i < k THEN q[i] ELSE q[i + 1]
    BY EraseFacts
  <1>2. \A i \in 1..(n - 1) : from(i) \in 1..n /\ from(i) # k /\ e[i] = q[from(i)]
    BY <1>1
  <1>3. \A i, j \in 1..(n - 1) : from(i) = from(j) => i = j
    BY <1>1
  <1>4. \A i \in 1..n : i # k => \E j \in 1..(n - 1) : from(j) = i
    <2> SUFFICES ASSUME NEW i \in 1..n, i # k PROVE \E j \in 1..(n - 1) : from(j) = i
      OBVIOUS
    <2>1. CASE i < k
      <3>1. i \in 1..(n - 1)
        BY <1>1, <2>1
      <3> QED
        BY <2>1, <3>1
    <2>2. CASE i > k
      <3>1. i - 1 \in 1..(n - 1) /\ ~(i - 1 < k) /\ (i - 1) + 1 = i
        BY <1>1, <2>2
      <3> QED
        BY <3>1
    <2> QED
      BY <1>1, <2>1, <2>2
  <1> HIDE DEF from, e
  <1>5. \A i, j \in 1..(n - 1) : e[i] = e[j] => i = j
    BY <1>2, <1>3 DEF Distinct
  <1>6. ASSUME NEW x, NEW i \in 1..(n - 1), e[i] = x PROVE x # q[k] /\ \E j \in 1..n : q[j] = x
    BY <1>2, <1>6 DEF Distinct
  <1>7. ASSUME NEW x, x # q[k], NEW i \in 1..n, q[i] = x PROVE \E j \in 1..(n - 1) : e[j] = x
    <2>1. PICK j \in 1..(n - 1) : from(j) = i
      BY <1>4, <1>7
    <2> QED
      BY <1>2, <1>7, <2>1
  <1> QED
    BY <1>1, <1>5, <1>6, <1>7 DEF Distinct, e

-----------------------------------------------------------------------------
(* The socket set. *)

\* SocketSet::remove of a socket that is in the set.
LEMMA RemoveFacts ==
  ASSUME NEW S, NEW q \in Seq(S), Distinct(q), NEW k \in 1..Len(q)
  PROVE  /\ Without(q, q[k]) \in Seq(S) /\ Distinct(Without(q, q[k]))
         /\ Len(q) \in Nat \ {0} /\ Len(Without(q, q[k])) = Len(q) - 1
         /\ \A i \in 1..(k - 1) : Without(q, q[k])[i] = q[i]
         /\ \A x : (\E i \in 1..Len(Without(q, q[k])) : Without(q, q[k])[i] = x)
                     <=> x # q[k] /\ \E i \in 1..Len(q) : q[i] = x
  <1>1. Without(q, q[k]) = Erase(q, k)
    BY PlaceFacts DEF Without
  <1>2. Len(q) \in Nat \ {0} /\ \A i \in 1..(k - 1) : i \in 1..(Len(q) - 1) /\ i < k
    OBVIOUS
  <1>3. \A i \in 1..(k - 1) : Erase(q, k)[i] = q[i]
    BY <1>2, EraseFacts
  <1>4. /\ Erase(q, k) \in Seq(S) /\ Len(Erase(q, k)) = Len(q) - 1
    BY EraseFacts
  <1>5. /\ Distinct(Erase(q, k))
        /\ \A x : (\E i \in 1..Len(Erase(q, k)) : Erase(q, k)[i] = x)
                     <=> x # q[k] /\ \E i \in 1..Len(q) : q[i] = x
    BY EraseDistinct
  <1> QED
    BY <1>1, <1>2, <1>3, <1>4, <1>5

\* The entry the worker is at.
LEMMA AtFacts ==
  ASSUME IInv, NEW s, NEW e, At(s, e)
  PROVE  /\ wpc = "pass" /\ Index(s) \in 1..idx /\ Index(s) \in 1..Len(sockset)
         /\ sockset[Index(s)] = s /\ revents[Index(s)] = e /\ InSet(s)
         /\ Index(s) - 1 \in 0..idx /\ Index(s) - 1 \in 0..Len(sockset)
         /\ \A j \in 1..(Index(s) - 1) : j \in 1..idx /\ sockset[j] # s
         /\ e # "none" => Pending(s, e)
  <1>1. PICK j \in 1..idx : sockset[j] = s /\ revents[j] = e
    BY DEF At
  <1>2. /\ sockset \in Seq(Sockets) /\ idx \in 0..Len(sockset) /\ Len(sockset) \in Nat
        /\ Distinct(sockset) /\ wpc = "pass"
    BY DEF IInv, TypeOK, SetInv, Sockets, At
  <1>3. j \in 1..Len(sockset)
    BY <1>2
  <1>4. Index(s) = j
    BY <1>1, <1>2, <1>3, PlaceFacts DEF Index
  <1>5. \A i \in 1..(j - 1) : i \in 1..idx /\ i \in 1..Len(sockset) /\ i # j
    BY <1>2
  <1>6. j - 1 \in 0..idx /\ j - 1 \in 0..Len(sockset)
    BY <1>2
  <1>7. e # "none" => Pending(s, e)
    BY <1>1, <1>2 DEF IInv, Waiting, PassPlaces
  <1> QED
    BY <1>1, <1>2, <1>3, <1>4, <1>5, <1>6, <1>7 DEF InSet, Distinct

\* A step of a pass keeps the events below the entry it handles, when their sockets
\* still have them.
LEMMA StillWaiting ==
  ASSUME IInv, idx' \in Nat, idx' <= idx, idx' = 0 \/ wpc \in PassPlaces,
         \A j \in 1..idx' : sockset'[j] = sockset[j] /\ revents'[j] = revents[j],
         \A s \in Sockets, e \in {"in", "hup"} :
            (\E j \in 1..idx' : sockset[j] = s) /\ Pending(s, e) => Pending(s, e)'
  PROVE  Waiting'
  <1> SUFFICES ASSUME NEW j \in 1..idx', revents'[j] # "none"
               PROVE  Pending(sockset[j], revents[j])'
    BY DEF Waiting
  <1>1. /\ Len(revents) = Len(sockset) /\ Len(sockset) \in Nat /\ idx \in 0..Len(sockset)
        /\ \A i \in 1..Len(sockset) : sockset[i] \in Sockets
        /\ \A i \in 1..Len(revents) : revents[i] \in {"none", "in", "hup"}
    BY DEF IInv, TypeOK, SetInv, Sockets
  <1>2. /\ j \in 1..idx /\ j \in 1..Len(sockset) /\ j \in 1..Len(revents)
    BY <1>1
  <1>3. PICK s \in Sockets, e \in {"in", "hup"} : s = sockset[j] /\ e = revents[j]
    BY <1>1, <1>2
  <1>4. Pending(s, e)
    BY <1>2, <1>3 DEF IInv, Waiting
  <1>5. Pending(s, e)'
    BY <1>3, <1>4
  <1>6. s = sockset'[j] /\ e = revents'[j]
    BY <1>3
  <1> QED
    BY <1>5, <1>6 DEF Pending, Readable, Down, HungUp

\* What keeps the events of a socket true.
LEMMA PendingStays ==
  ASSUME NEW s \in Sockets,
         s = CTRL => (ctrlq # <<>> => ctrlq' # <<>>),
         s = SERVER => (backlog # {} => backlog' # {}),
         s \in Chan => /\ data[s] > 0 => data'[s] > 0
                       /\ peer[s] \in {"reset", "gone"} => peer'[s] \in {"reset", "gone"}
                       /\ peer[s] = "fin" => peer'[s] = "fin"
                       /\ shut[s] => shut'[s]
                       /\ Down(s) => data'[s] = 0
  PROVE  \A e : Pending(s, e) => Pending(s, e)'
  <1>1. s \in Chan => s # CTRL /\ s # SERVER
    BY TransportAssumption
  <1>2. HungUp(s) /\ s \in Chan => HungUp(s)'
    BY DEF HungUp
  <1>3. Readable(s) => Readable(s)'
    BY <1>1, TransportAssumption DEF Readable, Sockets
  <1>4. Down(s) => Down(s)'
    BY <1>2 DEF Down
  <1> QED
    BY <1>3, <1>4 DEF Pending

-----------------------------------------------------------------------------
(* The initial state. *)

LEMMA InitInvariant == Init => IInv
  <1> SUFFICES ASSUME Init PROVE IInv
    OBVIOUS
  <1>1. /\ Len(sockset) = 2 /\ sockset[1] = CTRL /\ sockset[2] = SERVER /\ Len(revents) = 2
        /\ sockset \in Seq(Chan \cup {CTRL, SERVER}) /\ revents \in Seq({"none", "in", "hup"})
        /\ ctrlq \in Seq(Datagram) /\ Len(ctrlq) = 0 /\ 1..Len(ctrlq) = {}
        /\ 1..2 = {1, 2} /\ idx \in 0..Len(sockset)
    BY DEF Init
  <1>2. /\ data \in [Chan -> 0..MaxData] /\ shut \in [Chan -> BOOLEAN]
        /\ cstate \in [Chan -> {"none", "opening", "open", "closing", "closed", "closed_by_peer"}]
        /\ rx \in [Chan -> {"none", "empty", "partial"}]
        /\ peer \in [Chan -> {"none", "up", "fin", "reset", "gone"}]
    BY TransportAssumption DEF Init
  <1>3. TypeOK
    BY <1>1, <1>2 DEF Init, TypeOK
  <1>4. CTRL # SERVER /\ \A c \in Chan : c # CTRL /\ c # SERVER
    BY TransportAssumption
  <1>5. \A s : InSet(s) <=> s \in {CTRL, SERVER}
    BY <1>1 DEF InSet
  <1>6. \A c \in Chan : ~Queued(c) /\ ~InSet(c)
    BY <1>1, <1>4, <1>5 DEF Queued
  <1>7. SetInv
    BY <1>1, <1>4, <1>5 DEF Init, SetInv, Distinct, PassPlaces
  <1>8. Waiting /\ Phase
    BY <1>1, <1>5 DEF Init, Waiting, PassPlaces, Phase, Draining
  <1>9. QueueInv /\ Hands
    BY <1>1 DEF Init, QueueInv, Distinct, Hands
  <1>10. Channels
    BY <1>5, <1>6 DEF Init, Channels, Facts, Unused, Handing, Accepting, Draining
  <1> QED
    BY <1>3, <1>7, <1>8, <1>9, <1>10 DEF IInv

-----------------------------------------------------------------------------
(* The application thread and the peers: they leave the worker and its set alone. *)

LEMMA SetUntouched ==
  ASSUME IInv, UNCHANGED <<setVars, workerVars>>
  PROVE  /\ SetInv' /\ \A s : InSet(s)' <=> InSet(s)
         /\ Draining' <=> Draining
         /\ wpc' = wpc /\ stop' = stop /\ disturbed' = disturbed /\ toClose' = toClose
         /\ wcur' = wcur /\ wnew' = wnew /\ sockset' = sockset
         /\ (\A s \in Sockets : \A e : Pending(s, e) => Pending(s, e)') => Waiting'
  <1>1. /\ UNCHANGED <<sockset, revents, idx, wpc, wcur, wnew, stop, toClose, disturbed>>
    BY DEF setVars, workerVars
  <1>2. \A s : InSet(s)' <=> InSet(s)
    BY <1>1 DEF InSet
  <1>3. SetInv'
    BY <1>1, <1>2 DEF IInv, SetInv, Distinct
  <1>4. Draining' <=> Draining
    BY <1>2 DEF Draining
  <1>5. ASSUME \A s \in Sockets : \A e : Pending(s, e) => Pending(s, e)' PROVE Waiting'
    <2>1. CASE wpc \in PassPlaces
      <3>1. idx' \in Nat /\ idx' <= idx
        BY <1>1 DEF IInv, TypeOK
      <3> QED
        BY <1>1, <1>5, <2>1, <3>1, StillWaiting
    <2>2. CASE wpc \notin PassPlaces
      BY <1>1, <2>2 DEF Waiting
    <2> QED
      BY <2>1, <2>2
  <1> QED
    BY <1>1, <1>2, <1>3, <1>4, <1>5

\* A step that leaves channel d alone.
LEMMA FactsKept ==
  ASSUME NEW d \in Chan, Facts(d),
         cstate'[d] = cstate[d], peer'[d] = peer[d], data'[d] = data[d], shut'[d] = shut[d],
         d \in backlog' <=> d \in backlog, d \in registered' <=> d \in registered,
         d \in handler' <=> d \in handler,
         InSet(d)' <=> InSet(d), Queued(d)' <=> Queued(d),
         Handing(d)' <=> Handing(d), Accepting(d)' <=> Accepting(d),
         Draining' => Draining,
         ~disturbed' => ~disturbed /\ (d \in toClose => d \in toClose')
  PROVE  Facts(d)'
  BY DEF Facts

\* The events of the sockets when at most channel c changes, and does not lose any.
LEMMA PendingAllStay ==
  ASSUME IInv, ctrlq # <<>> => ctrlq' # <<>>, backlog # {} => backlog' # {},
         NEW c,
         \A d \in Chan : d # c => data'[d] = data[d] /\ peer'[d] = peer[d] /\ shut'[d] = shut[d],
         c \in Chan => /\ data[c] > 0 => data'[c] > 0
                       /\ peer[c] \in {"reset", "gone"} => peer'[c] \in {"reset", "gone"}
                       /\ peer[c] = "fin" => peer'[c] = "fin"
                       /\ shut[c] => shut'[c]
                       /\ Down(c) => data'[c] = 0
  PROVE  \A s \in Sockets : \A e : Pending(s, e) => Pending(s, e)'
  <1> SUFFICES ASSUME NEW s \in Sockets PROVE \A e : Pending(s, e) => Pending(s, e)'
    OBVIOUS
  <1>1. s \in Chan => /\ data[s] > 0 => data'[s] > 0
                      /\ peer[s] \in {"reset", "gone"} => peer'[s] \in {"reset", "gone"}
                      /\ peer[s] = "fin" => peer'[s] = "fin"
                      /\ shut[s] => shut'[s]
                      /\ Down(s) => data'[s] = 0
    BY DEF Down
  <1> QED
    BY <1>1, PendingStays

\* A step of the application or a peer that is about one channel.
LEMMA ChannelStep ==
  ASSUME IInv, UNCHANGED <<setVars, workerVars>>, NEW c,
         \A d \in Chan : d # c =>
            /\ cstate'[d] = cstate[d] /\ peer'[d] = peer[d]
            /\ data'[d] = data[d] /\ shut'[d] = shut[d]
            /\ d \in backlog' <=> d \in backlog
            /\ d \in registered' <=> d \in registered
            /\ d \in handler' <=> d \in handler
            /\ Queued(d)' <=> Queued(d)
            /\ Handing(d)' <=> Handing(d),
         ctrlq # <<>> => ctrlq' # <<>>, backlog # {} => backlog' # {},
         c \in Chan => /\ Facts(c)'
                       /\ data[c] > 0 => data'[c] > 0
                       /\ peer[c] \in {"reset", "gone"} => peer'[c] \in {"reset", "gone"}
                       /\ peer[c] = "fin" => peer'[c] = "fin"
                       /\ shut[c] => shut'[c]
                       /\ Down(c) => data'[c] = 0
  PROVE  Channels' /\ Waiting' /\ SetInv'
  <1>1. \A d : Accepting(d)' <=> Accepting(d)
    BY SetUntouched DEF Accepting
  <1>2. ASSUME NEW d \in Chan, d # c PROVE Facts(d)'
    BY <1>1, <1>2, SetUntouched, FactsKept DEF IInv, Channels
  <1>3. Channels'
    BY <1>2 DEF Channels
  <1>4. \A s \in Sockets : \A e : Pending(s, e) => Pending(s, e)'
    BY PendingAllStay
  <1> QED
    BY <1>3, <1>4, SetUntouched

\* A datagram more in the pseudo queue.
LEMMA QueueAppend ==
  ASSUME IInv, NEW x \in Datagram, ctrlq' = Append(ctrlq, x)
  PROVE  /\ ctrlq' \in Seq(Datagram) /\ ctrlq' # <<>>
         /\ Len(ctrlq) \in Nat /\ Len(ctrlq') = Len(ctrlq) + 1
         /\ \A j \in 1..Len(ctrlq) : ctrlq'[j] = ctrlq[j]
         /\ ctrlq'[Len(ctrlq) + 1] = x
         /\ \A d : Queued(d)' <=> Queued(d) \/ d = x
         /\ ~Queued(x) => QueueInv'
  <1>1. ctrlq \in Seq(Datagram)
    BY DEF IInv, TypeOK
  <1>2. /\ ctrlq' \in Seq(Datagram) /\ Len(ctrlq) \in Nat /\ Len(ctrlq') = Len(ctrlq) + 1
        /\ \A j \in 1..Len(ctrlq) : ctrlq'[j] = ctrlq[j]
        /\ ctrlq'[Len(ctrlq) + 1] = x
    BY <1>1, AppendFacts
  <1>3. ctrlq' # <<>>
    BY <1>2
  <1>4. \A j \in 1..(Len(ctrlq) + 1) : j \in 1..Len(ctrlq) \/ j = Len(ctrlq) + 1
    BY <1>2
  <1>5. /\ \A j \in 1..Len(ctrlq) : j \in 1..(Len(ctrlq) + 1)
        /\ Len(ctrlq) + 1 \in 1..(Len(ctrlq) + 1)
    BY <1>2
  <1>6. ASSUME NEW d PROVE Queued(d)' <=> Queued(d) \/ d = x
    <2>1. Queued(d)' => Queued(d) \/ d = x
      BY <1>2, <1>4 DEF Queued
    <2>2. Queued(d) => Queued(d)'
      BY <1>2, <1>5 DEF Queued
    <2>3. d = x => Queued(d)'
      BY <1>2, <1>5 DEF Queued
    <2> QED
      BY <2>1, <2>2, <2>3
  <1>7. ASSUME ~Queued(x) PROVE QueueInv'
    <2>1. \A j \in 1..Len(ctrlq) : ctrlq[j] # x
      BY <1>7 DEF Queued
    <2>2. \A i, j \in 1..Len(ctrlq) : ctrlq[i] = ctrlq[j] => i = j
      BY DEF IInv, QueueInv, Distinct
    <2>3. \A i, j \in 1..(Len(ctrlq) + 1) : ctrlq'[i] = ctrlq'[j] => i = j
      BY <1>2, <1>4, <2>1, <2>2
    <2> QED
      BY <1>2, <2>3 DEF QueueInv, Distinct
  <1> QED
    BY <1>2, <1>3, <1>6, <1>7

LEMMA ConnectStep ==
  ASSUME IInv, NEW c \in Outgoing, Connect(c)
  PROVE  IInv'
  <1>1. /\ UNCHANGED <<setVars, workerVars>> /\ c \in Chan
        /\ UNCHANGED <<registered, handler, ctrlq, backlog, data, shut>>
        /\ upc = "idle" /\ upc' = "insert" /\ ucur' = c /\ cstate[c] = "none"
        /\ cstate' = [cstate EXCEPT ![c] = "open"] /\ peer' = [peer EXCEPT ![c] = "up"]
    BY DEF Connect, Chan
  <1>2. TypeOK'
    BY <1>1 DEF Connect, IInv, TypeOK, setVars, workerVars
  <1>3. /\ cstate'[c] = "open" /\ peer'[c] = "up"
        /\ \A d \in Chan : d # c => cstate'[d] = cstate[d] /\ peer'[d] = peer[d]
    BY <1>1 DEF IInv, TypeOK
  <1>4. Facts(c) /\ c \notin Incoming /\ c \notin backlog
    BY <1>1, TransportAssumption DEF IInv, Channels, TypeOK
  <1>5. /\ \A d : Queued(d)' <=> Queued(d)
        /\ \A d : d # c => (Handing(d)' <=> Handing(d))
    BY <1>1 DEF Queued, Handing
  <1>6. Facts(c)'
    BY <1>1, <1>3, <1>4, <1>5, SetUntouched DEF Facts, Unused, Ended, Handing
  <1>7. peer[c] = "none"
    BY <1>1, <1>4 DEF Facts, Unused
  <1>8. Channels' /\ Waiting' /\ SetInv'
    BY <1>1, <1>3, <1>5, <1>6, <1>7, ChannelStep DEF Down
  <1>9. Phase' /\ QueueInv'
    BY <1>1, SetUntouched DEF IInv, Phase, QueueInv, Distinct
  <1>10. Hands'
    <2>1. wpc = "closed" => wcur \in Chan /\ wcur # c
      BY <1>1, <1>4 DEF IInv, SetInv, InSet, Facts, TypeOK
    <2> QED
      BY <1>1, <1>3, <2>1, SetUntouched DEF IInv, Hands
  <1> QED
    BY <1>2, <1>8, <1>9, <1>10 DEF IInv

LEMMA ConnectFailsStep ==
  ASSUME IInv, NEW c \in Outgoing, ConnectFails(c)
  PROVE  IInv'
  <1>1. /\ UNCHANGED <<setVars, workerVars>> /\ c \in Chan
        /\ UNCHANGED <<upc, ucur, registered, handler, ctrlq, backlog, data, peer, shut>>
        /\ upc = "idle" /\ cstate[c] = "none" /\ cstate' = [cstate EXCEPT ![c] = "opening"]
    BY DEF ConnectFails, Chan, userVars, kernelVars
  <1>2. TypeOK'
    BY <1>1 DEF ConnectFails, IInv, TypeOK, setVars, workerVars
  <1>3. /\ cstate'[c] = "opening"
        /\ \A d \in Chan : d # c => cstate'[d] = cstate[d]
    BY <1>1 DEF IInv, TypeOK
  <1>4. Facts(c)
    BY <1>1 DEF IInv, Channels
  <1>5. \A d : (Queued(d)' <=> Queued(d)) /\ (Handing(d)' <=> Handing(d))
    BY <1>1 DEF Queued, Handing
  <1>6. Facts(c)'
    BY <1>1, <1>3, <1>4, <1>5, SetUntouched DEF Facts, Unused, Ended
  <1>7. Channels' /\ Waiting' /\ SetInv'
    BY <1>1, <1>3, <1>5, <1>6, ChannelStep DEF Down
  <1>8. Phase' /\ QueueInv'
    BY <1>1, SetUntouched DEF IInv, Phase, QueueInv, Distinct
  <1>9. Hands'
    BY <1>1, SetUntouched DEF IInv, Hands
  <1> QED
    BY <1>2, <1>7, <1>8, <1>9 DEF IInv

LEMMA ConnectInsertStep ==
  ASSUME IInv, ConnectInsert
  PROVE  IInv'
  <1>1. PICK c \in Chan : c = ucur
    BY DEF ConnectInsert, IInv, Hands
  <1>2. /\ UNCHANGED <<setVars, workerVars>>
        /\ UNCHANGED <<ucur, cstate, handler, ctrlq, backlog, data, peer, shut>>
        /\ upc = "insert" /\ upc' = "enqueue"
        /\ registered' = registered \cup {c} \/ registered' = registered
    BY <1>1 DEF ConnectInsert, Insert, channelVars, kernelVars
  <1>3. TypeOK'
    BY <1>2 DEF ConnectInsert, IInv, TypeOK, setVars, workerVars, channelVars
  <1>4. Facts(c) /\ Handing(c)
    BY <1>1, <1>2 DEF IInv, Channels, Handing
  <1>5. \A d : (Queued(d)' <=> Queued(d)) /\ (Handing(d)' <=> Handing(d))
    BY <1>2 DEF Queued, Handing
  <1>6. ~stop /\ (Draining => stop)
    BY <1>2 DEF IInv, Phase
  <1>7. \A d \in Chan : d # c => (d \in registered' <=> d \in registered)
    BY <1>2
  <1>8. Facts(c)'
    BY <1>2, <1>4, <1>5, <1>6, SetUntouched DEF Facts, Unused, Accepting
  <1>9. Channels' /\ Waiting' /\ SetInv'
    BY <1>2, <1>5, <1>7, <1>8, ChannelStep DEF Down
  <1>10. Phase' /\ QueueInv'
    BY <1>2, SetUntouched DEF IInv, Phase, QueueInv, Distinct
  <1>11. Hands'
    BY <1>2, SetUntouched DEF IInv, Hands
  <1> QED
    BY <1>3, <1>9, <1>10, <1>11 DEF IInv

LEMMA ConnectEnqueueStep ==
  ASSUME IInv, ConnectEnqueue
  PROVE  IInv'
  <1>1. /\ UNCHANGED <<setVars, workerVars>> /\ ucur \in Chan
        /\ UNCHANGED <<registered, cstate, handler, backlog, data, peer, shut>>
        /\ upc = "enqueue" /\ upc' = "idle" /\ ctrlq' = Append(ctrlq, ucur)
    BY DEF ConnectEnqueue, IInv, Hands, channelVars, kernelVars
  <1>2. ucur \in Datagram /\ ucur # NULL
    BY <1>1, TransportAssumption DEF Datagram
  <1>3. PICK c \in Chan : c = ucur
    BY <1>1
  <1>4. TypeOK'
    BY <1>1, <1>2, QueueAppend DEF ConnectEnqueue, IInv, TypeOK, setVars, workerVars, channelVars
  <1>5. Facts(c) /\ Handing(c)
    BY <1>1, <1>3 DEF IInv, Channels, Handing
  <1>6. \A d : (Queued(d)' <=> Queued(d) \/ d = c) /\ ~Handing(d)'
    BY <1>1, <1>2, <1>3, QueueAppend DEF Handing
  <1>7. \A d : Handing(d) => d = c
    BY <1>3 DEF Handing
  <1>8. Facts(c)'
    BY <1>1, <1>5, <1>6, SetUntouched DEF Facts, Accepting
  <1>9. ctrlq' # <<>>
    BY <1>1, <1>2, QueueAppend
  <1>10. Channels' /\ Waiting' /\ SetInv'
    BY <1>1, <1>6, <1>7, <1>8, <1>9, ChannelStep DEF Down
  <1>11. QueueInv'
    BY <1>1, <1>2, <1>3, <1>5, QueueAppend DEF Facts
  <1>12. Phase'
    <2>1. ~stop /\ \A j \in 1..Len(ctrlq) : ctrlq[j] # NULL
      BY <1>1 DEF IInv, Phase
    <2>2. \A j \in 1..(Len(ctrlq) + 1) : j \in 1..Len(ctrlq) \/ j = Len(ctrlq) + 1
      BY <1>1, <1>2, QueueAppend
    <2>3. \A j \in 1..Len(ctrlq') : ctrlq'[j] # NULL
      BY <1>1, <1>2, <2>1, <2>2, QueueAppend
    <2> QED
      BY <1>1, <2>1, <2>3, SetUntouched DEF IInv, Phase
  <1>13. Hands'
    BY <1>1, SetUntouched DEF IInv, Hands
  <1> QED
    BY <1>4, <1>10, <1>11, <1>12, <1>13 DEF IInv

LEMMA SetHandlerStep ==
  ASSUME IInv, NEW c \in Chan, SetHandler(c)
  PROVE  IInv'
  <1>1. /\ UNCHANGED <<setVars, workerVars>>
        /\ UNCHANGED <<upc, ucur, registered, cstate, ctrlq, backlog, data, peer, shut>>
        /\ handler' = handler \cup {c} /\ Known(c)
    BY DEF SetHandler, userVars, kernelVars
  <1>2. TypeOK'
    BY <1>1 DEF SetHandler, IInv, TypeOK, setVars, workerVars
  <1>3. Facts(c)
    BY DEF IInv, Channels
  <1>4. \A d : (Queued(d)' <=> Queued(d)) /\ (Handing(d)' <=> Handing(d))
    BY <1>1 DEF Queued, Handing
  <1>5. cstate[c] \notin Unused
    BY <1>1, <1>3 DEF Known, Facts, Unused
  <1>6. Facts(c)'
    BY <1>1, <1>3, <1>4, <1>5, SetUntouched DEF Facts
  <1>7. Channels' /\ Waiting' /\ SetInv'
    BY <1>1, <1>4, <1>6, ChannelStep DEF Down
  <1>8. Phase' /\ QueueInv'
    BY <1>1, SetUntouched DEF IInv, Phase, QueueInv, Distinct
  <1>9. Hands'
    BY <1>1, SetUntouched DEF IInv, Hands
  <1> QED
    BY <1>2, <1>7, <1>8, <1>9 DEF IInv

LEMMA CloseStep ==
  ASSUME IInv, NEW c \in Chan, Close(c)
  PROVE  IInv'
  <1>1. /\ UNCHANGED <<setVars, workerVars>>
        /\ UNCHANGED <<registered, handler, ctrlq, backlog, data, peer, shut>>
        /\ upc = "idle" /\ upc' = "close" /\ ucur' = c /\ Known(c)
        /\ cstate' = [cstate EXCEPT ![c] = "closing"]
    BY DEF Close, kernelVars
  <1>2. TypeOK'
    BY <1>1 DEF Close, IInv, TypeOK, setVars, workerVars
  <1>3. Facts(c) /\ cstate'[c] = "closing"
        /\ \A d \in Chan : d # c => cstate'[d] = cstate[d]
    BY <1>1 DEF IInv, Channels, TypeOK
  <1>4. \A d : (Queued(d)' <=> Queued(d)) /\ ~Handing(d) /\ ~Handing(d)'
    BY <1>1 DEF Queued, Handing
  <1>5. cstate[c] \notin Unused
    BY <1>1, <1>3 DEF Known, Facts, Unused
  <1>6. ~stop /\ (Draining => stop)
    BY <1>1 DEF IInv, Phase
  <1>7. Facts(c)'
    BY <1>1, <1>3, <1>4, <1>5, <1>6, SetUntouched DEF Facts, Unused, Accepting
  <1>8. Channels' /\ Waiting' /\ SetInv'
    BY <1>1, <1>3, <1>4, <1>7, ChannelStep DEF Down
  <1>9. Phase' /\ QueueInv'
    BY <1>1, SetUntouched DEF IInv, Phase, QueueInv, Distinct
  <1>10. Hands'
    BY <1>1, <1>3, SetUntouched DEF IInv, Hands
  <1> QED
    BY <1>2, <1>8, <1>9, <1>10 DEF IInv

LEMMA CloseShutdownStep ==
  ASSUME IInv, CloseShutdown
  PROVE  IInv'
  <1>1. PICK c \in Chan : c = ucur /\ cstate[c] \in {"closing"} \cup Ended
    BY DEF CloseShutdown, IInv, Hands
  <1>2. /\ UNCHANGED <<setVars, workerVars>>
        /\ UNCHANGED <<registered, cstate, handler, ctrlq, backlog, data, peer>>
        /\ upc = "close" /\ upc' = "idle"
        /\ shut' = [shut EXCEPT ![c] = TRUE] \/ shut' = shut
    BY <1>1 DEF CloseShutdown, channelVars
  <1>3. TypeOK'
    BY <1>2 DEF CloseShutdown, IInv, TypeOK, setVars, workerVars, channelVars
  <1>4. Facts(c) /\ (shut[c] => shut'[c])
        /\ \A d \in Chan : d # c => shut'[d] = shut[d]
    BY <1>2 DEF IInv, Channels, TypeOK
  <1>5. \A d : (Queued(d)' <=> Queued(d)) /\ ~Handing(d) /\ ~Handing(d)'
    BY <1>2 DEF Queued, Handing
  <1>6. Facts(c)'
    BY <1>1, <1>2, <1>4, <1>5, SetUntouched DEF Facts, Accepting
  <1>7. Channels' /\ Waiting' /\ SetInv'
    BY <1>2, <1>4, <1>5, <1>6, ChannelStep DEF Down
  <1>8. Phase' /\ QueueInv'
    BY <1>2, SetUntouched DEF IInv, Phase, QueueInv, Distinct
  <1>9. Hands'
    <2>1. wpc = "closed" => wcur \in Chan /\ (shut[wcur] => shut'[wcur])
      BY <1>4 DEF IInv, SetInv
    <2> QED
      BY <1>2, <2>1, SetUntouched DEF IInv, Hands
  <1> QED
    BY <1>3, <1>7, <1>8, <1>9 DEF IInv

LEMMA ShutdownStep ==
  ASSUME IInv, Shutdown
  PROVE  IInv'
  <1>1. /\ UNCHANGED <<setVars, workerVars>>
        /\ UNCHANGED <<registered, cstate, handler, backlog, data, peer, shut>>
        /\ upc = "idle" /\ upc' = "join" /\ ctrlq' = Append(ctrlq, NULL)
    BY DEF Shutdown, channelVars, kernelVars
  <1>2. NULL \in Datagram /\ NULL \notin Chan
    BY TransportAssumption DEF Datagram
  <1>3. TypeOK'
    BY <1>1, <1>2, QueueAppend DEF Shutdown, IInv, TypeOK, setVars, workerVars, channelVars
  <1>4. \A d \in Chan : Queued(d)' <=> Queued(d)
    BY <1>1, <1>2, QueueAppend
  <1>5. \A d : ~Handing(d) /\ ~Handing(d)'
    BY <1>1 DEF Handing
  <1>6. ctrlq' # <<>>
    BY <1>1, <1>2, QueueAppend
  <1>7. Channels' /\ Waiting' /\ SetInv'
    BY <1>1, <1>2, <1>4, <1>5, <1>6, ChannelStep
  <1>8. ~stop /\ \A j \in 1..Len(ctrlq) : ctrlq[j] # NULL
    BY <1>1 DEF IInv, Phase
  <1>9. QueueInv'
    BY <1>1, <1>2, <1>8, QueueAppend DEF Queued
  <1>10. Phase'
    <2>1. \A j \in 1..(Len(ctrlq) + 1) : j \in 1..Len(ctrlq) \/ j = Len(ctrlq) + 1
      BY <1>1, <1>2, QueueAppend
    <2>2. \A j \in 1..Len(ctrlq') : ctrlq'[j] = NULL => j = Len(ctrlq')
      BY <1>1, <1>2, <1>8, <2>1, QueueAppend
    <2> QED
      BY <1>1, <1>8, <2>2, SetUntouched DEF IInv, Phase
  <1>11. Hands'
    BY <1>1, SetUntouched DEF IInv, Hands
  <1> QED
    BY <1>3, <1>7, <1>9, <1>10, <1>11 DEF IInv

\* Steps that only move a thread on.
LEMMA JoinStep ==
  ASSUME IInv, Join \/ AssignThread
  PROVE  IInv'
  <1>1. /\ UNCHANGED <<setVars, workerVars>>
        /\ UNCHANGED <<ucur, registered, cstate, rx, handler, ctrlq, backlog, data, peer, shut>>
        /\ \/ upc = "join" /\ upc' = "joined" /\ wpc = "terminated"
           \/ upc = "started" /\ upc' = "idle"
    BY DEF Join, AssignThread, channelVars, kernelVars
  <1>2. TypeOK'
    BY <1>1 DEF IInv, TypeOK, setVars, workerVars
  <1>3. \A d : (Queued(d)' <=> Queued(d)) /\ ~Handing(d) /\ ~Handing(d)'
    BY <1>1 DEF Queued, Handing
  <1>4. NULL \notin Chan
    BY TransportAssumption
  <1>5. Channels' /\ Waiting' /\ SetInv'
    BY <1>1, <1>3, <1>4, ChannelStep
  <1>6. Phase' /\ QueueInv'
    BY <1>1, SetUntouched DEF IInv, Phase, QueueInv, Distinct
  <1>7. Hands'
    BY <1>1, SetUntouched DEF IInv, Hands
  <1> QED
    BY <1>2, <1>5, <1>6, <1>7 DEF IInv

LEMMA StartThreadStep ==
  ASSUME IInv, StartThread
  PROVE  IInv'
  <1>1. /\ UNCHANGED <<ucur, registered, cstate, rx, handler, ctrlq, sockset, revents, idx, wcur,
                       wnew, stop, toClose, disturbed, backlog, data, peer, shut>>
        /\ upc = "new" /\ upc' = "started" /\ wpc = "new" /\ wpc' = "poll"
    BY DEF StartThread, channelVars, kernelVars, setVars
  <1>2. TypeOK'
    BY <1>1 DEF IInv, TypeOK
  <1>3. /\ \A d : (InSet(d)' <=> InSet(d)) /\ (Queued(d)' <=> Queued(d))
                  /\ ~Handing(d) /\ ~Handing(d)' /\ ~Accepting(d) /\ ~Accepting(d)'
        /\ Draining' <=> Draining
    BY <1>1 DEF InSet, Queued, Handing, Accepting, Draining
  <1>4. Channels'
    BY <1>1, <1>3, FactsKept DEF IInv, Channels
  <1>5. SetInv' /\ Waiting'
    BY <1>1, <1>3 DEF IInv, SetInv, Distinct, PassPlaces, Waiting
  <1>6. Phase' /\ QueueInv' /\ Hands'
    BY <1>1, <1>3 DEF IInv, Phase, QueueInv, Distinct, Hands
  <1> QED
    BY <1>2, <1>4, <1>5, <1>6 DEF IInv

LEMMA PeerStep ==
  ASSUME IInv, NEW c \in Chan,
         \/ c \in Incoming /\ PeerConnects(c)
         \/ PeerSends(c)
         \/ \E how \in {"fin", "reset"} : PeerEnds(c, how)
  PROVE  IInv'
  <1>1. /\ UNCHANGED <<setVars, workerVars>>
        /\ UNCHANGED <<upc, ucur, registered, cstate, rx, handler, ctrlq, shut>>
    BY DEF PeerConnects, PeerSends, PeerEnds, userVars, channelVars
  <1>2. /\ \A d \in Chan : d # c => /\ data'[d] = data[d] /\ peer'[d] = peer[d]
                                    /\ (d \in backlog' <=> d \in backlog)
        /\ \/ /\ c \in Incoming /\ peer[c] = "none" /\ peer'[c] = "up" /\ data'[c] = data[c]
              /\ c \in backlog'
           \/ /\ peer[c] = "up" /\ ~shut[c] /\ peer'[c] = "up" /\ data'[c] > 0
              /\ (c \in backlog' <=> c \in backlog)
           \/ /\ peer[c] = "up" /\ peer'[c] \in {"fin", "reset"} /\ data'[c] = data[c]
              /\ (c \in backlog' <=> c \in backlog)
        /\ backlog # {} => backlog' # {}
        /\ data' \in [Chan -> 0..MaxData] /\ backlog' \subseteq Incoming
        /\ peer' \in [Chan -> {"none", "up", "fin", "reset", "gone"}]
    <2>1. /\ data \in [Chan -> 0..MaxData] /\ backlog \subseteq Incoming /\ MaxData \in Nat
          /\ peer \in [Chan -> {"none", "up", "fin", "reset", "gone"}]
      BY TransportAssumption DEF IInv, TypeOK
    <2>2. CASE c \in Incoming /\ PeerConnects(c)
      <3>1. /\ peer[c] = "none" /\ peer' = [peer EXCEPT ![c] = "up"]
            /\ backlog' = backlog \cup {c} /\ data' = data
        BY <2>2 DEF PeerConnects
      <3> QED
        BY <2>1, <2>2, <3>1
    <2>3. CASE PeerSends(c)
      <3>1. /\ peer[c] = "up" /\ ~shut[c] /\ data[c] < MaxData /\ peer' = peer
            /\ data' = [data EXCEPT ![c] = data[c] + 1] /\ backlog' = backlog
        BY <2>3 DEF PeerSends
      <3>2. data[c] \in Nat /\ data[c] + 1 > 0 /\ data[c] + 1 \in 0..MaxData
        BY <2>1, <3>1
      <3>3. data' \in [Chan -> 0..MaxData] /\ data'[c] > 0
            /\ \A d \in Chan : d # c => data'[d] = data[d]
        BY <2>1, <3>1, <3>2
      <3> QED
        BY <2>1, <3>1, <3>3
    <2>4. CASE \E how \in {"fin", "reset"} : PeerEnds(c, how)
      <3>1. PICK how \in {"fin", "reset"} : PeerEnds(c, how)
        BY <2>4
      <3>2. /\ peer[c] = "up" /\ peer' = [peer EXCEPT ![c] = how]
            /\ backlog' = backlog /\ data' = data
        BY <3>1 DEF PeerEnds
      <3> QED
        BY <2>1, <3>2
    <2> QED
      BY <2>2, <2>3, <2>4
  <1>3. TypeOK'
    BY <1>1, <1>2 DEF IInv, TypeOK, setVars, workerVars
  <1>4. \A d : (Queued(d)' <=> Queued(d)) /\ (Handing(d)' <=> Handing(d))
    BY <1>1 DEF Queued, Handing
  <1>5. Facts(c) /\ (c \in Incoming => c \notin Outgoing)
    BY TransportAssumption DEF IInv, Channels
  <1>6. Facts(c)'
    BY <1>1, <1>2, <1>4, <1>5, SetUntouched DEF Facts, Accepting, Unused, Ended
  <1>7. Down(c) => data'[c] = 0
    BY <1>2 DEF Down, HungUp
  <1>8. Channels' /\ Waiting' /\ SetInv'
    BY <1>1, <1>2, <1>4, <1>6, <1>7, ChannelStep
  <1>9. Phase' /\ QueueInv'
    BY <1>1, SetUntouched DEF IInv, Phase, QueueInv, Distinct
  <1>10. Hands'
    <2>1. CASE wpc = "closed" /\ wcur = c
      <3>1. InSet(c) /\ cstate[c] \in {"open", "closing"}
        BY <1>5, <2>1 DEF IInv, SetInv, TypeOK, InSet, Facts
      <3> QED
        BY <1>1, <1>2, <1>5, <2>1, <3>1, SetUntouched DEF IInv, Hands, Facts, Unused
    <2>2. CASE ~(wpc = "closed" /\ wcur = c)
      <3>1. wpc = "closed" => wcur \in Chan /\ data'[wcur] = data[wcur] /\ peer'[wcur] = peer[wcur]
        BY <1>2, <2>2 DEF IInv, SetInv
      <3> QED
        BY <1>1, <3>1, SetUntouched DEF IInv, Hands
    <2> QED
      BY <2>1, <2>2
  <1> QED
    BY <1>3, <1>8, <1>9, <1>10 DEF IInv

-----------------------------------------------------------------------------
(* The worker. *)

\* The next entry of a pass: the events of the entries below are still true when
\* those of the other sockets are.
LEMMA Onward ==
  ASSUME IInv, NEW s, NEW e \in {"in", "hup"}, At(s, e), idx' = Index(s) - 1,
         \A j \in 1..Len(sockset) : sockset'[j] = sockset[j] /\ revents'[j] = revents[j],
         \A t \in Sockets : t # s => \A f : Pending(t, f) => Pending(t, f)'
  PROVE  Waiting' /\ idx' \in 0..Len(sockset)
  <1>1. /\ wpc = "pass" /\ idx' \in 0..idx /\ idx' \in 0..Len(sockset)
        /\ \A j \in 1..idx' : j \in 1..idx /\ sockset[j] # s
    BY AtFacts
  <1>2. idx \in 0..Len(sockset) /\ Len(sockset) \in Nat
    BY DEF IInv, TypeOK
  <1>3. \A j \in 1..idx' : sockset'[j] = sockset[j] /\ revents'[j] = revents[j]
    BY <1>1, <1>2
  <1>4. idx' \in Nat /\ idx' <= idx
    BY <1>1, <1>2
  <1>5. \A t \in Sockets, f \in {"in", "hup"} :
            (\E j \in 1..idx' : sockset[j] = t) /\ Pending(t, f) => Pending(t, f)'
    BY <1>1
  <1> QED
    BY <1>1, <1>3, <1>4, <1>5, StillWaiting DEF PassPlaces

\* The events of the sockets other than s when a step is only about s.
LEMMA OthersPending ==
  ASSUME NEW s,
         s # CTRL => (ctrlq # <<>> => ctrlq' # <<>>),
         s # SERVER => (backlog # {} => backlog' # {}),
         \A d \in Chan : d # s => data'[d] = data[d] /\ peer'[d] = peer[d] /\ shut'[d] = shut[d]
  PROVE  \A t \in Sockets : t # s => \A f : Pending(t, f) => Pending(t, f)'
  <1> SUFFICES ASSUME NEW t \in Sockets, t # s PROVE \A f : Pending(t, f) => Pending(t, f)'
    OBVIOUS
  <1>1. t \in Chan => /\ data[t] > 0 => data'[t] > 0
                      /\ peer[t] \in {"reset", "gone"} => peer'[t] \in {"reset", "gone"}
                      /\ peer[t] = "fin" => peer'[t] = "fin"
                      /\ shut[t] => shut'[t]
                      /\ Down(t) => data'[t] = 0
    BY DEF Down
  <1>2. /\ t = CTRL => (ctrlq # <<>> => ctrlq' # <<>>)
        /\ t = SERVER => (backlog # {} => backlog' # {})
    OBVIOUS
  <1> QED
    BY <1>1, <1>2, PendingStays

\* SocketSet::add.
LEMMA AddSocketFacts ==
  ASSUME IInv, NEW c \in Chan, ~InSet(c), AddSocket(c)
  PROVE  /\ sockset' \in Seq(Chan \cup {CTRL, SERVER}) /\ revents' \in Seq({"none", "in", "hup"})
         /\ Len(revents') = Len(sockset') /\ Len(sockset') = Len(sockset) + 1
         /\ Len(sockset) \in Nat /\ Distinct(sockset')
         /\ \A j \in 1..Len(sockset) : sockset'[j] = sockset[j] /\ revents'[j] = revents[j]
         /\ \A d : InSet(d)' <=> InSet(d) \/ d = c
  <1> DEFINE n == Len(sockset)
  <1>1. /\ sockset \in Seq(Chan \cup {CTRL, SERVER}) /\ revents \in Seq({"none", "in", "hup"})
        /\ Len(revents) = n /\ n \in Nat /\ Distinct(sockset)
    BY DEF IInv, TypeOK, SetInv
  <1>2. sockset' = Append(sockset, c) /\ revents' = Append(revents, "none")
    BY DEF AddSocket
  <1>3. /\ sockset' \in Seq(Chan \cup {CTRL, SERVER}) /\ Len(sockset') = n + 1
        /\ \A j \in 1..n : sockset'[j] = sockset[j]
        /\ sockset'[n + 1] = c
    BY <1>1, <1>2, AppendFacts
  <1>4. /\ revents' \in Seq({"none", "in", "hup"}) /\ Len(revents') = n + 1
        /\ \A j \in 1..n : revents'[j] = revents[j]
    BY <1>1, <1>2, AppendFacts
  <1>5. /\ \A j \in 1..(n + 1) : j \in 1..n \/ j = n + 1
        /\ \A j \in 1..n : j \in 1..(n + 1)
        /\ n + 1 \in 1..(n + 1)
    BY <1>1
  <1>6. \A j \in 1..n : sockset[j] # c
    BY DEF InSet
  <1> HIDE DEF n
  <1>7. \A i, j \in 1..(n + 1) : sockset'[i] = sockset'[j] => i = j
    BY <1>1, <1>3, <1>5, <1>6 DEF Distinct, n
  <1>8. ASSUME NEW d PROVE InSet(d)' <=> InSet(d) \/ d = c
    <2>1. InSet(d)' => InSet(d) \/ d = c
      BY <1>3, <1>5 DEF InSet, n
    <2>2. InSet(d) => InSet(d)'
      BY <1>3, <1>5 DEF InSet, n
    <2>3. d = c => InSet(d)'
      BY <1>3, <1>5 DEF InSet
    <2> QED
      BY <2>1, <2>2, <2>3
  <1> QED
    BY <1>1, <1>3, <1>4, <1>7, <1>8 DEF Distinct, n

\* A pass that is cut short by an exception, or is over.
LEMMA PassOver ==
  ASSUME IInv, wpc = "pass", idx' = 0, revents' = [j \in 1..Len(sockset) |-> "none"],
         UNCHANGED <<userVars, registered, handler, cstate, ctrlq, sockset, wcur, wnew, stop, toClose>>,
         wpc' \in {"poll", "shutdown", "terminated"},
         wpc' = "shutdown" => stop /\ ~Draining,
         wpc' = "terminated" => Draining /\ (disturbed' \/ sockset = <<>>),
         ~disturbed' => ~disturbed, disturbed' \in BOOLEAN
  PROVE  /\ SetInv' /\ Waiting' /\ Phase' /\ QueueInv' /\ Hands'
         /\ \A d : (InSet(d)' <=> InSet(d)) /\ (Queued(d)' <=> Queued(d))
                   /\ (Handing(d)' <=> Handing(d)) /\ ~Accepting(d) /\ ~Accepting(d)'
         /\ (Draining' <=> Draining)
         /\ revents' \in Seq({"none", "in", "hup"}) /\ idx' \in 0..Len(sockset)
  <1>1. /\ Len(sockset) \in Nat /\ Distinct(sockset)
    BY DEF IInv, TypeOK, SetInv
  <1>2. /\ revents' \in Seq({"none", "in", "hup"}) /\ Len(revents') = Len(sockset)
        /\ idx' \in 0..Len(sockset)
    BY <1>1
  <1>3. /\ \A d : (InSet(d)' <=> InSet(d)) /\ (Queued(d)' <=> Queued(d))
                   /\ (Handing(d)' <=> Handing(d)) /\ ~Accepting(d) /\ ~Accepting(d)'
        /\ (Draining' <=> Draining)
    BY DEF InSet, Queued, Handing, Accepting, Draining, userVars
  <1>4. SetInv' /\ Waiting'
    BY <1>2, <1>3 DEF IInv, SetInv, Distinct, PassPlaces, Waiting
  <1>5. Phase' /\ QueueInv'
    BY <1>3 DEF IInv, Phase, QueueInv, Distinct, userVars
  <1>6. toClose = {}
    BY DEF IInv, Phase
  <1>7. Hands'
    BY <1>6 DEF IInv, Hands, userVars
  <1> QED
    BY <1>2, <1>3, <1>4, <1>5, <1>7

LEMMA PollStep ==
  ASSUME IInv, Poll
  PROVE  IInv'
  <1>1. /\ UNCHANGED <<upc, ucur, registered, cstate, rx, handler, ctrlq, sockset, wcur, wnew, stop,
                       toClose, disturbed, backlog, data, peer, shut>>
        /\ wpc = "poll" /\ wpc' = "pass" /\ idx' = Len(sockset)
        /\ revents' \in [1..Len(sockset) -> {"none", "in", "hup"}]
        /\ \A j \in 1..Len(sockset) : revents'[j] \in Events(sockset[j])
    BY DEF Poll, userVars, channelVars, kernelVars
  <1>2. Len(sockset) \in Nat /\ \A j \in 1..Len(sockset) : sockset[j] \in Sockets
    BY DEF IInv, TypeOK, Sockets
  <1>3. revents' \in Seq({"none", "in", "hup"}) /\ Len(revents') = Len(sockset)
        /\ idx' \in 0..Len(sockset)
    BY <1>1, <1>2
  <1>4. TypeOK'
    BY <1>1, <1>3 DEF IInv, TypeOK
  <1>5. /\ \A d : (InSet(d)' <=> InSet(d)) /\ (Queued(d)' <=> Queued(d))
                  /\ (Handing(d)' <=> Handing(d)) /\ ~Accepting(d) /\ ~Accepting(d)'
        /\ Draining' <=> Draining
    BY <1>1 DEF InSet, Queued, Handing, Accepting, Draining
  <1>6. Channels'
    BY <1>1, <1>5, FactsKept DEF IInv, Channels
  <1>7. SetInv'
    BY <1>1, <1>3, <1>5 DEF IInv, SetInv, Distinct, PassPlaces
  <1>8. Waiting'
    <2> SUFFICES ASSUME NEW j \in 1..Len(sockset), revents'[j] # "none"
                 PROVE  Pending(sockset[j], revents[j])'
      BY <1>1 DEF Waiting
    <2>1. PICK s, e : s = sockset[j] /\ e = revents'[j]
      OBVIOUS
    <2>2. e \in Events(s) /\ e # "none"
      BY <1>1, <2>1
    <2>3. Readable(s) /\ (e = "hup" => s \in Chan /\ data[s] = 0 /\ HungUp(s))
      BY <2>2 DEF Events
    <2>4. Pending(s, e)'
      BY <1>1, <2>3 DEF Pending, Down, Readable, HungUp
    <2>5. s = sockset'[j]
      BY <1>1, <2>1
    <2> QED
      BY <2>1, <2>4, <2>5 DEF Pending, Down, Readable, HungUp
  <1>9. Phase' /\ QueueInv' /\ Hands'
    BY <1>1, <1>5 DEF IInv, Phase, QueueInv, Distinct, Hands
  <1> QED
    BY <1>4, <1>6, <1>7, <1>8, <1>9 DEF IInv

LEMMA PassEndStep ==
  ASSUME IInv, PassEnd
  PROVE  IInv'
  <1>1. /\ UNCHANGED <<userVars, registered, channelVars, ctrlq, sockset, wcur, wnew, stop,
                       toClose, disturbed, kernelVars>>
        /\ wpc = "pass" /\ idx' = 0 /\ revents' = [j \in 1..Len(sockset) |-> "none"]
        /\ wpc' \in {"poll", "shutdown", "terminated"}
        /\ wpc' = "shutdown" => stop /\ ~Draining
        /\ wpc' = "terminated" => Draining /\ sockset = <<>>
    BY DEF PassEnd, NothingLeft, AfterPass
  <1>2. UNCHANGED <<handler, cstate, rx, backlog, data, peer, shut>>
    BY <1>1 DEF channelVars, kernelVars
  <1>3. disturbed' \in BOOLEAN
    BY <1>1 DEF IInv, TypeOK
  <1>4. TypeOK'
    BY <1>1, <1>2, <1>3, PassOver DEF IInv, TypeOK, userVars
  <1>5. Channels'
    BY <1>1, <1>2, <1>3, PassOver, FactsKept DEF IInv, Channels
  <1> QED
    BY <1>1, <1>2, <1>3, <1>4, <1>5, PassOver DEF IInv

LEMMA OutOfPacketsStep ==
  ASSUME IInv, NEW c \in Chan, OutOfPackets(c)
  PROVE  IInv'
  <1>1. /\ UNCHANGED <<userVars, registered, channelVars, ctrlq, sockset, wcur, wnew, stop,
                       toClose, kernelVars>>
        /\ wpc = "pass" /\ Throw
    BY DEF OutOfPackets, At
  <1>2. UNCHANGED <<handler, cstate, rx, backlog, data, peer, shut>>
    BY <1>1 DEF channelVars, kernelVars
  <1>3. /\ idx' = 0 /\ revents' = [j \in 1..Len(sockset) |-> "none"]
        /\ wpc' \in {"poll", "shutdown", "terminated"}
        /\ wpc' = "shutdown" => stop /\ ~Draining
        /\ wpc' = "terminated" => Draining /\ disturbed'
        /\ ~disturbed' => ~disturbed
        /\ disturbed' \in BOOLEAN
    BY <1>1 DEF Throw, IInv, TypeOK
  <1>4. TypeOK'
    BY <1>1, <1>2, <1>3, PassOver DEF IInv, TypeOK, userVars
  <1>5. Channels'
    BY <1>1, <1>2, <1>3, PassOver, FactsKept DEF IInv, Channels
  <1> QED
    BY <1>1, <1>2, <1>3, <1>4, <1>5, PassOver DEF IInv

\* The worker takes the first datagram.
LEMMA QueueTail ==
  ASSUME IInv, ctrlq # <<>>, ctrlq' = Tail(ctrlq)
  PROVE  /\ ctrlq' \in Seq(Datagram) /\ Head(ctrlq) \in Datagram /\ Queued(Head(ctrlq))
         /\ Len(ctrlq) \in Nat \ {0} /\ Len(ctrlq') = Len(ctrlq) - 1 /\ Head(ctrlq) = ctrlq[1]
         /\ \A j \in 1..Len(ctrlq') : j + 1 \in 1..Len(ctrlq) /\ ctrlq'[j] = ctrlq[j + 1]
         /\ \A d : Queued(d)' <=> Queued(d) /\ d # Head(ctrlq)
         /\ QueueInv'
  <1> DEFINE n == Len(ctrlq)
  <1>1. ctrlq \in Seq(Datagram) /\ \A i, j \in 1..n : ctrlq[i] = ctrlq[j] => i = j
    BY DEF IInv, TypeOK, QueueInv, Distinct
  <1>2. /\ ctrlq' \in Seq(Datagram) /\ n \in Nat \ {0} /\ Len(ctrlq') = n - 1
        /\ \A j \in 1..(n - 1) : ctrlq'[j] = ctrlq[j + 1]
        /\ Head(ctrlq) = ctrlq[1] /\ Head(ctrlq) \in Datagram
    BY <1>1, TailFacts
  <1>3. /\ \A j \in 1..(n - 1) : j + 1 \in 1..n /\ j + 1 # 1
        /\ \A j \in 1..n : j # 1 => j - 1 \in 1..(n - 1) /\ (j - 1) + 1 = j
        /\ 1 \in 1..n
    BY <1>2
  <1>4. \A i, j \in 1..(n - 1) : ctrlq'[i] = ctrlq'[j] => i = j
    <2> SUFFICES ASSUME NEW i \in 1..(n - 1), NEW j \in 1..(n - 1), ctrlq'[i] = ctrlq'[j]
                 PROVE  i = j
      OBVIOUS
    <2>1. i + 1 = j + 1
      BY <1>1, <1>2, <1>3
    <2> QED
      BY <1>2, <2>1
  <1> HIDE DEF n
  <1>5. ASSUME NEW d PROVE Queued(d)' <=> Queued(d) /\ d # Head(ctrlq)
    <2>1. Queued(d)' => Queued(d) /\ d # Head(ctrlq)
      BY <1>1, <1>2, <1>3 DEF Queued, n
    <2>2. ASSUME Queued(d), d # Head(ctrlq) PROVE Queued(d)'
      <3>1. PICK j \in 1..n : ctrlq[j] = d
        BY <2>2 DEF Queued, n
      <3>2. j # 1
        BY <1>2, <2>2, <3>1
      <3>3. ctrlq'[j - 1] = d
        BY <1>2, <1>3, <3>1, <3>2
      <3> QED
        BY <1>2, <1>3, <3>2, <3>3 DEF Queued
    <2> QED
      BY <2>1, <2>2
  <1>6. Queued(Head(ctrlq))
    BY <1>2, <1>3 DEF Queued, n
  <1>7. QueueInv'
    BY <1>2, <1>4 DEF QueueInv, Distinct
  <1> QED
    BY <1>2, <1>3, <1>5, <1>6, <1>7 DEF n

LEMMA HandleCmdStep ==
  ASSUME IInv, HandleCmd
  PROVE  IInv'
  <1>1. /\ UNCHANGED <<upc, ucur, registered, cstate, rx, handler, wcur, wnew, toClose, disturbed,
                       backlog, data, peer, shut>>
        /\ At(CTRL, "in") /\ ctrlq' = Tail(ctrlq) /\ wpc = "pass" /\ wpc' = "pass"
        /\ idx' = Index(CTRL) - 1
    BY DEF HandleCmd, At, Proceed, userVars, channelVars, kernelVars
  <1>2. ctrlq # <<>> /\ InSet(CTRL) /\ ~Draining
    BY <1>1, AtFacts, TransportAssumption DEF Pending, Readable, Draining
  <1>3. /\ ~stop /\ Len(sockset) \in Nat
        /\ \A j \in 1..Len(ctrlq) : ctrlq[j] = NULL => j = Len(ctrlq) /\ upc \in {"join", "joined"}
    BY <1>2 DEF IInv, Phase, TypeOK
  <1>4. \A t \in Sockets : t # CTRL => \A f : Pending(t, f) => Pending(t, f)'
    BY <1>1, OthersPending
  <1>5. \A d : (Handing(d)' <=> Handing(d)) /\ ~Accepting(d) /\ ~Accepting(d)'
    BY <1>1 DEF Handing, Accepting
  <1>6. Hands'
    BY <1>1 DEF IInv, Hands
  <1>7. CASE Head(ctrlq) = NULL
    <2>1. stop' = TRUE /\ UNCHANGED <<sockset, revents>>
      BY <1>7 DEF HandleCmd
    <2>2. Waiting' /\ idx' \in 0..Len(sockset)
      BY <1>1, <1>4, <2>1, Onward
    <2>3. TypeOK'
      BY <1>1, <1>2, <2>1, <2>2, QueueTail DEF IInv, TypeOK
    <2>4. /\ \A d : InSet(d)' <=> InSet(d)
          /\ Draining' <=> Draining
      BY <2>1 DEF InSet, Draining
    <2>5. SetInv'
      BY <1>1, <2>1, <2>4 DEF IInv, SetInv, Distinct, PassPlaces
    <2>6. /\ upc \in {"join", "joined"} /\ Len(ctrlq) = 1
      <3>1. 1 \in 1..Len(ctrlq) /\ ctrlq[1] = NULL
        BY <1>1, <1>2, <1>7, QueueTail
      <3> QED
        BY <1>3, <3>1
    <2>7. ctrlq' = <<>> /\ 1..Len(ctrlq') = {}
      BY <1>1, <1>2, <2>6, QueueTail
    <2>8. Phase'
      BY <1>1, <1>2, <2>4, <2>6, <2>7 DEF IInv, Phase
    <2>9. \A d \in Chan : Queued(d)' <=> Queued(d)
      BY <1>1, <1>2, <1>7, QueueTail, TransportAssumption
    <2>10. Channels'
      BY <1>1, <1>5, <2>4, <2>9, FactsKept DEF IInv, Channels
    <2> QED
      BY <1>1, <1>2, <1>6, <2>2, <2>3, <2>5, <2>8, <2>10, QueueTail DEF IInv
  <1>8. CASE Head(ctrlq) # NULL
    <2>1. PICK c \in Chan : c = Head(ctrlq)
      BY <1>1, <1>2, <1>8, QueueTail DEF Datagram
    <2>2. Facts(c) /\ Queued(c) /\ ~InSet(c)
      BY <1>1, <1>2, <2>1, QueueTail DEF IInv, Channels, Facts
    <2>3. stop' = stop /\ AddSocket(c)
      BY <1>8, <2>1 DEF HandleCmd
    <2>4. Waiting' /\ idx' \in 0..Len(sockset)
      BY <1>1, <1>4, <2>2, <2>3, AddSocketFacts, Onward
    <2>5. idx' \in 0..Len(sockset')
      BY <2>2, <2>3, <2>4, AddSocketFacts
    <2>6. TypeOK'
      BY <1>1, <1>2, <2>2, <2>3, <2>5, AddSocketFacts, QueueTail DEF IInv, TypeOK
    <2>7. /\ \A d : InSet(d)' <=> InSet(d) \/ d = c
          /\ \A d : Queued(d)' <=> Queued(d) /\ d # c
          /\ c # CTRL /\ c # SERVER
      BY <1>1, <1>2, <2>1, <2>2, <2>3, AddSocketFacts, QueueTail, TransportAssumption
    <2>8. ~Draining'
      BY <1>2, <2>7 DEF Draining
    <2>9. SetInv'
      BY <1>1, <2>2, <2>3, <2>7, AddSocketFacts DEF IInv, SetInv, PassPlaces
    <2>10. Phase'
      <3>1. \A j \in 1..Len(ctrlq') : ctrlq'[j] = NULL => j = Len(ctrlq') /\ upc \in {"join", "joined"}
        <4> SUFFICES ASSUME NEW j \in 1..Len(ctrlq'), ctrlq'[j] = NULL
                     PROVE  j = Len(ctrlq') /\ upc \in {"join", "joined"}
          OBVIOUS
        <4>1. j + 1 = Len(ctrlq) /\ upc \in {"join", "joined"}
          BY <1>1, <1>2, <1>3, QueueTail
        <4> QED
          BY <1>1, <1>2, <4>1, QueueTail
      <3> QED
        BY <1>1, <1>2, <1>3, <2>3, <2>8, <3>1 DEF IInv, Phase
    <2>11. Facts(c)'
      BY <1>1, <1>5, <2>2, <2>7, <2>8 DEF Facts, Unused
    <2>12. Channels'
      <3>1. ASSUME NEW d \in Chan, d # c PROVE Facts(d)'
        BY <1>1, <1>5, <2>7, <2>8, <3>1, FactsKept DEF IInv, Channels
      <3> QED
        BY <2>11, <3>1 DEF Channels
    <2> QED
      BY <1>1, <1>2, <1>6, <2>4, <2>6, <2>9, <2>10, <2>12, QueueTail DEF IInv
  <1> QED
    BY <1>7, <1>8

LEMMA HandleIncomingStep ==
  ASSUME IInv, NEW c \in Incoming, HandleIncoming(c)
  PROVE  IInv'
  <1>1. /\ UNCHANGED <<upc, ucur, registered, rx, handler, ctrlq, wnew, stop, toClose, disturbed,
                       data, peer, shut>>
        /\ At(SERVER, "in") /\ c \in backlog /\ backlog' = backlog \ {c}
        /\ cstate' = [cstate EXCEPT ![c] = "open"] /\ AddSocket(c)
        /\ wpc = "pass" /\ wpc' = "insert" /\ wcur' = c /\ idx' = Index(SERVER) - 1
    BY DEF HandleIncoming, At, userVars
  <1>2. /\ c \in Chan /\ c \notin Outgoing /\ c # CTRL /\ c # SERVER
        /\ cstate'[c] = "open" /\ \A d \in Chan : d # c => cstate'[d] = cstate[d]
    BY <1>1, TransportAssumption DEF Chan, IInv, TypeOK
  <1>3. Facts(c) /\ InSet(SERVER) /\ ~Draining
    BY <1>1, <1>2, AtFacts DEF IInv, Channels, SetInv, Draining
  <1>4. /\ cstate[c] \in Unused /\ peer[c] # "none" /\ ~InSet(c) /\ ~Queued(c) /\ ~Handing(c)
        /\ c \notin registered /\ c \notin handler /\ ~shut[c]
    BY <1>1, <1>3 DEF Facts, Unused, Ended
  <1>5. \A t \in Sockets : t # SERVER => \A f : Pending(t, f) => Pending(t, f)'
    BY <1>1, OthersPending
  <1>6. Waiting' /\ idx' \in 0..Len(sockset)
    BY <1>1, <1>2, <1>4, <1>5, AddSocketFacts, Onward
  <1>7. idx' \in 0..Len(sockset')
    BY <1>1, <1>2, <1>4, <1>6, AddSocketFacts
  <1>8. TypeOK'
    BY <1>1, <1>2, <1>4, <1>7, AddSocketFacts DEF IInv, TypeOK
  <1>9. /\ \A d : InSet(d)' <=> InSet(d) \/ d = c
        /\ \A d : (Queued(d)' <=> Queued(d)) /\ (Handing(d)' <=> Handing(d))
        /\ \A d : ~Accepting(d) /\ (Accepting(d)' <=> d = c)
    BY <1>1, <1>2, <1>4, AddSocketFacts DEF Queued, Handing, Accepting
  <1>10. ~Draining'
    BY <1>2, <1>3, <1>9 DEF Draining
  <1>11. SetInv'
    BY <1>1, <1>2, <1>4, <1>9, AddSocketFacts DEF IInv, SetInv, PassPlaces
  <1>12. Phase' /\ QueueInv'
    BY <1>1, <1>10 DEF IInv, Phase, QueueInv, Distinct
  <1>13. Facts(c)'
    BY <1>1, <1>2, <1>4, <1>9, <1>10 DEF Facts, Unused
  <1>14. Channels'
    <2>1. ASSUME NEW d \in Chan, d # c PROVE Facts(d)'
      BY <1>1, <1>2, <1>9, <1>10, <2>1, FactsKept DEF IInv, Channels
    <2> QED
      BY <1>13, <2>1 DEF Channels
  <1>15. Hands'
    <2>1. upc = "close" => ucur # c
      BY <1>4 DEF IInv, Hands, Unused, Ended
    <2> QED
      BY <1>1, <1>2, <2>1 DEF IInv, Hands
  <1> QED
    BY <1>6, <1>8, <1>11, <1>12, <1>14, <1>15 DEF IInv

LEMMA AcceptInsertStep ==
  ASSUME IInv, AcceptInsert
  PROVE  IInv'
  <1>1. PICK c \in Incoming : c = wcur /\ InSet(c)
    BY DEF AcceptInsert, IInv, SetInv
  <1>2. /\ UNCHANGED <<upc, ucur, cstate, rx, ctrlq, sockset, revents, idx, wnew, stop, toClose,
                       disturbed, backlog, data, peer, shut>>
        /\ wpc = "insert" /\ wpc' = "pass" /\ wcur' = NULL
        /\ registered' = registered \cup {c} \/ registered' = registered
        /\ handler' = handler \cup {c}
    BY <1>1 DEF AcceptInsert, Insert, userVars, setVars, kernelVars
  <1>3. c \in Chan /\ Facts(c) /\ ~Draining
    BY <1>2 DEF IInv, Channels, Chan, Phase
  <1>4. TypeOK'
    BY <1>2, <1>3 DEF IInv, TypeOK
  <1>5. /\ \A d : (InSet(d)' <=> InSet(d)) /\ (Queued(d)' <=> Queued(d))
                  /\ (Handing(d)' <=> Handing(d)) /\ ~Accepting(d)'
        /\ \A d : d # c => ~Accepting(d)
        /\ Draining' <=> Draining
    BY <1>1, <1>2 DEF InSet, Queued, Handing, Accepting, Draining
  <1>6. SetInv'
    BY <1>2, <1>5 DEF IInv, SetInv, Distinct, PassPlaces
  <1>7. Waiting'
    BY <1>2 DEF IInv, Waiting, PassPlaces, Pending, Readable, Down, HungUp
  <1>8. Phase' /\ QueueInv' /\ Hands'
    BY <1>2, <1>5 DEF IInv, Phase, QueueInv, Distinct, Hands
  <1>9. Facts(c)'
    BY <1>1, <1>2, <1>3, <1>5 DEF Facts, Unused
  <1>10. Channels'
    <2>1. ASSUME NEW d \in Chan, d # c PROVE Facts(d)'
      BY <1>2, <1>5, <2>1, FactsKept DEF IInv, Channels
    <2> QED
      BY <1>9, <2>1 DEF Channels
  <1> QED
    BY <1>4, <1>6, <1>7, <1>8, <1>10 DEF IInv

\* What recv() of a part of the data leaves alone.
LEMMA ConsumeFacts ==
  ASSUME IInv, NEW c \in Chan, At(c, "in"), Consume(c)
  PROVE  /\ UNCHANGED <<upc, ucur, registered, handler, cstate, ctrlq, sockset, wcur, wnew, stop,
                        toClose, backlog, peer, shut>>
         /\ data' \in [Chan -> 0..MaxData]
         /\ \A d \in Chan : d # c => data'[d] = data[d]
         /\ data[c] > 0 /\ wpc = "pass" /\ c # CTRL /\ c # SERVER
         /\ \A d : (InSet(d)' <=> InSet(d)) /\ (Queued(d)' <=> Queued(d))
                   /\ (Handing(d)' <=> Handing(d)) /\ ~Accepting(d)
         /\ (Draining' <=> Draining)
         /\ \A t \in Sockets : t # c => \A f : Pending(t, f) => Pending(t, f)'
  <1>1. /\ UNCHANGED <<upc, ucur, registered, handler, cstate, ctrlq, sockset, wcur, wnew, stop,
                        toClose, backlog, peer, shut>>
        /\ data[c] > 0 /\ data' = [data EXCEPT ![c] = data[c] - 1] /\ wpc = "pass"
    BY DEF Consume, At, userVars
  <1>2. data \in [Chan -> 0..MaxData] /\ MaxData \in Nat
    BY TransportAssumption DEF IInv, TypeOK
  <1>3. data[c] - 1 \in 0..MaxData
    BY <1>1, <1>2
  <1>4. data' \in [Chan -> 0..MaxData] /\ \A d \in Chan : d # c => data'[d] = data[d]
    BY <1>1, <1>2, <1>3
  <1>5. c # CTRL /\ c # SERVER
    BY TransportAssumption
  <1>6. \A t \in Sockets : t # c => \A f : Pending(t, f) => Pending(t, f)'
    BY <1>1, <1>4, OthersPending
  <1>7. /\ \A d : (InSet(d)' <=> InSet(d)) /\ (Queued(d)' <=> Queued(d))
                   /\ (Handing(d)' <=> Handing(d)) /\ ~Accepting(d)
        /\ (Draining' <=> Draining)
    BY <1>1 DEF InSet, Queued, Handing, Accepting, Draining
  <1> QED
    BY <1>1, <1>4, <1>5, <1>6, <1>7

LEMMA ReceiveStep ==
  ASSUME IInv, NEW c \in Chan, ReceivePart(c) \/ ReceiveExact(c) \/ ReceiveExcess(c)
  PROVE  IInv'
  <1>1. /\ At(c, "in") /\ Consume(c) /\ UNCHANGED <<revents, disturbed>>
        /\ idx' = Index(c) - 1 /\ wpc' = "pass"
        /\ \/ rx' = [rx EXCEPT ![c] = "partial"]
           \/ rx' = [rx EXCEPT ![c] = "none"]
    BY DEF ReceivePart, ReceiveExact, ReceiveExcess, Proceed
  <1>2. rx' \in [Chan -> {"none", "empty", "partial"}]
    BY <1>1 DEF IInv, TypeOK
  <1>3. Waiting' /\ idx' \in 0..Len(sockset)
    BY <1>1, ConsumeFacts, Onward
  <1>4. TypeOK'
    BY <1>1, <1>2, <1>3, ConsumeFacts DEF IInv, TypeOK
  <1>5. SetInv'
    BY <1>1, ConsumeFacts DEF IInv, SetInv, Distinct, PassPlaces
  <1>6. Phase' /\ QueueInv' /\ Hands'
    BY <1>1, ConsumeFacts DEF IInv, Phase, QueueInv, Distinct, Hands
  <1>7. \A d : ~Accepting(d)'
    BY <1>1 DEF Accepting
  <1>8. Facts(c)'
    BY <1>1, <1>7, ConsumeFacts DEF IInv, Channels, Facts
  <1>9. Channels'
    <2>1. ASSUME NEW d \in Chan, d # c PROVE Facts(d)'
      BY <1>1, <1>7, <2>1, ConsumeFacts, FactsKept DEF IInv, Channels
    <2> QED
      BY <1>8, <2>1 DEF Channels
  <1> QED
    BY <1>3, <1>4, <1>5, <1>6, <1>9 DEF IInv

\* The steps that throw.
LEMMA ThrowFacts ==
  ASSUME IInv, wpc = "pass", Throw,
         UNCHANGED <<userVars, registered, handler, cstate, ctrlq, sockset, wcur, wnew, stop, toClose>>
  PROVE  /\ SetInv' /\ Waiting' /\ Phase' /\ QueueInv' /\ Hands'
         /\ \A d : (InSet(d)' <=> InSet(d)) /\ (Queued(d)' <=> Queued(d))
                   /\ (Handing(d)' <=> Handing(d)) /\ ~Accepting(d) /\ ~Accepting(d)'
         /\ (Draining' <=> Draining)
         /\ revents' \in Seq({"none", "in", "hup"}) /\ idx' \in 0..Len(sockset)
         /\ wpc' \in {"poll", "shutdown", "terminated"}
         /\ disturbed' \in BOOLEAN /\ (~disturbed' => ~disturbed)
  <1>1. /\ idx' = 0 /\ revents' = [j \in 1..Len(sockset) |-> "none"]
        /\ wpc' \in {"poll", "shutdown", "terminated"}
        /\ wpc' = "shutdown" => stop /\ ~Draining
        /\ wpc' = "terminated" => Draining /\ disturbed'
        /\ ~disturbed' => ~disturbed
        /\ disturbed' \in BOOLEAN
    BY DEF Throw, IInv, TypeOK
  <1> QED
    BY <1>1, PassOver

LEMMA AcceptFailsStep ==
  ASSUME IInv, AcceptRefused \/ \E c \in Incoming : AcceptAborted(c)
  PROVE  IInv'
  <1>1. /\ UNCHANGED <<userVars, registered, rx, handler, cstate, ctrlq, sockset, wcur, wnew, stop,
                       toClose, data, peer, shut>>
        /\ wpc = "pass" /\ Throw /\ backlog' \subseteq backlog
    BY DEF AcceptRefused, AcceptAborted, At, channelVars, kernelVars
  <1>2. TypeOK'
    BY <1>1, ThrowFacts DEF IInv, TypeOK, userVars
  <1>3. ASSUME NEW c \in Chan PROVE Facts(c)'
    <2>1. Facts(c) /\ (c \in backlog' => c \in backlog)
      BY <1>1 DEF IInv, Channels
    <2> QED
      BY <1>1, <2>1, ThrowFacts DEF Facts
  <1>4. Channels'
    BY <1>3 DEF Channels
  <1> QED
    BY <1>1, <1>2, <1>4, ThrowFacts DEF IInv

\* An exception after the data has been received.
LEMMA ReceiveThrowsStep ==
  ASSUME IInv, NEW c \in Chan, ReceiveExcessThrows(c) \/ HandlerThrows(c)
  PROVE  IInv'
  <1>1. /\ At(c, "in") /\ Consume(c) /\ Throw
        /\ \/ rx' = [rx EXCEPT ![c] = "none"]
           \/ rx' = [rx EXCEPT ![c] = "partial"]
    BY DEF ReceiveExcessThrows, HandlerThrows
  <1>2. rx' \in [Chan -> {"none", "empty", "partial"}]
    BY <1>1 DEF IInv, TypeOK
  <1>3. UNCHANGED <<userVars, registered, handler, cstate, ctrlq, sockset, wcur, wnew, stop, toClose>>
        /\ wpc = "pass"
    BY <1>1, ConsumeFacts DEF userVars
  <1>4. TypeOK'
    BY <1>1, <1>2, <1>3, ConsumeFacts, ThrowFacts DEF IInv, TypeOK
  <1>5. Facts(c)'
    BY <1>1, <1>3, ConsumeFacts, ThrowFacts DEF IInv, Channels, Facts
  <1>6. Channels'
    <2>1. ASSUME NEW d \in Chan, d # c PROVE Facts(d)'
      BY <1>1, <1>3, <2>1, ConsumeFacts, ThrowFacts, FactsKept DEF IInv, Channels
    <2> QED
      BY <1>5, <2>1 DEF Channels
  <1> QED
    BY <1>1, <1>3, <1>4, <1>6, ThrowFacts DEF IInv

LEMMA ReceiveErrorStep ==
  ASSUME IInv, NEW c \in Chan, ReceiveError(c)
  PROVE  IInv'
  <1>1. /\ UNCHANGED <<userVars, registered, handler, cstate, ctrlq, sockset, wcur, wnew, stop,
                       toClose, backlog, data, shut>>
        /\ wpc = "pass" /\ Throw /\ peer[c] = "reset" /\ peer' = [peer EXCEPT ![c] = "gone"]
        /\ \E r \in {"none", "empty", "partial"} : rx' = [rx EXCEPT ![c] = r]
    BY DEF ReceiveError, At, IInv, TypeOK
  <1>2. /\ rx' \in [Chan -> {"none", "empty", "partial"}]
        /\ peer' \in [Chan -> {"none", "up", "fin", "reset", "gone"}]
        /\ peer'[c] = "gone" /\ \A d \in Chan : d # c => peer'[d] = peer[d]
    BY <1>1 DEF IInv, TypeOK
  <1>3. TypeOK'
    BY <1>1, <1>2, ThrowFacts DEF IInv, TypeOK, userVars
  <1>4. Facts(c)'
    BY <1>1, <1>2, ThrowFacts DEF IInv, Channels, Facts
  <1>5. Channels'
    <2>1. ASSUME NEW d \in Chan, d # c PROVE Facts(d)'
      BY <1>1, <1>2, <2>1, ThrowFacts, FactsKept DEF IInv, Channels
    <2> QED
      BY <1>4, <2>1 DEF Channels
  <1> QED
    BY <1>1, <1>3, <1>5, ThrowFacts DEF IInv

\* The worker is told that a connection has ended.
LEMMA BeginClosedStep ==
  ASSUME IInv, NEW c \in Chan, ReceiveEof(c) \/ Disconnected(c)
  PROVE  IInv'
  <1>1. /\ UNCHANGED <<upc, ucur, registered, handler, cstate, ctrlq, sockset, revents, stop,
                       toClose, disturbed, backlog, data, peer, shut>>
        /\ wpc = "pass" /\ wpc' = "closed" /\ wcur' = c /\ idx' = Index(c) - 1
        /\ wnew' = IF cstate[c] = "closing" THEN "closed" ELSE "closed_by_peer"
    BY DEF ReceiveEof, Disconnected, At, BeginClosed, userVars, channelVars, kernelVars
  <1>2. PICK e \in {"in", "hup"} : At(c, e)
    BY DEF ReceiveEof, Disconnected
  <1>3. data[c] = 0 /\ (shut[c] \/ peer[c] \in {"fin", "gone", "reset"})
    <2>1. CASE ReceiveEof(c)
      BY <2>1 DEF ReceiveEof
    <2>2. CASE Disconnected(c)
      BY <2>2, AtFacts DEF Disconnected, Pending, Down, HungUp
    <2> QED
      BY <2>1, <2>2
  <1>4. rx' \in [Chan -> {"none", "empty", "partial"}]
    <2>1. rx' = rx \/ \E r \in {"none", "empty", "partial"} : rx' = [rx EXCEPT ![c] = r]
      BY DEF ReceiveEof, Disconnected, channelVars, IInv, TypeOK
    <2> QED
      BY <2>1 DEF IInv, TypeOK
  <1>5. /\ Index(c) \in 1..Len(sockset) /\ sockset[Index(c)] = c /\ InSet(c) /\ Facts(c)
        /\ Len(sockset) \in Nat
    BY <1>2, AtFacts DEF IInv, Channels, TypeOK
  <1>6. \A t \in Sockets : t # c => \A f : Pending(t, f) => Pending(t, f)'
    BY <1>1, OthersPending
  <1>7. Waiting' /\ idx' \in 0..Len(sockset)
    BY <1>1, <1>2, <1>6, Onward
  <1>8. TypeOK'
    BY <1>1, <1>4, <1>7 DEF IInv, TypeOK
  <1>9. /\ \A d : (InSet(d)' <=> InSet(d)) /\ (Queued(d)' <=> Queued(d))
                  /\ (Handing(d)' <=> Handing(d)) /\ ~Accepting(d) /\ ~Accepting(d)'
        /\ Draining' <=> Draining
    BY <1>1 DEF InSet, Queued, Handing, Accepting, Draining
  <1>10. SetInv'
    <2>1. idx' + 1 = Index(c) /\ idx' + 1 <= Len(sockset)
      BY <1>1, <1>5
    <2> QED
      BY <1>1, <1>5, <1>9, <2>1 DEF IInv, SetInv, Distinct, PassPlaces
  <1>11. Phase' /\ QueueInv'
    BY <1>1, <1>9 DEF IInv, Phase, QueueInv, Distinct
  <1>12. Channels'
    BY <1>1, <1>9, FactsKept DEF IInv, Channels
  <1>13. Hands'
    BY <1>1, <1>3, <1>5 DEF IInv, Hands, Facts, Ended
  <1> QED
    BY <1>7, <1>8, <1>10, <1>11, <1>12, <1>13 DEF IInv

LEMMA ClosedStep ==
  ASSUME IInv, Closed
  PROVE  IInv'
  <1>1. /\ UNCHANGED <<upc, ucur, registered, handler, rx, ctrlq, idx, stop, toClose, disturbed,
                       backlog, data, peer, shut>>
        /\ wpc = "closed" /\ wpc' = "pass" /\ wcur' = NULL /\ wnew' = "none"
        /\ cstate' = [cstate EXCEPT ![wcur] = wnew]
        /\ sockset' = Without(sockset, wcur) /\ revents' = Erase(revents, Index(wcur))
    BY DEF Closed, RemoveSocket, userVars, kernelVars
  <1>2. PICK c \in Chan : c = wcur
    BY <1>1 DEF IInv, SetInv
  <1> DEFINE k == idx + 1
  <1>3. /\ sockset \in Seq(Chan \cup {CTRL, SERVER}) /\ revents \in Seq({"none", "in", "hup"})
        /\ Distinct(sockset) /\ Len(revents) = Len(sockset)
        /\ idx \in Nat /\ k \in 1..Len(sockset) /\ sockset[k] = c /\ k - 1 = idx
    BY <1>1, <1>2 DEF IInv, TypeOK, SetInv
  <1>4. Index(wcur) = k
    BY <1>2, <1>3, PlaceFacts DEF Index
  <1>5. k \in 1..Len(revents) /\ Len(sockset) \in Nat
    BY <1>3
  <1> HIDE DEF k
  <1>6. /\ sockset' \in Seq(Chan \cup {CTRL, SERVER}) /\ Distinct(sockset')
        /\ Len(sockset') = Len(sockset) - 1
        /\ \A j \in 1..idx : sockset'[j] = sockset[j]
        /\ \A d : InSet(d)' <=> d # c /\ InSet(d)
    <2>1. sockset' = Without(sockset, sockset[k])
      BY <1>1, <1>2, <1>3
    <2> DEFINE S == Chan \cup {CTRL, SERVER}
               r == Without(sockset, sockset[k])
    <2>2. sockset \in Seq(S) /\ Distinct(sockset) /\ k \in 1..Len(sockset)
      BY <1>3
    <2> HIDE DEF S
    <2>3. /\ r \in Seq(S) /\ Distinct(r) /\ Len(r) = Len(sockset) - 1
          /\ \A j \in 1..(k - 1) : r[j] = sockset[j]
          /\ \A d : (\E i \in 1..Len(r) : r[i] = d)
                      <=> d # sockset[k] /\ \E i \in 1..Len(sockset) : sockset[i] = d
      BY <2>2, RemoveFacts
    <2> HIDE DEF r
    <2>4. sockset' = r
      BY <2>1 DEF r
    <2> QED
      BY <1>3, <2>3, <2>4 DEF InSet, S
  <1>7. /\ revents' \in Seq({"none", "in", "hup"}) /\ Len(revents') = Len(sockset) - 1
        /\ \A j \in 1..(Len(sockset) - 1) :
              revents'[j] = IF j < k THEN revents[j] ELSE revents[j + 1]
    BY <1>1, <1>3, <1>4, <1>5, EraseFacts
  <1>8. /\ \A j \in 1..idx : revents'[j] = revents[j]
        /\ idx \in 0..(Len(sockset) - 1)
    <2>1. \A j \in 1..idx : j \in 1..(Len(sockset) - 1) /\ j < k
      BY <1>3, <1>5
    <2>2. idx \in 0..(Len(sockset) - 1)
      BY <1>3, <1>5
    <2> QED
      BY <1>7, <2>1, <2>2
  <1>9. /\ cstate'[c] = wnew /\ wnew \in Ended /\ \A d \in Chan : d # c => cstate'[d] = cstate[d]
    BY <1>1, <1>2 DEF IInv, TypeOK, Hands
  <1>10. TypeOK'
    BY <1>1, <1>6, <1>7, <1>8 DEF IInv, TypeOK
  <1>11. /\ \A d : (Queued(d)' <=> Queued(d)) /\ (Handing(d)' <=> Handing(d))
                   /\ ~Accepting(d) /\ ~Accepting(d)'
         /\ InSet(CTRL)' <=> InSet(CTRL)
         /\ InSet(SERVER)' <=> InSet(SERVER)
         /\ Draining' <=> Draining
    BY <1>1, <1>6, TransportAssumption DEF Queued, Handing, Accepting, Draining
  <1>12. SetInv'
    BY <1>1, <1>6, <1>7, <1>11 DEF IInv, SetInv, PassPlaces
  <1>13. Waiting'
    <2>1. \A t \in Sockets, f \in {"in", "hup"} : Pending(t, f) => Pending(t, f)'
      BY <1>1 DEF Pending, Readable, Down, HungUp
    <2>2. idx' \in Nat /\ idx' <= idx
      BY <1>1, <1>3
    <2> QED
      BY <1>1, <1>6, <1>8, <2>1, <2>2, StillWaiting DEF PassPlaces
  <1>14. Phase' /\ QueueInv'
    BY <1>1, <1>11 DEF IInv, Phase, QueueInv, Distinct
  <1>15. Facts(c) /\ InSet(c)
    BY <1>3 DEF IInv, Channels, InSet
  <1>16. /\ data[c] = 0 /\ (shut[c] \/ peer[c] # "up")
         /\ wnew = "closed_by_peer" => peer[c] # "up"
    BY <1>1, <1>2 DEF IInv, Hands
  <1>17. Facts(c)'
    BY <1>1, <1>6, <1>9, <1>11, <1>15, <1>16 DEF Facts, Ended, Unused
  <1>18. Channels'
    <2>1. ASSUME NEW d \in Chan, d # c PROVE Facts(d)'
      BY <1>1, <1>6, <1>9, <1>11, <2>1, FactsKept DEF IInv, Channels
    <2> QED
      BY <1>17, <2>1 DEF Channels
  <1>19. Hands'
    BY <1>1, <1>9 DEF IInv, Hands
  <1> QED
    BY <1>10, <1>12, <1>13, <1>14, <1>18, <1>19 DEF IInv

LEMMA BeginShutdownStep ==
  ASSUME IInv, BeginShutdown
  PROVE  IInv'
  <1>1. /\ UNCHANGED <<upc, ucur, registered, handler, cstate, rx, ctrlq, idx, wcur, wnew, stop,
                       disturbed, backlog, data, peer, shut>>
        /\ wpc = "shutdown" /\ wpc' = "closeall" /\ toClose' = registered
        /\ sockset' = Without(Without(sockset, CTRL), SERVER)
        /\ revents' = [j \in 1..Len(sockset') |-> "none"]
    BY DEF BeginShutdown, userVars, channelVars, kernelVars
  <1> DEFINE S == Chan \cup {CTRL, SERVER}
             q == Without(sockset, CTRL)
  <1>2. /\ sockset \in Seq(S) /\ Distinct(sockset) /\ idx = 0 /\ InSet(CTRL) /\ InSet(SERVER) /\ stop
    BY <1>1 DEF IInv, TypeOK, SetInv, Phase, PassPlaces, Draining
  <1>3. CTRL # SERVER /\ \A d \in Chan : d # CTRL /\ d # SERVER
    BY TransportAssumption
  <1> HIDE DEF S
  <1>4. /\ q \in Seq(S) /\ Distinct(q)
        /\ \A d : (\E i \in 1..Len(q) : q[i] = d) <=> d # CTRL /\ InSet(d)
    <2>1. PICK k \in 1..Len(sockset) : sockset[k] = CTRL
      BY <1>2 DEF InSet
    <2>2. Without(sockset, sockset[k]) = q
      BY <2>1 DEF q
    <2>3. /\ Without(sockset, sockset[k]) \in Seq(S) /\ Distinct(Without(sockset, sockset[k]))
          /\ \A d : (\E i \in 1..Len(Without(sockset, sockset[k])) :
                          Without(sockset, sockset[k])[i] = d)
                      <=> d # sockset[k] /\ \E i \in 1..Len(sockset) : sockset[i] = d
      BY <1>2, RemoveFacts
    <2> HIDE DEF q
    <2> QED
      BY <2>1, <2>2, <2>3 DEF InSet
  <1> HIDE DEF q
  <1>5. /\ sockset' \in Seq(S) /\ Distinct(sockset')
        /\ \A d : InSet(d)' <=> d # SERVER /\ d # CTRL /\ InSet(d)
    <2>1. PICK k \in 1..Len(q) : q[k] = SERVER
      BY <1>2, <1>3, <1>4
    <2>2. sockset' = Without(q, q[k])
      BY <1>1, <2>1 DEF q
    <2> DEFINE r == Without(q, q[k])
    <2>3. /\ r \in Seq(S) /\ Distinct(r)
          /\ \A d : (\E i \in 1..Len(r) : r[i] = d)
                      <=> d # q[k] /\ \E i \in 1..Len(q) : q[i] = d
      BY <1>4, RemoveFacts
    <2> HIDE DEF r
    <2>4. sockset' = r
      BY <2>2 DEF r
    <2> QED
      BY <1>4, <2>1, <2>3, <2>4 DEF InSet
  <1>6. /\ Len(sockset') \in Nat /\ revents' \in Seq({"none", "in", "hup"})
        /\ Len(revents') = Len(sockset') /\ 0 \in 0..Len(sockset')
    BY <1>1, <1>5
  <1>7. TypeOK'
    BY <1>1, <1>2, <1>5, <1>6 DEF IInv, TypeOK, S
  <1>8. SetInv' /\ Waiting' /\ Draining'
    BY <1>1, <1>2, <1>3, <1>5, <1>6 DEF SetInv, Waiting, PassPlaces, Draining
  <1>9. Phase' /\ QueueInv'
    BY <1>1, <1>2, <1>8 DEF IInv, Phase, QueueInv, Distinct
  <1>10. \A d \in Chan : /\ (InSet(d)' <=> InSet(d)) /\ (Queued(d)' <=> Queued(d))
                         /\ (Handing(d)' <=> Handing(d)) /\ ~Accepting(d) /\ ~Accepting(d)'
    BY <1>1, <1>3, <1>5 DEF Queued, Handing, Accepting
  <1>11. Channels'
    BY <1>1, <1>10 DEF IInv, Channels, Facts
  <1>12. Hands'
    BY <1>1 DEF IInv, Hands
  <1> QED
    BY <1>7, <1>8, <1>9, <1>11, <1>12 DEF IInv

LEMMA CloseChannelStep ==
  ASSUME IInv, NEW c \in Chan, CloseChannel(c)
  PROVE  IInv'
  <1>1. /\ UNCHANGED <<upc, ucur, registered, handler, rx, ctrlq, sockset, revents, idx, wcur, wnew,
                       stop, backlog, data, peer>>
        /\ wpc = "closeall" /\ c \in toClose /\ cstate' = [cstate EXCEPT ![c] = "closing"]
        /\ \/ /\ shut' = [shut EXCEPT ![c] = TRUE] /\ toClose' = toClose \ {c} /\ wpc' = wpc
              /\ disturbed' = (disturbed \/ ~(InSet(c) \/ Queued(c)))
           \/ /\ disturbed' = TRUE /\ toClose' = {} /\ wpc' = "terminated" /\ shut' = shut
    BY DEF CloseChannel, userVars, setVars
  <1>2. disturbed' \in BOOLEAN /\ shut' \in [Chan -> BOOLEAN] /\ toClose' \subseteq Chan
    BY <1>1 DEF IInv, TypeOK
  <1>3. TypeOK'
    BY <1>1, <1>2 DEF IInv, TypeOK
  <1>4. /\ \A d : (InSet(d)' <=> InSet(d)) /\ (Queued(d)' <=> Queued(d))
                  /\ (Handing(d)' <=> Handing(d)) /\ ~Accepting(d) /\ ~Accepting(d)'
        /\ Draining' <=> Draining
    BY <1>1 DEF InSet, Queued, Handing, Accepting, Draining
  <1>5. Draining /\ stop /\ ctrlq = <<>> /\ upc \in {"join", "joined"}
    BY <1>1 DEF IInv, Phase
  <1>6. \A d : ~Queued(d) /\ ~Handing(d)
    BY <1>5 DEF Queued, Handing
  <1>7. SetInv' /\ Waiting'
    BY <1>1, <1>4 DEF IInv, SetInv, Distinct, Waiting, PassPlaces
  <1>8. Phase' /\ QueueInv'
    BY <1>1, <1>4, <1>5 DEF IInv, Phase, QueueInv, Distinct
  <1>9. /\ cstate'[c] = "closing" /\ \A d \in Chan : d # c => cstate'[d] = cstate[d]
        /\ shut[c] => shut'[c]
        /\ \A d \in Chan : d # c => shut'[d] = shut[d]
    BY <1>1 DEF IInv, TypeOK
  <1>10. Facts(c) /\ cstate[c] \notin Unused
    BY <1>1 DEF IInv, Channels, Facts, Phase
  <1>11. ~disturbed' => InSet(c)
    BY <1>1, <1>6
  <1>12. Facts(c)'
    BY <1>1, <1>4, <1>6, <1>9, <1>10, <1>11 DEF Facts, Unused
  <1>13. Channels'
    <2>1. ASSUME NEW d \in Chan, d # c PROVE Facts(d)'
      <3>1. ~disturbed' => ~disturbed /\ (d \in toClose => d \in toClose')
        BY <1>1, <2>1
      <3> QED
        BY <1>1, <1>4, <1>9, <2>1, <3>1, FactsKept DEF IInv, Channels
    <2> QED
      BY <1>12, <2>1 DEF Channels
  <1>14. Hands'
    BY <1>1, <1>5 DEF IInv, Hands
  <1> QED
    BY <1>3, <1>7, <1>8, <1>13, <1>14 DEF IInv

LEMMA AllClosedStep ==
  ASSUME IInv, AllClosed
  PROVE  IInv'
  <1>1. /\ UNCHANGED <<upc, ucur, registered, handler, cstate, rx, ctrlq, sockset, revents, idx,
                       wcur, wnew, stop, toClose, disturbed, backlog, data, peer, shut>>
        /\ wpc = "closeall" /\ toClose = {} /\ wpc' \in {"terminated", "poll"}
        /\ wpc' = "terminated" => sockset = <<>>
    BY DEF AllClosed, userVars, channelVars, setVars, kernelVars
  <1>2. TypeOK'
    BY <1>1 DEF IInv, TypeOK
  <1>3. /\ \A d : (InSet(d)' <=> InSet(d)) /\ (Queued(d)' <=> Queued(d))
                  /\ (Handing(d)' <=> Handing(d)) /\ ~Accepting(d) /\ ~Accepting(d)'
        /\ Draining' <=> Draining
    BY <1>1 DEF InSet, Queued, Handing, Accepting, Draining
  <1>4. SetInv' /\ Waiting'
    BY <1>1, <1>3 DEF IInv, SetInv, Distinct, Waiting, PassPlaces
  <1>5. Phase' /\ QueueInv' /\ Hands'
    BY <1>1, <1>3 DEF IInv, Phase, QueueInv, Distinct, Hands
  <1>6. Channels'
    BY <1>1, <1>3, FactsKept DEF IInv, Channels
  <1> QED
    BY <1>2, <1>4, <1>5, <1>6 DEF IInv

LEMMA StepInvariant == IInv /\ [Next]_vars => IInv'
  <1> SUFFICES ASSUME IInv, [Next]_vars PROVE IInv'
    OBVIOUS
  <1>1. CASE Application
    <2>1. \A c \in Outgoing : c \in Chan
      BY DEF Chan
    <2> QED
      BY <1>1, <2>1, StartThreadStep, JoinStep, ConnectInsertStep, ConnectEnqueueStep, ConnectStep,
         ConnectFailsStep, SetHandlerStep, CloseStep, CloseShutdownStep, ShutdownStep
      DEF Application, Startup, Connecting
  <1>2. CASE Worker
    BY <1>2, PollStep, PassEndStep, HandleCmdStep, AcceptInsertStep, HandleIncomingStep,
       AcceptFailsStep, ReceiveStep, ReceiveThrowsStep, OutOfPacketsStep, ReceiveErrorStep, BeginClosedStep,
       CloseChannelStep, ClosedStep, BeginShutdownStep, AllClosedStep DEF Worker, ReceiveChunk
  <1>3. CASE Peers
    <2>1. \A c \in Incoming : c \in Chan
      BY DEF Chan
    <2> QED
      BY <1>3, <2>1, PeerStep DEF Peers
  <1>4. CASE UNCHANGED vars
    <2>1. /\ UNCHANGED <<setVars, workerVars>>
          /\ UNCHANGED <<upc, ucur, registered, cstate, rx, handler, ctrlq, backlog, data, peer, shut>>
      BY <1>4 DEF vars, userVars, channelVars, setVars, workerVars, kernelVars
    <2>2. \A d : (Queued(d)' <=> Queued(d)) /\ (Handing(d)' <=> Handing(d))
      BY <2>1 DEF Queued, Handing
    <2>3. NULL \notin Chan
      BY TransportAssumption
    <2>4. Channels' /\ Waiting' /\ SetInv'
      BY <2>1, <2>2, <2>3, ChannelStep
    <2>5. TypeOK'
      BY <2>1 DEF IInv, TypeOK, setVars, workerVars
    <2>6. Phase' /\ QueueInv' /\ Hands'
      BY <2>1, SetUntouched DEF IInv, Phase, QueueInv, Distinct, Hands
    <2> QED
      BY <2>4, <2>5, <2>6 DEF IInv
  <1> QED
    BY <1>1, <1>2, <1>3, <1>4 DEF Next

-----------------------------------------------------------------------------
(* What follows for every behaviour. *)

LEMMA TransportInvariant == Spec => []IInv
  BY InitInvariant, StepInvariant, PTL DEF Spec

\* The variables keep their types.
THEOREM TypeCorrect == Spec => []TypeOK
  <1>1. IInv => TypeOK
    BY DEF IInv
  <1> QED
    BY <1>1, TransportInvariant, PTL

\* However many sockets callbacks add and remove during a pass, every event that is
\* still to be handled is one of the socket at its entry (SocketSet::poll).
THEOREM EventsBelong == Spec => []WakeupsGenuine
  <1>1. IInv => WakeupsGenuine
    <2> SUFFICES ASSUME IInv, NEW j \in 1..idx, wpc \in PassPlaces, revents[j] # "none"
                 PROVE  revents[j] \in Events(sockset[j]) \cup {"in"} /\ Readable(sockset[j])
      BY DEF WakeupsGenuine, PassPlaces, IInv, SetInv
    <2>1. Pending(sockset[j], revents[j])
      BY DEF IInv, Waiting
    <2>2. revents[j] \in {"in", "hup"}
      <3>1. /\ Len(revents) = Len(sockset) /\ Len(sockset) \in Nat /\ idx \in 0..Len(sockset)
            /\ \A i \in 1..Len(revents) : revents[i] \in {"none", "in", "hup"}
        BY DEF IInv, TypeOK, SetInv
      <3>2. j \in 1..Len(revents)
        BY <3>1
      <3> QED
        BY <3>1, <3>2
    <2> QED
      BY <2>1, <2>2 DEF Pending, Down, Events
  <1> QED
    BY <1>1, TransportInvariant, PTL

\* No channel receives after it was closed, and none that was accepted before it has
\* its handler (receive_chunk, handle_incoming_connection).
THEOREM ReceivesAreSound == Spec => []ReceiveSound
  <1>1. IInv => NoReceiveOnClosed
    BY AtFacts DEF IInv, Channels, Facts, NoReceiveOnClosed, Ended
  <1>2. IInv => AcceptedHeard
    BY AtFacts DEF IInv, Channels, Facts, AcceptedHeard, Accepting, Chan
  <1> QED
    BY <1>1, <1>2, TransportInvariant, PTL DEF ReceiveSound

\* No connection on which the peer can be heard is lost between the two threads.
THEOREM NoneLost == Spec => []LiveConnectionMonitored
  <1>1. IInv => LiveConnectionMonitored
    BY DEF IInv, Channels, Facts, LiveConnectionMonitored, Handing, Unused
  <1> QED
    BY <1>1, TransportInvariant, PTL

\* The peer is never blamed for an end that our own close() caused.
THEOREM PeerNotBlamed == Spec => []BlameSound
  <1>1. IInv => BlameSound
    BY DEF IInv, Channels, Facts, BlameSound
  <1> QED
    BY <1>1, TransportInvariant, PTL

\* An undisturbed shutdown leaves every channel closed, however many there are.
THEOREM ShutdownIsComplete == Spec => []ShutdownClosesAll
  <1>1. IInv => ShutdownClosesAll
    <2> SUFFICES ASSUME IInv, upc = "joined", ~disturbed, NEW c \in registered
                 PROVE  cstate[c] \in Ended
      BY DEF ShutdownClosesAll
    <2>1. /\ wpc = "terminated" /\ Draining /\ sockset = <<>> /\ toClose = {}
      BY DEF IInv, Phase, Hands
    <2>2. ~InSet(c)
      BY <2>1 DEF InSet
    <2> QED
      BY <2>1, <2>2 DEF IInv, TypeOK, Channels, Facts
  <1> QED
    BY <1>1, TransportInvariant, PTL
=============================================================================
