------------------------------ MODULE CodecProofs ------------------------------
(***************************************************************************)
(* Codec for packets of any size, any names, values and array sizes, any   *)
(* number of arguments: the invariants of its run hold of every behaviour. *)
(* What a recursive function computes is proved with the library's fact    *)
(* that a set of numbers has a least element.  The proof goes from packets *)
(* and single values to payloads, and from those to the steps of a call.   *)
(***************************************************************************)
EXTENDS Codec, WellFoundedInduction, TLAPS

(* Numbers and sequences. *)

\* A set of numbers has a least one.
LEMMA LeastNumber ==
    ASSUME NEW S \in SUBSET Nat, S # {}
    PROVE  \E x \in S : \A y \in S : x <= y
<1>1. \E x \in S : \A y \in S : ~ (<<y, x>> \in OpToRel(<, Nat))
    BY WFMin, NatLessThanWellFounded, Zenon
<1>2. \A x, y \in Nat : ~ (<<y, x>> \in OpToRel(<, Nat)) => x <= y
    BY DEF OpToRel
<1> QED
    BY <1>1, <1>2

\* Induction up to n, on a set.
LEMMA Upwards ==
    ASSUME NEW n \in Nat, NEW S, 0 \in S, \A i \in 0..(n - 1) : i \in S => i + 1 \in S
    PROVE  0..n \subseteq S
<1> SUFFICES ASSUME (0..n) \ S # {}
             PROVE  FALSE
    OBVIOUS
<1>1. PICK x \in (0..n) \ S : \A y \in (0..n) \ S : x <= y
    <2>1. (0..n) \ S \in SUBSET Nat
        OBVIOUS
    <2> QED
        BY <2>1, LeastNumber
<1>2. x - 1 \in 0..(n - 1) /\ x - 1 \in S
    BY <1>1
<1> QED
    BY <1>1, <1>2

\* Induction downwards from n, with all larger numbers in the hypothesis.
LEMMA Downwards ==
    ASSUME NEW n \in Nat, NEW S,
           \A i \in 0..n : (\A j \in (i + 1)..n : j \in S) => i \in S
    PROVE  0..n \subseteq S
<1> SUFFICES ASSUME (0..n) \ S # {}
             PROVE  FALSE
    OBVIOUS
<1> DEFINE T == {k \in 0..n : n - k \notin S}
<1>1. PICK x \in T : \A y \in T : x <= y
    <2>1. T \in SUBSET Nat
        OBVIOUS
    <2>2. PICK i \in (0..n) \ S : TRUE
        OBVIOUS
    <2>3. n - i \in 0..n /\ n - (n - i) = i
        OBVIOUS
    <2>4. T # {}
        BY <2>2, <2>3
    <2> QED
        BY <2>1, <2>4, LeastNumber
<1>2. \A j \in (n - x + 1)..n : j \in S
    <2> SUFFICES ASSUME NEW j \in (n - x + 1)..n, j \notin S
                 PROVE  FALSE
        OBVIOUS
    <2>1. n - j \in 0..n /\ n - (n - j) = j /\ n - j < x
        BY <1>1
    <2> QED
        BY <1>1, <2>1
<1> QED
    BY <1>1, <1>2

LEMMA ElementFacts ==
    ASSUME NEW S, NEW s \in Seq(S)
    PROVE  Len(s) \in Nat /\ DOMAIN s = 1..Len(s) /\ \A i \in 1..Len(s) : s[i] \in S
    OBVIOUS

LEMMA ConcatFacts ==
    ASSUME NEW S, NEW s \in Seq(S), NEW t \in Seq(S)
    PROVE  /\ s \o t \in Seq(S) /\ Len(s \o t) = Len(s) + Len(t)
           /\ \A i \in 1..Len(s) : (s \o t)[i] = s[i]
           /\ \A i \in 1..Len(t) : (s \o t)[Len(s) + i] = t[i]
    OBVIOUS

LEMMA SameSequence ==
    ASSUME NEW S, NEW s \in Seq(S), NEW t \in Seq(S), Len(s) = Len(t),
           \A i \in 1..Len(s) : s[i] = t[i]
    PROVE  s = t
    OBVIOUS

-----------------------------------------------------------------------------
(* The packet. *)

\* A packet whose windows meet at a border.
Bordered(p, border) ==
    /\ p \in Packets
    /\ p.header.cap = border /\ p.header.data + p.header.size = border
    /\ p.payload.data = border /\ p.payload.cap = BufSize - border
    /\ p.payload.size <= p.payload.cap

\* A packet that is written: the border is where the constructor put it.
Open(p) == Bordered(p, HeaderCap)

Payload(p) == Contents(p, p.payload)

LEMMA BytesAtFacts ==
    ASSUME NEW p \in Packets, NEW at \in Nat, NEW n \in Nat, at + n <= BufSize
    PROVE  /\ BytesAt(p, at, n) \in Seq(Byte) /\ Len(BytesAt(p, at, n)) = n
           /\ \A i \in 1..n : BytesAt(p, at, n)[i] = p.bytes[at + i - 1]
<1>1. \A i \in 1..n : at + i - 1 \in 0..(BufSize - 1)
    BY PacketAssumption
<1>2. \A i \in 1..n : p.bytes[at + i - 1] \in Byte
    BY <1>1 DEF Packets
<1>3. BytesAt(p, at, n) = [i \in 1..n |-> p.bytes[at + i - 1]]
    BY DEF BytesAt
<1> QED
    BY <1>2, <1>3

\* The payload of a sound packet is the bytes in its window.
LEMMA PayloadFacts ==
    ASSUME NEW p, p \in Packets, Sound(p)
    PROVE  /\ Payload(p) \in Seq(Byte) /\ Len(Payload(p)) = p.payload.size
           /\ \A i \in 1..p.payload.size : Payload(p)[i] = p.bytes[p.payload.data + i - 1]
<1>1. /\ p.payload.data \in Nat /\ p.payload.size \in Nat
      /\ p.payload.data + p.payload.size <= BufSize
    BY DEF Sound, Packets, Window
<1>2. Payload(p) = BytesAt(p, p.payload.data, p.payload.size)
    BY DEF Payload, Contents
<1>3. /\ BytesAt(p, p.payload.data, p.payload.size) \in Seq(Byte)
      /\ Len(BytesAt(p, p.payload.data, p.payload.size)) = p.payload.size
      /\ \A i \in 1..p.payload.size :
             BytesAt(p, p.payload.data, p.payload.size)[i] = p.bytes[p.payload.data + i - 1]
    BY <1>1, BytesAtFacts
<1> QED
    BY <1>2, <1>3

LEMMA BorderedIsSound ==
    ASSUME NEW border \in 0..BufSize, NEW p, Bordered(p, border)
    PROVE  p \in Packets /\ Sound(p)
    BY PacketAssumption DEF Bordered, Sound, Packets, Window

LEMMA OpenIsSound == ASSUME NEW p, Open(p) PROVE p \in Packets /\ Sound(p)
    BY PacketAssumption, BorderedIsSound DEF Open

\* The packet as the constructor leaves it.
LEMMA FreshFacts ==
    FreshPacket = [bytes   |-> [i \in 0..(BufSize - 1) |-> 0],
                   header  |-> [data |-> HeaderCap, cap |-> HeaderCap, size |-> 0],
                   payload |-> [data |-> HeaderCap, cap |-> BufSize - HeaderCap, size |-> 0]]
    BY DEF FreshPacket, SetHeaderCapacity, MakeWindow

LEMMA FreshIsOpen ==
    Open(FreshPacket) /\ FreshPacket.payload.size = 0 /\ FreshPacket.header.size = 0
<1>1. BufSize - HeaderCap \in Nat /\ 0 \in Byte
    BY PacketAssumption DEF Byte
<1>2. FreshPacket \in Packets
    BY <1>1, FreshFacts, PacketAssumption DEF Packets, Window
<1> QED
    BY <1>1, <1>2, FreshFacts, PacketAssumption DEF Open, Bordered

\* Writing changes the bytes written and no others.
LEMMA PutFacts ==
    ASSUME NEW p \in Packets, NEW at \in Nat, NEW bs \in Seq(Byte), at + Len(bs) <= BufSize
    PROVE  /\ Put(p, at, bs) = [p EXCEPT !.bytes = Put(p, at, bs).bytes]
           /\ Put(p, at, bs).bytes \in [0..(BufSize - 1) -> Byte]
           /\ \A i \in 1..Len(bs) : Put(p, at, bs).bytes[at + i - 1] = bs[i]
           /\ \A i \in 0..(BufSize - 1) :
                  ~(at <= i /\ i < at + Len(bs)) => Put(p, at, bs).bytes[i] = p.bytes[i]
<1> DEFINE new == [i \in 0..(BufSize - 1) |->
                      IF at <= i /\ i < at + Len(bs) THEN bs[i - at + 1] ELSE p.bytes[i]]
<1>1. DOMAIN p.bytes = 0..(BufSize - 1) /\ p.bytes \in [0..(BufSize - 1) -> Byte]
    BY DEF Packets
<1>2. Put(p, at, bs) = [p EXCEPT !.bytes = new]
    BY <1>1 DEF Put
<1>3. Put(p, at, bs).bytes = new
    BY <1>2 DEF Packets
<1>4. ASSUME NEW i \in 1..Len(bs)
      PROVE  at + i - 1 \in 0..(BufSize - 1) /\ new[at + i - 1] = bs[i]
    <2>1. at + i - 1 \in 0..(BufSize - 1) /\ at <= at + i - 1 /\ at + i - 1 < at + Len(bs)
        BY PacketAssumption
    <2>2. (at + i - 1) - at + 1 = i
        OBVIOUS
    <2> QED
        BY <2>1, <2>2
<1>5. new \in [0..(BufSize - 1) -> Byte]
    <2>1. ASSUME NEW i \in 0..(BufSize - 1), at <= i /\ i < at + Len(bs)
          PROVE  bs[i - at + 1] \in Byte
        BY <2>1
    <2> QED
        BY <1>1, <2>1
<1> QED
    BY <1>2, <1>3, <1>4, <1>5

\* Writing to the payload appends to its contents.
LEMMA AppendBordered ==
    ASSUME NEW border \in 0..BufSize, NEW p, Bordered(p, border), NEW bs \in Seq(Byte),
           Fits(p.payload, Len(bs)), NEW q, q = AppendPayload(p, bs)
    PROVE  /\ Bordered(q, border) /\ q.header = p.header
           /\ q.payload.size = p.payload.size + Len(bs)
           /\ Payload(q) = Payload(p) \o bs
<1> DEFINE d == p.payload.data
           n == p.payload.size
           new == Put(p, d + n, bs).bytes
<1>1. /\ p \in Packets /\ d \in Nat /\ n \in Nat /\ d + n \in Nat /\ Len(bs) \in Nat
      /\ d + n + Len(bs) <= BufSize /\ BufSize \in Nat
    BY PacketAssumption DEF Bordered, Packets, Window, Fits
<1>2. /\ Put(p, d + n, bs) = [p EXCEPT !.bytes = new]
      /\ new \in [0..(BufSize - 1) -> Byte]
      /\ \A i \in 1..Len(bs) : new[d + n + i - 1] = bs[i]
      /\ \A i \in 0..(BufSize - 1) :
             ~(d + n <= i /\ i < d + n + Len(bs)) => new[i] = p.bytes[i]
    BY <1>1, PutFacts
<1> HIDE DEF new
<1>3. q = [bytes |-> new, header |-> p.header,
           payload |-> [data |-> d, cap |-> p.payload.cap, size |-> n + Len(bs)]]
    BY <1>1, <1>2 DEF AppendPayload, GrowRight, Packets, Window
<1>4. Bordered(q, border)
    <2>1. q \in Packets
        BY <1>1, <1>2, <1>3 DEF Packets, Window
    <2> QED
        BY <1>1, <1>3, <2>1 DEF Bordered, Fits
<1>5. /\ Payload(p) \in Seq(Byte) /\ Len(Payload(p)) = n
      /\ \A i \in 1..n : Payload(p)[i] = p.bytes[d + i - 1]
    BY <1>1, BorderedIsSound, PayloadFacts
<1>6. /\ Payload(q) \in Seq(Byte) /\ Len(Payload(q)) = n + Len(bs)
      /\ \A i \in 1..(n + Len(bs)) : Payload(q)[i] = new[d + i - 1]
    <2>1. q \in Packets /\ Sound(q)
        BY <1>4, BorderedIsSound DEF Bordered
    <2>2. q.payload.size = n + Len(bs) /\ q.bytes = new /\ q.payload.data = d
        BY <1>3
    <2> QED
        BY <2>1, <2>2, PayloadFacts
<1> HIDE DEF d, n
<1>7. /\ Payload(p) \o bs \in Seq(Byte) /\ Len(Payload(p) \o bs) = n + Len(bs)
      /\ \A i \in 1..n : (Payload(p) \o bs)[i] = Payload(p)[i]
      /\ \A i \in 1..Len(bs) : (Payload(p) \o bs)[n + i] = bs[i]
    <2> DEFINE s == Payload(p)
    <2>1. s \in Seq(Byte) /\ Len(s) = n
        BY <1>5
    <2> HIDE DEF s
    <2>2. s \o bs \in Seq(Byte)
        BY <2>1, ConcatFacts
    <2>3. Len(s \o bs) = n + Len(bs)
        BY <2>1, ConcatFacts
    <2>4. \A i \in 1..n : (s \o bs)[i] = s[i]
        BY <2>1, ConcatFacts
    <2>5. \A i \in 1..Len(bs) : (s \o bs)[n+i] = bs[i]
        BY <2>1, ConcatFacts
    <2> QED BY <2>2, <2>3, <2>4, <2>5 DEF s
<1>8. ASSUME NEW i \in 1..(n + Len(bs))
      PROVE  Payload(q)[i] = (Payload(p) \o bs)[i]
    <2>1. CASE i <= n
        <3>1. d + i - 1 \in 0..(BufSize - 1) /\ d + i - 1 < d + n /\ i \in 1..n
            BY <1>1, <2>1
        <3>2. new[d + i - 1] = p.bytes[d + i - 1]
            BY <1>1, <1>2, <3>1
        <3> QED
            BY <1>5, <1>6, <1>7, <3>1, <3>2
    <2>2. CASE i > n
        <3>1. i - n \in 1..Len(bs) /\ n + (i - n) = i /\ d + n + (i - n) - 1 = d + i - 1
            BY <1>1, <2>2
        <3>2. new[d + i - 1] = bs[i - n]
            BY <1>2, <3>1
        <3>3. (Payload(p) \o bs)[i] = bs[i - n]
            BY <1>7, <3>1
        <3> QED
            BY <1>6, <3>2, <3>3
    <2>3. i <= n \/ i > n
        BY <1>1
    <2> QED
        BY <2>1, <2>2, <2>3
<1>9. Payload(q) = Payload(p) \o bs
    BY <1>6, <1>7, <1>8, SameSequence
<1> QED
    BY <1>3, <1>4, <1>9 DEF n

LEMMA AppendOpen ==
    ASSUME NEW p, Open(p), NEW bs \in Seq(Byte), Fits(p.payload, Len(bs)),
           NEW q, q = AppendPayload(p, bs)
    PROVE  /\ Open(q) /\ q.header = p.header
           /\ q.payload.size = p.payload.size + Len(bs)
           /\ Payload(q) = Payload(p) \o bs
    BY AppendBordered, PacketAssumption DEF Open

\* Writing to the header puts bytes in front of it.
LEMMA PrependOpen ==
    ASSUME NEW p, Open(p), NEW bs \in Seq(Byte), Fits(p.header, Len(bs)),
           NEW q, q = PrependHeader(p, bs)
    PROVE  /\ Open(q) /\ Payload(q) = Payload(p) /\ q.payload = p.payload
           /\ q.header.size = p.header.size + Len(bs)
           /\ \A i \in 1..Len(bs) : q.bytes[q.header.data + i - 1] = bs[i]
<1> DEFINE hd == p.header.data
           hs == p.header.size
           n == p.payload.size
           len == Len(bs)
           d == hd - len
           new == Put(p, d, bs).bytes
<1>1. /\ hs \in Nat /\ hd \in Nat /\ n \in Nat /\ len \in Nat
      /\ hs + len <= HeaderCap /\ hd + hs = HeaderCap /\ n <= BufSize - HeaderCap
      /\ HeaderCap \in Nat /\ BufSize \in Nat /\ HeaderCap < BufSize
      /\ p \in Packets /\ p.header.cap = HeaderCap
    BY PacketAssumption DEF Open, Bordered, Packets, Window, Fits
<1> HIDE DEF hd, hs, n, len
<1>10. /\ d \in Nat /\ d + len <= HeaderCap /\ HeaderCap + n <= BufSize
       /\ d + len <= BufSize /\ d + (hs + len) = HeaderCap /\ hs + len \in Nat
    BY <1>1
<1> HIDE DEF d
<1>2. /\ Put(p, d, bs) = [p EXCEPT !.bytes = new]
      /\ new \in [0..(BufSize - 1) -> Byte]
      /\ \A i \in 1..len : new[d + i - 1] = bs[i]
      /\ \A i \in 0..(BufSize - 1) : ~(d <= i /\ i < d + len) => new[i] = p.bytes[i]
    BY <1>1, <1>10, PutFacts DEF len
<1> HIDE DEF new
<1>3. q = [bytes |-> new, payload |-> p.payload,
           header |-> [data |-> d, cap |-> HeaderCap, size |-> hs + len]]
    BY <1>1, <1>2 DEF PrependHeader, GrowLeft, MakeWindow, Packets, Window, d, hd, hs, len
<1>4. Open(q)
    <2>1. q \in Packets
        BY <1>1, <1>10, <1>2, <1>3 DEF Packets, Window
    <2> QED
        BY <1>10, <1>3, <2>1 DEF Open, Bordered
<1>5. /\ Payload(p) \in Seq(Byte) /\ Len(Payload(p)) = n
      /\ \A i \in 1..n : Payload(p)[i] = p.bytes[HeaderCap + i - 1]
    BY <1>1, OpenIsSound, PayloadFacts DEF Open, Bordered, n
<1>6. /\ Payload(q) \in Seq(Byte) /\ Len(Payload(q)) = n
      /\ \A i \in 1..n : Payload(q)[i] = new[HeaderCap + i - 1]
    <2>1. q \in Packets /\ Sound(q) /\ p.payload.data = HeaderCap
        BY <1>4, OpenIsSound DEF Open, Bordered
    <2>2. q.payload.size = n /\ q.bytes = new /\ q.payload.data = HeaderCap
        BY <1>3, <2>1 DEF n
    <2> QED
        BY <2>1, <2>2, PayloadFacts
<1>7. ASSUME NEW i \in 1..n
      PROVE  Payload(q)[i] = Payload(p)[i]
    <2>1. HeaderCap + i - 1 \in 0..(BufSize - 1) /\ ~(HeaderCap + i - 1 < d + len)
        BY <1>1, <1>10
    <2> QED
        BY <1>2, <1>5, <1>6, <2>1
<1>8. Payload(q) = Payload(p)
    BY <1>5, <1>6, <1>7, SameSequence
<1> QED
    BY <1>2, <1>3, <1>4, <1>8 DEF len, hs

\* What is on the wire: the header, then the payload.
LEMMA OnWireFacts ==
    ASSUME NEW p, Open(p)
    PROVE  /\ OnWire(p) \in Seq(Byte) /\ Len(OnWire(p)) = p.header.size + p.payload.size
           /\ Len(OnWire(p)) <= BufSize
           /\ \A i \in 1..p.header.size : OnWire(p)[i] = p.bytes[p.header.data + i - 1]
           /\ \A i \in 1..p.payload.size : OnWire(p)[p.header.size + i] = Payload(p)[i]
           /\ OnWire(p) = Contents(p, p.header) \o Payload(p)
<1> DEFINE d == p.header.data
           h == p.header.size
           n == p.payload.size
<1>1. /\ p \in Packets /\ d \in Nat /\ h \in Nat /\ n \in Nat
      /\ d + h = HeaderCap /\ d + (h + n) <= BufSize /\ d + h <= BufSize
      /\ HeaderCap \in Nat /\ BufSize \in Nat
    BY PacketAssumption DEF Open, Bordered, Packets, Window
<1>2. OnWire(p) = BytesAt(p, d, h + n) /\ Contents(p, p.header) = BytesAt(p, d, h)
    BY DEF OnWire, PacketSize, Contents
<1>3. /\ Payload(p) \in Seq(Byte) /\ Len(Payload(p)) = n
      /\ \A i \in 1..n : Payload(p)[i] = p.bytes[HeaderCap + i - 1]
    BY <1>1, OpenIsSound, PayloadFacts DEF Open, Bordered
<1> HIDE DEF d, h, n
<1>4. /\ OnWire(p) \in Seq(Byte) /\ Len(OnWire(p)) = h + n
      /\ \A i \in 1..(h + n) : OnWire(p)[i] = p.bytes[d + i - 1]
    <2> DEFINE m == h + n
    <2>1. m \in Nat /\ d + m <= BufSize /\ OnWire(p) = BytesAt(p, d, m)
        BY <1>1, <1>2
    <2> HIDE DEF m
    <2>2. /\ BytesAt(p, d, m) \in Seq(Byte) /\ Len(BytesAt(p, d, m)) = m
          /\ \A i \in 1..m : BytesAt(p, d, m)[i] = p.bytes[d + i - 1]
        BY <1>1, <2>1, BytesAtFacts
    <2> QED
        BY <2>1, <2>2 DEF m
<1> DEFINE c == Contents(p, p.header)
<1>5. /\ c \in Seq(Byte) /\ Len(c) = h
      /\ \A i \in 1..h : c[i] = p.bytes[d + i - 1]
    <2>1. c = BytesAt(p, d, h)
        BY <1>2
    <2>2. p \in Packets /\ d \in Nat /\ h \in Nat /\ d + h <= BufSize
        BY <1>1
    <2>3. /\ BytesAt(p, d, h) \in Seq(Byte) /\ Len(BytesAt(p, d, h)) = h
          /\ \A i \in 1..h : BytesAt(p, d, h)[i] = p.bytes[d + i - 1]
        BY <2>2, BytesAtFacts
    <2> HIDE DEF c
    <2> QED
        BY <2>1, <2>3
<1>6. ASSUME NEW i \in 1..n
      PROVE  OnWire(p)[h + i] = Payload(p)[i]
    <2>1. h + i \in 1..(h + n) /\ d + (h + i) - 1 = HeaderCap + i - 1
        BY <1>1
    <2> QED
        BY <1>3, <1>4, <2>1
<1> HIDE DEF c
<1> DEFINE both == c \o Payload(p)
<1>7. /\ both \in Seq(Byte) /\ Len(both) = h + n
      /\ \A i \in 1..h : both[i] = c[i]
      /\ \A i \in 1..n : both[h + i] = Payload(p)[i]
    <2> DEFINE s == Payload(p)
    <2>1. s \in Seq(Byte) /\ Len(s) = n
        BY <1>3
    <2> HIDE DEF s
    <2>2. c \o s \in Seq(Byte) /\ Len(c \o s) = h + n
        BY <1>5, <2>1, ConcatFacts
    <2>3. \A i \in 1..h : (c \o s)[i] = c[i]
        BY <1>5, <2>1, ConcatFacts
    <2>4. \A i \in 1..n : (c \o s)[h + i] = s[i]
        BY <1>5, <2>1, ConcatFacts
    <2> QED
        BY <2>2, <2>3, <2>4 DEF s
<1> HIDE DEF both
<1>8. ASSUME NEW i \in 1..(h + n)
      PROVE  OnWire(p)[i] = both[i]
    <2>1. CASE i <= h
        <3>1. i \in 1..h
            BY <1>1, <2>1
        <3> QED
            BY <1>4, <1>5, <1>7, <3>1
    <2>2. CASE i > h
        <3>1. i - h \in 1..n /\ h + (i - h) = i
            BY <1>1, <2>2
        <3> QED
            BY <1>6, <1>7, <3>1
    <2>3. i <= h \/ i > h
        BY <1>1
    <2> QED
        BY <2>1, <2>2, <2>3
<1>9. OnWire(p) = both
    BY <1>4, <1>7, <1>8, SameSequence
<1>10. \A i \in 1..h : OnWire(p)[i] = p.bytes[d + i - 1]
    BY <1>1, <1>4
<1>11. Len(OnWire(p)) <= BufSize
    BY <1>1, <1>4
<1> QED
    BY <1>4, <1>6, <1>9, <1>10, <1>11 DEF both, c, d, h, n

-----------------------------------------------------------------------------
(* The length in front of a packet. *)

\* The four bytes of a length, and the length of four bytes.
LEMMA SetLength ==
    ASSUME NEW x \in Nat
    PROVE  LET a == x \div 256
               b == a \div 256
               c == b \div 256
           IN  set_le(x, 4) = [i \in 1..4 |-> IF i = 1 THEN x % 256 ELSE IF i = 2 THEN a % 256
                                              ELSE IF i = 3 THEN b % 256 ELSE c % 256]
<1> DEFINE a == x \div 256
           b == a \div 256
           c == b \div 256
           rest[i \in 0..4] == IF i = 0 THEN x ELSE rest[i - 1] \div 256
<1>1. rest = [i \in 0..4 |-> IF i = 0 THEN x ELSE rest[i - 1] \div 256]
    <2> DEFINE g == [i \in 0..4 |-> IF i = 0 THEN x ELSE IF i = 1 THEN a ELSE IF i = 2 THEN b
                                    ELSE IF i = 3 THEN c ELSE c \div 256]
    <2>1. g = [i \in 0..4 |-> IF i = 0 THEN x ELSE g[i - 1] \div 256]
        OBVIOUS
    <2> HIDE DEF g
    <2> QED
        BY <2>1
<1> HIDE DEF rest
<1>2. rest[0] = x /\ rest[1] = a /\ rest[2] = b /\ rest[3] = c
    BY <1>1
<1>3. set_le(x, 4) = [i \in 1..4 |-> rest[i - 1] % 256]
    BY DEF set_le, rest
<1> QED
    BY <1>2, <1>3

LEMMA GetLength ==
    ASSUME NEW bs \in Seq(Byte), Len(bs) = 4
    PROVE  get_le(bs) = bs[1] + 256 * (bs[2] + 256 * (bs[3] + 256 * bs[4]))
<1> DEFINE from[i \in 0..4] == IF i = 4 THEN 0 ELSE bs[i + 1] + 256 * from[i + 1]
<1>1. from = [i \in 0..4 |-> IF i = 4 THEN 0 ELSE bs[i + 1] + 256 * from[i + 1]]
    <2> DEFINE g3 == bs[4] + 256 * 0
               g2 == bs[3] + 256 * g3
               g1 == bs[2] + 256 * g2
               g == [i \in 0..4 |-> IF i = 4 THEN 0 ELSE IF i = 3 THEN g3 ELSE IF i = 2 THEN g2
                                    ELSE IF i = 1 THEN g1 ELSE bs[1] + 256 * g1]
    <2>1. g = [i \in 0..4 |-> IF i = 4 THEN 0 ELSE bs[i + 1] + 256 * g[i + 1]]
        OBVIOUS
    <2> HIDE DEF g
    <2> QED
        BY <2>1
<1> HIDE DEF from
<1>2. from[4] = 0 /\ from[3] = bs[4] + 256 * 0 /\ from[2] = bs[3] + 256 * from[3]
      /\ from[1] = bs[2] + 256 * from[2] /\ from[0] = bs[1] + 256 * from[1]
    BY <1>1
<1>3. get_le(bs) = from[0]
    BY DEF get_le, from
<1>4. bs[1] \in Nat /\ bs[2] \in Nat /\ bs[3] \in Nat /\ bs[4] \in Nat
    <2>1. \A i \in 1..4 : bs[i] \in Byte
        BY ElementFacts
    <2>2. 1 \in 1..4 /\ 2 \in 1..4 /\ 3 \in 1..4 /\ 4 \in 1..4 /\ \A b \in Byte : b \in Nat
        BY DEF Byte
    <2> QED
        BY <2>1, <2>2
<1> QED
    BY <1>2, <1>3, <1>4

\* A length is read as it was written.
LEMMA LengthFacts ==
    /\ \A bs \in Seq(Byte) : Len(bs) = 4 => get_le(bs) \in Nat
    /\ \A x \in 0..BufSize :
           /\ set_le(x, 4) \in Seq(Byte) /\ Len(set_le(x, 4)) = 4
           /\ get_le(set_le(x, 4)) = x
<1>1. \A bs \in Seq(Byte) : Len(bs) = 4 => get_le(bs) \in Nat
    <2> SUFFICES ASSUME NEW bs \in Seq(Byte), Len(bs) = 4
                 PROVE  get_le(bs) \in Nat
        OBVIOUS
    <2>0. \A i \in 1..4 : bs[i] \in Byte
        BY ElementFacts
    <2>1. 1 \in 1..4 /\ 2 \in 1..4 /\ 3 \in 1..4 /\ 4 \in 1..4 /\ \A b \in Byte : b \in Nat
        BY DEF Byte
    <2>2. bs[1] \in Nat /\ bs[2] \in Nat /\ bs[3] \in Nat /\ bs[4] \in Nat
        BY <2>0, <2>1
    <2> QED
        BY <2>2, GetLength
<1>2. ASSUME NEW x \in 0..BufSize
      PROVE  /\ set_le(x, 4) \in Seq(Byte) /\ Len(set_le(x, 4)) = 4
             /\ get_le(set_le(x, 4)) = x
    <2> DEFINE a == x \div 256
               b == a \div 256
               c == b \div 256
               s == set_le(x, 4)
    <2>1. x \in Nat /\ a \in Nat /\ b \in Nat /\ c \in Nat /\ c < 256
        BY PacketAssumption, CodecAssumption
    <2>2. s = [i \in 1..4 |-> IF i = 1 THEN x % 256 ELSE IF i = 2 THEN a % 256
                              ELSE IF i = 3 THEN b % 256 ELSE c % 256]
        BY <2>1, SetLength
    <2>3. x % 256 \in Byte /\ a % 256 \in Byte /\ b % 256 \in Byte /\ c % 256 \in Byte
        BY <2>1 DEF Byte
    <2>4. /\ x = (x % 256) + 256 * a /\ a = (a % 256) + 256 * b
          /\ b = (b % 256) + 256 * c /\ c = c % 256
        BY <2>1
    <2> HIDE DEF a, b, c, s
    <2>5. /\ s \in Seq(Byte) /\ Len(s) = 4
          /\ s[1] = x % 256 /\ s[2] = a % 256 /\ s[3] = b % 256 /\ s[4] = c % 256
        BY <2>2, <2>3
    <2>6. get_le(s) = (x % 256) + 256 * ((a % 256) + 256 * ((b % 256) + 256 * (c % 256)))
        BY <2>5, GetLength
    <2>7. get_le(s) = x
        BY <2>4, <2>6
    <2> QED
        BY <2>5, <2>7 DEF s
<1> QED
    BY <1>1, <1>2

\* What the receiver makes of the bytes that arrive.
LEMMA FrameFacts ==
    ASSUME NEW wire \in Seq(Byte), Len(wire) \in 4..BufSize, NEW p, p = Frame(wire)
    PROVE  /\ p \in Packets /\ Sound(p)
           /\ get_le(SubSeq(wire, 1, 4)) + 4 = Len(wire) =>
                  /\ Len(Payload(p)) = Len(wire) - 4
                  /\ \A i \in 1..(Len(wire) - 4) : Payload(p)[i] = wire[4 + i]
<1> DEFINE fresh == SetHeaderCapacity(FreshPacket, 0)
           length == get_le(SubSeq(wire, 1, 4))
           size == Min({Len(wire), 4 + length})
           bs == SubSeq(wire, 1, size)
           full == AppendPayload(fresh, bs)
<1>1. length \in Nat
    <2>1. SubSeq(wire, 1, 4) \in Seq(Byte) /\ Len(SubSeq(wire, 1, 4)) = 4
        OBVIOUS
    <2> HIDE DEF length
    <2> QED
        BY <2>1, LengthFacts DEF length
<1> HIDE DEF length
<1>2. size \in 4..Len(wire) /\ (length + 4 = Len(wire) => size = Len(wire))
    BY <1>1 DEF Min
<1> HIDE DEF size
<1>3. bs \in Seq(Byte) /\ Len(bs) = size /\ \A i \in 1..size : bs[i] = wire[i]
    BY <1>2
<1>4. /\ Bordered(fresh, 0) /\ fresh.payload.size = 0 /\ 0 \in 0..BufSize
      /\ fresh.payload.cap = BufSize
    <2>1. FreshPacket \in Packets
        BY FreshIsOpen DEF Open, Bordered
    <2>2. fresh = [bytes |-> FreshPacket.bytes, header |-> [data |-> 0, cap |-> 0, size |-> 0],
                   payload |-> [data |-> 0, cap |-> BufSize - 0, size |-> 0]]
        BY DEF SetHeaderCapacity, MakeWindow
    <2>3. BufSize - 0 = BufSize /\ BufSize \in Nat /\ 0 <= BufSize - 0
        BY PacketAssumption
    <2>4. fresh \in Packets
        BY <2>1, <2>2, <2>3 DEF Packets, Window
    <2> HIDE DEF fresh
    <2> QED
        BY <2>2, <2>3, <2>4 DEF Bordered
<1> HIDE DEF fresh, bs
<1>5. /\ Bordered(full, 0) /\ full.payload.size = size
      /\ Payload(full) = Payload(fresh) \o bs
    <2>1. Fits(fresh.payload, Len(bs))
        BY <1>2, <1>3, <1>4, PacketAssumption DEF Fits
    <2> QED
        BY <1>2, <1>3, <1>4, <2>1, AppendBordered
<1> HIDE DEF full
<1>6. Payload(full) = bs
    <2>1. Payload(fresh) \in Seq(Byte) /\ Len(Payload(fresh)) = 0
        BY <1>4, BorderedIsSound, PayloadFacts
    <2>2. Payload(fresh) = <<>>
        BY <2>1
    <2> QED
        BY <1>3, <1>5, <2>2
<1>7. /\ full \in Packets /\ Sound(full) /\ full.payload.data = 0
      /\ full.payload.cap = BufSize /\ full.header.data + full.header.size = 0
      /\ full.header.size <= full.header.cap
    <2>1. full \in Packets /\ Sound(full)
        BY <1>4, <1>5, BorderedIsSound
    <2> QED
        BY <1>5, <2>1, PacketAssumption DEF Bordered, Sound
<1>8. p = [bytes |-> full.bytes, header |-> full.header,
           payload |-> [data |-> 4, cap |-> BufSize, size |-> size - 4]]
    <2>1. p = DropHeader(full, HeaderSize)
        BY DEF Frame, full, fresh, bs, size, length, HeaderSize
    <2>2. 0 + 4 = 4
        OBVIOUS
    <2> QED
        BY <1>5, <1>7, <2>1, <2>2 DEF DropHeader, MakeWindow, HeaderSize, Packets
<1>9. p \in Packets /\ Sound(p)
    <2>1. size - 4 \in Nat /\ 4 + (size - 4) <= BufSize /\ size - 4 <= BufSize /\ BufSize \in Nat
        BY <1>2, PacketAssumption
    <2>2. full.header \in Window /\ full.bytes \in [0..(BufSize - 1) -> Byte]
        BY <1>7 DEF Packets
    <2>3. p \in Packets
        BY <1>8, <2>1, <2>2 DEF Packets, Window
    <2> QED
        BY <1>7, <1>8, <2>1, <2>3 DEF Sound
<1>10. ASSUME length + 4 = Len(wire)
       PROVE  /\ Len(Payload(p)) = Len(wire) - 4
              /\ \A i \in 1..(Len(wire) - 4) : Payload(p)[i] = wire[4 + i]
    <2>1. /\ Len(Payload(p)) = size - 4
          /\ \A i \in 1..(size - 4) : Payload(p)[i] = full.bytes[4 + i - 1]
        BY <1>8, <1>9, PayloadFacts
    <2>2. \A i \in 1..size : bs[i] = full.bytes[0 + i - 1]
        BY <1>5, <1>6, <1>7, PayloadFacts
    <2>3. ASSUME NEW i \in 1..(size - 4)
          PROVE  Payload(p)[i] = wire[4 + i]
        <3>1. 4 + i \in 1..size /\ 0 + (4 + i) - 1 = 4 + i - 1
            BY <1>2
        <3> QED
            BY <1>3, <2>1, <2>2, <3>1
    <2> QED
        BY <1>2, <1>10, <2>1, <2>3
<1> QED
    BY <1>9, <1>10 DEF length

LEMMA Singleton ==
    ASSUME NEW S, NEW x \in S
    PROVE  <<x>> \in Seq(S) /\ Len(<<x>>) = 1 /\ <<x>>[1] = x
    OBVIOUS

LEMMA MakeSequence ==
    ASSUME NEW S, NEW n \in Nat, NEW s, s = [i \in 1..n |-> s[i]], \A i \in 1..n : s[i] \in S
    PROVE  s \in Seq(S) /\ Len(s) = n
    OBVIOUS

LEMMA LeastIsMin ==
    ASSUME NEW S, S \subseteq Nat, S # {}
    PROVE  Min(S) \in S /\ \A y \in S : Min(S) <= y
<1>1. \E x \in S : \A y \in S : x <= y
    BY LeastNumber
<1> QED
    BY <1>1 DEF Min

LEMMA MinIs ==
    ASSUME NEW S, S \subseteq Nat, NEW m \in S, \A i \in S : m <= i
    PROVE  Min(S) = m
<1>1. Min(S) \in S /\ Min(S) <= m
    BY LeastIsMin
<1>2. m <= Min(S) /\ m \in Nat /\ Min(S) \in Nat
    BY <1>1
<1> QED
    BY <1>1, <1>2

LEMMA SequenceOfMore ==
    ASSUME NEW S, NEW T, S \subseteq T, NEW s \in Seq(S)
    PROVE  s \in Seq(T)
    OBVIOUS

-----------------------------------------------------------------------------
(* Types and values. *)

\* The ids as numbers.
LEMMA Ids ==
    /\ Floats = {13, 15} /\ Scalars = 1..8 \cup {13, 15}
    /\ Pointers = 161..168 \cup {171, 173, 175}
    /\ TypeId.null = 0 /\ TypeId.void = 9 /\ TypeId.bool = 11 /\ TypeId.cstr = 12
    /\ Ptr(TypeId.cstr) = 172 /\ modifier_ptr = 160
<1>1. Floats = {13, 15} /\ Scalars = 1..8 \cup {13, 15}
    BY DEF Floats, Scalars, TypeId
<1>2. Pointers = {id + 160 : id \in 1..8 \cup {13, 15} \cup {11}}
    BY <1>1 DEF Pointers, Ptr, modifier_ptr, TypeId
<1>3. {id + 160 : id \in 1..8 \cup {13, 15} \cup {11}} = 161..168 \cup {171, 173, 175}
    <2>1. ASSUME NEW x \in 161..168 \cup {171, 173, 175}
          PROVE  x - 160 \in 1..8 \cup {13, 15} \cup {11} /\ (x - 160) + 160 = x
        OBVIOUS
    <2> QED
        BY <2>1
<1> QED
    BY <1>1, <1>2, <1>3 DEF Ptr, modifier_ptr, TypeId

\* A scalar has eight bytes at most.
LEMMA SizeOfType ==
    /\ \A id \in Scalars : get_type_size(id) \in 1..8
    /\ \A id \in Pointers : get_type_size(id - modifier_ptr) \in 1..8
<1>1. ASSUME NEW id \in 1..8 \cup {11, 13, 15}
      PROVE  get_type_size(id) \in 1..8
    <2>1. id \in {1, 5, 11} \/ id \in {2, 6} \/ id \in {3, 7, 15} \/ id \in {4, 8, 13}
        OBVIOUS
    <2> QED
        BY <2>1 DEF get_type_size
<1>2. ASSUME NEW id \in Pointers
      PROVE  id - modifier_ptr \in 1..8 \cup {11, 13, 15}
    BY Ids
<1> QED
    BY <1>1, <1>2, Ids

LEMMA PointerIds ==
    /\ \A id \in Pointers : is_ptr_type(id)
    /\ \A id \in 0..15 : ~is_ptr_type(id)
<1>1. ASSUME NEW id \in Pointers
      PROVE  is_ptr_type(id)
    <2>1. id \in 161..175
        BY Ids
    <2>2. id \div 128 = 1 /\ id \div 32 = 5
        BY <2>1
    <2> QED
        BY <2>2 DEF is_ptr_type
<1>2. ASSUME NEW id \in 0..15
      PROVE  ~is_ptr_type(id)
    <2>1. id \div 128 = 0
        OBVIOUS
    <2> QED
        BY <2>1 DEF is_ptr_type
<1> QED
    BY <1>1, <1>2

\* The cases of a value.
LEMMA ValueFacts ==
    ASSUME NEW v \in Values
    PROVE  /\ v = [type |-> v.type, bytes |-> v.bytes] /\ v.bytes \in Seq(Byte)
           /\ \/ v.type \in Scalars /\ Len(v.bytes) = get_type_size(v.type)
              \/ /\ v.type \in Pointers
                 /\ Len(v.bytes) >= get_type_size(v.type - modifier_ptr)
              \/ v.type = TypeId.bool /\ v.bytes \in {<<0>>, <<1>>}
              \/ v.type = TypeId.cstr /\ v.bytes \in Strings
              \/ v.type \in {TypeId.void, TypeId.null} /\ v.bytes = <<>>
    BY DEF Values, TypeInfo

\* The upper and the lower half of a byte.
LEMMA Halves ==
    ASSUME NEW k \in 0..9, NEW id \in 0..15
    PROVE  /\ 16 * k + id \in Byte
           /\ (16 * k + id) \div 16 = k /\ (16 * k + id) % 16 = id
           /\ read_type(16 * k + id) = [type |-> id, modifier |-> k]
<1>1. 16 * k + id \in Byte
    BY DEF Byte
<1>2. (16 * k + id) \div 16 = k /\ (16 * k + id) % 16 = id
    OBVIOUS
<1> QED
    BY <1>1, <1>2 DEF read_type

LEMMA PointerByte ==
    ASSUME NEW id \in Pointers
    PROVE  /\ id \in Byte
           /\ read_type(id) = [type |-> id, modifier |-> get_type_size(id - modifier_ptr)]
<1>1. id \in 161..175 /\ modifier_ptr = 160
    BY Ids
<1>2. id \div 16 = 10 /\ id % 16 = id - 160
    BY <1>1
<1> QED
    BY <1>1, <1>2 DEF read_type, Byte

\* What is written of a number: the number of bytes with its type, and the bytes.
LEMMA WireSizeFacts ==
    ASSUME NEW v \in Values, v.type \in Scalars, NEW w, w = WireSize(v)
    PROVE  /\ w \in 0..Len(v.bytes) /\ w \in 0..8
           /\ IsZero(v.type, Cleared(v.bytes, w))
<1> DEFINE n == Len(v.bytes)
           S == {k \in 0..n : IsZero(v.type, Cleared(v.bytes, k))}
<1>1. n \in 1..8 /\ v.bytes \in Seq(Byte)
    <2>1. Len(v.bytes) = get_type_size(v.type) /\ v.bytes \in Seq(Byte)
        BY DEF Values
    <2> QED
        BY <2>1, SizeOfType
<1>2. n \in S
    <2>1. \A i \in DOMAIN v.bytes : i <= n
        BY <1>1
    <2>2. Cleared(v.bytes, n) = [i \in DOMAIN v.bytes |-> 0]
        BY <2>1 DEF Cleared
    <2>3. IsZero(v.type, Cleared(v.bytes, n))
        BY <2>2 DEF IsZero
    <2> QED
        BY <1>1, <2>3
<1>3. w = Min(S)
    BY DEF WireSize
<1>4. S \subseteq Nat /\ S # {}
    BY <1>1, <1>2
<1>5. w \in S
    <2> HIDE DEF S
    <2> QED
        BY <1>3, <1>4, LeastIsMin
<1>6. w \in 0..n /\ IsZero(v.type, Cleared(v.bytes, w))
    BY <1>5, Zenon
<1>7. w \in 0..n
    BY <1>5, Zenon
<1>8. w \in 0..8
    <2> HIDE DEF n
    <2> QED
        BY <1>1, <1>7
<1> QED
    BY <1>6, <1>8, Zenon

\* What is written of a number, a pointer and a string.
LEMMA ScalarBytes ==
    ASSUME NEW v \in Values, v.type \in Scalars, NEW w, w = WireSize(v)
    PROVE  /\ EncodeScalar(v) \in Seq(Byte) /\ Len(EncodeScalar(v)) = 1 + w
           /\ EncodeScalar(v)[1] = 16 * w + v.type
           /\ \A j \in 1..w : EncodeScalar(v)[1 + j] = v.bytes[j]
<1>1. w \in 0..Len(v.bytes) /\ w \in 0..8 /\ v.bytes \in Seq(Byte) /\ Len(v.bytes) \in Nat
    BY WireSizeFacts DEF Values
<1>2. 16 * w + v.type \in Byte
    <2>1. v.type \in 0..15 /\ w \in 0..9
        BY <1>1, Ids
    <2> QED
        BY <2>1, Halves
<1> DEFINE b == 16 * w + v.type
           t == [i \in 1..w |-> v.bytes[i]]
<1>3. t \in Seq(Byte) /\ Len(t) = w /\ \A j \in 1..w : t[j] = v.bytes[j]
    <2>1. \A i \in 1..w : v.bytes[i] \in Byte
        BY <1>1, ElementFacts
    <2> QED
        BY <1>1, <2>1
<1>4. EncodeScalar(v) = <<b>> \o t
    BY DEF EncodeScalar
<1> HIDE DEF b, t
<1>5. b \in Byte
    BY <1>2 DEF b
<1>6. /\ <<b>> \o t \in Seq(Byte) /\ Len(<<b>> \o t) = 1 + Len(t)
      /\ (<<b>> \o t)[1] = b /\ \A j \in 1..Len(t) : (<<b>> \o t)[1 + j] = t[j]
    BY <1>3, <1>5
<1> QED
    BY <1>3, <1>4, <1>6 DEF b

LEMMA PointerBytes ==
    ASSUME NEW v \in Values, v.type \in Pointers, NEW n \in Nat,
           NEW size, size = get_type_size(v.type - modifier_ptr)
    PROVE  /\ EncodePointer(v, n) \in Seq(Byte) /\ Len(EncodePointer(v, n)) = 1 + n * size
           /\ EncodePointer(v, n)[1] = v.type
           /\ n = 1 => \A j \in 1..size : EncodePointer(v, n)[1 + j] = v.bytes[j]
<1>1. size \in 1..8 /\ v.bytes \in Seq(Byte) /\ Len(v.bytes) >= size /\ v.type \in Byte
    BY SizeOfType, PointerByte DEF Values
<1> DEFINE m == n * size
           t == [j \in 1..m |-> v.bytes[((j - 1) % size) + 1]]
<1>2. m \in Nat /\ (n = 1 => m = size)
    BY <1>1
<1>3. EncodePointer(v, n) = <<v.type>> \o t
    BY DEF EncodePointer
<1> HIDE DEF m
<1>4. t \in Seq(Byte) /\ Len(t) = m
    <2>1. ASSUME NEW j \in 1..m
          PROVE  v.bytes[((j - 1) % size) + 1] \in Byte
        <3>1. (j - 1) % size \in 0..(size - 1)
            BY <1>1, <1>2
        <3> DEFINE r == (j - 1) % size
        <3> HIDE DEF r
        <3>2. r + 1 \in 1..Len(v.bytes)
            BY <1>1, <3>1 DEF r
        <3>3. v.bytes[r + 1] \in Byte
            BY <1>1, <3>2, ElementFacts
        <3> QED
            BY <3>3 DEF r
    <2> QED
        BY <1>2, <2>1
<1>5. n = 1 => \A j \in 1..size : t[j] = v.bytes[j]
    <2> SUFFICES ASSUME n = 1, NEW j \in 1..size
                 PROVE  t[j] = v.bytes[j]
        OBVIOUS
    <2>1. (j - 1) % size = j - 1
        BY <1>1
    <2>2. ((j - 1) % size) + 1 = j
        BY <2>1
    <2>3. j \in 1..m
        BY <1>2
    <2> QED
        BY <2>2, <2>3
<1> HIDE DEF t
<1>6. /\ <<v.type>> \o t \in Seq(Byte) /\ Len(<<v.type>> \o t) = 1 + Len(t)
      /\ (<<v.type>> \o t)[1] = v.type /\ \A j \in 1..Len(t) : (<<v.type>> \o t)[1 + j] = t[j]
    BY <1>1, <1>4
<1> QED
    BY <1>2, <1>3, <1>4, <1>5, <1>6 DEF m

LEMMA StringFacts ==
    ASSUME NEW s \in Strings
    PROVE  s \in Seq(Byte) /\ s \in Seq(1..255) /\ \A j \in 1..Len(s) : s[j] \in 1..255
<1>1. s \in Seq(1..255)
    BY DEF Strings
<1>2. \A j \in 1..Len(s) : s[j] \in 1..255
    BY <1>1, ElementFacts
<1>3. 1..255 \subseteq Byte
    BY DEF Byte
<1> QED
    BY <1>1, <1>2, <1>3, SequenceOfMore

LEMMA StringBytes ==
    ASSUME NEW s \in Strings
    PROVE  /\ EncodeString(s) \in Seq(Byte) /\ Len(EncodeString(s)) = 2 + Len(s)
           /\ EncodeString(s)[1] = 12 /\ EncodeString(s)[2 + Len(s)] = 0
           /\ \A j \in 1..Len(s) : EncodeString(s)[1 + j] = s[j] /\ s[j] \in 1..255
<1>1. s \in Seq(Byte) /\ s \in Seq(1..255) /\ \A j \in 1..Len(s) : s[j] \in 1..255
    BY StringFacts
<1>2. <<12>> \in Seq(Byte) /\ <<0>> \in Seq(Byte) /\ Len(<<12>>) = 1 /\ Len(<<0>>) = 1
    BY DEF Byte
<1> DEFINE a == <<12>> \o s
<1>3. a \in Seq(Byte) /\ Len(a) = 1 + Len(s) /\ a[1] = 12 /\ \A j \in 1..Len(s) : a[1 + j] = s[j]
    BY <1>1, <1>2
<1> HIDE DEF a
<1>4. EncodeString(s) = a \o <<0>>
    BY Ids DEF EncodeString, a
<1>5. a \o <<0>> \in Seq(Byte) /\ Len(a \o <<0>>) = Len(a) + 1 /\ (a \o <<0>>)[Len(a) + 1] = 0
      /\ \A j \in 1..Len(a) : (a \o <<0>>)[j] = a[j]
    BY <1>2, <1>3
<1>6. Len(s) \in Nat
    BY <1>1
<1>7. \A j \in 1..Len(s) : 1 + j \in 1..Len(a)
    BY <1>3, <1>6
<1>8. 1 \in 1..Len(a) /\ Len(a) + 1 = 2 + Len(s)
    BY <1>3, <1>6
<1> QED
    BY <1>1, <1>3, <1>4, <1>5, <1>7, <1>8

-----------------------------------------------------------------------------
(* A value is read as it was written. *)

\* The bytes w stand in bs from offset `at' on.
Carries(bs, at, w) ==
    at + Len(w) <= Len(bs) /\ \A j \in 1..Len(w) : bs[at + j] = w[j]

\* A string ends where its NUL was written.
LEMMA ReadString ==
    ASSUME NEW bs \in Seq(Byte), NEW at \in Nat, NEW s \in Strings,
           at + Len(s) + 1 <= Len(bs), bs[at + Len(s) + 1] = 0,
           \A j \in 1..Len(s) : bs[at + j] = s[j]
    PROVE  read_cstr(bs, at) = Ok(Value(12, s), at + Len(s) + 1)
<1> DEFINE m == at + Len(s) + 1
           nuls == {i \in (at + 1)..Len(bs) : bs[i] = 0}
<1>1. s \in Seq(Byte) /\ Len(s) \in Nat /\ \A j \in 1..Len(s) : s[j] # 0
    <2>1. s \in Seq(Byte) /\ \A j \in 1..Len(s) : s[j] \in 1..255
        BY StringFacts
    <2>2. \A x \in 1..255 : x # 0
        OBVIOUS
    <2>3. \A j \in 1..Len(s) : s[j] # 0
        BY <2>1, <2>2, Zenon
    <2> QED
        BY <2>1, <2>3
<1>2. m \in nuls /\ nuls \subseteq Nat
    BY <1>1
<1>3. ASSUME NEW i \in nuls
      PROVE  m <= i
    <2> SUFFICES ASSUME i < m
                 PROVE  FALSE
        BY <1>1
    <2>1. i - at \in 1..Len(s) /\ at + (i - at) = i
        BY <1>1
    <2> QED
        BY <1>1, <2>1
<1>4. Min(nuls) = m
    <2> HIDE DEF nuls, m
    <2> QED
        BY <1>2, <1>3, MinIs
<1>5. SubSeq(bs, at + 1, m - 1) = s
    <2> DEFINE t == SubSeq(bs, at + 1, m - 1)
    <2>1. t \in Seq(Byte) /\ Len(t) = Len(s) /\ \A j \in 1..Len(s) : t[j] = bs[at + j]
        BY <1>1
    <2> HIDE DEF t
    <2>2. t = s
        BY <1>1, <2>1, SameSequence
    <2> QED
        BY <2>2 DEF t
<1>6. read_cstr(bs, at) = IF nuls = {} THEN BadAccess
                          ELSE Ok(Value(12, SubSeq(bs, at + 1, Min(nuls) - 1)), Min(nuls))
    BY Ids DEF read_cstr
<1> HIDE DEF nuls, m
<1>7. read_cstr(bs, at) = Ok(Value(12, s), m)
    BY <1>2, <1>4, <1>5, <1>6
<1> QED
    BY <1>7 DEF m

\* The cases of a type byte.
LEMMA ReadCases ==
    ASSUME NEW bs, NEW at, NEW t, t = read_type(bs[at + 1])
    PROVE  LET r == read_typed_value(bs, at)
           IN  /\ t.type \in {TypeId.null, TypeId.void} => r = Ok(Value(t.type, <<>>), at + 1)
               /\ t.type = TypeId.bool =>
                      r = Ok(Value(t.type, <<IF t.modifier # 0 THEN 1 ELSE 0>>), at + 1)
               /\ t.type = TypeId.cstr => r = read_cstr(bs, at + 1)
               /\ t.type \in Scalars => r = read_value(t.type, t.modifier, bs, at + 1)
               /\ t.type \in Pointers => r = read_ptr(t.type, bs, at + 1)
               /\ \/ t.type \in {TypeId.null, TypeId.void, TypeId.bool, TypeId.cstr}
                  \/ t.type \in Scalars \cup Pointers
                  \/ r = Throws("ERR_PARAM_TYPE_INVALID")
<1> DEFINE id == t.type
           r == read_typed_value(bs, at)
<1>1. /\ \A x \in {TypeId.null, TypeId.void} : /\ x # TypeId.bool /\ x # TypeId.cstr
                                             /\ x \notin Scalars /\ x \notin Pointers
      /\ TypeId.bool # TypeId.cstr /\ TypeId.bool \notin Scalars \cup Pointers
      /\ TypeId.cstr \notin Scalars \cup Pointers
      /\ \A x \in Scalars : x \notin Pointers
    BY Ids
<1>2. r = CASE id \in {TypeId.null, TypeId.void} -> Ok(Value(id, <<>>), at + 1)
            [] id = TypeId.bool ->
                   Ok(Value(id, <<IF t.modifier # 0 THEN 1 ELSE 0>>), at + 1)
            [] id = TypeId.cstr -> read_cstr(bs, at + 1)
            [] id \in Scalars   -> read_value(id, t.modifier, bs, at + 1)
            [] id \in Pointers  -> read_ptr(id, bs, at + 1)
            [] OTHER            -> Throws("ERR_PARAM_TYPE_INVALID")
    BY DEF read_typed_value
<1> HIDE DEF id, r
<1>3. id \in {TypeId.null, TypeId.void} => r = Ok(Value(id, <<>>), at + 1)
    BY <1>1, <1>2
<1>4. id = TypeId.bool => r = Ok(Value(id, <<IF t.modifier # 0 THEN 1 ELSE 0>>), at + 1)
    BY <1>1, <1>2
<1>5. id = TypeId.cstr => r = read_cstr(bs, at + 1)
    BY <1>1, <1>2
<1>6. id \in Scalars => r = read_value(id, t.modifier, bs, at + 1)
    BY <1>1, <1>2
<1>7. id \in Pointers => r = read_ptr(id, bs, at + 1)
    BY <1>1, <1>2
<1>8. \/ id \in {TypeId.null, TypeId.void, TypeId.bool, TypeId.cstr}
      \/ id \in Scalars \cup Pointers
      \/ r = Throws("ERR_PARAM_TYPE_INVALID")
    BY <1>2
<1> QED
    BY <1>3, <1>4, <1>5, <1>6, <1>7, <1>8 DEF id, r

LEMMA PassedAsIs == ASSUME NEW v \in Values, v.type \notin Pointers PROVE Passed(v) = v
<1>1. v.type \in 0..15
    BY Ids, ValueFacts
<1> QED
    BY <1>1, PointerIds DEF Passed

\* The kinds of values one by one: what was written is read, by reader and log.
LEMMA ReadScalar ==
    ASSUME NEW bs \in Seq(Byte), NEW at \in Nat, NEW v \in Values, v.type \in Scalars,
           NEW e, e = EncodeScalar(v), Carries(bs, at, e)
    PROVE  \E value : /\ read_typed_value(bs, at) = Ok(value, at + Len(e))
                      /\ value.type = v.type /\ Kept(v, value)
                      /\ format_value(bs, at) = Ok(<<>>, at + Len(e))
<1> DEFINE w == WireSize(v)
           n == get_type_size(v.type)
           id == v.type
           value == Value(id, [i \in 1..n |-> IF i <= w THEN bs[at + 1 + i] ELSE 0])
<1>1. /\ e \in Seq(Byte) /\ Len(e) = 1 + w /\ e[1] = 16 * w + id
      /\ \A j \in 1..w : e[1 + j] = v.bytes[j]
    BY ScalarBytes
<1>2. w \in 0..n /\ w \in 0..8 /\ v.bytes \in Seq(Byte) /\ Len(v.bytes) = n /\ n \in 1..8
    BY WireSizeFacts, SizeOfType DEF Values
<1>3. id \in 1..8 \cup {13, 15}
    BY Ids
<1>4. bs[at + 1] = 16 * w + id /\ at + 1 + w <= Len(bs) /\ Has(bs, at + 1, w)
    <2>1. 1 \in 1..Len(e) /\ at + Len(e) = at + 1 + w
        BY <1>1, <1>2
    <2> QED
        BY <1>1, <2>1 DEF Carries, Has
<1>5. read_type(bs[at + 1]) = [type |-> id, modifier |-> w]
    <2>1. id \in 0..15 /\ w \in 0..9
        BY <1>2, <1>3
    <2> HIDE DEF w, id
    <2> QED
        BY <1>4, <2>1, Halves
<1>6. at + 1 + w = at + Len(e)
    BY <1>1, <1>2
<1> HIDE DEF w, n, id
<1>7. read_value(id, w, bs, at + 1) = Ok(value, at + 1 + w)
    <2>1. ~(w > n)
        BY <1>2
    <2> QED
        BY <1>4, <2>1 DEF read_value, n, id
<1>8. read_typed_value(bs, at) = Ok(value, at + 1 + w)
    <2> DEFINE t == read_type(bs[at + 1])
    <2>1. t.type = id /\ t.modifier = w
        BY <1>5
    <2>2. id \in Scalars
        BY DEF id
    <2> HIDE DEF value
    <2>3. read_typed_value(bs, at) = read_value(t.type, t.modifier, bs, at + 1)
        BY <2>1, <2>2, ReadCases
    <2> QED
        BY <1>7, <2>1, <2>3
<1>9. format_value(bs, at) = Ok(<<>>, at + 1 + w)
    <2> DEFINE t == read_type(bs[at + 1])
    <2>1. t.type = id /\ t.modifier = w
        BY <1>5
    <2>2. id \notin {TypeId.cstr, Ptr(TypeId.cstr)} /\ id \in Scalars \cup Pointers
        BY <1>3, Ids
    <2> HIDE DEF t
    <2>3. Has(bs, at + 1, t.modifier)
        BY <1>4, <2>1
    <2> QED
        BY <2>1, <2>2, <2>3 DEF format_value, t
<1>10. Kept(v, value)
    <2>1. /\ value.type = id
          /\ value.bytes = [i \in 1..n |-> IF i <= w THEN bs[at + 1 + i] ELSE 0]
        BY DEF Value
    <2> DEFINE b == [i \in 1..n |-> IF i <= w THEN bs[at + 1 + i] ELSE 0]
    <2>2. SUFFICES ASSUME ~SignLost(v)
                   PROVE  v.bytes = b
        <3>1. value.type = v.type /\ value.bytes = b
            BY <2>1 DEF id
        <3> HIDE DEF value, b
        <3> QED
            BY <3>1, Zenon DEF Kept
    <2>3. ASSUME NEW i \in 1..n
          PROVE  v.bytes[i] = b[i]
        <3>1. CASE i <= w
            <4>1. i \in 1..w /\ 1 + i \in 1..Len(e) /\ at + 1 + i = at + (1 + i)
                BY <1>1, <1>2, <3>1
            <4> QED
                BY <1>1, <3>1, <4>1 DEF Carries
        <3>2. CASE ~(i <= w)
            <4> DEFINE c == Cleared(v.bytes, w)
            <4>1. DOMAIN v.bytes = 1..n
                BY <1>2
            <4>2. DOMAIN c = 1..n /\ c[i] = v.bytes[i] /\ Len(c) = n
                BY <1>2, <3>2, <4>1 DEF Cleared
            <4>3. IsZero(id, c)
                BY WireSizeFacts DEF id, w
            <4>4. c[i] = 0 \/ (id \in Floats /\ i = Len(c) /\ c[i] = 128)
                BY <4>2, <4>3 DEF IsZero
            <4>5. v.bytes[i] = 0
                BY <1>2, <2>2, <4>2, <4>4 DEF SignLost, id
            <4> QED
                BY <3>2, <4>5
        <3> QED
            BY <3>1, <3>2
    <2>4. v.bytes = [i \in 1..n |-> v.bytes[i]]
        BY <1>2
    <2> QED
        BY <2>3, <2>4
<1>11. value.type = v.type
    BY DEF Value, id
<1> HIDE DEF value
<1> QED
    BY <1>6, <1>8, <1>9, <1>10, <1>11

LEMMA ReadPointer ==
    ASSUME NEW bs \in Seq(Byte), NEW at \in Nat, NEW v \in Values, v.type \in Pointers,
           NEW e, e = EncodePointer(v, 1), Carries(bs, at, e)
    PROVE  /\ read_type(bs[at + 1]).type = v.type
           /\ read_ptr(v.type, bs, at + 1) = Ok(Passed(v), at + Len(e))
           /\ read_typed_value(bs, at) = Ok(Passed(v), at + Len(e))
           /\ format_value(bs, at) = Ok(<<>>, at + Len(e))
           /\ Passed(v).type = v.type
<1> DEFINE n == get_type_size(v.type - modifier_ptr)
           id == v.type
<1>1. /\ n \in 1..8 /\ v.bytes \in Seq(Byte) /\ Len(v.bytes) >= n
      /\ v = [type |-> id, bytes |-> v.bytes]
    BY SizeOfType DEF Values
<1>2. /\ e \in Seq(Byte) /\ Len(e) = 1 + n /\ e[1] = id
      /\ \A j \in 1..n : e[1 + j] = v.bytes[j]
    <2>1. n = get_type_size(v.type - modifier_ptr) /\ 1 \in Nat
        OBVIOUS
    <2> HIDE DEF n
    <2>2. e \in Seq(Byte) /\ e[1] = v.type /\ \A j \in 1..n : e[1 + j] = v.bytes[j]
        BY <2>1, PointerBytes
    <2>3. Len(e) = 1 + 1 * n
        BY <2>1, PointerBytes
    <2> QED
        BY <1>1, <2>2, <2>3
<1>11. n \in Nat /\ Len(e) = 1 + n
    <2> HIDE DEF n
    <2> QED
        BY <1>1, <1>2
<1>3. bs[at + 1] = id /\ at + 1 + n <= Len(bs) /\ Has(bs, at + 1, n) /\ at + 1 + n = at + Len(e)
    <2> HIDE DEF n
    <2>1. 1 \in 1..Len(e) /\ at + Len(e) = at + 1 + n
        BY <1>11
    <2> QED
        BY <1>2, <2>1 DEF Carries, Has
<1>4. read_type(bs[at + 1]) = [type |-> id, modifier |-> n]
    BY <1>3, PointerByte
<1>5. Passed(v) = [type |-> id, bytes |-> [i \in 1..n |-> v.bytes[i]]]
    <2>1. is_ptr_type(v.type)
        BY PointerIds
    <2> HIDE DEF n
    <2> QED
        BY <1>1, <2>1 DEF Passed, n
<1>6. SubSeq(bs, at + 1 + 1, at + 1 + n) = [i \in 1..n |-> v.bytes[i]]
    <2> HIDE DEF n
    <2> DEFINE s == SubSeq(bs, at + 1 + 1, at + 1 + n)
    <2>11. at + 1 + 1 >= 1 /\ at + 1 + n <= Len(bs) /\ (at + 1 + n) - (at + 1 + 1) + 1 = n
        BY <1>11, <1>3
    <2>12. s \in Seq(Byte) /\ Len(s) = n
        BY <1>11, <2>11
    <2>13. \A j \in 1..n : s[j] = bs[at + 1 + j]
        BY <1>11, <2>11
    <2>1. s \in Seq(Byte) /\ Len(s) = n /\ \A j \in 1..n : s[j] = bs[at + 1 + j]
        BY <2>12, <2>13
    <2>2. ASSUME NEW j \in 1..n
          PROVE  bs[at + 1 + j] = v.bytes[j]
        <3>1. 1 + j \in 1..Len(e) /\ at + (1 + j) = at + 1 + j
            BY <1>11
        <3> QED
            BY <1>2, <3>1 DEF Carries
    <2> HIDE DEF s
    <2>3. s = [j \in 1..n |-> s[j]]
        BY <1>1, <2>1
    <2>4. \A j \in 1..n : s[j] = v.bytes[j]
        BY <2>1, <2>2
    <2> QED
        BY <2>3, <2>4 DEF s
<1> HIDE DEF n
<1>7. read_ptr(id, bs, at + 1) = Ok(Passed(v), at + 1 + n)
    BY <1>3, <1>5, <1>6 DEF read_ptr, Value, n
<1>8. read_typed_value(bs, at) = Ok(Passed(v), at + 1 + n)
    <2> DEFINE t == read_type(bs[at + 1])
    <2>1. t.type = id /\ id \in Pointers
        BY <1>4
    <2>2. read_typed_value(bs, at) = read_ptr(t.type, bs, at + 1)
        BY <2>1, ReadCases
    <2> QED
        BY <1>7, <2>1, <2>2
<1>9. format_value(bs, at) = Ok(<<>>, at + 1 + n)
    <2> DEFINE t == read_type(bs[at + 1])
    <2>1. t.type = id /\ t.modifier = n
        BY <1>4
    <2>2. id \notin {TypeId.cstr, Ptr(TypeId.cstr)} /\ id \in Scalars \cup Pointers
        BY Ids
    <2> HIDE DEF t
    <2>3. Has(bs, at + 1, t.modifier)
        BY <1>3, <2>1
    <2> QED
        BY <2>1, <2>2, <2>3 DEF format_value, t
<1>10. Passed(v).type = id /\ read_type(bs[at + 1]).type = id
    BY <1>4, <1>5
<1> QED
    BY <1>3, <1>7, <1>8, <1>9, <1>10

LEMMA ReadText ==
    ASSUME NEW bs \in Seq(Byte), NEW at \in Nat, NEW s \in Strings,
           NEW e, e = EncodeString(s), Carries(bs, at, e)
    PROVE  /\ read_type(bs[at + 1]).type = TypeId.cstr
           /\ read_cstr(bs, at + 1) = Ok(Value(TypeId.cstr, s), at + Len(e))
           /\ read_typed_value(bs, at) = Ok(Value(TypeId.cstr, s), at + Len(e))
           /\ format_value(bs, at) = Ok(Value(TypeId.cstr, s), at + Len(e))
<1>1. /\ e \in Seq(Byte) /\ Len(e) = 2 + Len(s) /\ e[1] = 12 /\ e[2 + Len(s)] = 0
      /\ \A j \in 1..Len(s) : e[1 + j] = s[j]
    BY StringBytes
<1>2. Len(s) \in Nat
    BY StringFacts
<1>3. /\ bs[at + 1] = 12 /\ at + 1 + Len(s) + 1 = at + Len(e)
      /\ at + 1 + Len(s) + 1 <= Len(bs) /\ bs[at + 1 + Len(s) + 1] = 0
      /\ \A j \in 1..Len(s) : bs[at + 1 + j] = s[j]
    <2>1. /\ 1 \in 1..Len(e) /\ 2 + Len(s) \in 1..Len(e)
          /\ at + (2 + Len(s)) = at + 1 + Len(s) + 1 /\ at + Len(e) = at + 1 + Len(s) + 1
        BY <1>1, <1>2
    <2>2. \A j \in 1..Len(s) : 1 + j \in 1..Len(e) /\ at + (1 + j) = at + 1 + j
        BY <1>1, <1>2
    <2>3. \A j \in 1..Len(e) : bs[at + j] = e[j]
        BY DEF Carries
    <2>4. at + Len(e) <= Len(bs)
        BY DEF Carries
    <2>5. \A j \in 1..Len(s) : bs[at + 1 + j] = s[j]
        BY <1>1, <2>2, <2>3
    <2>6. bs[at + 1] = 12 /\ bs[at + 1 + Len(s) + 1] = 0
        BY <1>1, <2>1, <2>3
    <2> QED
        BY <2>1, <2>4, <2>5, <2>6
<1>4. read_type(bs[at + 1]) = [type |-> 12, modifier |-> 0]
    <2>1. 0 \in 0..9 /\ 12 \in 0..15 /\ 16 * 0 + 12 = 12
        OBVIOUS
    <2> QED
        BY <1>3, <2>1, Halves
<1>5. read_cstr(bs, at + 1) = Ok(Value(12, s), at + Len(e))
    BY <1>3, ReadString
<1> DEFINE t == read_type(bs[at + 1])
<1>6. t.type = TypeId.cstr /\ TypeId.cstr = 12
    BY <1>4, Ids
<1> HIDE DEF t
<1>7. read_typed_value(bs, at) = read_cstr(bs, at + 1)
    BY <1>6, ReadCases DEF t
<1>8. format_value(bs, at) = read_cstr(bs, at + 1)
    BY <1>6 DEF format_value, t
<1> QED
    BY <1>5, <1>6, <1>7, <1>8 DEF t

LEMMA ReadShort ==
    ASSUME NEW bs \in Seq(Byte), NEW at \in Nat, NEW v \in Values,
           v.type \in {TypeId.null, TypeId.void, TypeId.bool},
           NEW e, e = write_value(v, 1), Carries(bs, at, e)
    PROVE  /\ e \in Seq(Byte) /\ Len(e) = 1
           /\ read_typed_value(bs, at) = Ok(v, at + 1)
           /\ format_value(bs, at) = Ok(<<>>, at + 1)
<1>1. /\ v = [type |-> v.type, bytes |-> v.bytes]
      /\ v.type = TypeId.bool => v.bytes \in {<<0>>, <<1>>}
      /\ v.type # TypeId.bool => v.bytes = <<>>
    BY DEF Values
<1> DEFINE id == v.type
           k == IF id = TypeId.bool THEN v.bytes[1] ELSE 0
           h == 16 * k + id
<1>2. /\ id \notin Scalars \cup Pointers /\ id # TypeId.cstr /\ id # Ptr(TypeId.cstr)
      /\ id \in 0..15 /\ TypeId.bool \notin {TypeId.null, TypeId.void}
    <2>1. id \in {0, 9, 11}
        BY Ids
    <2> HIDE DEF id
    <2> QED
        BY <2>1, Ids
<1>3. k \in {0, 1}
    BY <1>1
<1>4. e = <<h>>
    <2>1. CASE id = TypeId.bool
        <3>1. write_value(v, 1) = EncodeBool(v)
            BY <1>2, <2>1 DEF write_value
        <3> QED
            BY <2>1, <3>1 DEF EncodeBool
    <2>2. CASE id # TypeId.bool
        <3>1. write_value(v, 1) = <<v.type>>
            BY <1>2, <2>2 DEF write_value
        <3>2. h = v.type
            BY <1>2, <2>2
        <3> QED
            BY <3>1, <3>2
    <2> QED
        BY <2>1, <2>2
<1> HIDE DEF k, id
<1>5. h \in Byte /\ read_type(h) = [type |-> id, modifier |-> k]
    <2>1. k \in 0..9
        BY <1>3
    <2> QED
        BY <1>2, <2>1, Halves
<1> HIDE DEF h
<1>6. e \in Seq(Byte) /\ Len(e) = 1 /\ e[1] = h
    BY <1>4, <1>5, Singleton
<1>7. bs[at + 1] = h
    BY <1>6 DEF Carries
<1> DEFINE t == read_type(bs[at + 1])
<1>8. t.type = id /\ t.modifier = k
    BY <1>5, <1>7
<1> HIDE DEF t
<1>9. format_value(bs, at) = Ok(<<>>, at + 1)
    BY <1>2, <1>8 DEF format_value, t
<1>10. read_typed_value(bs, at) = Ok(v, at + 1)
    <2>1. CASE id = TypeId.bool
        <3>1. read_typed_value(bs, at) = Ok(Value(id, <<IF k # 0 THEN 1 ELSE 0>>), at + 1)
            BY <1>8, <2>1, ReadCases DEF t
        <3>2. v.bytes \in {<<0>>, <<1>>} /\ k = v.bytes[1]
            BY <1>1, <2>1 DEF id, k
        <3>3. <<IF k # 0 THEN 1 ELSE 0>> = v.bytes
            <4>1. CASE v.bytes = <<0>>
                BY <3>2, <4>1
            <4>2. CASE v.bytes = <<1>>
                BY <3>2, <4>2
            <4> QED
                BY <3>2, <4>1, <4>2
        <3> QED
            BY <1>1, <3>1, <3>3 DEF Value, id
    <2>2. CASE id # TypeId.bool
        <3>1. t.type \in {TypeId.null, TypeId.void}
            BY <1>8, <2>2 DEF id
        <3>2. read_typed_value(bs, at) = Ok(Value(id, <<>>), at + 1)
            BY <1>8, <3>1, ReadCases DEF t
        <3> QED
            BY <1>1, <2>2, <3>2 DEF Value, id
    <2> QED
        BY <2>1, <2>2
<1> QED
    BY <1>6, <1>9, <1>10

\* Which encoding write_value chooses.
LEMMA WriteCases ==
    ASSUME NEW v \in Values, NEW n \in Nat
    PROVE  LET e == write_value(v, n)
           IN  /\ v.type \in Scalars => e = EncodeScalar(v)
               /\ v.type \in Pointers => e = EncodePointer(v, n)
               /\ v.type = TypeId.bool => e = EncodeBool(v)
               /\ v.type = TypeId.cstr => e = EncodeString(v.bytes)
               /\ v.type \in {TypeId.null, TypeId.void} => e = <<v.type>>
<1> DEFINE id == v.type
           e == write_value(v, n)
<1>1. /\ \A x \in {TypeId.null, TypeId.void} : /\ x # TypeId.bool /\ x # TypeId.cstr
                                             /\ x \notin Scalars /\ x \notin Pointers
      /\ TypeId.bool # TypeId.cstr /\ TypeId.bool \notin Scalars \cup Pointers
      /\ TypeId.cstr \notin Scalars \cup Pointers
      /\ \A x \in Scalars : x \notin Pointers
    BY Ids
<1>2. e = CASE id \in Scalars     -> EncodeScalar(v)
            [] id \in Pointers    -> EncodePointer(v, n)
            [] id = TypeId.bool   -> EncodeBool(v)
            [] id = TypeId.cstr   -> EncodeString(v.bytes)
            [] id \in {TypeId.null, TypeId.void} -> <<id>>
    BY DEF write_value
<1> HIDE DEF id, e
<1>3. id \in Scalars => e = EncodeScalar(v)
    BY <1>1, <1>2
<1>4. id \in Pointers => e = EncodePointer(v, n)
    BY <1>1, <1>2
<1>5. id = TypeId.bool => e = EncodeBool(v)
    BY <1>1, <1>2
<1>6. id = TypeId.cstr => e = EncodeString(v.bytes)
    BY <1>1, <1>2
<1>7. id \in {TypeId.null, TypeId.void} => e = <<id>>
    BY <1>1, <1>2
<1> QED
    BY <1>3, <1>4, <1>5, <1>6, <1>7 DEF id, e

\* What is written of a value is at least its type byte.
LEMMA WrittenBytes ==
    ASSUME NEW v \in Values, NEW n \in Nat
    PROVE  /\ write_value(v, n) \in Seq(Byte) /\ Len(write_value(v, n)) \in Nat
           /\ Len(write_value(v, n)) >= 1
<1> DEFINE e == write_value(v, n)
<1> SUFFICES e \in Seq(Byte) /\ Len(e) >= 1
    BY ElementFacts
<1>1. CASE v.type \in Scalars
    <2> DEFINE w == WireSize(v)
    <2>1. EncodeScalar(v) \in Seq(Byte) /\ Len(EncodeScalar(v)) = 1 + w
        BY <1>1, ScalarBytes
    <2>2. w \in 0..8
        BY <1>1, WireSizeFacts
    <2>3. e = EncodeScalar(v)
        BY <1>1, WriteCases
    <2> HIDE DEF w
    <2> QED
        BY <2>1, <2>2, <2>3
<1>2. CASE v.type \in Pointers
    <2> DEFINE size == get_type_size(v.type - modifier_ptr)
    <2>1. EncodePointer(v, n) \in Seq(Byte) /\ Len(EncodePointer(v, n)) = 1 + n * size
        BY <1>2, PointerBytes
    <2>2. size \in 1..8
        BY <1>2, SizeOfType
    <2>3. e = EncodePointer(v, n)
        BY <1>2, WriteCases
    <2> HIDE DEF size
    <2>4. n * size >= 0 /\ n * size \in Nat
        BY <2>2
    <2> QED
        BY <2>1, <2>3, <2>4
<1>3. CASE v.type = TypeId.bool
    <2>1. v.bytes[1] \in {0, 1}
        BY <1>3, Ids DEF Values
    <2>2. 16 * v.bytes[1] + v.type \in Byte
        BY <1>3, <2>1, Ids DEF Byte
    <2>3. e = <<16 * v.bytes[1] + v.type>>
        BY <1>3, WriteCases DEF EncodeBool
    <2> QED
        BY <2>2, <2>3, Singleton
<1>4. CASE v.type = TypeId.cstr
    <2>1. v.bytes \in Strings
        BY <1>4 DEF Values
    <2>2. e = EncodeString(v.bytes)
        BY <1>4, WriteCases
    <2>3. EncodeString(v.bytes) \in Seq(Byte) /\ Len(EncodeString(v.bytes)) = 2 + Len(v.bytes)
        BY <2>1, StringBytes
    <2>4. Len(v.bytes) \in Nat
        BY <2>1, StringFacts
    <2> QED
        BY <2>2, <2>3, <2>4
<1>5. CASE v.type \in {TypeId.null, TypeId.void}
    <2>1. v.type \in Byte
        BY <1>5, Ids DEF Byte
    <2>2. e = <<v.type>>
        BY <1>5, WriteCases
    <2> QED
        BY <2>1, <2>2, Singleton
<1> QED
    BY <1>1, <1>2, <1>3, <1>4, <1>5, ValueFacts

\* Reading back what was written of a value: the reader gets its first element, the
\* log's parser ends where the reader does.
LEMMA ReadBack ==
    ASSUME NEW bs \in Seq(Byte), NEW at \in Nat, NEW v \in Values,
           NEW e, e = write_value(v, 1), Carries(bs, at, e)
    PROVE  /\ \E value : /\ read_typed_value(bs, at) = Ok(value, at + Len(e))
                         /\ value.type = v.type /\ Kept(Passed(v), value)
           /\ \E printed : format_value(bs, at) = Ok(printed, at + Len(e))
<1>1. CASE v.type \in Scalars
    <2>1. e = EncodeScalar(v)
        BY <1>1, WriteCases
    <2>2. Passed(v) = v
        <3>1. \A x \in Scalars : x \notin Pointers
            BY Ids
        <3> QED
            BY <1>1, <3>1, PassedAsIs
    <2>3. PICK value : /\ read_typed_value(bs, at) = Ok(value, at + Len(e))
                       /\ value.type = v.type /\ Kept(v, value)
                       /\ format_value(bs, at) = Ok(<<>>, at + Len(e))
        BY <1>1, <2>1, ReadScalar
    <2> QED
        BY <2>2, <2>3
<1>2. CASE v.type \in Pointers
    <2>1. e = EncodePointer(v, 1)
        BY <1>2, WriteCases
    <2>2. /\ read_typed_value(bs, at) = Ok(Passed(v), at + Len(e))
          /\ format_value(bs, at) = Ok(<<>>, at + Len(e)) /\ Passed(v).type = v.type
        BY <1>2, <2>1, ReadPointer
    <2>3. Kept(Passed(v), Passed(v))
        BY DEF Kept
    <2> QED
        BY <2>2, <2>3
<1>3. CASE v.type = TypeId.cstr
    <2>1. e = EncodeString(v.bytes) /\ v.bytes \in Strings
        BY <1>3, WriteCases DEF Values
    <2>2. v = Value(TypeId.cstr, v.bytes)
        BY <1>3, ValueFacts DEF Value
    <2>3. read_typed_value(bs, at) = Ok(v, at + Len(e)) /\ format_value(bs, at) = Ok(v, at + Len(e))
        BY <2>1, <2>2, ReadText
    <2>4. Passed(v) = v /\ Kept(v, v)
        <3>1. v.type \notin Pointers
            BY <1>3, Ids
        <3> QED
            BY <3>1, PassedAsIs DEF Kept
    <2> QED
        BY <2>3, <2>4
<1>4. CASE v.type \in {TypeId.null, TypeId.void, TypeId.bool}
    <2>1. /\ Len(e) = 1 /\ read_typed_value(bs, at) = Ok(v, at + 1)
          /\ format_value(bs, at) = Ok(<<>>, at + 1)
        BY <1>4, ReadShort
    <2>2. Passed(v) = v /\ Kept(v, v)
        <3>1. v.type \notin Pointers
            BY <1>4, Ids
        <3> QED
            BY <3>1, PassedAsIs DEF Kept
    <2> QED
        BY <2>1, <2>2
<1> QED
    BY <1>1, <1>2, <1>3, <1>4, ValueFacts

-----------------------------------------------------------------------------
(* What the reader makes of any bytes. *)

Refusals == {"undefined", "ERR_BAD_PACKET", "ERR_BAD_PACKET_ACCESS",
             "ERR_FUNC_NAME_MISSING", "ERR_PARAM_TYPE_INVALID",
             "ERR_OUTPARAM_TYPE_MISMATCH"}

\* A pointer that was read leads to one element.
ReadValues ==
    {v \in Values : v.type \in Pointers => Len(v.bytes) = get_type_size(v.type - modifier_ptr)}

\* The outcome r of a read at an offset: a value and a later offset, or an exception.
Outcome(bs, at, r) ==
    \/ r.res \in Refusals
    \/ r.res = "ok" /\ r.value \in ReadValues /\ r.next \in (at + 1)..Len(bs)

\* What makes a value that can have been read.
LEMMA MakeValue ==
    ASSUME NEW id, NEW b \in Seq(Byte),
           \/ id \in Scalars /\ Len(b) = get_type_size(id)
           \/ id \in Pointers /\ Len(b) = get_type_size(id - modifier_ptr)
           \/ id = TypeId.bool /\ b \in {<< 0 >>, << 1 >>}
           \/ id = TypeId.cstr /\ b \in Strings
           \/ id \in {TypeId.null, TypeId.void} /\ b = <<>>
    PROVE  Value(id, b) \in ReadValues
<1> DEFINE v == [type |-> id, bytes |-> b]
<1>1. /\ \A x \in {TypeId.null, TypeId.void} : /\ x # TypeId.bool /\ x # TypeId.cstr
                                             /\ x \notin Scalars /\ x \notin Pointers
      /\ TypeId.bool # TypeId.cstr /\ TypeId.bool \notin Scalars \cup Pointers
      /\ TypeId.cstr \notin Scalars \cup Pointers
      /\ \A x \in Scalars : x \notin Pointers
    BY Ids
<1>2. v.type = id /\ v.bytes = b /\ v = Value(id, b)
    BY DEF Value
<1>3. v \in [type : TypeInfo \cup {TypeId.null}, bytes : Seq(Byte)]
    BY DEF TypeInfo
<1> HIDE DEF v
<1>4. v.type \in Scalars => Len(v.bytes) = get_type_size(v.type)
    BY <1>1, <1>2
<1>5. v.type \in Pointers => Len(v.bytes) = get_type_size(v.type - modifier_ptr)
    BY <1>1, <1>2
<1>6. v.type = TypeId.bool => v.bytes \in {<<0>>, <<1>>}
    BY <1>1, <1>2
<1>7. v.type = TypeId.cstr => v.bytes \in Strings
    BY <1>1, <1>2
<1>8. v.type \in {TypeId.void, TypeId.null} => v.bytes = <<>>
    BY <1>1, <1>2
<1>9. v.type \in Pointers => Len(v.bytes) >= get_type_size(v.type - modifier_ptr)
    BY <1>5, SizeOfType
<1>10. v \in Values
    BY <1>3, <1>4, <1>6, <1>7, <1>8, <1>9 DEF Values
<1> QED
    BY <1>2, <1>5, <1>10 DEF ReadValues

\* What a type byte can mean.
LEMMA TypeByte ==
    ASSUME NEW h \in Byte
    PROVE  /\ read_type(h).modifier \in Nat
           /\ read_type(h).type \in Pointers =>
                  read_type(h).modifier = get_type_size(read_type(h).type - modifier_ptr)
<1>1. h \in Nat /\ h % 16 \in Nat /\ h \div 16 \in Nat
    BY DEF Byte
<1>2. get_type_size(h % 16) \in Nat
    BY <1>1 DEF get_type_size
<1>3. CASE h \div 16 < 10
    <2>1. h % 16 \notin Pointers
        BY <1>1, Ids
    <2>2. read_type(h) = [type |-> h % 16, modifier |-> h \div 16]
        BY <1>3 DEF read_type
    <2> QED
        BY <1>1, <2>1, <2>2
<1>4. CASE ~(h \div 16 < 10)
    <2>1. h \in Pointers => h % 16 = h - modifier_ptr
        <3> SUFFICES ASSUME h \in Pointers
                     PROVE  h % 16 = h - modifier_ptr
            OBVIOUS
        <3>1. h \in 161..175
            BY Ids
        <3> QED
            BY <3>1, Ids
    <2>2. read_type(h) = [type |-> h, modifier |-> get_type_size(h % 16)]
        BY <1>4 DEF read_type
    <2> QED
        BY <1>2, <2>1, <2>2
<1> QED
    BY <1>3, <1>4

\* The kinds of values one by one, of any bytes: a value or an exception.
LEMMA ReadStringTyped ==
    ASSUME NEW bs \in Seq(Byte), NEW at \in 0..Len(bs), NEW r, r = read_cstr(bs, at)
    PROVE  \/ r.res = "ERR_BAD_PACKET_ACCESS"
           \/ /\ r.res = "ok" /\ r.value.bytes \in Strings /\ r.value \in ReadValues
              /\ r.next \in (at + 1)..Len(bs)
<1> DEFINE nuls == {i \in (at + 1)..Len(bs) : bs[i] = 0}
           m == Min(nuls)
           s == SubSeq(bs, at + 1, m - 1)
<1>1. CASE nuls = {}
    <2>1. r = BadAccess
        BY <1>1 DEF read_cstr
    <2> QED
        BY <2>1 DEF BadAccess, Throws
<1>2. CASE nuls # {}
    <2>1. nuls \subseteq Nat /\ Len(bs) \in Nat /\ at \in Nat
        OBVIOUS
    <2>2. m \in nuls /\ \A i \in nuls : m <= i
        <3> HIDE DEF nuls
        <3> QED
            BY <1>2, <2>1, LeastIsMin
    <2>3. r = Ok(Value(TypeId.cstr, s), m)
        BY <1>2 DEF read_cstr
    <2> HIDE DEF m
    <2>4. m \in (at + 1)..Len(bs) /\ m \in Nat
        BY <2>2
    <2>5. \A i \in (at + 1)..(m - 1) : bs[i] # 0
        BY <2>1, <2>2, <2>4
    <2>6. s \in Seq(Byte) /\ Len(s) = m - 1 - at /\ \A j \in 1..(m - 1 - at) : s[j] = bs[at + j]
        BY <2>1, <2>4
    <2>7. ASSUME NEW j \in 1..(m - 1 - at)
          PROVE  s[j] \in 1..255
        <3>1. at + j \in (at + 1)..(m - 1) /\ at + j \in 1..Len(bs)
            BY <2>1, <2>4
        <3>2. bs[at + j] \in Byte
            BY <3>1, ElementFacts
        <3>3. s[j] = bs[at + j] /\ bs[at + j] # 0
            BY <2>5, <2>6, <3>1
        <3>4. \A x \in Byte : x # 0 => x \in 1..255
            BY DEF Byte
        <3> QED
            BY <3>2, <3>3, <3>4
    <2> HIDE DEF s
    <2>8. s \in Strings
        <3> DEFINE k == m - 1 - at
        <3>1. s = [j \in 1..k |-> s[j]] /\ k \in Nat
            BY <2>1, <2>4, <2>6
        <3>2. \A j \in 1..k : s[j] \in 1..255
            BY <2>7
        <3> HIDE DEF k
        <3>3. s \in Seq(1..255)
            BY <3>1, <3>2, MakeSequence
        <3> QED
            BY <3>3 DEF Strings
    <2>9. Value(TypeId.cstr, s) \in ReadValues /\ Value(TypeId.cstr, s).bytes = s
        BY <2>6, <2>8, MakeValue DEF Value
    <2>10. r.res = "ok" /\ r.value = Value(TypeId.cstr, s) /\ r.next = m
        BY <2>3 DEF Ok
    <2> QED
        BY <2>4, <2>8, <2>9, <2>10
<1> QED
    BY <1>1, <1>2

LEMMA ReadPointerTyped ==
    ASSUME NEW bs \in Seq(Byte), NEW at \in 0..Len(bs), NEW id \in Pointers,
           NEW r, r = read_ptr(id, bs, at)
    PROVE  Outcome(bs, at, r)
<1> DEFINE n == get_type_size(id - modifier_ptr)
           s == SubSeq(bs, at + 1, at + n)
<1>1. n \in 1..8
    BY SizeOfType
<1>2. CASE ~Has(bs, at, n)
    <2>1. r = BadAccess
        BY <1>2 DEF read_ptr
    <2> QED
        BY <2>1 DEF BadAccess, Throws, Outcome, Refusals
<1>3. CASE Has(bs, at, n)
    <2>1. r = Ok(Value(id, s), at + n)
        BY <1>3 DEF read_ptr
    <2> HIDE DEF n
    <2>2. at + n <= Len(bs)
        BY <1>3 DEF Has
    <2>3. s \in Seq(Byte) /\ Len(s) = n
        BY <1>1, <2>2
    <2> HIDE DEF s
    <2>4. Value(id, s) \in ReadValues
        BY <2>3, MakeValue DEF n
    <2>5. at + n \in (at + 1)..Len(bs)
        BY <1>1, <2>2
    <2> QED
        BY <2>1, <2>4, <2>5 DEF Ok, Outcome
<1> QED
    BY <1>2, <1>3

LEMMA ReadScalarTyped ==
    ASSUME NEW bs \in Seq(Byte), NEW at \in 0..(Len(bs) - 1), NEW id \in Scalars, NEW w \in Nat,
           NEW r, r = read_value(id, w, bs, at + 1)
    PROVE  Outcome(bs, at, r)
<1> DEFINE n == get_type_size(id)
           s == [i \in 1..n |-> IF i <= w THEN bs[at + 1 + i] ELSE 0]
<1>1. n \in 1..8
    BY SizeOfType
<1>2. CASE ~Has(bs, at + 1, w)
    <2>1. r = BadAccess
        BY <1>2 DEF read_value
    <2> QED
        BY <2>1 DEF BadAccess, Throws, Outcome, Refusals
<1>3. CASE Has(bs, at + 1, w) /\ w > n
    <2>1. r = Throws("undefined")
        BY <1>3 DEF read_value
    <2> QED
        BY <2>1 DEF Throws, Outcome, Refusals
<1>4. CASE Has(bs, at + 1, w) /\ ~(w > n)
    <2>1. r = Ok(Value(id, s), at + 1 + w)
        BY <1>4 DEF read_value
    <2> HIDE DEF n
    <2>2. at + 1 + w <= Len(bs) /\ Len(bs) \in Nat
        BY <1>4 DEF Has
    <2>3. ASSUME NEW i \in 1..n
          PROVE  (IF i <= w THEN bs[at + 1 + i] ELSE 0) \in Byte
        <3>1. CASE i <= w
            <4>1. at + 1 + i \in 1..Len(bs)
                BY <1>1, <2>2, <3>1
            <4>2. bs[at + 1 + i] \in Byte
                BY <4>1, ElementFacts
            <4> QED
                BY <3>1, <4>2
        <3>2. CASE ~(i <= w)
            BY <3>2 DEF Byte
        <3> QED
            BY <3>1, <3>2
    <2>4. s \in Seq(Byte) /\ Len(s) = n
        BY <1>1, <2>3
    <2> HIDE DEF s
    <2>5. Value(id, s) \in ReadValues
        BY <2>4, MakeValue DEF n
    <2>6. at + 1 + w \in (at + 1)..Len(bs)
        BY <2>2
    <2> QED
        BY <2>1, <2>5, <2>6 DEF Ok, Outcome
<1> QED
    BY <1>2, <1>3, <1>4

\* The reader finds a value and moves on, or it throws.
LEMMA ReadTyped ==
    ASSUME NEW bs \in Seq(Byte), NEW at \in 0..(Len(bs) - 1)
    PROVE  Outcome(bs, at, read_typed_value(bs, at))
<1> DEFINE r == read_typed_value(bs, at)
           t == read_type(bs[at + 1])
<1>1. at + 1 \in 0..Len(bs) /\ at + 1 \in 1..Len(bs) /\ at \in Nat /\ Len(bs) \in Nat
      /\ at + 1 \in (at + 1)..Len(bs)
    OBVIOUS
<1>2. bs[at + 1] \in Byte
    BY <1>1, ElementFacts
<1>3. t.modifier \in Nat
    BY <1>2, TypeByte
<1> HIDE DEF t
<1>4. CASE t.type \in {TypeId.null, TypeId.void}
    <2>1. r = Ok(Value(t.type, <<>>), at + 1)
        BY <1>4, ReadCases DEF t
    <2>2. Value(t.type, <<>>) \in ReadValues
        <3>1. <<>> \in Seq(Byte)
            OBVIOUS
        <3> QED
            BY <1>4, <3>1, MakeValue
    <2> QED
        BY <1>1, <2>1, <2>2 DEF Ok, Outcome
<1>5. CASE t.type = TypeId.bool
    <2> DEFINE b == <<IF t.modifier # 0 THEN 1 ELSE 0>>
    <2>1. r = Ok(Value(t.type, b), at + 1)
        BY <1>5, ReadCases DEF t
    <2>2. b \in {<<0>>, <<1>>} /\ b \in Seq(Byte)
        BY DEF Byte
    <2> HIDE DEF b
    <2>3. Value(t.type, b) \in ReadValues
        BY <1>5, <2>2, MakeValue
    <2> QED
        BY <1>1, <2>1, <2>3 DEF Ok, Outcome
<1>6. CASE t.type = TypeId.cstr
    <2>1. r = read_cstr(bs, at + 1)
        BY <1>6, ReadCases DEF t
    <2>2. \/ r.res = "ERR_BAD_PACKET_ACCESS"
          \/ r.res = "ok" /\ r.value \in ReadValues /\ r.next \in (at + 1 + 1)..Len(bs)
        BY <1>1, <2>1, ReadStringTyped
    <2>3. \A x \in (at + 1 + 1)..Len(bs) : x \in (at + 1)..Len(bs)
        BY <1>1
    <2> QED
        BY <2>2, <2>3 DEF Outcome, Refusals
<1>7. CASE t.type \in Scalars
    <2>1. r = read_value(t.type, t.modifier, bs, at + 1)
        BY <1>7, ReadCases DEF t
    <2> QED
        BY <1>3, <1>7, <2>1, ReadScalarTyped
<1>8. CASE t.type \in Pointers
    <2>1. r = read_ptr(t.type, bs, at + 1)
        BY <1>8, ReadCases DEF t
    <2>2. Outcome(bs, at + 1, r)
        BY <1>1, <1>8, <2>1, ReadPointerTyped
    <2>3. \A x \in (at + 1 + 1)..Len(bs) : x \in (at + 1)..Len(bs)
        BY <1>1
    <2> QED
        BY <2>2, <2>3 DEF Outcome
<1>9. CASE r = Throws("ERR_PARAM_TYPE_INVALID")
    BY <1>9 DEF Throws, Outcome, Refusals
<1>10. \/ t.type \in {TypeId.null, TypeId.void, TypeId.bool, TypeId.cstr}
       \/ t.type \in Scalars \cup Pointers
       \/ r = Throws("ERR_PARAM_TYPE_INVALID")
    BY ReadCases DEF t
<1> QED
    BY <1>4, <1>5, <1>6, <1>7, <1>8, <1>9, <1>10

\* So does the log's parser.
LEMMA LogTyped ==
    ASSUME NEW bs \in Seq(Byte), NEW at \in 0..(Len(bs) - 1), NEW r, r = format_value(bs, at)
    PROVE  r.res = "ok" => r.next \in (at + 1)..Len(bs)
<1> DEFINE t == read_type(bs[at + 1])
<1>1. at + 1 \in 0..Len(bs) /\ at + 1 \in 1..Len(bs) /\ at \in Nat /\ Len(bs) \in Nat
      /\ at + 1 \in (at + 1)..Len(bs)
    OBVIOUS
<1>2. t.modifier \in Nat
    BY <1>1, ElementFacts, TypeByte
<1> HIDE DEF t
<1>3. CASE t.type \in {TypeId.cstr, Ptr(TypeId.cstr)}
    <2>1. r = read_cstr(bs, at + 1)
        BY <1>3 DEF format_value, t
    <2>2. r.res = "ok" => r.next \in (at + 1 + 1)..Len(bs)
        BY <1>1, <2>1, ReadStringTyped
    <2> QED
        BY <1>1, <2>2
<1>4. CASE t.type \notin {TypeId.cstr, Ptr(TypeId.cstr)}
    <2>1. \/ r = Ok(<<>>, at + 1) \/ r = BadAccess
          \/ Has(bs, at + 1, t.modifier) /\ r = Ok(<<>>, at + 1 + t.modifier)
        BY <1>4 DEF format_value, t
    <2>2. CASE r = Ok(<<>>, at + 1)
        BY <1>1, <2>2 DEF Ok
    <2>3. CASE r = BadAccess
        BY <2>3 DEF BadAccess, Throws
    <2>4. CASE Has(bs, at + 1, t.modifier) /\ r = Ok(<<>>, at + 1 + t.modifier)
        <3>1. at + 1 + t.modifier \in (at + 1)..Len(bs)
            BY <1>1, <1>2, <2>4 DEF Has
        <3> QED
            BY <2>4, <3>1 DEF Ok
    <2> QED
        BY <2>1, <2>2, <2>3, <2>4
<1> QED
    BY <1>3, <1>4

-----------------------------------------------------------------------------
(* The offsets of a parser. *)

\* A parser that moves on with every value.
Progress(bs, parsed) ==
    \A at \in 0..(Len(bs) - 1) :
        parsed[at].res = "ok" => parsed[at].next \in (at + 1)..Len(bs)

\* The recursion of Offsets is well-founded.
LEMMA OffsetsStep ==
    ASSUME NEW bs \in Seq(Byte), NEW parsed, Progress(bs, parsed),
           NEW at \in 0..Len(bs)
    PROVE  Offsets(bs, parsed)[at] =
               IF at < Len(bs) /\ parsed[at].res = "ok"
               THEN <<at>> \o Offsets(bs, parsed)[parsed[at].next] ELSE <<at>>
<1> DEFINE L == Len(bs)
           Ends(x) == ~(x < L /\ parsed[x].res = "ok")
           next(x) == parsed[x].next
           from[x \in 0..L] ==
               IF x < L /\ parsed[x].res = "ok" THEN <<x>> \o from[parsed[x].next] ELSE <<x>>
           S == {k \in 0..L : \E g : g = [x \in (L - k)..L |->
                                             IF Ends(x) THEN <<x>> ELSE <<x>> \o g[next(x)]]}
<1>1. L \in Nat
    OBVIOUS
<1>2. \A x \in 0..L : ~Ends(x) => next(x) \in (x + 1)..L
    BY DEF Progress
<1>3. from = [x \in 0..L |->
                 IF x < L /\ parsed[x].res = "ok" THEN <<x>> \o from[parsed[x].next] ELSE <<x>>]
    <2> HIDE DEF L, next
    <2>1. \A x \in L..L : Ends(x)
        BY <1>1
    <2> HIDE DEF Ends
    <2>2. 0 \in S
        <3> DEFINE g == [x \in (L - 0)..L |-> <<x>>]
        <3>1. L - 0 = L
            BY <1>1
        <3>2. g = [x \in (L - 0)..L |-> IF Ends(x) THEN <<x>> ELSE <<x>> \o g[next(x)]]
            BY <2>1, <3>1
        <3> HIDE DEF g
        <3>3. \E f : f = [x \in (L - 0)..L |-> IF Ends(x) THEN <<x>> ELSE <<x>> \o f[next(x)]]
            BY <3>2
        <3>4. 0 \in 0..L
            BY <1>1
        <3> QED
            BY <3>3, <3>4
    <2>3. ASSUME NEW k \in 0..(L - 1), k \in S
          PROVE  k + 1 \in S
        <3>1. PICK g : g = [x \in (L - k)..L |-> IF Ends(x) THEN <<x>> ELSE <<x>> \o g[next(x)]]
            BY <2>3
        <3> DEFINE h == [x \in (L - (k + 1))..L |->
                            IF x \in (L - k)..L THEN g[x]
                            ELSE IF Ends(x) THEN <<x>> ELSE <<x>> \o g[next(x)]]
        <3>2. ASSUME NEW x \in (L - (k + 1))..L
              PROVE  h[x] = IF Ends(x) THEN <<x>> ELSE <<x>> \o h[next(x)]
            <4>1. x \in 0..L /\ (x \in (L - k)..L \/ x = L - (k + 1))
                BY <1>1
            <4>2. ~Ends(x) => /\ next(x) \in (L - k)..L /\ next(x) \in (L - (k + 1))..L
                              /\ h[next(x)] = g[next(x)]
                <5> SUFFICES ASSUME ~Ends(x)
                             PROVE  next(x) \in (L - k)..L /\ next(x) \in (L - (k + 1))..L
                    OBVIOUS
                <5>1. next(x) \in (x + 1)..L
                    BY <1>2, <4>1
                <5> QED
                    BY <1>1, <4>1, <5>1
            <4>3. h[x] = IF Ends(x) THEN <<x>> ELSE <<x>> \o g[next(x)]
                <5>1. CASE x \in (L - k)..L
                    <6>1. g[x] = IF Ends(x) THEN <<x>> ELSE <<x>> \o g[next(x)]
                        BY <3>1, <5>1
                    <6> HIDE DEF Ends
                    <6> QED
                        BY <5>1, <6>1
                <5>2. CASE x \notin (L - k)..L
                    BY <5>2
                <5> QED
                    BY <5>1, <5>2
            <4> HIDE DEF h
            <4> QED
                BY <4>2, <4>3
        <3>3. h = [x \in (L - (k + 1))..L |-> h[x]]
            OBVIOUS
        <3> HIDE DEF h
        <3>4. h = [x \in (L - (k + 1))..L |-> IF Ends(x) THEN <<x>> ELSE <<x>> \o h[next(x)]]
            BY <3>2, <3>3
        <3>5. \E f : f = [x \in (L - (k + 1))..L |->
                             IF Ends(x) THEN <<x>> ELSE <<x>> \o f[next(x)]]
            BY <3>4
        <3>6. k + 1 \in 0..L
            BY <1>1
        <3> QED
            BY <3>5, <3>6
    <2>4. L \in S
        <3> HIDE DEF S
        <3>1. 0..L \subseteq S
            BY <1>1, <2>2, <2>3, Upwards
        <3> QED
            BY <1>1, <3>1
    <2>5. \E g : g = [x \in (L - L)..L |-> IF Ends(x) THEN <<x>> ELSE <<x>> \o g[next(x)]]
        BY <2>4
    <2>6. L - L = 0
        BY <1>1
    <2>7. \E g : g = [x \in 0..L |-> IF Ends(x) THEN <<x>> ELSE <<x>> \o g[next(x)]]
        BY <2>5, <2>6
    <2>8. PICK g : g = [x \in 0..L |-> IF Ends(x) THEN <<x>> ELSE <<x>> \o g[next(x)]]
        BY <2>7
    <2>9. g = [x \in 0..L |->
                  IF x < L /\ parsed[x].res = "ok" THEN <<x>> \o g[parsed[x].next] ELSE <<x>>]
        BY <2>8, Zenon DEF Ends, next
    <2> QED
        BY <2>9
<1> HIDE DEF from
<1>4. Offsets(bs, parsed) = from
    BY DEF Offsets, from
<1> QED
    BY <1>3, <1>4

\* A run of the parser: where it finds values, up to the end or an exception.
Chain(bs, parsed, s) ==
    /\ s \in Seq(0..Len(bs)) /\ Len(s) >= 1
    /\ \A i \in 1..(Len(s) - 1) :
           s[i] < Len(bs) /\ parsed[s[i]].res = "ok" /\ s[i + 1] = parsed[s[i]].next
    /\ ~(s[Len(s)] < Len(bs) /\ parsed[s[Len(s)]].res = "ok")

\* What Offsets computes is a chain.
LEMMA OffsetsChain ==
    ASSUME NEW bs \in Seq(Byte), NEW parsed, Progress(bs, parsed), NEW start \in 0..Len(bs)
    PROVE  Chain(bs, parsed, Offsets(bs, parsed)[start]) /\ Offsets(bs, parsed)[start][1] = start
<1> DEFINE L == Len(bs)
           O == Offsets(bs, parsed)
           S == {x \in 0..L : Chain(bs, parsed, O[x]) /\ O[x][1] = x}
<1>1. L \in Nat
    OBVIOUS
<1>2. ASSUME NEW x \in 0..L, \A y \in (x + 1)..L : y \in S
      PROVE  x \in S
    <2>1. CASE ~(x < L /\ parsed[x].res = "ok")
        <3> DEFINE s == O[x]
        <3>1. s = <<x>>
            BY <2>1, OffsetsStep
        <3> HIDE DEF O, s
        <3>2. s \in Seq(0..L) /\ Len(s) = 1 /\ s[1] = x
            BY <3>1, Singleton
        <3>3. Chain(bs, parsed, s)
            <4>1. \A i \in 1..(Len(s) - 1) : FALSE
                BY <3>2
            <4> QED
                BY <2>1, <3>2, <4>1 DEF Chain
        <3> QED
            BY <3>2, <3>3 DEF s
    <2>2. CASE x < L /\ parsed[x].res = "ok"
        <3> DEFINE y == parsed[x].next
                   q == O[y]
                   s == O[x]
        <3>1. y \in (x + 1)..L /\ x \in 0..(L - 1)
            BY <1>1, <2>2 DEF Progress
        <3>2. Chain(bs, parsed, q) /\ q[1] = y
            BY <1>2, <3>1
        <3>3. s = <<x>> \o q
            BY <2>2, OffsetsStep
        <3> HIDE DEF O, q, s, y
        <3>4. q \in Seq(0..L) /\ Len(q) >= 1 /\ Len(q) \in Nat
            BY <3>2, ElementFacts DEF Chain
        <3>5. /\ s \in Seq(0..L) /\ Len(s) = 1 + Len(q) /\ s[1] = x
              /\ \A i \in 1..Len(q) : s[1 + i] = q[i]
            BY <3>3, <3>4
        <3>6. ASSUME NEW i \in 1..(Len(s) - 1)
              PROVE  s[i] < L /\ parsed[s[i]].res = "ok" /\ s[i + 1] = parsed[s[i]].next
            <4>1. CASE i = 1
                <5>1. 1 \in 1..Len(q) /\ 1 + 1 = i + 1
                    BY <3>4, <4>1
                <5>2. s[i + 1] = y
                    BY <3>2, <3>5, <5>1
                <5> QED
                    BY <2>2, <3>5, <4>1, <5>2 DEF y
            <4>2. CASE i # 1
                <5>1. /\ i - 1 \in 1..(Len(q) - 1) /\ i - 1 \in 1..Len(q) /\ i \in 1..Len(q)
                      /\ 1 + (i - 1) = i /\ 1 + i = i + 1 /\ (i - 1) + 1 = i
                    BY <3>4, <3>5, <4>2
                <5>4. \A j \in 1..Len(q) : s[1 + j] = q[j]
                    BY <3>5
                <5>5. s[1 + (i - 1)] = q[i - 1] /\ s[1 + i] = q[i]
                    BY <5>1, <5>4, Zenon
                <5>2. s[i] = q[i - 1] /\ s[i + 1] = q[(i - 1) + 1]
                    BY <5>1, <5>5, Zenon
                <5>3. /\ q[i - 1] < L /\ parsed[q[i - 1]].res = "ok"
                      /\ q[(i - 1) + 1] = parsed[q[i - 1]].next
                    BY <3>2, <5>1 DEF Chain
                <5> QED
                    BY <5>2, <5>3
            <4> QED
                BY <4>1, <4>2
        <3>7. s[Len(s)] = q[Len(q)]
            BY <3>4, <3>5
        <3>8. Chain(bs, parsed, s)
            <4>1. Len(s) >= 1
                BY <3>4, <3>5
            <4>2. ~(q[Len(q)] < L /\ parsed[q[Len(q)]].res = "ok")
                BY <3>2 DEF Chain
            <4> QED
                BY <3>5, <3>6, <3>7, <4>1, <4>2 DEF Chain
        <3> QED
            BY <3>5, <3>8 DEF s
    <2> QED
        BY <2>1, <2>2
<1> HIDE DEF S
<1>3. 0..L \subseteq S
    BY <1>1, <1>2, Downwards
<1>4. start \in S
    BY <1>3
<1> QED
    BY <1>4 DEF S

\* From one start there is one chain.
LEMMA OneChain ==
    ASSUME NEW bs \in Seq(Byte), NEW parsed, NEW s, NEW t,
           Chain(bs, parsed, s), Chain(bs, parsed, t), s[1] = t[1]
    PROVE  s = t
<1>1. /\ s \in Seq(0..Len(bs)) /\ Len(s) >= 1 /\ Len(s) \in Nat
      /\ t \in Seq(0..Len(bs)) /\ Len(t) >= 1 /\ Len(t) \in Nat
    BY ElementFacts DEF Chain
<1>2. ASSUME NEW m \in Nat, m <= Len(s) - 1, m <= Len(t) - 1
      PROVE  \A i \in 0..m : s[i + 1] = t[i + 1]
    <2> DEFINE S == {i \in 0..m : s[i + 1] = t[i + 1]}
    <2>1. 0 \in S
        <3>1. 0 + 1 = 1 /\ 0 \in 0..m
            OBVIOUS
        <3> QED
            BY <3>1
    <2>2. ASSUME NEW i \in 0..(m - 1), i \in S
          PROVE  i + 1 \in S
        <3>1. /\ i + 1 \in 1..(Len(s) - 1) /\ i + 1 \in 1..(Len(t) - 1)
              /\ i + 1 \in 0..m
            BY <1>1, <1>2
        <3>2. s[(i + 1) + 1] = parsed[s[i + 1]].next /\ t[(i + 1) + 1] = parsed[t[i + 1]].next
            BY <3>1 DEF Chain
        <3> QED
            BY <2>2, <3>1, <3>2
    <2> HIDE DEF S
    <2>3. 0..m \subseteq S
        BY <2>1, <2>2, Upwards
    <2> QED
        BY <2>3 DEF S
<1>3. ~(Len(s) < Len(t))
    <2> SUFFICES ASSUME Len(s) < Len(t)
                 PROVE  FALSE
        OBVIOUS
    <2> DEFINE m == Len(s) - 1
    <2>1. m \in Nat /\ m <= Len(s) - 1 /\ m <= Len(t) - 1 /\ m \in 0..m /\ m + 1 = Len(s)
          /\ Len(s) \in 1..(Len(t) - 1)
        BY <1>1
    <2>2. s[Len(s)] = t[Len(s)]
        <3> HIDE DEF m
        <3>1. s[m + 1] = t[m + 1]
            BY <1>2, <2>1
        <3> QED
            BY <2>1, <3>1
    <2>3. t[Len(s)] < Len(bs) /\ parsed[t[Len(s)]].res = "ok"
        BY <2>1 DEF Chain
    <2>4. ~(s[Len(s)] < Len(bs) /\ parsed[s[Len(s)]].res = "ok")
        BY DEF Chain
    <2> QED
        BY <2>2, <2>3, <2>4
<1>4. ~(Len(t) < Len(s))
    <2> SUFFICES ASSUME Len(t) < Len(s)
                 PROVE  FALSE
        OBVIOUS
    <2> DEFINE m == Len(t) - 1
    <2>1. m \in Nat /\ m <= Len(s) - 1 /\ m <= Len(t) - 1 /\ m \in 0..m /\ m + 1 = Len(t)
          /\ Len(t) \in 1..(Len(s) - 1)
        BY <1>1
    <2>2. s[Len(t)] = t[Len(t)]
        <3> HIDE DEF m
        <3>1. s[m + 1] = t[m + 1]
            BY <1>2, <2>1
        <3> QED
            BY <2>1, <3>1
    <2>3. s[Len(t)] < Len(bs) /\ parsed[s[Len(t)]].res = "ok"
        BY <2>1 DEF Chain
    <2>4. ~(t[Len(t)] < Len(bs) /\ parsed[t[Len(t)]].res = "ok")
        BY DEF Chain
    <2> QED
        BY <2>2, <2>3, <2>4
<1>5. Len(s) = Len(t)
    BY <1>1, <1>3, <1>4
<1>6. ASSUME NEW i \in 1..Len(s)
      PROVE  s[i] = t[i]
    <2> DEFINE m == Len(s) - 1
    <2>1. m \in Nat /\ m <= Len(s) - 1 /\ m <= Len(t) - 1 /\ i - 1 \in 0..m /\ (i - 1) + 1 = i
        BY <1>1, <1>5
    <2> HIDE DEF m
    <2>2. s[(i - 1) + 1] = t[(i - 1) + 1]
        BY <1>2, <2>1
    <2> QED
        BY <2>1, <2>2
<1> QED
    BY <1>1, <1>5, <1>6, SameSequence

\* The reader moves on with every value, and so does the log's parser.
LEMMA ReaderMovesOn ==
    ASSUME NEW bs \in Seq(Byte)
    PROVE  /\ Progress(bs, TypedValues(bs))
           /\ Progress(bs, [at \in 0..(Len(bs) - 1) |-> format_value(bs, at)])
<1>1. ASSUME NEW at \in 0..(Len(bs) - 1), TypedValues(bs)[at].res = "ok"
      PROVE  TypedValues(bs)[at].next \in (at + 1)..Len(bs)
    <2> DEFINE r == read_typed_value(bs, at)
    <2>1. TypedValues(bs)[at] = r
        BY DEF TypedValues
    <2>2. Outcome(bs, at, r)
        BY ReadTyped
    <2> HIDE DEF r
    <2> QED
        BY <1>1, <2>1, <2>2 DEF Outcome, Refusals
<1>2. ASSUME NEW at \in 0..(Len(bs) - 1), format_value(bs, at).res = "ok"
      PROVE  format_value(bs, at).next \in (at + 1)..Len(bs)
    BY <1>2, LogTyped
<1> QED
    BY <1>1, <1>2 DEF Progress

-----------------------------------------------------------------------------
(* Pieces laid out one after the other up to the end of a payload. *)

\* The n pieces W stand at the offsets at[0], at[1], ...
Laid(bs, start, n, W, at) ==
    /\ at \in [0..n -> 0..Len(bs)] /\ at[0] = start /\ at[n] = Len(bs)
    /\ \A i \in 1..n : Carries(bs, at[i - 1], W[i]) /\ at[i] = at[i - 1] + Len(W[i])

\* What a payload carries it still carries when it grows.
LEMMA CarriesMore ==
    ASSUME NEW bs \in Seq(Byte), NEW e \in Seq(Byte), NEW w \in Seq(Byte), NEW at \in Nat,
           Carries(bs, at, w)
    PROVE  Carries(bs \o e, at, w)
<1>1. Len(bs) \in Nat /\ Len(e) \in Nat /\ Len(w) \in Nat
    OBVIOUS
<1>2. Len(bs \o e) = Len(bs) + Len(e)
    BY ConcatFacts
<1>3. \A i \in 1..Len(bs) : (bs \o e)[i] = bs[i]
    BY ConcatFacts
<1>4. ASSUME NEW j \in 1..Len(w)
      PROVE  (bs \o e)[at + j] = w[j]
    <2>1. at + j \in 1..Len(bs) /\ bs[at + j] = w[j]
        BY <1>1 DEF Carries
    <2> QED
        BY <1>3, <2>1
<1>5. at + Len(w) <= Len(bs \o e)
    BY <1>1, <1>2 DEF Carries
<1> QED
    BY <1>4, <1>5 DEF Carries

LEMMA CarriesLast ==
    ASSUME NEW bs \in Seq(Byte), NEW e \in Seq(Byte)
    PROVE  Carries(bs \o e, Len(bs), e) /\ Len(bs \o e) = Len(bs) + Len(e) /\ bs \o e \in Seq(Byte)
<1>1. Len(bs \o e) = Len(bs) + Len(e) /\ bs \o e \in Seq(Byte)
    BY ConcatFacts
<1>2. \A j \in 1..Len(e) : (bs \o e)[Len(bs) + j] = e[j]
    BY ConcatFacts
<1>3. Len(bs) + Len(e) <= Len(bs) + Len(e)
    OBVIOUS
<1> QED
    BY <1>1, <1>2, <1>3 DEF Carries

LEMMA LaidNothing ==
    ASSUME NEW bs \in Seq(Byte), NEW W
    PROVE  \E at : Laid(bs, Len(bs), 0, W, at)
<1> DEFINE at == [i \in 0..0 |-> Len(bs)]
<1>1. at \in [0..0 -> 0..Len(bs)] /\ at[0] = Len(bs) /\ \A i \in 1..0 : FALSE
    OBVIOUS
<1> HIDE DEF at
<1> QED
    BY <1>1 DEF Laid

\* A piece appended to pieces laid out.
LEMMA LaidAppend ==
    ASSUME NEW bs \in Seq(Byte), NEW start, NEW n \in Nat, NEW W, NEW at, Laid(bs, start, n, W, at),
           NEW V, NEW e \in Seq(Byte), V[n + 1] = e,
           \A i \in 1..n : W[i] \in Seq(Byte) /\ V[i] = W[i]
    PROVE  \E to : Laid(bs \o e, start, n + 1, V, to)
<1> DEFINE L == Len(bs)
           N == Len(bs \o e)
           to == [i \in 0..(n + 1) |-> IF i = n + 1 THEN N ELSE at[i]]
<1>1. L \in Nat /\ Len(e) \in Nat /\ N = L + Len(e) /\ N \in Nat
    <2>1. N = L + Len(e)
        BY ConcatFacts
    <2> QED
        BY <2>1
<1>2. /\ at \in [0..n -> 0..L] /\ at[0] = start /\ at[n] = L
      /\ \A i \in 1..n : Carries(bs, at[i - 1], W[i]) /\ at[i] = at[i - 1] + Len(W[i])
    BY DEF Laid
<1> HIDE DEF L, N
<1>3. to \in [0..(n + 1) -> 0..N] /\ to[n + 1] = N /\ \A i \in 0..n : to[i] = at[i]
    <2>1. \A i \in 0..n : at[i] \in 0..N /\ i # n + 1 /\ i \in 0..(n + 1)
        BY <1>1, <1>2
    <2>2. \A i \in 0..(n + 1) : i = n + 1 \/ i \in 0..n
        OBVIOUS
    <2>3. N \in 0..N /\ n + 1 \in 0..(n + 1)
        BY <1>1
    <2> QED
        BY <2>1, <2>2, <2>3
<1> HIDE DEF to
<1>4. ASSUME NEW i \in 1..(n + 1)
      PROVE  Carries(bs \o e, to[i - 1], V[i]) /\ to[i] = to[i - 1] + Len(V[i])
    <2>1. CASE i = n + 1
        <3>1. i - 1 = n /\ n \in 0..n
            BY <2>1
        <3>2. to[i - 1] = L /\ to[i] = N /\ V[i] = e
            BY <1>2, <1>3, <2>1, <3>1
        <3>3. Carries(bs \o e, L, e)
            BY CarriesLast DEF L
        <3> QED
            BY <1>1, <3>2, <3>3
    <2>2. CASE i # n + 1
        <3>1. i \in 1..n /\ i - 1 \in 0..n /\ i \in 0..n
            BY <2>2
        <3>2. to[i - 1] = at[i - 1] /\ to[i] = at[i] /\ V[i] = W[i] /\ W[i] \in Seq(Byte)
            BY <1>3, <3>1
        <3>3. at[i - 1] \in Nat /\ Carries(bs, at[i - 1], W[i])
            BY <1>1, <1>2, <3>1
        <3>4. Carries(bs \o e, at[i - 1], W[i])
            BY <3>2, <3>3, CarriesMore
        <3> QED
            BY <1>2, <3>1, <3>2, <3>4
    <2> QED
        BY <2>1, <2>2
<1>5. to[0] = start
    BY <1>2, <1>3
<1> QED
    BY <1>3, <1>4, <1>5 DEF Laid, N

\* Two parsers that agree on each piece find the same offsets.
LEMMA ParsersAgree ==
    ASSUME NEW bs \in Seq(Byte), NEW start, NEW n \in Nat, NEW W, NEW at, Laid(bs, start, n, W, at),
           NEW p, NEW q, Progress(bs, p), Progress(bs, q),
           \A i \in 1..n : \/ Len(W[i]) = 0
                           \/ /\ at[i - 1] < Len(bs)
                              /\ p[at[i - 1]].res = "ok" /\ p[at[i - 1]].next = at[i]
                              /\ q[at[i - 1]].res = "ok" /\ q[at[i - 1]].next = at[i]
    PROVE  Offsets(bs, p)[start] = Offsets(bs, q)[start]
<1> DEFINE L == Len(bs)
           P == Offsets(bs, p)
           Q == Offsets(bs, q)
           S == {i \in 0..n : P[at[i]] = Q[at[i]]}
<1>1. /\ at \in [0..n -> 0..L] /\ at[0] = start /\ at[n] = L /\ L \in Nat
      /\ \A i \in 1..n : at[i] = at[i - 1] + Len(W[i])
    BY DEF Laid
<1>5. ASSUME NEW x \in 0..L, x < L /\ p[x].res = "ok" /\ q[x].res = "ok"
      PROVE  P[x] = <<x>> \o P[p[x].next] /\ Q[x] = <<x>> \o Q[q[x].next]
    <2>1. P[x] = <<x>> \o P[p[x].next]
        BY <1>5, OffsetsStep
    <2>2. Q[x] = <<x>> \o Q[q[x].next]
        BY <1>5, OffsetsStep
    <2> QED
        BY <2>1, <2>2
<1>6. P[L] = <<L>> /\ Q[L] = <<L>>
    <2>1. L \in 0..L /\ ~(L < L)
        BY <1>1
    <2>2. P[L] = <<L>>
        BY <2>1, OffsetsStep
    <2>3. Q[L] = <<L>>
        BY <2>1, OffsetsStep
    <2> QED
        BY <2>2, <2>3
<1> HIDE DEF P, Q
<1>2. ASSUME NEW i \in 0..n, \A j \in (i + 1)..n : j \in S
      PROVE  i \in S
    <2>1. at[i] \in 0..L
        BY <1>1
    <2>2. CASE i = n
        <3>1. at[i] = L
            BY <1>1, <2>2
        <3> QED
            BY <1>6, <3>1
    <2>3. CASE i # n
        <3>1. i + 1 \in 1..n /\ i + 1 \in (i + 1)..n /\ (i + 1) - 1 = i
            BY <2>3
        <3>2. P[at[i + 1]] = Q[at[i + 1]]
            BY <1>2, <3>1
        <3>3. CASE Len(W[i + 1]) = 0
            <4>1. at[i + 1] = at[i]
                BY <1>1, <2>1, <3>1, <3>3
            <4> QED
                BY <3>2, <4>1
        <3>4. CASE Len(W[i + 1]) # 0
            <4>1. /\ at[i] < L
                  /\ p[at[i]].res = "ok" /\ p[at[i]].next = at[i + 1]
                  /\ q[at[i]].res = "ok" /\ q[at[i]].next = at[i + 1]
                BY <3>1, <3>4
            <4>2. P[at[i]] = <<at[i]>> \o P[at[i + 1]] /\ Q[at[i]] = <<at[i]>> \o Q[at[i + 1]]
                BY <1>5, <2>1, <4>1
            <4> QED
                BY <3>2, <4>2
        <3> QED
            BY <3>3, <3>4
    <2> QED
        BY <2>2, <2>3
<1> HIDE DEF S
<1>3. 0..n \subseteq S
    BY <1>2, Downwards
<1>4. 0 \in S
    BY <1>3
<1> QED
    BY <1>1, <1>4 DEF S, P, Q

\* What read_args makes of any bytes.
LEMMA ArgsTyped ==
    ASSUME NEW bs \in Seq(Byte), NEW start \in 0..Len(bs), NEW a, a = read_args(bs, start)
    PROVE  (a.res = "ok" \/ a.res \in Refusals) /\ a.values \in Seq(ReadValues)
<1> DEFINE T == TypedValues(bs)
           o == Offsets(bs, T)[start]
           k == Len(o) - 1
           end == o[k + 1]
<1>1. Chain(bs, T, o)
    BY OffsetsChain, ReaderMovesOn
<1>2. a = [res    |-> IF end = Len(bs) THEN "ok" ELSE T[end].res,
           values |-> [i \in 1..k |-> T[o[i]].value]]
    BY DEF read_args
<1> HIDE DEF o
<1>3. o \in Seq(0..Len(bs)) /\ Len(o) >= 1 /\ k \in Nat /\ k + 1 = Len(o) /\ end \in 0..Len(bs)
    <2>1. o \in Seq(0..Len(bs)) /\ Len(o) >= 1
        BY <1>1 DEF Chain
    <2>2. Len(o) \in Nat /\ \A i \in 1..Len(o) : o[i] \in 0..Len(bs)
        BY <2>1, ElementFacts
    <2>3. k \in Nat /\ k + 1 = Len(o) /\ k + 1 \in 1..Len(o)
        BY <2>1, <2>2
    <2> QED
        BY <2>1, <2>2, <2>3
<1>4. ASSUME NEW x \in 0..(Len(bs) - 1)
      PROVE  Outcome(bs, x, T[x])
    <2>1. T[x] = read_typed_value(bs, x)
        BY DEF TypedValues
    <2> QED
        BY <2>1, ReadTyped
<1>5. ASSUME NEW i \in 1..k
      PROVE  T[o[i]].value \in ReadValues
    <2>1. o[i] < Len(bs) /\ T[o[i]].res = "ok" /\ o[i] \in 0..Len(bs)
        BY <1>1, <1>3, ElementFacts DEF Chain
    <2>2. o[i] \in 0..(Len(bs) - 1)
        BY <2>1
    <2> HIDE DEF T
    <2> QED
        BY <1>4, <2>1, <2>2 DEF Outcome, Refusals
<1>6. end = Len(bs) \/ T[end].res \in Refusals
    <2> SUFFICES ASSUME end # Len(bs)
                 PROVE  T[end].res \in Refusals
        OBVIOUS
    <2>1. end < Len(bs) /\ end \in 0..(Len(bs) - 1)
        BY <1>3
    <2>2. T[end].res # "ok"
        BY <1>1, <1>3, <2>1 DEF Chain
    <2> HIDE DEF T, end
    <2> QED
        BY <1>4, <2>1, <2>2 DEF Outcome
<1> DEFINE values == [i \in 1..k |-> T[o[i]].value]
<1>7. values \in Seq(ReadValues)
    <2> HIDE DEF T, k
    <2> QED
        BY <1>3, <1>5
<1>8. a.values = values
    BY <1>2
<1>9. a.res = IF end = Len(bs) THEN "ok" ELSE T[end].res
    BY <1>2
<1> HIDE DEF values, T, k, end
<1> QED
    BY <1>6, <1>7, <1>8, <1>9

-----------------------------------------------------------------------------
(* A call. *)

Logged(bs) == [at \in 0..(Len(bs) - 1) |-> format_value(bs, at)]

\* Where a piece lies both parsers find a value and move to its end.
LEMMA PieceFacts ==
    ASSUME NEW bs \in Seq(Byte), NEW x \in 0..Len(bs), NEW v \in Values,
           NEW e, e = write_value(v, 1), Carries(bs, x, e)
    PROVE  LET r == TypedValues(bs)[x]
               l == Logged(bs)[x]
           IN  /\ x < Len(bs) /\ Len(e) \in Nat /\ Len(e) # 0
               /\ r.res = "ok" /\ r.next = x + Len(e)
               /\ r.value.type = v.type /\ Kept(Passed(v), r.value)
               /\ l.res = "ok" /\ l.next = x + Len(e)
<1>1. e \in Seq(Byte) /\ Len(e) \in Nat /\ Len(e) >= 1
    BY WrittenBytes
<1>2. x < Len(bs) /\ x \in 0..(Len(bs) - 1) /\ x \in Nat
    BY <1>1 DEF Carries
<1>3. PICK value : /\ read_typed_value(bs, x) = Ok(value, x + Len(e))
                   /\ value.type = v.type /\ Kept(Passed(v), value)
    BY <1>2, ReadBack
<1>9. PICK printed : format_value(bs, x) = Ok(printed, x + Len(e))
    BY <1>2, ReadBack
<1>4. TypedValues(bs)[x] = Ok(value, x + Len(e))
    BY <1>2, <1>3 DEF TypedValues
<1>5. Logged(bs)[x] = Ok(printed, x + Len(e))
    BY <1>2, <1>9 DEF Logged
<1>6. /\ TypedValues(bs)[x].res = "ok" /\ TypedValues(bs)[x].next = x + Len(e)
      /\ TypedValues(bs)[x].value = value
    BY <1>4 DEF Ok
<1>7. Logged(bs)[x].res = "ok" /\ Logged(bs)[x].next = x + Len(e)
    BY <1>5 DEF Ok
<1>8. Len(e) # 0
    BY <1>1
<1> QED
    BY <1>1, <1>2, <1>3, <1>6, <1>7, <1>8

Pieces(args, counts) == [i \in 1..Len(args) |-> write_value(args[i], counts[i])]

CallWritten(bs, name, args, counts) ==
    /\ bs[1] = packet_call /\ Carries(bs, 1, EncodeString(name))
    /\ \E at : Laid(bs, 3 + Len(name), Len(args), Pieces(args, counts), at)

\* The values of a payload are read as they were written, and the log finds them.
LEMMA ArgsRead ==
    ASSUME NEW bs \in Seq(Byte), NEW start \in 0..Len(bs), NEW args \in Seq(Values), NEW W,
           \A i \in 1..Len(args) : W[i] = write_value(args[i], 1),
           NEW at, Laid(bs, start, Len(args), W, at), NEW a, a = read_args(bs, start)
    PROVE  /\ a.res = "ok" /\ Len(a.values) = Len(args)
           /\ \A i \in 1..Len(args) : Kept(Passed(args[i]), a.values[i])
<1> DEFINE T == TypedValues(bs)
           n == Len(args)
           L == Len(bs)
           s == [i \in 1..(n + 1) |-> at[i - 1]]
<1>1. n \in Nat /\ L \in Nat /\ \A i \in 1..n : args[i] \in Values
    BY ElementFacts
<1>2. /\ at \in [0..n -> 0..L] /\ at[0] = start /\ at[n] = L
      /\ \A i \in 1..n : Carries(bs, at[i - 1], W[i]) /\ at[i] = at[i - 1] + Len(W[i])
    BY DEF Laid
<1>3. ASSUME NEW i \in 1..n
      PROVE  /\ at[i - 1] < L /\ T[at[i - 1]].res = "ok" /\ T[at[i - 1]].next = at[i]
             /\ Kept(Passed(args[i]), T[at[i - 1]].value)
    <2>1. i - 1 \in 0..n
        OBVIOUS
    <2>2. at[i - 1] \in 0..L /\ Carries(bs, at[i - 1], W[i]) /\ args[i] \in Values
        BY <1>1, <1>2, <2>1
    <2> HIDE DEF T
    <2>3. /\ at[i - 1] < L
          /\ T[at[i - 1]].res = "ok" /\ T[at[i - 1]].next = at[i - 1] + Len(W[i])
          /\ Kept(Passed(args[i]), T[at[i - 1]].value)
        BY <2>2, PieceFacts DEF T
    <2> QED
        BY <1>2, <2>3
<1> HIDE DEF T, n
<1>4. s \in Seq(0..L) /\ Len(s) = n + 1 /\ s[1] = start /\ s[n + 1] = L
    <2>1. ASSUME NEW i \in 1..(n + 1)
          PROVE  s[i] \in 0..L
        <3>1. i - 1 \in 0..n
            BY <1>1
        <3> QED
            BY <1>2, <3>1
    <2>2. s = [i \in 1..(n + 1) |-> s[i]] /\ n + 1 \in Nat
        BY <1>1
    <2>3. 1 \in 1..(n + 1) /\ n + 1 \in 1..(n + 1) /\ 1 - 1 = 0 /\ (n + 1) - 1 = n
        BY <1>1
    <2>4. s[1] = start /\ s[n + 1] = L
        BY <1>2, <2>3
    <2> HIDE DEF s
    <2> QED
        BY <2>1, <2>2, <2>4, MakeSequence
<1>5. ASSUME NEW i \in 1..n
      PROVE  s[i] = at[i - 1] /\ s[i + 1] = at[i]
    <2>1. i \in 1..(n + 1) /\ i + 1 \in 1..(n + 1) /\ (i + 1) - 1 = i
        BY <1>1
    <2> QED
        BY <2>1
<1> HIDE DEF s
<1>6. Chain(bs, T, s)
    <2>1. Len(s) - 1 = n /\ Len(s) >= 1 /\ ~(L < L)
        BY <1>1, <1>4
    <2>2. \A i \in 1..n : s[i] < L /\ T[s[i]].res = "ok" /\ s[i + 1] = T[s[i]].next
        BY <1>3, <1>5
    <2> QED
        BY <1>4, <2>1, <2>2 DEF Chain, L
<1>7. Offsets(bs, T)[start] = s
    <2>2. Progress(bs, T)
        BY ReaderMovesOn DEF T
    <2>1. Chain(bs, T, Offsets(bs, T)[start]) /\ Offsets(bs, T)[start][1] = start
        BY <2>2, OffsetsChain
    <2> QED
        BY <1>4, <1>6, <2>1, OneChain
<1>8. a = [res    |-> IF s[Len(s) - 1 + 1] = L THEN "ok" ELSE T[s[Len(s) - 1 + 1]].res,
           values |-> [i \in 1..(Len(s) - 1) |-> T[s[i]].value]]
    BY <1>7 DEF read_args, T
<1>9. Len(s) - 1 = n /\ Len(s) - 1 + 1 = n + 1
    BY <1>1, <1>4
<1>10. a.res = "ok" /\ a.values = [i \in 1..n |-> T[s[i]].value]
    BY <1>4, <1>8, <1>9
<1>11. Len(a.values) = n
    BY <1>1, <1>10
<1>12. \A i \in 1..n : Kept(Passed(args[i]), a.values[i])
    BY <1>3, <1>5, <1>10
<1> QED
    BY <1>10, <1>11, <1>12 DEF n

\* What read_call makes of any bytes.
LEMMA CallTyped ==
    ASSUME NEW bs \in Seq(Byte), NEW c, c = read_call(bs)
    PROVE  \/ c.res \in Refusals
           \/ c.res = "ok" /\ c.args \in Seq(ReadValues)
<1>1. CASE bs # <<>> /\ bs[1] # packet_call
    <2>1. c = [res |-> "ERR_BAD_PACKET"]
        BY <1>1 DEF read_call
    <2> QED
        BY <2>1 DEF Refusals
<1>2. CASE ~(bs # <<>> /\ bs[1] # packet_call) /\ ~Has(bs, 0, 2)
    <2>1. c = [res |-> "ERR_BAD_PACKET_ACCESS"]
        BY <1>2 DEF read_call
    <2> QED
        BY <2>1 DEF Refusals
<1>3. CASE /\ ~(bs # <<>> /\ bs[1] # packet_call) /\ Has(bs, 0, 2)
           /\ read_type(bs[2]).type # TypeId.cstr
    <2>1. c = [res |-> "ERR_FUNC_NAME_MISSING"]
        BY <1>3 DEF read_call
    <2> QED
        BY <2>1 DEF Refusals
<1>4. CASE /\ ~(bs # <<>> /\ bs[1] # packet_call) /\ Has(bs, 0, 2)
           /\ read_type(bs[2]).type = TypeId.cstr
    <2> DEFINE name == read_cstr(bs, 2)
               a == read_args(bs, name.next)
    <2>1. c = IF name.res # "ok" THEN [res |-> name.res]
              ELSE [res |-> a.res, name |-> name.value.bytes, args |-> a.values]
        BY <1>4 DEF read_call
    <2>2. 2 \in 0..Len(bs)
        <3>1. Len(bs) \in Nat /\ 0 + 2 <= Len(bs)
            BY <1>4, ElementFacts DEF Has
        <3> QED
            BY <3>1
    <2>3. \/ name.res = "ERR_BAD_PACKET_ACCESS"
          \/ name.res = "ok" /\ name.next \in (2 + 1)..Len(bs)
        BY <2>2, ReadStringTyped
    <2> HIDE DEF name
    <2>4. CASE name.res = "ERR_BAD_PACKET_ACCESS"
        BY <2>1, <2>4 DEF Refusals
    <2>5. CASE name.res = "ok" /\ name.next \in (2 + 1)..Len(bs)
        <3>1. name.next \in 0..Len(bs)
            BY <2>5
        <3>2. (a.res = "ok" \/ a.res \in Refusals) /\ a.values \in Seq(ReadValues)
            BY <3>1, ArgsTyped
        <3> HIDE DEF a
        <3>3. c.res = a.res /\ c.args = a.values
            BY <2>1, <2>5
        <3> QED
            BY <3>2, <3>3
    <2> QED
        BY <2>3, <2>4, <2>5
<1> QED
    BY <1>1, <1>2, <1>3, <1>4

\* A call is read as it was written.
LEMMA CallRead ==
    ASSUME NEW bs \in Seq(Byte), NEW name \in Strings, NEW args \in Seq(Values),
           NEW counts \in Seq(Nat), Len(counts) = Len(args),
           \A i \in DOMAIN counts : counts[i] = 1,
           CallWritten(bs, name, args, counts), NEW c, c = read_call(bs)
    PROVE  /\ c.res = "ok" /\ c.name = name /\ Len(c.args) = Len(args)
           /\ \A i \in DOMAIN args : Kept(Passed(args[i]), c.args[i])
           /\ to_string(bs) = Offsets(bs, TypedValues(bs))[ArgumentsStart(bs)]
<1> DEFINE n == Len(args)
           start == 3 + Len(name)
           e == EncodeString(name)
           W == Pieces(args, counts)
<1>1. /\ bs[1] = packet_call /\ Carries(bs, 1, e)
      /\ \E at : Laid(bs, start, n, W, at)
    BY DEF CallWritten
<1>2. PICK at : Laid(bs, start, n, W, at)
    BY <1>1
<1>3. Len(e) = 2 + Len(name) /\ Len(name) \in Nat /\ Len(bs) \in Nat
    <2>1. Len(e) = 2 + Len(name) /\ Len(name) \in Nat
        BY StringBytes, StringFacts
    <2> HIDE DEF e
    <2> QED
        BY <2>1, ElementFacts
<1>4. 1 + Len(e) = start /\ start <= Len(bs) /\ start \in 0..Len(bs) /\ 2 <= Len(bs)
    <2> HIDE DEF e
    <2>1. 1 + Len(e) <= Len(bs)
        BY <1>1 DEF Carries
    <2> QED
        BY <1>3, <2>1
<1>5. /\ read_type(bs[2]).type = TypeId.cstr
      /\ read_cstr(bs, 2) = Ok(Value(TypeId.cstr, name), start)
    <2>1. 1 \in Nat /\ 1 + 1 = 2
        OBVIOUS
    <2>2. /\ read_type(bs[1 + 1]).type = TypeId.cstr
          /\ read_cstr(bs, 1 + 1) = Ok(Value(TypeId.cstr, name), 1 + Len(e))
        BY <1>1, <2>1, ReadText
    <2> HIDE DEF e, start
    <2> QED
        BY <1>4, <2>1, <2>2
<1>6. n \in Nat /\ \A i \in 1..n : args[i] \in Values /\ W[i] = write_value(args[i], 1)
    <2>1. n \in Nat /\ \A i \in 1..n : args[i] \in Values
        BY ElementFacts
    <2>2. DOMAIN counts = 1..n
        BY ElementFacts
    <2> QED
        BY <2>1, <2>2 DEF Pieces
<1> DEFINE a == read_args(bs, start)
<1> HIDE DEF W, start
<1>7. /\ a.res = "ok" /\ Len(a.values) = n
      /\ \A i \in 1..n : Kept(Passed(args[i]), a.values[i])
    BY <1>2, <1>4, <1>6, ArgsRead
<1> HIDE DEF a
<1>8. c = [res |-> a.res, name |-> name, args |-> a.values]
    <2>1. Has(bs, 0, 2)
        BY <1>3, <1>4 DEF Has
    <2> DEFINE found == read_cstr(bs, 2)
    <2>2. found.res = "ok" /\ found.next = start /\ found.value.bytes = name
        BY <1>5 DEF Ok, Value
    <2>3. c = LET x == read_args(bs, found.next)
              IN  [res |-> x.res, name |-> found.value.bytes, args |-> x.values]
        BY <1>1, <1>5, <2>1, <2>2 DEF read_call
    <2> HIDE DEF found
    <2> QED
        BY <2>2, <2>3 DEF a
<1>9. ArgumentsStart(bs) = start
    BY <1>5 DEF ArgumentsStart, Ok
<1>10. to_string(bs) = Offsets(bs, TypedValues(bs))[start]
    <2>1. to_string(bs) = Offsets(bs, Logged(bs))[start]
        BY <1>1, <1>9 DEF to_string, Logged, packet_call, packet_result
    <2> DEFINE p == Logged(bs)
               q == TypedValues(bs)
    <2>2. Progress(bs, p) /\ Progress(bs, q)
        BY ReaderMovesOn DEF Logged
    <2>3. ASSUME NEW i \in 1..n
          PROVE  /\ at[i - 1] < Len(bs)
                 /\ p[at[i - 1]].res = "ok" /\ p[at[i - 1]].next = at[i]
                 /\ q[at[i - 1]].res = "ok" /\ q[at[i - 1]].next = at[i]
        <3>1. i - 1 \in 0..n
            BY <1>6
        <3>2. at \in [0..n -> 0..Len(bs)] /\ Carries(bs, at[i - 1], W[i])
              /\ at[i] = at[i - 1] + Len(W[i])
            BY <1>2 DEF Laid
        <3>3. at[i - 1] \in 0..Len(bs) /\ args[i] \in Values /\ W[i] = write_value(args[i], 1)
            BY <1>6, <3>1, <3>2
        <3> DEFINE x == at[i - 1]
                   v == args[i]
                   w == W[i]
        <3>4. x \in 0..Len(bs) /\ v \in Values /\ w = write_value(v, 1) /\ Carries(bs, x, w)
            BY <3>2, <3>3
        <3> HIDE DEF p, q, x, v, w
        <3>5. p[x].res = "ok" /\ p[x].next = x + Len(w)
            BY <3>4, PieceFacts DEF p
        <3>6. q[x].res = "ok" /\ q[x].next = x + Len(w)
            BY <3>4, PieceFacts DEF q
        <3>7. x < Len(bs)
            BY <3>4, PieceFacts
        <3> QED
            BY <3>2, <3>5, <3>6, <3>7 DEF x, w
    <2> HIDE DEF p, q, n
    <2>4. Offsets(bs, p)[start] = Offsets(bs, q)[start]
        <3>1. n \in Nat
            BY <1>6
        <3>2. \A i \in 1..n : \/ Len(W[i]) = 0
                              \/ /\ at[i - 1] < Len(bs)
                                 /\ p[at[i - 1]].res = "ok" /\ p[at[i - 1]].next = at[i]
                                 /\ q[at[i - 1]].res = "ok" /\ q[at[i - 1]].next = at[i]
            BY <2>3
        <3> QED
            BY <1>2, <2>2, <3>1, <3>2, ParsersAgree
    <2> QED
        BY <2>1, <2>4 DEF p, q
<1>11. DOMAIN args = 1..n
    BY ElementFacts
<1>12. c.res = "ok" /\ c.name = name /\ c.args = a.values
    BY <1>7, <1>8
<1> HIDE DEF n
<1> QED
    BY <1>7, <1>9, <1>10, <1>11, <1>12 DEF n

-----------------------------------------------------------------------------
(* An answer. *)

LEMMA PointerType == ASSUME NEW v \in Values, is_ptr_type(v.type) PROVE v.type \in Pointers
<1> SUFFICES ASSUME v.type \notin Pointers
             PROVE  FALSE
    OBVIOUS
<1>1. v.type \in 0..15
    BY Ids, ValueFacts
<1> QED
    BY <1>1, PointerIds

\* Output parameters are pointers.
LEMMA OutParamFacts ==
    ASSUME NEW args \in Seq(Values)
    PROVE  /\ OutParams(args) \subseteq 1..Len(args)
           /\ \A i \in 1..Len(args) : i \in OutParams(args) <=> is_ptr_type(args[i].type)
           /\ \A i \in OutParams(args) : args[i].type \in Pointers
<1>1. DOMAIN args = 1..Len(args) /\ \A i \in 1..Len(args) : args[i] \in Values
    BY ElementFacts
<1>3. OutParams(args) = {i \in 1..Len(args) : is_ptr_type(args[i].type)}
    BY <1>1 DEF OutParams
<1> QED
    BY <1>1, <1>3, PointerType

\* Of each argument the bytes in the answer: those of a pointer's target.
OutPieces(args, outs) ==
    [i \in 1..Len(args) |-> IF i \in OutParams(args) THEN write_value(outs[i], 1) ELSE <<>>]

AnswerWritten(bs, result, args, outs) ==
    /\ bs[1] = packet_result /\ Carries(bs, 1, write_value(result, 1))
    /\ \E at : Laid(bs, 1 + Len(write_value(result, 1)), Len(args), OutPieces(args, outs), at)

\* The answer is the result followed by the pointers' targets.
LEMMA ResultBytes ==
    ASSUME NEW result \in Values, NEW args \in Seq(Values), NEW bs, bs = write_result(result, args)
    PROVE  bs \in Seq(Byte) /\ AnswerWritten(bs, result, args, args)
<1> DEFINE n == Len(args)
           e == write_value(result, 1)
           first == <<packet_result>> \o e
           V == OutPieces(args, args)
           written[i \in 0..n] ==
               IF i = 0 THEN first
               ELSE IF is_ptr_type(args[i].type) THEN written[i - 1] \o write_value(args[i], 1)
               ELSE written[i - 1]
           body(i, x) == IF is_ptr_type(args[i].type) THEN x \o write_value(args[i], 1) ELSE x
           G == {k \in 0..n : \E g : g = [i \in 0..k |-> IF i = 0 THEN first ELSE body(i, g[i - 1])]}
<1>1. n \in Nat /\ \A i \in 1..n : args[i] \in Values
    BY ElementFacts
<1>2. e \in Seq(Byte) /\ Len(e) \in Nat
    BY WrittenBytes
<1> HIDE DEF n, e
<1>3. first \in Seq(Byte) /\ first[1] = packet_result /\ Len(first) = 1 + Len(e) /\ Carries(first, 1, e)
    <2>1. packet_result \in Byte
        BY DEF packet_result, Byte
    <2> DEFINE p == <<packet_result>>
    <2>2. p \in Seq(Byte) /\ Len(p) = 1 /\ p[1] = packet_result
        BY <2>1, Singleton
    <2> HIDE DEF p
    <2>3. Carries(p \o e, Len(p), e) /\ Len(p \o e) = Len(p) + Len(e) /\ p \o e \in Seq(Byte)
        BY <1>2, <2>2, CarriesLast
    <2>4. (p \o e)[1] = p[1]
        BY <1>2, <2>2, ConcatFacts
    <2>5. first = p \o e
        BY DEF p
    <2> HIDE DEF first
    <2> QED
        BY <2>2, <2>3, <2>4, <2>5
<1> HIDE DEF first
<1>4. written = [i \in 0..n |-> IF i = 0 THEN first
                 ELSE IF is_ptr_type(args[i].type) THEN written[i - 1] \o write_value(args[i], 1)
                 ELSE written[i - 1]]
    <2> HIDE DEF body
    <2>1. 0 \in G
        <3> DEFINE g == [i \in 0..0 |-> first]
        <3>1. g = [i \in 0..0 |-> IF i = 0 THEN first ELSE body(i, g[i - 1])]
            OBVIOUS
        <3> HIDE DEF g
        <3>2. \E f : f = [i \in 0..0 |-> IF i = 0 THEN first ELSE body(i, f[i - 1])]
            BY <3>1
        <3>3. 0 \in 0..n
            BY <1>1
        <3> QED
            BY <3>2, <3>3
    <2>2. ASSUME NEW k \in 0..(n - 1), k \in G
          PROVE  k + 1 \in G
        <3>1. PICK g : g = [i \in 0..k |-> IF i = 0 THEN first ELSE body(i, g[i - 1])]
            BY <2>2
        <3> DEFINE h == [i \in 0..(k + 1) |-> IF i = k + 1 THEN body(i, g[i - 1]) ELSE g[i]]
        <3>2. ASSUME NEW i \in 0..(k + 1)
              PROVE  h[i] = IF i = 0 THEN first ELSE body(i, h[i - 1])
            <4>1. CASE i = k + 1
                <5>1. i # 0 /\ i - 1 \in 0..(k + 1) /\ i - 1 # k + 1
                    BY <4>1
                <5>2. h[i - 1] = g[i - 1] /\ h[i] = body(i, g[i - 1])
                    BY <4>1, <5>1
                <5> QED
                    BY <5>1, <5>2
            <4>2. CASE i # k + 1
                <5>1. i \in 0..k /\ (i # 0 => i - 1 \in 0..(k + 1) /\ i - 1 # k + 1)
                    BY <4>2
                <5>2. g[i] = IF i = 0 THEN first ELSE body(i, g[i - 1])
                    BY <3>1, <5>1
                <5>3. h[i] = g[i] /\ (i # 0 => h[i - 1] = g[i - 1])
                    BY <4>2, <5>1
                <5> QED
                    BY <5>2, <5>3
            <4> QED
                BY <4>1, <4>2
        <3>3. h = [i \in 0..(k + 1) |-> h[i]]
            OBVIOUS
        <3> HIDE DEF h
        <3>4. h = [i \in 0..(k + 1) |-> IF i = 0 THEN first ELSE body(i, h[i - 1])]
            BY <3>2, <3>3
        <3>5. k + 1 \in 0..n
            BY <1>1
        <3> QED
            BY <3>4, <3>5
    <2>3. n \in G
        <3> HIDE DEF G
        <3>1. 0..n \subseteq G
            BY <1>1, <2>1, <2>2, Upwards
        <3> QED
            BY <1>1, <3>1
    <2>4. PICK g : g = [i \in 0..n |-> IF i = 0 THEN first ELSE body(i, g[i - 1])]
        BY <2>3
    <2>5. g = [i \in 0..n |-> IF i = 0 THEN first
               ELSE IF is_ptr_type(args[i].type) THEN g[i - 1] \o write_value(args[i], 1)
               ELSE g[i - 1]]
        BY <2>4, Zenon DEF body
    <2> QED
        BY <2>5
<1>5. bs = written[n]
    BY DEF write_result, first, e, n
<1> HIDE DEF written, G
<1>6. ASSUME NEW i \in 1..n
      PROVE  \/ V[i] \in Seq(Byte) /\ written[i] = written[i - 1] \o V[i]
             \/ V[i] = <<>> /\ written[i] = written[i - 1]
    <2>1. args[i] \in Values /\ i # 0 /\ i \in 0..n
        BY <1>1
    <2>2. V[i] = IF is_ptr_type(args[i].type) THEN write_value(args[i], 1) ELSE <<>>
        BY OutParamFacts DEF OutPieces, n
    <2>3. written[i] = IF is_ptr_type(args[i].type) THEN written[i - 1] \o write_value(args[i], 1)
                       ELSE written[i - 1]
        BY <1>4, <2>1
    <2>4. write_value(args[i], 1) \in Seq(Byte)
        BY <2>1, WrittenBytes
    <2> HIDE DEF V
    <2>5. CASE is_ptr_type(args[i].type)
        BY <2>2, <2>3, <2>4, <2>5
    <2>6. CASE ~is_ptr_type(args[i].type)
        BY <2>2, <2>3, <2>6
    <2> QED
        BY <2>5, <2>6
<1> HIDE DEF V
<1> DEFINE S == {i \in 0..n : /\ written[i] \in Seq(Byte) /\ written[i][1] = packet_result
                              /\ Len(written[i]) >= 1 /\ Carries(written[i], 1, e)
                              /\ \A j \in 1..i : V[j] \in Seq(Byte)
                              /\ \E at : Laid(written[i], 1 + Len(e), i, V, at)}
<1>7. 0 \in S
    <2>1. written[0] = first /\ 0 \in 0..n
        BY <1>1, <1>4
    <2>2. \E at : Laid(first, 1 + Len(e), 0, V, at)
        BY <1>3, LaidNothing
    <2>3. Len(first) >= 1 /\ \A j \in 1..0 : V[j] \in Seq(Byte)
        BY <1>2, <1>3
    <2> QED
        BY <1>3, <2>1, <2>2, <2>3
<1>8. ASSUME NEW i \in 0..(n - 1), i \in S
      PROVE  i + 1 \in S
    <2> DEFINE w == written[i]
               x == written[i + 1]
    <2>1. /\ w \in Seq(Byte) /\ w[1] = packet_result
          /\ Len(w) >= 1 /\ Carries(w, 1, e)
          /\ \A j \in 1..i : V[j] \in Seq(Byte)
          /\ \E at : Laid(w, 1 + Len(e), i, V, at)
        BY <1>8
    <2>2. i + 1 \in 1..n /\ (i + 1) - 1 = i /\ i + 1 \in 0..n /\ i \in Nat
        BY <1>1
    <2>3. \/ V[i + 1] \in Seq(Byte) /\ x = w \o V[i + 1]
          \/ V[i + 1] = <<>> /\ x = w
        BY <1>6, <2>2
    <2> HIDE DEF w, x
    <2>4. V[i + 1] \in Seq(Byte) /\ x = w \o V[i + 1]
        <3>1. <<>> \in Seq(Byte) /\ w \o <<>> = w
            BY <2>1
        <3> QED
            BY <2>3, <3>1, Zenon
    <2>5. PICK at : Laid(w, 1 + Len(e), i, V, at)
        BY <2>1
    <2>6. \E to : Laid(x, 1 + Len(e), i + 1, V, to)
        BY <2>1, <2>2, <2>4, <2>5, LaidAppend
    <2>7. x \in Seq(Byte) /\ Carries(x, 1, e)
        BY <1>2, <2>1, <2>4, CarriesMore, CarriesLast
    <2>8. Len(x) >= 1 /\ x[1] = packet_result
        <3> DEFINE v == V[i + 1]
        <3>1. v \in Seq(Byte) /\ x = w \o v
            BY <2>4
        <3> HIDE DEF v
        <3>2. Len(x) = Len(w) + Len(v) /\ Len(v) \in Nat /\ Len(w) \in Nat /\ 1 \in 1..Len(w)
            BY <2>1, <3>1
        <3>3. x[1] = w[1]
            BY <2>1, <3>1, <3>2, ConcatFacts
        <3> QED
            BY <2>1, <3>2, <3>3
    <2>9. \A j \in 1..(i + 1) : V[j] \in Seq(Byte)
        <3>1. \A j \in 1..(i + 1) : j = i + 1 \/ j \in 1..i
            BY <2>2
        <3> QED
            BY <2>1, <2>4, <3>1
    <2> QED
        BY <2>2, <2>6, <2>7, <2>8, <2>9 DEF x
<1>9. n \in S
    <2> HIDE DEF S
    <2>1. 0..n \subseteq S
        BY <1>1, <1>7, <1>8, Upwards
    <2> QED
        BY <1>1, <2>1
<1> QED
    BY <1>5, <1>9 DEF AnswerWritten, V, e, n

\* The reads of read_result: the result, then an output parameter after the other.
Reads(bs, args) ==
    LET read[i \in 0..Len(args)] ==
            IF i = 0 THEN read_typed_value(bs, 1)
            ELSE IF i \in OutParams(args) /\ read[i - 1].res = "ok"
                 THEN read_outparam(args[i].type, bs, read[i - 1].next)
            ELSE read[i - 1]
    IN  read

\* The recursion of read_result, step by step.
LEMMA ReadsStep ==
    ASSUME NEW bs \in Seq(Byte), NEW args \in Seq(Values)
    PROVE  /\ Reads(bs, args)[0] = read_typed_value(bs, 1)
           /\ \A i \in 1..Len(args) :
                  Reads(bs, args)[i] =
                      IF i \in OutParams(args) /\ Reads(bs, args)[i - 1].res = "ok"
                      THEN read_outparam(args[i].type, bs, Reads(bs, args)[i - 1].next)
                      ELSE Reads(bs, args)[i - 1]
<1> DEFINE n == Len(args)
           first == read_typed_value(bs, 1)
           read[i \in 0..n] ==
               IF i = 0 THEN first
               ELSE IF i \in OutParams(args) /\ read[i - 1].res = "ok"
                    THEN read_outparam(args[i].type, bs, read[i - 1].next)
               ELSE read[i - 1]
           body(i, x) == IF i \in OutParams(args) /\ x.res = "ok"
                         THEN read_outparam(args[i].type, bs, x.next) ELSE x
           G == {k \in 0..n : \E g : g = [i \in 0..k |-> IF i = 0 THEN first ELSE body(i, g[i - 1])]}
<1>1. n \in Nat
    OBVIOUS
<1> HIDE DEF n, first
<1>2. read = [i \in 0..n |->
                 IF i = 0 THEN first
                 ELSE IF i \in OutParams(args) /\ read[i - 1].res = "ok"
                      THEN read_outparam(args[i].type, bs, read[i - 1].next)
                 ELSE read[i - 1]]
    <2> HIDE DEF body
    <2>1. 0 \in G
        <3> DEFINE g == [i \in 0..0 |-> first]
        <3>1. g = [i \in 0..0 |-> IF i = 0 THEN first ELSE body(i, g[i - 1])]
            OBVIOUS
        <3> HIDE DEF g
        <3>2. \E f : f = [i \in 0..0 |-> IF i = 0 THEN first ELSE body(i, f[i - 1])]
            BY <3>1
        <3>3. 0 \in 0..n
            BY <1>1
        <3> QED
            BY <3>2, <3>3
    <2>2. ASSUME NEW k \in 0..(n - 1), k \in G
          PROVE  k + 1 \in G
        <3>1. PICK g : g = [i \in 0..k |-> IF i = 0 THEN first ELSE body(i, g[i - 1])]
            BY <2>2
        <3> DEFINE h == [i \in 0..(k + 1) |-> IF i = k + 1 THEN body(i, g[i - 1]) ELSE g[i]]
        <3>2. ASSUME NEW i \in 0..(k + 1)
              PROVE  h[i] = IF i = 0 THEN first ELSE body(i, h[i - 1])
            <4>1. CASE i = k + 1
                <5>1. i # 0 /\ i - 1 \in 0..(k + 1) /\ i - 1 # k + 1
                    BY <4>1
                <5>2. h[i - 1] = g[i - 1] /\ h[i] = body(i, g[i - 1])
                    BY <4>1, <5>1
                <5> QED
                    BY <5>1, <5>2
            <4>2. CASE i # k + 1
                <5>1. i \in 0..k /\ (i # 0 => i - 1 \in 0..(k + 1) /\ i - 1 # k + 1)
                    BY <4>2
                <5>2. g[i] = IF i = 0 THEN first ELSE body(i, g[i - 1])
                    BY <3>1, <5>1
                <5>3. h[i] = g[i] /\ (i # 0 => h[i - 1] = g[i - 1])
                    BY <4>2, <5>1
                <5> QED
                    BY <5>2, <5>3
            <4> QED
                BY <4>1, <4>2
        <3>3. h = [i \in 0..(k + 1) |-> h[i]]
            OBVIOUS
        <3> HIDE DEF h
        <3>4. h = [i \in 0..(k + 1) |-> IF i = 0 THEN first ELSE body(i, h[i - 1])]
            BY <3>2, <3>3
        <3>5. k + 1 \in 0..n
            BY <1>1
        <3> QED
            BY <3>4, <3>5
    <2>3. n \in G
        <3> HIDE DEF G
        <3>1. 0..n \subseteq G
            BY <1>1, <2>1, <2>2, Upwards
        <3> QED
            BY <1>1, <3>1
    <2>4. PICK g : g = [i \in 0..n |-> IF i = 0 THEN first ELSE body(i, g[i - 1])]
        BY <2>3
    <2>5. g = [i \in 0..n |->
                  IF i = 0 THEN first
                  ELSE IF i \in OutParams(args) /\ g[i - 1].res = "ok"
                       THEN read_outparam(args[i].type, bs, g[i - 1].next)
                  ELSE g[i - 1]]
        BY <2>4, Zenon DEF body
    <2> QED
        BY <2>5
<1>3. Reads(bs, args) = read
    BY DEF Reads, first, n
<1> HIDE DEF read
<1>4. read[0] = first
    <2>1. 0 \in 0..n
        BY <1>1
    <2> QED
        BY <1>2, <2>1
<1>5. ASSUME NEW i \in 1..n
      PROVE  read[i] = IF i \in OutParams(args) /\ read[i - 1].res = "ok"
                       THEN read_outparam(args[i].type, bs, read[i - 1].next)
                       ELSE read[i - 1]
    <2>1. i \in 0..n /\ i # 0
        BY <1>1
    <2> QED
        BY <1>2, <2>1
<1> QED
    BY <1>3, <1>4, <1>5 DEF first, n

\* What read_result makes of any bytes.
LEMMA ResultTyped ==
    ASSUME NEW bs \in Seq(Byte), NEW args \in Seq(Values), NEW r, r = read_result(bs, args)
    PROVE  r.res = "ok" \/ r.res \in Refusals
<1> DEFINE n == Len(args)
           read == Reads(bs, args)
<1>1. \/ r = [res |-> "ERR_BAD_PACKET"] \/ r = [res |-> "ERR_BAD_PACKET_ACCESS"]
      \/ /\ Has(bs, 0, 2)
         /\ r = [res |-> read[n].res, result |-> read[0].value,
                 outs |-> [i \in OutParams(args) |-> read[i].value]]
    BY DEF read_result, Reads
<1>2. CASE r = [res |-> "ERR_BAD_PACKET"] \/ r = [res |-> "ERR_BAD_PACKET_ACCESS"]
    BY <1>2 DEF Refusals
<1>3. CASE /\ Has(bs, 0, 2)
           /\ r = [res |-> read[n].res, result |-> read[0].value,
                   outs |-> [i \in OutParams(args) |-> read[i].value]]
    <2> DEFINE S == {i \in 0..n : \/ read[i].res \in Refusals
                                  \/ read[i].res = "ok" /\ read[i].next \in 0..Len(bs)}
    <2>1. n \in Nat /\ Len(bs) \in Nat /\ 1 \in 0..(Len(bs) - 1)
        <3>1. n \in Nat /\ Len(bs) \in Nat /\ 0 + 2 <= Len(bs)
            BY <1>3, ElementFacts DEF Has
        <3> QED
            BY <3>1
    <2>2. 0 \in S
        <3>1. Outcome(bs, 1, read_typed_value(bs, 1))
            BY <2>1, ReadTyped
        <3>2. read[0] = read_typed_value(bs, 1)
            BY ReadsStep
        <3>3. \A x \in (1 + 1)..Len(bs) : x \in 0..Len(bs)
            OBVIOUS
        <3> HIDE DEF n, read
        <3>4. 0 \in 0..n
            BY <2>1
        <3> QED
            BY <3>1, <3>2, <3>3, <3>4 DEF Outcome
    <2>3. ASSUME NEW i \in 0..(n - 1), i \in S
          PROVE  i + 1 \in S
        <3> DEFINE p == read[i]
                   q == read[i + 1]
                   id == args[i + 1].type
        <3>1. i + 1 \in 1..n /\ (i + 1) - 1 = i /\ i + 1 \in 0..n
            BY <2>1
        <3>2. q = IF i + 1 \in OutParams(args) /\ p.res = "ok"
                  THEN read_outparam(id, bs, p.next) ELSE p
            BY <3>1, ReadsStep
        <3>3. p.res \in Refusals \/ (p.res = "ok" /\ p.next \in 0..Len(bs))
            BY <2>3
        <3>4. i + 1 \in OutParams(args) => id \in Pointers
            BY OutParamFacts
        <3> HIDE DEF p, q, id
        <3>5. CASE i + 1 \in OutParams(args) /\ p.res = "ok"
            <4>1. q = read_outparam(id, bs, p.next) /\ id \in Pointers /\ p.next \in 0..Len(bs)
                BY <3>2, <3>3, <3>4, <3>5 DEF Refusals
            <4>2. \/ q = BadAccess \/ q = Throws("ERR_OUTPARAM_TYPE_MISMATCH")
                  \/ Has(bs, p.next, 1) /\ q = read_ptr(id, bs, p.next + 1)
                BY <4>1 DEF read_outparam
            <4>3. CASE q = BadAccess \/ q = Throws("ERR_OUTPARAM_TYPE_MISMATCH")
                <5>1. q.res \in Refusals
                    BY <4>3 DEF BadAccess, Throws, Refusals
                <5> QED
                    BY <3>1, <5>1 DEF q
            <4>4. CASE Has(bs, p.next, 1) /\ q = read_ptr(id, bs, p.next + 1)
                <5>1. p.next + 1 \in 0..Len(bs) /\ p.next \in Nat
                    BY <2>1, <4>1, <4>4 DEF Has
                <5>2. Outcome(bs, p.next + 1, q)
                    BY <4>1, <4>4, <5>1, ReadPointerTyped
                <5>3. \A x \in (p.next + 1 + 1)..Len(bs) : x \in 0..Len(bs)
                    BY <5>1
                <5>4. q.res \in Refusals \/ (q.res = "ok" /\ q.next \in 0..Len(bs))
                    BY <5>2, <5>3 DEF Outcome
                <5> QED
                    BY <3>1, <5>4 DEF q
            <4> QED
                BY <4>2, <4>3, <4>4
        <3>6. CASE ~(i + 1 \in OutParams(args) /\ p.res = "ok")
            <4>1. q = p
                BY <3>2, <3>6
            <4> QED
                BY <3>1, <3>3, <4>1 DEF q
        <3> QED
            BY <3>5, <3>6
    <2> HIDE DEF S
    <2>4. 0..n \subseteq S
        BY <2>1, <2>2, <2>3, Upwards
    <2>5. n \in S
        BY <2>1, <2>4
    <2>6. r.res = read[n].res
        BY <1>3
    <2> QED
        BY <2>5, <2>6 DEF S
<1> QED
    BY <1>1, <1>2, <1>3

\* An answer is read as it was written.
LEMMA ResultRead ==
    ASSUME NEW bs \in Seq(Byte), NEW result \in Values, NEW args \in Seq(Values), NEW outs,
           \A i \in OutParams(args) : outs[i] \in ReadValues /\ outs[i].type = args[i].type,
           AnswerWritten(bs, result, args, outs), NEW r, r = read_result(bs, args)
    PROVE  /\ r.res = "ok" /\ Kept(Passed(result), r.result)
           /\ r.outs = [i \in OutParams(args) |-> outs[i]]
           /\ to_string(bs) = Offsets(bs, TypedValues(bs))[1]
<1> DEFINE n == Len(args)
           L == Len(bs)
           e == write_value(result, 1)
           start == 1 + Len(e)
           W == OutPieces(args, outs)
           T == TypedValues(bs)
           F == Logged(bs)
           read == Reads(bs, args)
<1>1. /\ bs[1] = packet_result /\ Carries(bs, 1, e)
      /\ \E at : Laid(bs, start, n, W, at)
    BY DEF AnswerWritten
<1>2. PICK at : Laid(bs, start, n, W, at)
    BY <1>1
<1>3. n \in Nat /\ L \in Nat /\ e \in Seq(Byte) /\ Len(e) \in Nat /\ Len(e) >= 1
    BY ElementFacts, WrittenBytes
<1>4. 1 \in 0..L /\ 1 \in 0..(L - 1) /\ start \in 0..L /\ Has(bs, 0, 2) /\ bs # <<>>
    <2> HIDE DEF e
    <2>1. 1 + Len(e) <= L
        BY <1>1 DEF Carries
    <2>2. bs # <<>>
        BY <1>3, <2>1
    <2>3. 0 + 2 <= L
        BY <1>3, <2>1
    <2> QED
        BY <1>3, <2>1, <2>2, <2>3 DEF Has
<1>5. /\ T[1].res = "ok" /\ T[1].next = start /\ Kept(Passed(result), T[1].value)
      /\ F[1].res = "ok" /\ F[1].next = start /\ 1 < L
    <2> HIDE DEF T, F, e
    <2>1. T[1].res = "ok" /\ T[1].next = start /\ Kept(Passed(result), T[1].value)
        BY <1>1, <1>4, PieceFacts DEF T, e
    <2>2. F[1].res = "ok" /\ F[1].next = start
        BY <1>1, <1>4, PieceFacts DEF F, e
    <2>3. 1 < L
        BY <1>3, <1>4
    <2> QED
        BY <2>1, <2>2, <2>3
<1>6. /\ at \in [0..n -> 0..L] /\ at[0] = start /\ at[n] = L
      /\ \A i \in 1..n : Carries(bs, at[i - 1], W[i]) /\ at[i] = at[i - 1] + Len(W[i])
    BY <1>2 DEF Laid
<1>7. ASSUME NEW i \in 1..n
      PROVE  /\ i \in OutParams(args) => W[i] = write_value(outs[i], 1)
             /\ i \notin OutParams(args) => W[i] = <<>>
    BY DEF OutPieces
<1>8. read[0] = T[1]
    <2>1. read[0] = read_typed_value(bs, 1)
        BY ReadsStep
    <2> QED
        BY <1>4, <2>1 DEF TypedValues
<1>9. ASSUME NEW i \in 1..n
      PROVE  read[i] = IF i \in OutParams(args) /\ read[i - 1].res = "ok"
                       THEN read_outparam(args[i].type, bs, read[i - 1].next)
                       ELSE read[i - 1]
    BY ReadsStep
<1>10. /\ OutParams(args) \subseteq 1..n
       /\ \A i \in OutParams(args) : args[i].type \in Pointers
    BY OutParamFacts
<1>11. r = [res |-> read[n].res, result |-> read[0].value,
            outs |-> [i \in OutParams(args) |-> read[i].value]]
    BY <1>1, <1>4 DEF read_result, Reads
<1> HIDE DEF n, L, e, start, W, T, F, read
<1>12. ASSUME NEW i \in OutParams(args)
       PROVE  /\ read_outparam(args[i].type, bs, at[i - 1]) = Ok(outs[i], at[i])
              /\ at[i - 1] < L
              /\ T[at[i - 1]].res = "ok" /\ T[at[i - 1]].next = at[i]
              /\ F[at[i - 1]].res = "ok" /\ F[at[i - 1]].next = at[i]
    <2> DEFINE v == outs[i]
               x == at[i - 1]
               w == W[i]
    <2>1. i \in 1..n /\ i - 1 \in 0..n
        BY <1>3, <1>10
    <2>2. x \in 0..L /\ Carries(bs, x, w) /\ at[i] = x + Len(w) /\ w = write_value(v, 1)
        BY <1>6, <1>7, <2>1
    <2>3. v \in Values /\ v.type \in Pointers /\ v.type = args[i].type
          /\ Len(v.bytes) = get_type_size(v.type - modifier_ptr)
        BY <1>10 DEF ReadValues
    <2> HIDE DEF v, x, w
    <2>4. w = EncodePointer(v, 1)
        BY <2>2, <2>3, WriteCases
    <2>5. x \in Nat
        BY <2>2, <1>3
    <2>6. /\ read_type(bs[x + 1]).type = v.type
          /\ read_ptr(v.type, bs, x + 1) = Ok(Passed(v), x + Len(w))
        BY <2>2, <2>3, <2>4, <2>5, ReadPointer
    <2>7. Passed(v) = v
        <3> DEFINE k == get_type_size(v.type - modifier_ptr)
        <3>1. v = [type |-> v.type, bytes |-> v.bytes] /\ v.bytes \in Seq(Byte)
            BY <2>3, ValueFacts
        <3>2. v.bytes = [j \in 1..k |-> v.bytes[j]]
            BY <2>3, <3>1
        <3>3. is_ptr_type(v.type)
            BY <2>3, PointerIds
        <3>4. Passed(v) = [v EXCEPT !.bytes = [j \in 1..k |-> v.bytes[j]]]
            BY <3>1, <3>3 DEF Passed
        <3> HIDE DEF k
        <3> QED
            BY <3>1, <3>2, <3>4
    <2>8. x < L
        BY <2>2, <2>3, PieceFacts DEF L
    <2>9. T[x].res = "ok" /\ T[x].next = x + Len(w)
        BY <2>2, <2>3, PieceFacts DEF T, L
    <2>10. F[x].res = "ok" /\ F[x].next = x + Len(w)
        BY <2>2, <2>3, PieceFacts DEF F, L
    <2>11. read_outparam(args[i].type, bs, x) = Ok(v, x + Len(w))
        <3>1. Has(bs, x, 1)
            BY <1>3, <2>2, <2>8 DEF Has, L
        <3> QED
            BY <2>3, <2>6, <2>7, <3>1 DEF read_outparam
    <2> QED
        BY <2>2, <2>8, <2>9, <2>10, <2>11 DEF x, v
<1> DEFINE S == {i \in 0..n : /\ read[i].res = "ok" /\ read[i].next = at[i]
                              /\ i \in OutParams(args) => read[i].value = outs[i]}
<1>13. 0 \in S
    <2>1. 0 \in 0..n /\ 0 \notin OutParams(args)
        BY <1>3, <1>10
    <2> QED
        BY <1>5, <1>6, <1>8, <2>1
<1>14. ASSUME NEW i \in 0..(n - 1), i \in S
       PROVE  i + 1 \in S
    <2> DEFINE j == i + 1
    <2>1. j \in 1..n /\ j - 1 = i /\ j \in 0..n /\ i \in 0..n
        BY <1>3
    <2>2. read[i].res = "ok" /\ read[i].next = at[i]
        BY <1>14
    <2> HIDE DEF j
    <2>3. CASE j \in OutParams(args)
        <3>1. read[j] = read_outparam(args[j].type, bs, at[j - 1])
            BY <1>9, <2>1, <2>2, <2>3
        <3>2. read[j] = Ok(outs[j], at[j])
            BY <1>12, <2>3, <3>1
        <3>3. read[j].res = "ok" /\ read[j].next = at[j] /\ read[j].value = outs[j]
            BY <3>2 DEF Ok
        <3> QED
            BY <2>1, <3>3 DEF j
    <2>4. CASE j \notin OutParams(args)
        <3>1. read[j] = read[i]
            BY <1>9, <2>1, <2>4
        <3>2. at[j] = at[i]
            <4>1. W[j] = <<>> /\ at[j] = at[i] + Len(W[j]) /\ at[i] \in 0..L
                BY <1>6, <1>7, <2>1, <2>4
            <4>2. at[i] \in Nat /\ Len(W[j]) = 0
                BY <4>1, <1>3
            <4> QED
                BY <4>1, <4>2
        <3> QED
            BY <2>1, <2>2, <2>4, <3>1, <3>2 DEF j
    <2> QED
        BY <2>3, <2>4
<1>15. 0..n \subseteq S
    <2> HIDE DEF S
    <2> QED
        BY <1>3, <1>13, <1>14, Upwards
<1>16. r.res = "ok" /\ r.result = T[1].value
    <2>1. n \in S
        BY <1>3, <1>15
    <2> QED
        BY <1>8, <1>11, <2>1
<1>17. r.outs = [i \in OutParams(args) |-> outs[i]]
    <2>1. ASSUME NEW i \in OutParams(args)
          PROVE  read[i].value = outs[i]
        <3>1. i \in 0..n
            BY <1>3, <1>10
        <3>2. i \in S
            BY <1>15, <3>1
        <3> QED
            BY <3>2
    <2> QED
        BY <1>11, <2>1
<1>18. to_string(bs) = Offsets(bs, T)[1]
    <2>1. to_string(bs) = Offsets(bs, F)[1]
        BY <1>1 DEF to_string, F, Logged, packet_call, packet_result
    <2>2. Progress(bs, F) /\ Progress(bs, T)
        BY ReaderMovesOn DEF F, T, Logged
    <2>3. \A i \in 1..n : \/ Len(W[i]) = 0
                          \/ /\ at[i - 1] < Len(bs)
                             /\ F[at[i - 1]].res = "ok" /\ F[at[i - 1]].next = at[i]
                             /\ T[at[i - 1]].res = "ok" /\ T[at[i - 1]].next = at[i]
        <3> SUFFICES ASSUME NEW i \in 1..n, i \in OutParams(args) \/ i \notin OutParams(args)
                     PROVE  \/ Len(W[i]) = 0
                            \/ /\ at[i - 1] < Len(bs)
                               /\ F[at[i - 1]].res = "ok" /\ F[at[i - 1]].next = at[i]
                               /\ T[at[i - 1]].res = "ok" /\ T[at[i - 1]].next = at[i]
            OBVIOUS
        <3>1. CASE i \in OutParams(args)
            BY <1>12, <3>1 DEF L
        <3>2. CASE i \notin OutParams(args)
            <4>1. W[i] = <<>>
                BY <1>7, <3>2
            <4> QED
                BY <4>1
        <3> QED
            BY <3>1, <3>2
    <2>4. Offsets(bs, F)[start] = Offsets(bs, T)[start]
        BY <1>2, <1>3, <2>2, <2>3, ParsersAgree
    <2>5. Offsets(bs, F)[1] = <<1>> \o Offsets(bs, F)[start]
        BY <1>4, <1>5, <2>2, OffsetsStep DEF L
    <2>6. Offsets(bs, T)[1] = <<1>> \o Offsets(bs, T)[start]
        BY <1>4, <1>5, <2>2, OffsetsStep DEF L
    <2> QED
        BY <2>1, <2>4, <2>5, <2>6
<1> QED
    BY <1>5, <1>16, <1>17, <1>18 DEF T

\* The answer to a call whose arguments were read as args: only the pointers are in it.
LEMMA AnswerToCall ==
    ASSUME NEW args \in Seq(Values), NEW passed \in Seq(Values), Len(args) = Len(passed),
           \A i \in 1..Len(args) : args[i].type = passed[i].type,
           NEW result \in Values, NEW bs, bs = write_result(result, args),
           NEW outs, outs = [i \in OutParams(args) |-> args[i]]
    PROVE  OutParams(args) = OutParams(passed) /\ AnswerWritten(bs, result, passed, outs)
<1>1. OutParams(args) = OutParams(passed)
    <2>1. \A i \in 1..Len(args) : i \in OutParams(args) <=> i \in OutParams(passed)
        BY OutParamFacts
    <2>2. OutParams(args) \subseteq 1..Len(args) /\ OutParams(passed) \subseteq 1..Len(args)
        BY OutParamFacts
    <2> QED
        BY <2>1, <2>2
<1>2. AnswerWritten(bs, result, args, args)
    BY ResultBytes
<1>3. OutPieces(args, args) = OutPieces(passed, outs)
    BY <1>1 DEF OutPieces
<1> QED
    BY <1>1, <1>2, <1>3 DEF AnswerWritten

\* A packet that is sent arrives whole, the first time.
LEMMA TransferFacts ==
    ASSUME NEW t, Open(t), Fits(t.header, HeaderSize),
           NEW h, h = set_le(t.payload.size, HeaderSize), NEW p, p = PrependHeader(t, h),
           NEW q, q = Frame(OnWire(p))
    PROVE  /\ Open(p) /\ q \in Packets /\ Sound(q)
           /\ t.header.size = 0 => Payload(q) = Payload(t)
<1> DEFINE n == t.payload.size
           wire == OnWire(p)
<1>1. n \in 0..BufSize /\ t.header.size \in Nat
    BY PacketAssumption DEF Open, Bordered, Packets, Window
<1>2. h \in Seq(Byte) /\ Len(h) = 4 /\ get_le(h) = n
    BY <1>1, LengthFacts DEF HeaderSize
<1>3. /\ Open(p) /\ Payload(p) = Payload(t) /\ p.payload = t.payload
      /\ p.header.size = t.header.size + 4
      /\ \A i \in 1..4 : p.bytes[p.header.data + i - 1] = h[i]
    <2>1. p = PrependHeader(t, h) /\ Fits(t.header, Len(h))
        BY <1>2 DEF HeaderSize
    <2>2. /\ Open(p) /\ Payload(p) = Payload(t) /\ p.payload = t.payload
          /\ p.header.size = t.header.size + Len(h)
          /\ \A i \in 1..Len(h) : p.bytes[p.header.data + i - 1] = h[i]
        <3>1. Open(p) /\ Payload(p) = Payload(t)
            BY <1>2, <2>1, PrependOpen
        <3>2. p.payload = t.payload
            BY <1>2, <2>1, PrependOpen
        <3>3. p.header.size = t.header.size + Len(h)
            BY <1>2, <2>1, PrependOpen
        <3>4. \A i \in 1..Len(h) : p.bytes[p.header.data + i - 1] = h[i]
            <4>1. h \in Seq(Byte)
                BY <1>2
            <4> QED
                BY <2>1, <4>1, PrependOpen, SMTT(60)
        <3> QED
            BY <3>1, <3>2, <3>3, <3>4
    <2> QED
        BY <1>2, <2>2
<1>4. /\ wire \in Seq(Byte) /\ Len(wire) = t.header.size + 4 + n /\ Len(wire) <= BufSize
      /\ \A i \in 1..(t.header.size + 4) : wire[i] = p.bytes[p.header.data + i - 1]
      /\ \A i \in 1..n : wire[t.header.size + 4 + i] = Payload(p)[i]
    <2> DEFINE k == p.header.size
               m == p.payload.size
    <2>1. wire \in Seq(Byte)
        BY <1>3, OnWireFacts
    <2>2. Len(wire) = k + m /\ Len(wire) <= BufSize
        BY <1>3, OnWireFacts
    <2>3. \A i \in 1..k : wire[i] = p.bytes[p.header.data + i - 1]
        BY <1>3, OnWireFacts
    <2>4. \A i \in 1..m : wire[k + i] = Payload(p)[i]
        BY <1>3, OnWireFacts
    <2>5. k = t.header.size + 4 /\ m = n
        BY <1>3
    <2> HIDE DEF k, m, wire, n
    <2> QED
        BY <2>1, <2>2, <2>3, <2>4, <2>5
<1> HIDE DEF n, wire
<1>5. Len(wire) \in 4..BufSize
    BY <1>1, <1>4, PacketAssumption
<1>6. q \in Packets /\ Sound(q)
    BY <1>4, <1>5, FrameFacts DEF wire
<1>7. ASSUME t.header.size = 0
      PROVE  Payload(q) = Payload(t)
    <2>11. t.header.size + 4 = 4
        BY <1>7
    <2>12. Len(wire) = 4 + n /\ \A i \in 1..4 : wire[i] = p.bytes[p.header.data + i - 1]
        BY <1>4, <2>11
    <2>13. \A i \in 1..n : wire[4 + i] = Payload(p)[i]
        BY <1>4, <2>11
    <2>14. Payload(p) = Payload(t) /\ \A i \in 1..4 : p.bytes[p.header.data + i - 1] = h[i]
        BY <1>3
    <2>1. /\ Len(wire) = 4 + n /\ \A i \in 1..4 : wire[i] = h[i]
          /\ \A i \in 1..n : wire[4 + i] = Payload(t)[i]
        BY <2>12, <2>13, <2>14
    <2> DEFINE s == SubSeq(wire, 1, 4)
    <2>2. s \in Seq(Byte) /\ Len(s) = 4 /\ \A i \in 1..4 : s[i] = wire[i]
        BY <1>4, <1>5
    <2> HIDE DEF s
    <2>3. s = h
        BY <1>2, <2>1, <2>2, SameSequence
    <2>4. get_le(s) + 4 = Len(wire) /\ Len(wire) - 4 = n
        BY <1>1, <1>2, <2>1, <2>3
    <2>5. /\ Len(Payload(q)) = Len(wire) - 4
          /\ \A i \in 1..(Len(wire) - 4) : Payload(q)[i] = wire[4 + i]
        BY <1>4, <1>5, <2>4, FrameFacts DEF s, wire
    <2>6. Payload(q) \in Seq(Byte)
        BY <1>6, PayloadFacts
    <2>7. Payload(t) \in Seq(Byte) /\ Len(Payload(t)) = n
        BY OpenIsSound, PayloadFacts DEF n
    <2> QED
        BY <2>1, <2>4, <2>5, <2>6, <2>7, SameSequence
<1> QED
    BY <1>3, <1>6, <1>7

\* A call without arguments, and one argument more.
LEMMA CallBegun ==
    ASSUME NEW name \in Strings, NEW bs, bs = <<packet_call>> \o EncodeString(name)
    PROVE  bs \in Seq(Byte) /\ CallWritten(bs, name, <<>>, <<>>)
<1> DEFINE p == <<packet_call>>
           e == EncodeString(name)
<1>1. p \in Seq(Byte) /\ Len(p) = 1 /\ p[1] = packet_call
    <2>1. packet_call \in Byte
        BY DEF packet_call, Byte
    <2> QED
        BY <2>1, Singleton
<1>2. e \in Seq(Byte) /\ Len(e) = 2 + Len(name) /\ Len(name) \in Nat
    BY StringBytes, StringFacts
<1>3. bs = p \o e
    OBVIOUS
<1> HIDE DEF p, e
<1>4. Carries(bs, Len(p), e) /\ Len(bs) = Len(p) + Len(e) /\ bs \in Seq(Byte)
    BY <1>1, <1>2, <1>3, CarriesLast
<1>5. bs[1] = p[1]
    BY <1>1, <1>2, <1>3, ConcatFacts
<1>6. Len(bs) = 3 + Len(name)
    BY <1>1, <1>2, <1>4
<1>7. \E at : Laid(bs, 3 + Len(name), 0, Pieces(<<>>, <<>>), at)
    BY <1>4, <1>6, LaidNothing
<1>8. Len(<<>>) = 0
    OBVIOUS
<1> QED
    BY <1>1, <1>4, <1>5, <1>7, <1>8 DEF CallWritten, e

\* An argument that is written makes a longer call.
LEMMA CallGrows ==
    ASSUME NEW bs \in Seq(Byte), NEW name \in Strings, NEW args \in Seq(Values),
           NEW counts \in Seq(Nat), Len(counts) = Len(args), CallWritten(bs, name, args, counts),
           NEW v \in Values, NEW n \in Nat, NEW e, e = write_value(v, n)
    PROVE  CallWritten(bs \o e, name, Append(args, v), Append(counts, n))
<1> DEFINE k == Len(args)
           W == Pieces(args, counts)
           V == Pieces(Append(args, v), Append(counts, n))
           start == 3 + Len(name)
           w == EncodeString(name)
<1>1. /\ bs[1] = packet_call /\ Carries(bs, 1, w)
      /\ \E at : Laid(bs, start, k, W, at)
    BY DEF CallWritten
<1>2. PICK at : Laid(bs, start, k, W, at)
    BY <1>1
<1>3. e \in Seq(Byte) /\ k \in Nat /\ w \in Seq(Byte) /\ Len(w) \in Nat /\ Len(w) >= 1
    <2>1. e \in Seq(Byte)
        BY WrittenBytes
    <2>2. w \in Seq(Byte) /\ Len(w) = 2 + Len(name) /\ Len(name) \in Nat
        BY StringBytes, StringFacts
    <2> HIDE DEF w
    <2> QED
        BY <2>1, <2>2, ElementFacts
<1>4. Len(Append(args, v)) = k + 1
    OBVIOUS
<1>5. ASSUME NEW i \in 1..k
      PROVE  W[i] \in Seq(Byte) /\ V[i] = W[i]
    <2>1. i \in 1..Len(args) /\ i \in 1..(k + 1) /\ i \in 1..Len(counts)
        BY <1>3
    <2>2. args[i] \in Values /\ counts[i] \in Nat
        BY <2>1, ElementFacts
    <2>3. Append(args, v)[i] = args[i] /\ Append(counts, n)[i] = counts[i]
        BY <2>1
    <2>4. W[i] = write_value(args[i], counts[i])
        BY <2>1 DEF Pieces
    <2>5. V[i] = write_value(Append(args, v)[i], Append(counts, n)[i])
        BY <1>4, <2>1 DEF Pieces
    <2>6. write_value(args[i], counts[i]) \in Seq(Byte)
        BY <2>2, WrittenBytes
    <2> HIDE DEF V, W
    <2> QED
        BY <2>3, <2>4, <2>5, <2>6
<1>6. V[k + 1] = e
    <2>1. k + 1 \in 1..(k + 1)
        BY <1>3
    <2>2. Append(args, v)[k + 1] = v /\ Append(counts, n)[k + 1] = n
        OBVIOUS
    <2>3. V[k + 1] = write_value(Append(args, v)[k + 1], Append(counts, n)[k + 1])
        BY <1>4, <2>1 DEF Pieces
    <2> HIDE DEF V
    <2> QED
        BY <2>2, <2>3
<1> HIDE DEF W, V, k, start, w
<1>7. \E to : Laid(bs \o e, start, k + 1, V, to)
    BY <1>2, <1>3, <1>5, <1>6, LaidAppend
<1>8. Carries(bs \o e, 1, w)
    BY <1>1, <1>3, CarriesMore
<1>9. (bs \o e)[1] = bs[1]
    <2>1. Len(bs) \in Nat /\ 1 + Len(w) <= Len(bs)
        BY <1>1, ElementFacts DEF Carries
    <2>2. 1 \in 1..Len(bs)
        BY <1>3, <2>1
    <2> QED
        BY <1>3, <2>2, ConcatFacts
<1> QED
    BY <1>1, <1>4, <1>7, <1>8, <1>9 DEF CallWritten, V, start, w, k

-----------------------------------------------------------------------------
(* The steps of a call: the inductive invariant. *)

Typed ==
    /\ stage \in {"idle", "writing", "received", "called", "replied", "answered",
                  "returned", "failed"}
    /\ framed \in 0..MaxSends
    /\ sized \in BOOLEAN /\ count \in {0, 1} \cup ArraySizes
    /\ sent \in [name : Strings, args : Seq(Args), counts : Seq(Nat), framed : Nat]
    /\ Len(sent.counts) = Len(sent.args)
    /\ err \in {"none", "ERR_PACKET_FULL", "ERR_POINTER_NEEDS_SIZE"} \cup Refusals

\* The packet that is written has its border where the constructor put it; the one
\* that is read may have lost a header.
Sealed == Open(tx) /\ rx \in Packets /\ Sound(rx)

\* The payload bs is the call so far, and the answer to it.
Call(bs) == CallWritten(bs, sent.name, sent.args, sent.counts)

Answer(bs) ==
    /\ left.result \in Values
    /\ left.outs = [i \in OutParams(sent.args) |-> left.outs[i]]
    /\ \A i \in OutParams(sent.args) :
           left.outs[i] \in ReadValues /\ left.outs[i].type = sent.args[i].type
    /\ AnswerWritten(bs, left.result, sent.args, left.outs)

\* Until a packet is sent it has no header, and what was written is the call.
Writing ==
    /\ stage \in {"idle", "writing", "replied"} => tx.header.size = 0 /\ framed = 0
    /\ stage \in {"idle", "writing"} => sent.framed = 0
    /\ stage = "idle" => tx.payload.size = 0 /\ sent.args = <<>> /\ sent.counts = <<>>
    /\ stage = "writing" => Call(Payload(tx))

\* The call arrives as it was written, and its arguments are values.
Handling ==
    /\ stage = "received" /\ Clean => Call(Payload(rx))
    /\ stage = "called" => got.args \in Seq(ReadValues)

\* The answer fits the call, and arrives as it was written.
Answering ==
    /\ stage = "replied" /\ Clean => Answer(Payload(tx))
    /\ stage = "answered" /\ Clean => Answer(Payload(rx))

CodecInv ==
    /\ Typed /\ Sealed /\ Writing /\ Handling /\ Answering
    /\ CallRoundTrip /\ ResultRoundTrip /\ ReaderAccepts

\* What is assumed of names, arguments, results and sizes, as the lemmas need it.
LEMMA ConstantFacts ==
    /\ Args \subseteq Values /\ Results \subseteq Values /\ ArraySizes \subseteq Nat
    /\ Names \subseteq Strings /\ Strings = Seq(1..255)
    /\ {0, 1} \cup ArraySizes \subseteq Nat
    BY CodecAssumption DEF Strings

\* What was sent is typed also as the lemmas about payloads want it.
LEMMA SentFacts ==
    ASSUME Typed
    PROVE  /\ sent.name \in Strings /\ sent.args \in Seq(Args) /\ sent.args \in Seq(Values)
           /\ sent.counts \in Seq(Nat) /\ Len(sent.counts) = Len(sent.args) /\ sent.framed \in Nat
<1>1. sent.args \in Seq(Args)
    BY DEF Typed
<1> QED
    BY <1>1, SequenceOfMore, ConstantFacts DEF Typed

\* The invariant holds at the start.
LEMMA InitInvariant == ASSUME Init PROVE CodecInv
<1>1. Typed
    <2>1. sent \in [name : Strings, args : Seq(Args), counts : Seq(Nat), framed : Nat]
        BY ConstantFacts DEF Init
    <2>2. Len(sent.counts) = Len(sent.args)
        BY DEF Init
    <2>3. framed \in 0..MaxSends /\ count \in {0, 1} \cup ArraySizes
        BY CodecAssumption DEF Init
    <2> QED
        BY <2>1, <2>2, <2>3 DEF Init, Typed
<1>2. Sealed
    BY FreshIsOpen, OpenIsSound DEF Init, Sealed
<1>3. Writing
    BY FreshIsOpen DEF Init, Writing
<1> QED
    BY <1>1, <1>2, <1>3 DEF CodecInv, Init, Handling, Answering, CallRoundTrip,
       ResultRoundTrip, ReaderAccepts

\* A call that fails keeps the invariant if the reader did not refuse what the writer made.
LEMMA FailKeeps ==
    ASSUME CodecInv, NEW e, Fail(e), e \in {"ERR_PACKET_FULL", "ERR_POINTER_NEEDS_SIZE"} \cup Refusals,
           Clean => e \in {"ERR_PACKET_FULL", "ERR_POINTER_NEEDS_SIZE"}
    PROVE  CodecInv'
<1> USE DEF CodecInv, Fail
<1>1. Typed'
    BY DEF Typed
<1>2. Sealed'
    BY DEF Sealed
<1>3. Writing'
    BY DEF Writing
<1>4. Handling' /\ Answering'
    BY DEF Handling, Answering
<1>5. CallRoundTrip' /\ ResultRoundTrip'
    BY DEF CallRoundTrip, ResultRoundTrip
<1>6. ReaderAccepts'
    BY DEF ReaderAccepts, Clean
<1> QED
    BY <1>1, <1>2, <1>3, <1>4, <1>5, <1>6

\* Each step keeps the invariant.
LEMMA BeginCallKeeps ==
    ASSUME CodecInv, NEW name \in Names, BeginCall(name)
    PROVE  CodecInv'
<1> DEFINE bs == <<packet_call>> \o EncodeString(name)
<1>1. CASE ~Fits(tx.payload, Len(bs)) /\ Fail("ERR_PACKET_FULL")
    BY <1>1, FailKeeps
<1>2. CASE /\ Writes(bs, "writing")
           /\ sent' = [sent EXCEPT !.name = name]
           /\ UNCHANGED <<sized, count, left>>
    <2>1. stage = "idle" /\ name \in Strings
        BY ConstantFacts DEF BeginCall
    <2>2. bs \in Seq(Byte) /\ CallWritten(bs, name, <<>>, <<>>)
        BY <2>1, CallBegun
    <2> HIDE DEF bs
    <2>3. /\ stage' = "writing" /\ tx' = AppendPayload(tx, bs) /\ Fits(tx.payload, Len(bs))
          /\ UNCHANGED <<rx, framed, sized, count, got, left, ret, err>>
        BY <1>2 DEF Writes
    <2>4. /\ sent' \in [name : Strings, args : Seq(Args), counts : Seq(Nat), framed : Nat]
          /\ sent'.name = name /\ sent'.args = sent.args /\ sent'.counts = sent.counts
          /\ sent'.framed = sent.framed
        BY <1>2, <2>1 DEF CodecInv, Typed
    <2>5. Typed'
        BY <2>3, <2>4 DEF CodecInv, Typed
    <2>6. /\ Open(tx') /\ tx'.header = tx.header
          /\ Payload(tx') = Payload(tx) \o bs
        BY <2>2, <2>3, AppendOpen DEF CodecInv, Sealed
    <2>7. Sealed'
        BY <2>3, <2>6 DEF CodecInv, Sealed
    <2>8. Payload(tx') = bs
        <3>1. Payload(tx) \in Seq(Byte) /\ Len(Payload(tx)) = 0
            BY <2>1, OpenIsSound, PayloadFacts DEF CodecInv, Sealed, Writing
        <3>2. Payload(tx) = <<>>
            BY <3>1
        <3> QED
            BY <2>2, <2>6, <3>2
    <2>9. sent.args = <<>> /\ sent.counts = <<>> /\ sent.framed = 0 /\ framed = 0 /\ tx.header.size = 0
        BY <2>1 DEF CodecInv, Writing
    <2>10. Call(Payload(tx))'
        BY <2>2, <2>4, <2>8, <2>9 DEF Call
    <2>11. Writing'
        BY <2>3, <2>4, <2>6, <2>9, <2>10 DEF Writing
    <2> QED
        BY <2>3, <2>5, <2>7, <2>11 DEF CodecInv, Handling, Answering, CallRoundTrip,
           ResultRoundTrip, ReaderAccepts
<1> QED
    BY <1>1, <1>2 DEF BeginCall

LEMMA WriteArgKeeps ==
    ASSUME CodecInv, NEW v \in Args, WriteArg(v)
    PROVE  CodecInv'
<1> DEFINE n == IF v.type \notin Pointers \/ ~sized THEN 1 ELSE count
           bs == write_value(v, n)
<1>1. CASE ~Fits(tx.payload, Len(bs)) /\ Fail("ERR_PACKET_FULL")
    BY <1>1, FailKeeps
<1>2. CASE /\ Writes(bs, "writing")
           /\ sent' = [sent EXCEPT !.args = Append(@, v), !.counts = Append(@, n)]
           /\ count' = IF v.type \in Pointers THEN n ELSE count
           /\ UNCHANGED <<sized, left>>
    <2>1. stage = "writing" /\ v \in Values
        BY ConstantFacts DEF WriteArg
    <2>2. n \in {0, 1} \cup ArraySizes /\ n \in Nat
        BY ConstantFacts DEF CodecInv, Typed
    <2>3. count' \in {0, 1} \cup ArraySizes
        BY <1>2, <2>2 DEF CodecInv, Typed
    <2>4. bs \in Seq(Byte)
        BY <2>1, <2>2, WrittenBytes
    <2> HIDE DEF n
    <2>5. /\ stage' = "writing" /\ tx' = AppendPayload(tx, bs) /\ Fits(tx.payload, Len(bs))
          /\ UNCHANGED <<rx, framed, sized, got, left, ret, err>>
        BY <1>2 DEF Writes
    <2>6. /\ sent.name \in Strings /\ sent.args \in Seq(Args) /\ sent.counts \in Seq(Nat)
          /\ sent.args \in Seq(Values) /\ sent.framed \in Nat /\ Len(sent.counts) = Len(sent.args)
        BY SentFacts DEF CodecInv
    <2>7. /\ Append(sent.args, v) \in Seq(Args) /\ Append(sent.counts, n) \in Seq(Nat)
          /\ Len(Append(sent.args, v)) = Len(sent.args) + 1
          /\ Len(Append(sent.counts, n)) = Len(sent.counts) + 1
        BY <2>2, <2>6
    <2>8. sent' = [name |-> sent.name, args |-> Append(sent.args, v),
                   counts |-> Append(sent.counts, n), framed |-> sent.framed]
        BY <1>2 DEF CodecInv, Typed
    <2>9. Typed'
        <3>1. sent' \in [name : Strings, args : Seq(Args), counts : Seq(Nat), framed : Nat]
            BY <2>6, <2>7, <2>8
        <3>2. Len(sent.counts)' = Len(sent.args)'
            BY <2>6, <2>7, <2>8
        <3> QED
            BY <2>3, <2>5, <3>1, <3>2 DEF CodecInv, Typed
    <2> HIDE DEF bs
    <2>10. /\ Open(tx') /\ tx'.header = tx.header
           /\ Payload(tx') = Payload(tx) \o bs
        BY <2>4, <2>5, AppendOpen DEF CodecInv, Sealed
    <2>11. Sealed'
        BY <2>5, <2>10 DEF CodecInv, Sealed
    <2>12. sent.framed = 0 /\ framed = 0 /\ tx.header.size = 0
           /\ CallWritten(Payload(tx), sent.name, sent.args, sent.counts)
        BY <2>1 DEF CodecInv, Writing, Call
    <2>13. Payload(tx) \in Seq(Byte)
        BY OpenIsSound, PayloadFacts DEF CodecInv, Sealed
    <2>14. CallWritten(Payload(tx) \o bs, sent.name, Append(sent.args, v), Append(sent.counts, n))
        BY <2>1, <2>2, <2>6, <2>12, <2>13, CallGrows DEF bs
    <2>15. Call(Payload(tx))'
        BY <2>8, <2>10, <2>14 DEF Call
    <2>16. Writing'
        BY <2>5, <2>8, <2>10, <2>12, <2>15 DEF Writing
    <2> QED
        BY <2>5, <2>9, <2>11, <2>16 DEF CodecInv, Handling, Answering, CallRoundTrip,
           ResultRoundTrip, ReaderAccepts
<1> QED
    BY <1>1, <1>2 DEF WriteArg

LEMMA WriteSizeKeeps ==
    ASSUME CodecInv, NEW n \in ArraySizes, WriteSize(n)
    PROVE  CodecInv'
<1>1. CASE sized /\ Fail("ERR_POINTER_NEEDS_SIZE")
    BY <1>1, FailKeeps
<1>2. CASE /\ ~sized
           /\ sized' = TRUE /\ count' = n
           /\ UNCHANGED <<stage, tx, rx, framed, sent, got, left, ret, err>>
    <2>1. Typed'
        BY <1>2 DEF CodecInv, Typed
    <2>2. Sealed' /\ Writing'
        BY <1>2 DEF CodecInv, Sealed, Writing, Call
    <2>3. Handling' /\ Answering'
        BY <1>2 DEF CodecInv, Handling, Answering, Call, Answer, Clean
    <2>4. CallRoundTrip' /\ ResultRoundTrip' /\ ReaderAccepts'
        BY <1>2 DEF CodecInv, CallRoundTrip, ResultRoundTrip, ReaderAccepts, Clean
    <2> QED
        BY <2>1, <2>2, <2>3, <2>4 DEF CodecInv
<1> QED
    BY <1>1, <1>2 DEF WriteSize

LEMMA LoopbackKeeps ==
    ASSUME CodecInv, Loopback
    PROVE  CodecInv'
<1>1. /\ rx' = tx
      /\ UNCHANGED <<tx, framed, sized, count, sent, got, left, ret, err>>
    BY DEF Loopback, Arrives
<1>2. \/ stage = "writing" /\ stage' = "received"
      \/ stage = "replied" /\ stage' = "answered"
    BY DEF Loopback, Arrives
<1>3. Typed'
    BY <1>1, <1>2 DEF CodecInv, Typed
<1>4. Sealed'
    BY <1>1, OpenIsSound DEF CodecInv, Sealed
<1>5. Writing'
    BY <1>1, <1>2 DEF Writing
<1>6. stage = "writing" => Handling'
    BY <1>1, <1>2 DEF CodecInv, Writing, Handling, Call, Payload, Contents
<1>7. stage = "replied" => Handling'
    BY <1>2 DEF Handling
<1>8. stage = "replied" => Answering'
    BY <1>1, <1>2 DEF CodecInv, Answering, Answer, Clean, Payload, Contents
<1>9. stage = "writing" => Answering'
    BY <1>2 DEF Answering
<1> QED
    BY <1>2, <1>3, <1>4, <1>5, <1>6, <1>7, <1>8, <1>9 DEF CodecInv, CallRoundTrip,
       ResultRoundTrip, ReaderAccepts

LEMMA TransferKeeps ==
    ASSUME CodecInv, Transfer
    PROVE  CodecInv'
<1> DEFINE h == set_le(tx.payload.size, HeaderSize)
           p == PrependHeader(tx, h)
           q == Frame(OnWire(p))
<1>1. CASE ~Fits(tx.header, HeaderSize) /\ Fail("ERR_PACKET_FULL")
    BY <1>1, FailKeeps
<1>2. CASE /\ Fits(tx.header, HeaderSize)
           /\ tx' = p /\ framed' = framed + 1
           /\ sent' = [sent EXCEPT !.framed = IF stage = "replied" THEN @ ELSE framed + 1]
           /\ Arrives(q)
    <2>1. framed < MaxSends /\ framed \in 0..MaxSends /\ MaxSends \in Nat /\ framed \in Nat
        BY CodecAssumption DEF Transfer, CodecInv, Typed
    <2>2. /\ Open(p) /\ q \in Packets /\ Sound(q)
          /\ tx.header.size = 0 => Payload(q) = Payload(tx)
        BY <1>2, TransferFacts DEF CodecInv, Sealed
    <2> HIDE DEF h, p, q
    <2>3. tx' = p /\ rx' = q /\ UNCHANGED <<sized, count, got, left, ret, err>>
        BY <1>2 DEF Arrives
    <2>4. \/ stage = "writing" /\ stage' = "received"
          \/ stage = "called" /\ framed > 0 /\ stage' = "received"
          \/ stage = "replied" /\ stage' = "answered"
        BY <1>2 DEF Transfer, Arrives
    <2>5. /\ sent.name \in Strings /\ sent.args \in Seq(Args) /\ sent.counts \in Seq(Nat)
          /\ sent.framed \in Nat /\ Len(sent.counts) = Len(sent.args)
        BY SentFacts DEF CodecInv
    <2> DEFINE f == IF stage = "replied" THEN sent.framed ELSE framed + 1
    <2>6. sent' = [name |-> sent.name, args |-> sent.args, counts |-> sent.counts, framed |-> f]
        BY <1>2 DEF CodecInv, Typed
    <2>7. f \in Nat
        BY <2>1, <2>5
    <2> HIDE DEF f
    <2>8. /\ sent'.name = sent.name /\ sent'.args = sent.args /\ sent'.counts = sent.counts
          /\ sent'.framed = f
        BY <2>6
    <2>9. sent' \in [name : Strings, args : Seq(Args), counts : Seq(Nat), framed : Nat]
        BY <2>5, <2>6, <2>7
    <2>10. framed' \in 0..MaxSends
        BY <1>2, <2>1
    <2>11. Typed'
        BY <2>3, <2>4, <2>5, <2>8, <2>9, <2>10 DEF CodecInv, Typed
    <2>12. Sealed'
        BY <2>2, <2>3 DEF Sealed
    <2>13. Writing'
        BY <2>4 DEF Writing
    <2>14. CASE stage = "writing"
        <3>1. tx.header.size = 0 /\ Call(Payload(tx))
            BY <2>14 DEF CodecInv, Writing
        <3>2. Call(Payload(rx))'
            BY <2>2, <2>3, <2>8, <3>1 DEF Call, Payload, Contents
        <3>3. Handling' /\ Answering'
            BY <2>4, <2>14, <3>2 DEF Handling, Answering
        <3> QED
            BY <2>4, <2>11, <2>12, <2>13, <2>14, <3>3 DEF CodecInv, CallRoundTrip,
               ResultRoundTrip, ReaderAccepts
    <2>15. CASE stage = "called"
        <3>1. framed > 0 /\ f = framed + 1
            BY <2>4, <2>15 DEF f
        <3>2. ~(sent'.framed <= 1)
            BY <2>1, <2>8, <3>1
        <3>3. ~Clean'
            BY <3>2 DEF Clean
        <3>4. Handling' /\ Answering'
            BY <2>4, <2>15, <3>3 DEF Handling, Answering
        <3> QED
            BY <2>4, <2>11, <2>12, <2>13, <2>15, <3>4 DEF CodecInv, CallRoundTrip,
               ResultRoundTrip, ReaderAccepts
    <2>16. CASE stage = "replied"
        <3>1. tx.header.size = 0 /\ f = sent.framed
            BY <2>16 DEF CodecInv, Writing, f
        <3>2. Clean' => Clean
            BY <2>8, <3>1 DEF Clean
        <3>3. Clean => Answer(Payload(tx))
            BY <2>16 DEF CodecInv, Answering
        <3>4. Clean' => Answer(Payload(rx))'
            BY <2>2, <2>3, <2>8, <3>1, <3>2, <3>3 DEF Answer, Payload, Contents
        <3>5. Handling' /\ Answering'
            BY <2>4, <2>16, <3>4 DEF Handling, Answering
        <3> QED
            BY <2>4, <2>11, <2>12, <2>13, <2>16, <3>5 DEF CodecInv, CallRoundTrip,
               ResultRoundTrip, ReaderAccepts
    <2> QED
        BY <2>4, <2>14, <2>15, <2>16
<1> QED
    BY <1>1, <1>2 DEF Transfer

LEMMA SendBackKeeps == ASSUME CodecInv, SendBack PROVE CodecInv'
    BY FailKeeps DEF SendBack

\* What is in the packet that is read, if the sender keeps to what the reader can read.
LEMMA ReceivedPayload ==
    ASSUME CodecInv
    PROVE  /\ Payload(rx) \in Seq(Byte)
           /\ Clean => \A i \in DOMAIN sent.counts : sent.counts[i] = 1
           /\ stage = "received" /\ Clean =>
                  CallWritten(Payload(rx), sent.name, sent.args, sent.counts)
           /\ stage = "answered" /\ Clean => Answer(Payload(rx))
    BY PayloadFacts DEF CodecInv, Sealed, Handling, Answering, Call, Clean

\* What has arrived can be read.
LEMMA CallArrives ==
    ASSUME CodecInv, stage = "received", Clean, NEW bs, bs = Payload(rx),
           NEW c, c = read_call(bs)
    PROVE  /\ c.res = "ok" /\ c.name = sent.name /\ Len(c.args) = Len(sent.args)
           /\ \A i \in DOMAIN sent.args : Kept(Passed(sent.args[i]), c.args[i])
           /\ to_string(bs) = Offsets(bs, TypedValues(bs))[ArgumentsStart(bs)]
<1>1. /\ sent.name \in Strings /\ sent.args \in Seq(Values) /\ sent.counts \in Seq(Nat)
      /\ Len(sent.counts) = Len(sent.args)
    BY SentFacts DEF CodecInv
<1>2. /\ bs \in Seq(Byte) /\ \A i \in DOMAIN sent.counts : sent.counts[i] = 1
      /\ CallWritten(bs, sent.name, sent.args, sent.counts)
    BY ReceivedPayload
<1> QED
    BY <1>1, <1>2, CallRead

LEMMA ResultArrives ==
    ASSUME CodecInv, stage = "answered", Clean, NEW bs, bs = Payload(rx),
           NEW r, r = read_result(bs, sent.args)
    PROVE  /\ r.res = "ok" /\ Kept(Passed(left.result), r.result) /\ r.outs = left.outs
           /\ to_string(bs) = Offsets(bs, TypedValues(bs))[1]
<1>1. sent.args \in Seq(Values)
    BY SentFacts DEF CodecInv
<1>2. bs \in Seq(Byte) /\ Answer(bs)
    BY ReceivedPayload
<1>3. /\ left.result \in Values /\ AnswerWritten(bs, left.result, sent.args, left.outs)
      /\ \A i \in OutParams(sent.args) :
             left.outs[i] \in ReadValues /\ left.outs[i].type = sent.args[i].type
      /\ left.outs = [i \in OutParams(sent.args) |-> left.outs[i]]
    BY <1>2 DEF Answer
<1>4. /\ r.res = "ok" /\ Kept(Passed(left.result), r.result)
      /\ r.outs = [i \in OutParams(sent.args) |-> left.outs[i]]
      /\ to_string(bs) = Offsets(bs, TypedValues(bs))[1]
    BY <1>1, <1>2, <1>3, ResultRead
<1> QED
    BY <1>3, <1>4

LEMMA ReadCallKeeps ==
    ASSUME CodecInv, ReadCall
    PROVE  CodecInv'
<1> DEFINE bs == Payload(rx)
           c == read_call(bs)
<1>1. stage = "received"
    BY DEF ReadCall
<1>2. bs \in Seq(Byte)
    BY ReceivedPayload
<1>3. c.res \in Refusals \/ (c.res = "ok" /\ c.args \in Seq(ReadValues))
    BY <1>2, CallTyped
<1>4. Clean => /\ c.res = "ok" /\ c.name = sent.name /\ Len(c.args) = Len(sent.args)
               /\ \A i \in DOMAIN sent.args : Kept(Passed(sent.args[i]), c.args[i])
    BY <1>1, CallArrives
<1> HIDE DEF c
<1>5. CASE c.res # "ok" /\ Fail(c.res)
    BY <1>3, <1>4, <1>5, FailKeeps
<1>6. CASE /\ c.res = "ok"
           /\ got' = c /\ stage' = "called"
           /\ UNCHANGED <<tx, rx, framed, sized, count, sent, left, ret, err>>
    <2>1. c.args \in Seq(ReadValues)
        BY <1>3, <1>6 DEF Refusals
    <2>2. Typed' /\ Sealed'
        BY <1>6 DEF CodecInv, Typed, Sealed
    <2>3. Writing' /\ Answering'
        BY <1>6 DEF Writing, Answering
    <2>4. Handling'
        BY <1>6, <2>1 DEF Handling
    <2>5. CallRoundTrip'
        BY <1>4, <1>6 DEF CallRoundTrip, Clean
    <2> QED
        BY <1>6, <2>2, <2>3, <2>4, <2>5 DEF CodecInv, ResultRoundTrip, ReaderAccepts
<1> QED
    BY <1>5, <1>6 DEF ReadCall, c, Payload

LEMMA ReadResultKeeps ==
    ASSUME CodecInv, ReadResult
    PROVE  CodecInv'
<1> DEFINE bs == Payload(rx)
           r == read_result(bs, sent.args)
<1>1. stage = "answered"
    BY DEF ReadResult
<1>2. bs \in Seq(Byte) /\ sent.args \in Seq(Values)
    BY ReceivedPayload, SentFacts DEF CodecInv
<1>3. r.res \in Refusals \/ r.res = "ok"
    BY <1>2, ResultTyped
<1>4. Clean => r.res = "ok" /\ Kept(Passed(left.result), r.result) /\ r.outs = left.outs
    BY <1>1, ResultArrives
<1> HIDE DEF r
<1>5. CASE r.res # "ok" /\ Fail(r.res)
    BY <1>3, <1>4, <1>5, FailKeeps
<1>6. CASE /\ r.res = "ok"
           /\ ret' = r /\ stage' = "returned"
           /\ UNCHANGED <<tx, rx, framed, sized, count, sent, got, left, err>>
    <2>1. Typed' /\ Sealed'
        BY <1>6 DEF CodecInv, Typed, Sealed
    <2>2. Writing' /\ Answering' /\ Handling'
        BY <1>6 DEF Writing, Answering, Handling
    <2>3. ResultRoundTrip'
        BY <1>4, <1>6 DEF ResultRoundTrip, Clean
    <2> QED
        BY <1>6, <2>1, <2>2, <2>3 DEF CodecInv, CallRoundTrip, ReaderAccepts
<1> QED
    BY <1>5, <1>6 DEF ReadResult, r, Payload

LEMMA PassedType == ASSUME NEW v \in Values PROVE Passed(v).type = v.type
<1>1. v = [type |-> v.type, bytes |-> v.bytes]
    BY DEF Values
<1> QED
    BY <1>1 DEF Passed

\* What a function leaves in the target of a pointer is again a value of its type.
LEMMA TouchedFacts ==
    ASSUME NEW v \in ReadValues, is_ptr_type(v.type)
    PROVE  Touched(v) \in ReadValues /\ Touched(v).type = v.type
<1> DEFINE b == [i \in DOMAIN v.bytes |-> 255 - v.bytes[i]]
<1>1. /\ v \in Values /\ v = [type |-> v.type, bytes |-> v.bytes]
      /\ v.bytes \in Seq(Byte) /\ v.type \in TypeInfo \cup {TypeId.null}
    BY DEF ReadValues, Values
<1>2. v.type \in Pointers
    BY <1>1, PointerType
<1>3. Len(v.bytes) = get_type_size(v.type - modifier_ptr)
    BY <1>2 DEF ReadValues
<1> DEFINE n == Len(v.bytes)
<1>4. b = [i \in 1..n |-> 255 - v.bytes[i]] /\ n \in Nat
    BY <1>1, ElementFacts
<1>5. ASSUME NEW i \in 1..n PROVE 255 - v.bytes[i] \in Byte
    <2>1. v.bytes[i] \in Byte
        BY <1>1, ElementFacts
    <2>2. ASSUME NEW x \in Byte PROVE 255 - x \in Byte
        BY DEF Byte
    <2> QED
        BY <2>1, <2>2
<1> HIDE DEF b, n
<1>6. b \in Seq(Byte) /\ Len(b) = n
    <2>1. \A i \in 1..n : b[i] \in Byte
        BY <1>4, <1>5
    <2>2. b = [i \in 1..n |-> b[i]]
        BY <1>4
    <2> QED
        BY <1>4, <2>1, <2>2, MakeSequence
<1>7. Value(v.type, b) \in ReadValues
    BY <1>2, <1>3, <1>6, MakeValue DEF n
<1>8. Touched(v) = Value(v.type, b)
    BY <1>1 DEF Touched, Value, b
<1> QED
    BY <1>7, <1>8 DEF Value

LEMMA ReplyKeeps ==
    ASSUME CodecInv, NEW result \in Results, NEW touch \in BOOLEAN, Reply(result, touch)
    PROVE  CodecInv'
<1> DEFINE args == [i \in DOMAIN got.args |->
                       IF touch /\ is_ptr_type(got.args[i].type) THEN Touched(got.args[i])
                                                                 ELSE got.args[i]]
           bs == write_result(result, args)
           outs == [i \in OutParams(args) |-> args[i]]
<1>1. stage = "called" /\ got.args \in Seq(ReadValues) /\ result \in Values
    BY ConstantFacts DEF Reply, CodecInv, Handling
<1>2. args = [i \in 1..Len(got.args) |-> args[i]] /\ Len(got.args) \in Nat
    BY <1>1, ElementFacts
<1>3. ASSUME NEW i \in 1..Len(got.args)
      PROVE  args[i] \in ReadValues /\ args[i].type = got.args[i].type
    <2>1. got.args[i] \in ReadValues /\ i \in DOMAIN got.args
        BY <1>1, ElementFacts
    <2> QED
        BY <2>1, TouchedFacts
<1>4. CASE ~Fits(FreshPacket.payload, Len(bs)) /\ Fail("ERR_PACKET_FULL")
    BY <1>4, FailKeeps
<1>5. CASE /\ Fits(FreshPacket.payload, Len(bs))
           /\ tx' = AppendPayload(FreshPacket, bs)
           /\ framed' = 0
           /\ left' = [res |-> "ok", result |-> result, outs |-> outs]
           /\ stage' = "replied"
           /\ UNCHANGED <<rx, sized, count, sent, got, ret, err>>
    <2> HIDE DEF args
    <2>1. args \in Seq(ReadValues) /\ Len(args) = Len(got.args)
        BY <1>2, <1>3, MakeSequence
    <2>2. args \in Seq(Values)
        BY <2>1, SequenceOfMore DEF ReadValues
    <2>3. bs \in Seq(Byte)
        BY <1>1, <2>2, ResultBytes
    <2> HIDE DEF bs, outs
    <2>4. /\ Open(tx') /\ tx'.header = FreshPacket.header
          /\ Payload(tx') = Payload(FreshPacket) \o bs
        BY <1>5, <2>3, FreshIsOpen, AppendOpen
    <2>5. Payload(tx') = bs
        <3>1. Payload(FreshPacket) \in Seq(Byte) /\ Len(Payload(FreshPacket)) = 0
            BY FreshIsOpen, OpenIsSound, PayloadFacts
        <3>2. Payload(FreshPacket) = <<>>
            BY <3>1
        <3> QED
            BY <2>3, <2>4, <3>2
    <2>6. Typed'
        BY <1>5, CodecAssumption DEF CodecInv, Typed
    <2>7. Sealed'
        BY <1>5, <2>4 DEF CodecInv, Sealed
    <2>8. Writing'
        BY <1>5, <2>4, FreshIsOpen DEF Writing
    <2>9. ASSUME Clean PROVE Answer(Payload(tx))'
        <3>1. sent.args \in Seq(Values)
            BY SentFacts DEF CodecInv
        <3>2. /\ Len(got.args) = Len(sent.args)
              /\ \A i \in DOMAIN sent.args : Kept(Passed(sent.args[i]), got.args[i])
            BY <1>1, <2>9 DEF CodecInv, CallRoundTrip
        <3>3. ASSUME NEW i \in 1..Len(args) PROVE args[i].type = sent.args[i].type
            <4>1. i \in DOMAIN sent.args /\ sent.args[i] \in Values /\ i \in 1..Len(got.args)
                BY <2>1, <3>1, <3>2, ElementFacts
            <4>2. got.args[i].type = Passed(sent.args[i]).type
                BY <3>2, <4>1 DEF Kept
            <4> QED
                BY <1>3, <4>1, <4>2, PassedType
        <3>4. OutParams(args) = OutParams(sent.args) /\ AnswerWritten(bs, result, sent.args, outs)
            BY <1>1, <2>1, <2>2, <3>1, <3>2, <3>3, AnswerToCall DEF bs, outs
        <3>5. \A i \in OutParams(sent.args) : i \in 1..Len(args)
            BY <3>4, <2>2, OutParamFacts
        <3>6. \A i \in OutParams(sent.args) :
                  outs[i] \in ReadValues /\ outs[i].type = sent.args[i].type
            <4>1. ASSUME NEW i \in OutParams(sent.args)
                  PROVE  outs[i] \in ReadValues /\ outs[i].type = sent.args[i].type
                <5>1. i \in 1..Len(args) /\ outs[i] = args[i]
                    BY <3>4, <3>5 DEF outs
                <5> QED
                    BY <1>3, <2>1, <3>3, <5>1
            <4> QED
                BY <4>1
        <3>7. outs = [i \in OutParams(sent.args) |-> outs[i]]
            BY <3>4 DEF outs
        <3>8. left'.result = result /\ left'.outs = outs /\ sent' = sent
            BY <1>5
        <3> QED
            BY <1>1, <2>5, <3>4, <3>6, <3>7, <3>8 DEF Answer
    <2>10. Handling' /\ Answering'
        <3>1. Clean' => Clean
            BY <1>5 DEF Clean
        <3> QED
            BY <1>5, <2>9, <3>1 DEF Handling, Answering
    <2> QED
        BY <1>5, <2>6, <2>7, <2>8, <2>10 DEF CodecInv, CallRoundTrip, ResultRoundTrip,
           ReaderAccepts
<1> QED
    BY <1>4, <1>5 DEF Reply

LEMMA NextKeeps == ASSUME CodecInv, [Next]_vars PROVE CodecInv'
<1>1. CASE UNCHANGED vars
    <2>1. Typed' /\ Sealed'
        BY <1>1 DEF vars, CodecInv, Typed, Sealed
    <2>2. Writing' /\ Handling' /\ Answering'
        BY <1>1 DEF vars, CodecInv, Writing, Handling, Answering, Call, Answer, Clean
    <2>3. CallRoundTrip' /\ ResultRoundTrip' /\ ReaderAccepts'
        BY <1>1 DEF vars, CodecInv, CallRoundTrip, ResultRoundTrip, ReaderAccepts, Clean
    <2> QED
        BY <2>1, <2>2, <2>3 DEF CodecInv
<1>2. CASE Next
    BY <1>2, BeginCallKeeps, WriteArgKeeps, WriteSizeKeeps, LoopbackKeeps, TransferKeeps,
       SendBackKeeps, ReadCallKeeps, ReplyKeeps, ReadResultKeeps DEF Next
<1> QED
    BY <1>1, <1>2

-----------------------------------------------------------------------------
(* Theorems. *)

\* The inductive invariant: what is in the packets is what was written, and it can be
\* read (Writer, Reader, Packet).
THEOREM CodecInvariant == Spec => []CodecInv
    BY InitInvariant, NextKeeps, PTL DEF Spec

\* Header and payload neither overlap nor leave the array, and what goes on the wire is
\* the one followed by the other (Packet, LBuffer, RBuffer, do_send).
THEOREM WindowsNeverOverlap == Spec => []PacketSound
<1>1. ASSUME CodecInv PROVE PacketSound
    <2>1. Open(tx) /\ tx \in Packets /\ Sound(tx) /\ rx \in Packets /\ Sound(rx)
        BY <1>1, OpenIsSound DEF CodecInv, Sealed
    <2>2. TypeOK
        BY <1>1, <2>1, SentFacts DEF CodecInv, Typed, TypeOK, Refusals
    <2>3. WireIsPacket
        BY <2>1, OnWireFacts DEF WireIsPacket, Payload
    <2> QED
        BY <2>1, <2>2, <2>3 DEF PacketSound, WindowsSound
<1> QED
    BY <1>1, CodecInvariant, PTL

\* The callee gets the name and the arguments that the caller passed (write_call,
\* read_call).
THEOREM CallsArrive == Spec => []CallRoundTrip
<1>1. CodecInv => CallRoundTrip
    BY DEF CodecInv
<1> QED
    BY <1>1, CodecInvariant, PTL

\* The caller gets the function's result and what it left in the pointers' targets
\* (write_result, read_result).
THEOREM ResultsArrive == Spec => []ResultRoundTrip
<1>1. CodecInv => ResultRoundTrip
    BY DEF CodecInv
<1> QED
    BY <1>1, CodecInvariant, PTL

\* No read fails on, or leaves, a payload the writer produced (access_read, read_type,
\* expect_type).
THEOREM NothingIsRefused == Spec => []ReaderAccepts
<1>1. CodecInv => ReaderAccepts
    BY DEF CodecInv
<1> QED
    BY <1>1, CodecInvariant, PTL

\* The parser of the log finds the values where the reader finds them (to_string,
\* format_value).
THEOREM LogFindsTheValues == Spec => []LoggingAgrees
<1>1. ASSUME CodecInv PROVE LoggingAgrees
    <2> DEFINE bs == Payload(rx)
    <2>1. ASSUME stage = "received", Clean
          PROVE  to_string(bs) = Offsets(bs, TypedValues(bs))[ArgumentsStart(bs)]
        BY <1>1, <2>1, CallArrives
    <2>2. ASSUME stage = "answered", Clean
          PROVE  to_string(bs) = Offsets(bs, TypedValues(bs))[1]
        BY <1>1, <2>2, ResultArrives
    <2> QED
        BY <2>1, <2>2 DEF LoggingAgrees, Payload
<1> QED
    BY <1>1, CodecInvariant, PTL
=============================================================================
