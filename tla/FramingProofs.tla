---------------------------- MODULE FramingProofs ----------------------------
(***************************************************************************)
(* Framing delivers exactly the packets that were sent, in order, for every*)
(* header, packet and buffer size and every way the kernel cuts the        *)
(* stream, until take_packet() finds no packet for excess bytes (`lost').  *)
(* After that the receive buffer is still never overrun and no byte is     *)
(* delivered twice.                                                        *)
(***************************************************************************)
EXTENDS Framing, TLAPS

D == Len(delivered)

\* Frames follow each other without gaps or overlaps, and each fits the buffer.
FramesSound ==
    /\ \A i \in 1..Len(ends) : /\ FrameStart(i) + HeaderSize <= ends[i]
                               /\ ends[i] <= FrameStart(i) + BufSize
    /\ \A i, j \in 1..Len(ends) : i < j => ends[i] + HeaderSize <= ends[j]

\* Bytes are received after they were written, and written after send() began.
Positions == base <= read /\ read <= written /\ written <= Total

IInv == /\ TypeOK
        /\ FramesSound
        /\ Positions
        /\ NeverOverrun
        /\ NoByteTwice
        /\ PrefixDelivery
        /\ Aligned
        /\ RoomToReceive

-----------------------------------------------------------------------------
LEMMA InitIInv == Init => IInv
<1> SUFFICES ASSUME Init PROVE IInv
  OBVIOUS
<1> USE FramingAssumption DEF Init
<1>1. Len(ends) = 0 /\ Len(delivered) = 0
  OBVIOUS
<1>2. TypeOK
  <2>1. <<>> \in Seq(Nat) /\ <<>> \in Seq(Nat \X Nat)
    OBVIOUS
  <2> QED BY <2>1 DEF TypeOK
<1>3. FramesSound /\ PrefixDelivery /\ Aligned /\ NoByteTwice
  BY <1>1 DEF FramesSound, PrefixDelivery, Aligned, KeepsExcess, NoByteTwice
<1>4. Positions /\ RoomToReceive /\ NeverOverrun
  BY DEF Positions, RoomToReceive, NeverOverrun, Total, RxSize
<1> QED BY <1>2, <1>3, <1>4 DEF IInv

\* No frame reaches beyond the last byte sent.
LEMMA EndsBelowTotal ==
    ASSUME TypeOK, FramesSound
    PROVE  Total \in Nat /\ \A i \in 1..Len(ends) : ends[i] \in Nat /\ ends[i] <= Total
<1>1. \A i \in 1..Len(ends) : ends[i] \in Nat
  BY DEF TypeOK
<1>2. CASE ends = <<>>
  BY <1>2 DEF Total
<1>3. CASE ends # <<>>
  <2>1. Len(ends) \in 1..Len(ends) /\ Total = ends[Len(ends)]
    BY <1>3 DEF TypeOK, Total
  <2>2. ASSUME NEW i \in 1..Len(ends) PROVE ends[i] <= Total
    <3>1. i = Len(ends) \/ i < Len(ends)
      BY DEF TypeOK
    <3> QED BY <3>1, <2>1, <1>1, FramingAssumption DEF FramesSound
  <2> QED BY <1>1, <2>1, <2>2
<1> QED BY <1>2, <1>3

\* While the channel is open, the next undelivered frame is the only one that
\* starts at base, so determine_packet_size reads its size.
LEMMA NextFrame ==
    ASSUME IInv, ~lost, rstate = "open", D < Len(ends)
    PROVE  /\ D + 1 \in 1..Len(ends)
           /\ FrameStart(D + 1) = base
           /\ FrameSizes(base) = {ends[D + 1] - base}
           /\ ends[D + 1] \in Nat
           /\ base + HeaderSize <= ends[D + 1]
           /\ ends[D + 1] <= base + BufSize
<1> USE DEF D
<1>1. D \in Nat /\ D + 1 \in 1..Len(ends)
  BY DEF IInv, TypeOK
<1>2. \A i \in 1..Len(ends) : ends[i] \in Nat
  BY DEF IInv, TypeOK
<1>3. FrameStart(D + 1) = base
  <2>1. CASE D = 0
    BY <2>1 DEF IInv, TypeOK, Aligned, KeepsExcess, FrameStart
  <2>2. CASE D # 0
    <3>1. delivered # <<>> /\ D \in 1..Len(delivered)
      BY <2>2, <1>1
    <3>2. delivered[D] = <<FrameStart(D), ends[D]>>
      BY <3>1 DEF IInv, PrefixDelivery
    <3>3. base = ends[D]
      BY <3>1, <3>2 DEF IInv, Aligned, KeepsExcess
    <3> QED BY <3>3, <2>2, <1>1 DEF FrameStart
  <2> QED BY <2>1, <2>2
<1>4. ASSUME NEW i \in 1..Len(ends), FrameStart(i) = base PROVE i = D + 1
  <2>1. CASE i < D + 1
    <3>1. D \in 1..Len(ends) /\ base = ends[D]
      BY <1>1, <1>3, <2>1 DEF FrameStart
    <3>2. i = 1 => base = 0
      BY <1>4 DEF FrameStart
    <3>3. i # 1 => i - 1 \in 1..Len(ends) /\ base = ends[i - 1]
      BY <1>4 DEF FrameStart
    <3>4. ends[D] >= HeaderSize
      <4>1. FrameStart(D) \in Nat
        <5>1. D = 1 \/ D - 1 \in 1..Len(ends)
          BY <3>1
        <5> QED BY <5>1, <1>2 DEF FrameStart
      <4>2. FrameStart(D) + HeaderSize <= ends[D]
        BY <3>1 DEF IInv, FramesSound
      <4> QED BY <4>1, <4>2, <3>1, <1>2, FramingAssumption
    <3>5. CASE i = 1
      BY <3>1, <3>2, <3>4, <3>5, FramingAssumption
    <3>6. CASE i # 1
      <4>1. i - 1 \in 1..Len(ends) /\ i - 1 < D /\ ends[i - 1] = ends[D]
        BY <3>1, <3>3, <3>6, <2>1, <1>1
      <4>2. ends[i - 1] + HeaderSize <= ends[D]
        BY <4>1, <3>1 DEF IInv, FramesSound
      <4> QED BY <4>1, <4>2, <3>1, <1>2, FramingAssumption
    <3> QED BY <3>5, <3>6
  <2>2. CASE i > D + 1
    <3>1. i - 1 \in 1..Len(ends) /\ base = ends[i - 1] /\ i - 1 >= D + 1
      BY <1>4, <2>2, <1>1 DEF FrameStart
    <3>2. base + HeaderSize <= ends[D + 1]
      BY <1>1, <1>3, <1>2 DEF IInv, FramesSound
    <3>3. ends[D + 1] <= ends[i - 1]
      BY <3>1, <1>1, <1>2, FramingAssumption DEF IInv, FramesSound
    <3> QED BY <3>1, <3>2, <3>3, <1>1, <1>2, FramingAssumption
  <2> QED BY <2>1, <2>2, <1>1
<1>5. {i \in 1..Len(ends) : FrameStart(i) = base} = {D + 1}
  BY <1>1, <1>3, <1>4
<1>6. FrameSizes(base) = {ends[D + 1] - base}
  BY <1>5 DEF FrameSizes
<1> QED BY <1>1, <1>2, <1>3, <1>6 DEF IInv, FramesSound

\* When every frame has been delivered the receive packet is empty and nothing
\* is left to read.
LEMMA AllDelivered ==
    ASSUME IInv, ~lost, rstate = "open", ~(D < Len(ends))
    PROVE  base = Total /\ read = base /\ written = base
<1>1. D = Len(ends) /\ D \in Nat
  BY DEF IInv, TypeOK, PrefixDelivery, D
<1>2. base = Total
  <2>1. CASE D = 0
    BY <2>1, <1>1 DEF IInv, TypeOK, Aligned, KeepsExcess, Total, D
  <2>2. CASE D # 0
    <3>1. delivered # <<>> /\ ends # <<>> /\ D \in 1..Len(delivered)
      BY <2>2, <1>1 DEF D
    <3>2. delivered[D] = <<FrameStart(D), ends[D]>>
      BY <3>1 DEF IInv, PrefixDelivery
    <3> QED BY <3>1, <3>2, <1>1 DEF IInv, Aligned, KeepsExcess, Total, D
  <2> QED BY <2>1, <2>2
<1> QED BY <1>2, EndsBelowTotal DEF IInv, Positions, TypeOK

\* A complete first frame is the next undelivered one.
LEMMA CompleteIsNext ==
    ASSUME IInv, ~lost, NEW k \in Nat, NEW f \in Nat,
           Received(k), f \in FrameSizes(base), IsComplete(f, RxSize + k)
    PROVE  D < Len(ends) /\ f = ends[D + 1] - base /\ base + f = ends[D + 1]
<1>1. rstate = "open" /\ k <= Readable
  BY DEF Received
<1>2. D < Len(ends)
  <2> SUFFICES ASSUME ~(D < Len(ends)) PROVE FALSE
    OBVIOUS
  <2>1. read = base /\ written = read
    BY <1>1, AllDelivered
  <2>2. RxSize + k = 0
    BY <1>1, <2>1 DEF RxSize, Readable, IInv, TypeOK
  <2> QED BY <2>2, FramingAssumption DEF IsComplete
<1>3. FrameSizes(base) = {ends[D + 1] - base} /\ ends[D + 1] \in Nat
  BY <1>1, <1>2, NextFrame
<1>4. f = ends[D + 1] - base /\ base \in Nat
  BY <1>3 DEF IInv, TypeOK
<1> QED BY <1>2, <1>3, <1>4

\* What Append does to a sequence.
LEMMA AppendFacts ==
    ASSUME NEW S, NEW s \in Seq(S), NEW e \in S
    PROVE  /\ Append(s, e) \in Seq(S)
           /\ Len(Append(s, e)) = Len(s) + 1
           /\ Append(s, e) # <<>>
           /\ Append(s, e)[Len(s) + 1] = e
           /\ \A i \in 1..Len(s) : Append(s, e)[i] = s[i]
OBVIOUS

\* Delivering the first frame keeps the handler's view a prefix of what was sent.
LEMMA DeliverNext ==
    ASSUME IInv, ~lost, rstate = "open", D < Len(ends), NEW f \in Nat,
           base + f = ends[D + 1], Deliver(f), ends' = ends
    PROVE  /\ PrefixDelivery'
           /\ delivered' \in Seq(Nat \X Nat) /\ delivered' # <<>>
           /\ delivered'[Len(delivered')][2] = base + f
<1>1. base \in Nat /\ <<base, base + f>> \in Nat \X Nat /\ delivered \in Seq(Nat \X Nat)
  BY DEF IInv, TypeOK
<1>2. delivered' = Append(delivered, <<base, base + f>>)
  BY DEF Deliver
<1>3. /\ delivered' \in Seq(Nat \X Nat) /\ Len(delivered') = D + 1 /\ delivered' # <<>>
      /\ delivered'[D + 1] = <<base, base + f>>
      /\ \A i \in 1..D : delivered'[i] = delivered[i]
  BY <1>1, <1>2, AppendFacts DEF D
<1>4. FrameStart(D + 1) = base
  BY NextFrame
<1>5. PrefixDelivery'
  <2>1. Len(delivered') <= Len(ends)
    BY <1>3 DEF D, IInv, TypeOK
  <2>2. ASSUME NEW i \in 1..(D + 1)
        PROVE  delivered'[i] = <<FrameStart(i), ends[i]>>
    <3>1. CASE i = D + 1
      BY <3>1, <1>3, <1>4
    <3>2. CASE i # D + 1
      <4>1. i \in 1..D
        BY <3>2 DEF D, IInv, TypeOK
      <4> QED BY <4>1, <1>3 DEF IInv, PrefixDelivery, D
    <3> QED BY <3>1, <3>2
  <2> QED BY <2>1, <2>2, <1>3 DEF PrefixDelivery, FrameStart
<1> QED BY <1>3, <1>5

-----------------------------------------------------------------------------
\* send() appends one frame behind all others.
LEMMA StepSendStart ==
    ASSUME IInv, NEW n \in Payloads, SendStart(n) PROVE IInv'
<1>0. PICK l \in Nat : l = Len(ends)
  BY DEF IInv, TypeOK
<1>e. PICK e : e = Total + HeaderSize + n
  OBVIOUS
<1>1. Total \in Nat /\ \A i \in 1..Len(ends) : ends[i] \in Nat /\ ends[i] <= Total
  BY EndsBelowTotal DEF IInv
<1>2. e \in Nat /\ Total + HeaderSize <= e /\ e <= Total + BufSize /\ l \in Nat
  BY <1>0, <1>e, <1>1, FramingAssumption DEF IInv, TypeOK
<1>3. ends' = Append(ends, e) /\ ends \in Seq(Nat)
  BY <1>e DEF SendStart, IInv, TypeOK
<1>4. /\ ends' \in Seq(Nat) /\ Len(ends') = l + 1 /\ ends' # <<>>
      /\ ends'[l + 1] = e
      /\ \A i \in 1..l : ends'[i] = ends[i]
  BY <1>0, <1>2, <1>3, AppendFacts
<1>5. TypeOK'
  BY <1>4 DEF IInv, TypeOK, SendStart, receiverVars
<1>6. Total' = e
  BY <1>2, <1>4 DEF Total
<1>7. \A i \in 1..l : (FrameStart(i))' = FrameStart(i)
  BY <1>2, <1>4 DEF FrameStart
<1>8. (FrameStart(l + 1))' = Total
  <2>1. CASE l = 0
    <3>1. ends = <<>> /\ l + 1 = 1
      BY <2>1, <1>0, <1>3
    <3>2. (FrameStart(l + 1))' = 0
      BY <3>1 DEF FrameStart
    <3> QED BY <3>1, <3>2 DEF Total
  <2>2. CASE l # 0
    <3>1. l \in 1..l /\ (l + 1) - 1 = l /\ l + 1 # 1
      BY <2>2, <1>2
    <3>2. (FrameStart(l + 1))' = ends'[l]
      BY <3>1 DEF FrameStart
    <3>3. ends # <<>>
      BY <2>2, <1>0, <1>3
    <3> QED BY <3>1, <3>2, <3>3, <1>0, <1>4 DEF Total
  <2> QED BY <2>1, <2>2
<1>9. FramesSound'
  <2>1. ASSUME NEW i \in 1..(l + 1)
        PROVE  /\ (FrameStart(i))' + HeaderSize <= ends'[i]
               /\ ends'[i] <= (FrameStart(i))' + BufSize
    <3>1. CASE i = l + 1
      BY <3>1, <1>2, <1>4, <1>8
    <3>2. CASE i # l + 1
      <4>1. i \in 1..l
        BY <3>2, <1>2
      <4>2. ends'[i] = ends[i] /\ (FrameStart(i))' = FrameStart(i)
        BY <4>1, <1>4, <1>7
      <4>3. FrameStart(i) + HeaderSize <= ends[i] /\ ends[i] <= FrameStart(i) + BufSize
        BY <4>1, <1>0 DEF IInv, FramesSound
      <4> QED BY <4>2, <4>3
    <3> QED BY <3>1, <3>2
  <2>2. ASSUME NEW i \in 1..(l + 1), NEW j \in 1..(l + 1), i < j
        PROVE  ends'[i] + HeaderSize <= ends'[j]
    <3>1. i \in 1..l
      BY <2>2, <1>2
    <3>2. CASE j = l + 1
      BY <3>1, <3>2, <1>0, <1>1, <1>2, <1>4, FramingAssumption
    <3>3. CASE j # l + 1
      <4>1. j \in 1..l
        BY <3>3, <1>2
      <4> QED BY <2>2, <3>1, <4>1, <1>0, <1>4 DEF IInv, FramesSound
    <3> QED BY <3>2, <3>3
  <2> QED BY <2>1, <2>2, <1>4 DEF FramesSound
<1>10. Positions'
  BY <1>1, <1>2, <1>6, FramingAssumption
     DEF IInv, TypeOK, Positions, SendStart, receiverVars
<1>11. PrefixDelivery'
  <2> SUFFICES ASSUME ~lost PROVE PrefixDelivery'
    BY DEF PrefixDelivery, SendStart, receiverVars
  <2>1. delivered' = delivered
    BY DEF SendStart, receiverVars
  <2>2. Len(delivered) <= l /\ Len(delivered) \in Nat
    BY <1>0 DEF IInv, TypeOK, PrefixDelivery
  <2>3. ASSUME NEW i \in 1..Len(delivered)
        PROVE  delivered'[i] = <<(FrameStart(i))', ends'[i]>>
    <3>1. i \in 1..l
      BY <1>2, <2>2
    <3> QED BY <3>1, <2>1, <1>4, <1>7 DEF IInv, PrefixDelivery
  <2> QED BY <1>2, <1>4, <2>1, <2>2, <2>3 DEF PrefixDelivery
<1>12. Aligned' /\ RoomToReceive' /\ NeverOverrun' /\ NoByteTwice'
  BY DEF IInv, Aligned, KeepsExcess, RoomToReceive, NeverOverrun, NoByteTwice, RxSize,
         SendStart, receiverVars
<1> QED BY <1>5, <1>9, <1>10, <1>11, <1>12 DEF IInv

\* Facts about ends, base and delivered survive a step that keeps them.
LEMMA KeepFrames ==
    ASSUME IInv, UNCHANGED <<ends, base, delivered, rstate, lost>>
    PROVE  /\ FramesSound' /\ PrefixDelivery' /\ Aligned' /\ NoByteTwice'
           /\ Total' = Total
BY DEF IInv, FramesSound, PrefixDelivery, Aligned, KeepsExcess, NoByteTwice, FrameStart,
       Total

\* The other steps of the sender move only `written' and the flags.
LEMMA StepSender ==
    ASSUME IInv,
           \/ \E k \in 1..SockBuf : SendSome(k)
           \/ SendWouldBlock \/ SendReady \/ SendFail \/ SenderClose \/ ReceiverClose
    PROVE  IInv'
<1>1. UNCHANGED <<ends, read, base, hasRx, rstate, delivered, lost>>
  BY DEF SendSome, SendWouldBlock, SendReady, SendFail, SenderClose, ReceiverClose,
         senderVars, receiverVars
<1>2. Total \in Nat
  BY EndsBelowTotal DEF IInv
<1>3. /\ written' \in Nat /\ read <= written' /\ written' <= Total
      /\ spc' \in {"idle", "sending", "waiting", "broken"}
      /\ sendShut' \in BOOLEAN /\ recvShut' \in BOOLEAN
  <2>1. ASSUME NEW k \in 1..SockBuf, SendSome(k)
        PROVE  /\ written' \in Nat /\ read <= written' /\ written' <= Total
               /\ spc' \in {"idle", "sending", "waiting", "broken"}
               /\ sendShut' \in BOOLEAN /\ recvShut' \in BOOLEAN
    BY <2>1, <1>2, FramingAssumption
       DEF SendSome, IInv, TypeOK, Positions, receiverVars
  <2>2. CASE SendWouldBlock \/ SendReady \/ SendFail \/ SenderClose \/ ReceiverClose
    BY <2>2, <1>2 DEF IInv, TypeOK, Positions, SendWouldBlock, SendReady, SendFail,
         SenderClose, ReceiverClose, senderVars, receiverVars
  <2> QED BY <2>1, <2>2
<1>4. /\ FramesSound' /\ PrefixDelivery' /\ Aligned' /\ NoByteTwice'
      /\ Total' = Total
  BY <1>1, KeepFrames
<1>5. TypeOK'
  BY <1>1, <1>3 DEF IInv, TypeOK
<1>6. Positions' /\ RoomToReceive' /\ NeverOverrun'
  BY <1>1, <1>3, <1>4 DEF IInv, Positions, RoomToReceive, NeverOverrun, RxSize
<1> QED BY <1>4, <1>5, <1>6 DEF IInv

\* An incomplete packet leaves room for the rest of it.
LEMMA StepReceivePart ==
    ASSUME IInv, NEW k \in Nat, ReceivePart(k) PROVE IInv'
<1>1. /\ rstate = "open" /\ k <= Readable /\ k <= Room /\ read' = read + k
      /\ hasRx' = TRUE
      /\ UNCHANGED <<ends, written, spc, sendShut, recvShut, base, rstate, delivered, lost>>
  BY DEF ReceivePart, Received, senderVars
<1>2. read \in Nat /\ written \in Nat /\ base \in Nat /\ base <= read
  BY DEF IInv, TypeOK, Positions
<1>3. /\ FramesSound' /\ PrefixDelivery' /\ Aligned' /\ NoByteTwice'
      /\ Total' = Total
  BY <1>1, KeepFrames
<1>4. TypeOK'
  BY <1>1, <1>2 DEF IInv, TypeOK
<1>5. Positions' /\ NeverOverrun'
  BY <1>1, <1>2, <1>3, FramingAssumption
     DEF IInv, Positions, Readable, NeverOverrun, RxSize, Room
<1>6. ASSUME ~lost PROVE RxSize + k < BufSize
  <2>1. CASE D < Len(ends)
    <3>1. PICK f \in FrameSizes(base) : ~IsComplete(f, RxSize + k)
      BY DEF ReceivePart
    <3>2. f = ends[D + 1] - base /\ ends[D + 1] \in Nat /\ f <= BufSize
      BY <3>1, <2>1, <1>1, <1>2, <1>6, NextFrame, FramingAssumption
    <3>3. ends[D + 1] - base >= HeaderSize /\ f \in Nat
      BY <3>2, <2>1, <1>1, <1>2, <1>6, NextFrame, FramingAssumption
    <3>4. RxSize + k < HeaderSize \/ RxSize + k < f
      BY <3>1, <3>2, <3>3, <1>1, <1>2, FramingAssumption DEF IsComplete, RxSize
    <3> QED BY <3>2, <3>3, <3>4, <1>1, <1>2, FramingAssumption DEF RxSize
  <2>2. CASE ~(D < Len(ends))
    <3>1. read = base /\ written = base
      BY <2>2, <1>1, <1>6, AllDelivered
    <3>2. RxSize + k = 0
      BY <3>1, <1>1, <1>2 DEF RxSize, Readable
    <3> QED BY <3>2, FramingAssumption
  <2> QED BY <2>1, <2>2
<1>7. RoomToReceive'
  BY <1>1, <1>2, <1>6 DEF RoomToReceive, RxSize
<1> QED BY <1>3, <1>4, <1>5, <1>7 DEF IInv

\* determine_packet_size never yields a packet smaller than a header.
LEMMA FrameNotEmpty ==
    ASSUME IInv, NEW f \in Nat, f \in FrameSizes(base) PROVE f > 0
<1> DEFINE S == {i \in 1..Len(ends) : FrameStart(i) = base}
<1>1. CASE S # {}
  <2>1. PICK i \in S : f = ends[i] - base
    BY <1>1 DEF FrameSizes
  <2>2. base + HeaderSize <= ends[i] /\ ends[i] \in Nat /\ base \in Nat
    BY <2>1 DEF IInv, FramesSound, TypeOK
  <2> QED BY <2>1, <2>2, FramingAssumption
<1>2. CASE S = {}
  <2>1. f \in HeaderSize..(BufSize + 1)
    BY <1>2 DEF FrameSizes
  <2> QED BY <2>1, FramingAssumption
<1> QED BY <1>1, <1>2

\* A complete packet is delivered; what follows it stays, and is less than a
\* full buffer because the header alone took some of it.
LEMMA StepReceiveComplete ==
    ASSUME IInv, NEW k \in Nat, NEW f \in Nat,
           Received(k), f \in FrameSizes(base), IsComplete(f, RxSize + k),
           Deliver(f), base' = base + f, hasRx' \in BOOLEAN,
           UNCHANGED <<senderVars, recvShut, rstate, lost>>
    PROVE  IInv'
<1>1. /\ rstate = "open" /\ k <= Readable /\ k <= Room /\ read' = read + k
      /\ UNCHANGED <<ends, written, spc, sendShut, recvShut, rstate, lost>>
  BY DEF Received, senderVars
<1>2. /\ read \in Nat /\ written \in Nat /\ base \in Nat /\ base <= read
      /\ Total \in Nat /\ f > 0 /\ delivered \in Seq(Nat \X Nat)
  BY EndsBelowTotal, FrameNotEmpty DEF IInv, TypeOK, Positions
<1>3. ASSUME ~lost
      PROVE  /\ D < Len(ends) /\ base + f = ends[D + 1] /\ ends[D + 1] \in Nat
             /\ HeaderSize <= f
  <2>1. D < Len(ends) /\ base + f = ends[D + 1]
    BY <1>3, CompleteIsNext
  <2> QED BY <2>1, <1>1, <1>2, <1>3, NextFrame, FramingAssumption
<1>4. <<base, base + f>> \in Nat \X Nat /\ delivered' = Append(delivered, <<base, base + f>>)
  BY <1>2 DEF Deliver
<1>5. /\ delivered' \in Seq(Nat \X Nat) /\ Len(delivered') = D + 1 /\ delivered' # <<>>
      /\ delivered'[D + 1] = <<base, base + f>> /\ D \in Nat
      /\ \A i \in 1..D : delivered'[i] = delivered[i]
  BY <1>2, <1>4, AppendFacts DEF D
<1>6. TypeOK'
  BY <1>1, <1>2, <1>5 DEF IInv, TypeOK
<1>7. FramesSound' /\ Total' = Total
  BY <1>1 DEF IInv, FramesSound, FrameStart, Total
<1>8. f <= RxSize + k /\ f <= (read - base) + k
  BY DEF IsComplete, RxSize
<1>9. Positions' /\ NeverOverrun'
  BY <1>1, <1>2, <1>7, <1>8, FramingAssumption
     DEF IInv, Positions, Readable, NeverOverrun, RxSize, Room
<1>10. NoByteTwice'
  <2>1. ASSUME NEW i \in 1..(D + 1)
        PROVE  /\ delivered'[i][1] < delivered'[i][2]
               /\ i > 1 => delivered'[i - 1][2] <= delivered'[i][1]
    <3>1. CASE i = D + 1
      <4>1. CASE D = 0
        BY <3>1, <4>1, <1>2, <1>5
      <4>2. CASE D # 0
        <5>1. delivered # <<>> /\ D \in 1..D /\ i - 1 = D
          BY <3>1, <4>2, <1>5 DEF D
        <5>2. delivered[D][2] <= base
          BY <5>1 DEF IInv, NoByteTwice, D
        <5> QED BY <5>1, <5>2, <3>1, <1>2, <1>5
      <4> QED BY <4>1, <4>2
    <3>2. CASE i # D + 1
      <4>1. i \in 1..D /\ (i > 1 => i - 1 \in 1..D)
        BY <3>2, <1>5
      <4>2. /\ delivered[i][1] < delivered[i][2]
            /\ i > 1 => delivered[i - 1][2] <= delivered[i][1]
        BY <4>1 DEF IInv, NoByteTwice, D
      <4> QED BY <4>1, <4>2, <1>5
    <3> QED BY <3>1, <3>2
  <2>2. delivered'[Len(delivered')][2] = base + f
    BY <1>5
  <2> QED BY <2>1, <2>2, <1>2, <1>5 DEF NoByteTwice
<1>11. PrefixDelivery' /\ Aligned'
  <2>1. KeepsExcess'
    BY <1>5 DEF KeepsExcess
  <2>2. CASE lost
    BY <2>2, <1>1 DEF PrefixDelivery, Aligned
  <2>3. CASE ~lost
    BY <2>1, <2>3, <1>1, <1>3, DeliverNext DEF Aligned
  <2> QED BY <2>2, <2>3
<1>12. RoomToReceive'
  BY <1>1, <1>2, <1>3, <1>8, FramingAssumption DEF RoomToReceive, RxSize, Room
<1> QED BY <1>6, <1>7, <1>9, <1>10, <1>11, <1>12 DEF IInv

\* When the pool has run out the packet and the excess are gone, but what was
\* delivered lies before what comes next.
LEMMA StepExcessThrows ==
    ASSUME IInv, NEW k \in Nat, ReceiveExcessThrows(k) PROVE IInv'
<1>1. /\ k <= Readable /\ read' = read + k /\ base' = read'
      /\ hasRx' \in BOOLEAN /\ lost' \in BOOLEAN
      /\ UNCHANGED <<ends, written, spc, sendShut, recvShut, rstate, delivered>>
  BY DEF ReceiveExcessThrows, Received, senderVars
<1>2. read \in Nat /\ written \in Nat /\ base \in Nat /\ base <= read
  BY DEF IInv, TypeOK, Positions
<1>3. TypeOK' /\ FramesSound' /\ Total' = Total
  <2>1. TypeOK'
    BY <1>1, <1>2 DEF IInv, TypeOK
  <2>2. FramesSound' /\ Total' = Total
    <3>1. FramesSound /\ ends' = ends
      BY <1>1 DEF IInv
    <3> QED BY <3>1 DEF FramesSound, FrameStart, Total
  <2> QED BY <2>1, <2>2
<1>4. Positions' /\ NeverOverrun'
  BY <1>1, <1>2, <1>3, FramingAssumption
     DEF IInv, Positions, Readable, NeverOverrun, RxSize
<1>5. NoByteTwice'
  <2>1. ASSUME delivered # <<>> PROVE delivered[Len(delivered)][2] \in Nat
    BY <2>1 DEF IInv, TypeOK
  <2> QED BY <2>1, <1>1, <1>2 DEF IInv, NoByteTwice
<1>6. lost'
  BY DEF ReceiveExcessThrows
<1> QED BY <1>6, <1>3, <1>4, <1>5 DEF IInv, PrefixDelivery, Aligned, RoomToReceive

\* Every chunk the thread receives keeps the invariant.
LEMMA StepChunk ==
    ASSUME IInv, NEW k \in Nat, Chunk(k) PROVE IInv'
<1>0. read \in Nat /\ base \in Nat /\ base <= read
  BY DEF IInv, TypeOK, Positions
<1>1. CASE ReceivePart(k)
  BY <1>1, StepReceivePart
<1>2. CASE ReceiveExact(k)
  <2> DEFINE f == RxSize + k
  <2>1. f \in Nat /\ Received(k) /\ f \in FrameSizes(base) /\ IsComplete(f, RxSize + k)
    BY <1>0, <1>2 DEF ReceiveExact, RxSize
  <2>2. Deliver(f) /\ hasRx' \in BOOLEAN /\ UNCHANGED <<senderVars, recvShut, rstate, lost>>
    BY <1>2 DEF ReceiveExact
  <2>3. base' = base + f
    BY <1>0, <1>2 DEF ReceiveExact, Received, RxSize
  <2> HIDE DEF f
  <2> QED BY <2>1, <2>2, <2>3, StepReceiveComplete
<1>3. ASSUME NEW f \in 1..(BufSize + 1), ReceiveExcess(k, f) PROVE IInv'
  <2>1. f \in Nat
    BY FramingAssumption
  <2> QED BY <1>3, <2>1, StepReceiveComplete DEF ReceiveExcess
<1>4. CASE ReceiveExcessThrows(k)
  BY <1>4, StepExcessThrows
<1> QED BY <1>1, <1>2, <1>3, <1>4 DEF Chunk

\* A closed channel promises nothing about its buffer.
LEMMA StepReceiveEof == ASSUME IInv, ReceiveEof PROVE IInv'
<1>1. /\ UNCHANGED <<ends, written, spc, sendShut, recvShut, read, delivered, lost>>
      /\ base' = read /\ hasRx' \in BOOLEAN /\ rstate' = "closed"
  BY DEF ReceiveEof, senderVars
<1>2. read \in Nat /\ base \in Nat /\ base <= read
  BY DEF IInv, TypeOK, Positions
<1>3. NoByteTwice'
  <2>1. ASSUME delivered # <<>> PROVE delivered[Len(delivered)][2] \in Nat
    BY <2>1 DEF IInv, TypeOK
  <2> QED BY <2>1, <1>1, <1>2 DEF IInv, NoByteTwice
<1> QED BY <1>1, <1>2, <1>3, FramingAssumption
        DEF IInv, TypeOK, FramesSound, Positions, PrefixDelivery, Aligned, KeepsExcess,
            RoomToReceive, NeverOverrun, RxSize, FrameStart, Total

LEMMA StepIInv == IInv /\ [Next]_vars => IInv'
<1> SUFFICES ASSUME IInv, [Next]_vars PROVE IInv'
  OBVIOUS
<1>1. CASE UNCHANGED vars
  BY <1>1 DEF vars, IInv, TypeOK, FramesSound, Positions, PrefixDelivery, Aligned, KeepsExcess,
              RoomToReceive, NeverOverrun, NoByteTwice, FrameStart, Total, RxSize
<1>2. ASSUME NEW n \in Payloads, SendStart(n) PROVE IInv'
  BY <1>2, StepSendStart
<1>3. CASE Send \/ SenderClose \/ ReceiverClose
  BY <1>3, StepSender DEF Send
<1>4. CASE Receive
  BY <1>4, StepReceiveEof, StepChunk, FramingAssumption DEF Receive
<1>5. CASE ReceiveSpurious
  BY <1>5, StepChunk DEF ReceiveSpurious
<1> QED BY <1>1, <1>2, <1>3, <1>4, <1>5 DEF Next

-----------------------------------------------------------------------------
\* The framing invariant holds in every reachable state.
THEOREM FramingInvariant == Spec => []IInv
<1> QED BY InitIInv, StepIInv, PTL DEF Spec

\* Positions, states and histories keep their types (Framing's variables).
THEOREM FramingTyped == Spec => []TypeOK
<1>1. IInv => TypeOK
  BY DEF IInv
<1> QED BY <1>1, FramingInvariant, PTL

\* The handler sees exactly the sent packets, in order and whole, and excess bytes
\* become the start of the next packet as long as the pool lasts; what is delivered
\* never overlaps, even after packets were lost to an exhausted pool
\* (TcpChannel::receive_chunk, Channel::determine_packet_size).
THEOREM InOrderDelivery == Spec => []Delivery
<1>1. IInv => Delivery
  BY DEF IInv, Delivery
<1> QED BY <1>1, FramingInvariant, PTL

\* recv() is never called with a full buffer, whose result 0 would be taken for the
\* peer's shutdown, and never writes beyond it, whatever the bytes of the header
\* say (tcp-channel.cpp, receive_chunk).
THEOREM BufferBound == Spec => []BufferSound
<1>1. IInv => BufferSound
  BY DEF IInv, BufferSound
<1> QED BY <1>1, FramingInvariant, PTL
=============================================================================
