-------------------------------- MODULE Codec --------------------------------
(***************************************************************************)
(* How a call and its result are written into a packet and read back:      *)
(* Writer and BinaryWriter (src/src/l1_transport/writer.cpp, writer.h),    *)
(* Reader and BinaryReader (reader.cpp, reader.h), the type ids and        *)
(* TypedValue (src/src/l0_system/types.h), in the packet of module Packet. *)
(*                                                                         *)
(* A value is a type id and its bytes, the least significant first; the    *)
(* bytes of a string are its characters, those of a pointer what it points *)
(* to.  The packet either stays in the process, as RemoteEndpoint does it, *)
(* or goes through a TCP channel, which prefixes a header and drops it.    *)
(***************************************************************************)
EXTENDS Packet, FiniteSetsExt

CONSTANTS
    Names,        \* function names, as sequences of characters
    Args,         \* values that callers pass
    Results,      \* values that functions return
    ArraySizes,   \* sizes that callers pass as arraysize_t
    MaxArgs,      \* bound on the arguments of a call
    MaxSends      \* bound on the times one packet is sent

VARIABLES
    stage,   \* "idle", "writing", "received", "called", "replied", "answered",
             \* "returned" or "failed"
    tx, rx,  \* the packet being written and the packet being read
    framed,  \* how often a header was written into tx
    sized,   \* m_has_arraysize
    count,   \* m_arraysize
    sent,    \* history: the name, the arguments and their element counts, and how
             \* often the call was framed
    got,     \* what read_call found: the name and the arguments
    left,    \* history: the result and the pointers' targets the callee left
    ret,     \* what read_result gave the caller
    err      \* why stage is "failed"

vars == <<stage, tx, rx, framed, sized, count, sent, got, left, ret, err>>

-----------------------------------------------------------------------------
(* Types. *)

TypeId == [null |-> 0, uint8 |-> 1, uint16 |-> 2, uint32 |-> 3, uint64 |-> 4,
           int8 |-> 5, int16 |-> 6, int32 |-> 7, int64 |-> 8, void |-> 9,
           any |-> 10, bool |-> 11, cstr |-> 12, double |-> 13, error |-> 14,
           float |-> 15]

modifier_ptr == 160
Ptr(id) == id + modifier_ptr

\* Both bits of the modifier are set.
is_ptr_type(id) == (id \div 128) % 2 = 1 /\ (id \div 32) % 2 = 1

get_type_size(id) ==
    CASE id \in {1, 5, 11} -> 1
      [] id \in {2, 6}     -> 2
      [] id \in {3, 7, 15} -> 4
      [] id \in {4, 8, 13} -> 8
      [] OTHER             -> 0

Floats == {TypeId.float, TypeId.double}
Scalars == (TypeId.uint8)..(TypeId.int64) \cup Floats
Pointers == {Ptr(id) : id \in Scalars \cup {TypeId.bool}}

\* The ids for which TypeInfo<T> is specialised: what a program can pass.
TypeInfo == Scalars \cup Pointers \cup {TypeId.void, TypeId.bool, TypeId.cstr}

Value(id, bs) == [type |-> id, bytes |-> bs]

\* A string ends with the first NUL, so it has none.
Strings == Seq(1..255)

\* The values of these types and of a type that is void or null.  A pointer leads to
\* one element at least.
Values ==
    {v \in [type : TypeInfo \cup {TypeId.null}, bytes : Seq(Byte)] :
        /\ v.type \in Scalars => Len(v.bytes) = get_type_size(v.type)
        /\ v.type \in Pointers => Len(v.bytes) >= get_type_size(v.type - modifier_ptr)
        /\ v.type = TypeId.bool => v.bytes \in {<<0>>, <<1>>}
        /\ v.type = TypeId.cstr => v.bytes \in Strings
        /\ v.type \in {TypeId.void, TypeId.null} => v.bytes = <<>>}

\* The length of a packet fits into a uint32_t.
ASSUME CodecAssumption ==
    /\ Names \subseteq Strings /\ Args \subseteq Values /\ Results \subseteq Values
    /\ ArraySizes \subseteq Nat /\ MaxArgs \in Nat /\ MaxSends \in Nat
    /\ BufSize \div 65536 < 65536

-----------------------------------------------------------------------------
(* Writing. *)

packet_call == 62      \* PacketType
packet_result == 60

HeaderSize == 4        \* sizeof(uint32_t), the framing header

\* sys::set_le and get_le: a number as n bytes, the least significant first.
set_le(x, n) ==
    LET rest[i \in 0..n] == IF i = 0 THEN x ELSE rest[i - 1] \div 256
    IN  [i \in 1..n |-> rest[i - 1] % 256]

get_le(bs) ==
    LET from[i \in 0..Len(bs)] ==
            IF i = Len(bs) THEN 0 ELSE bs[i + 1] + 256 * from[i + 1]
    IN  from[0]

\* `!value': the sign alone does not make a float different from zero.
IsZero(id, bs) ==
    \A i \in DOMAIN bs : bs[i] = 0 \/ (id \in Floats /\ i = Len(bs) /\ bs[i] = 128)

Cleared(bs, k) == [i \in DOMAIN bs |-> IF i <= k THEN 0 ELSE bs[i]]

\* Mutation of WireSize: the loop ends one byte before the last.
WireSize_Short(v) ==
    Min({k \in 0..Len(v.bytes) : k = Len(v.bytes) - 1 \/ IsZero(v.type, Cleared(v.bytes, k))})

\* The number of bytes to clear, from the least significant one, until nothing
\* of the value is left.
WireSize(v) == Min({k \in 0..Len(v.bytes) : IsZero(v.type, Cleared(v.bytes, k))})

EncodeScalar(v) ==
    <<16 * WireSize(v) + v.type>> \o [i \in 1..WireSize(v) |-> v.bytes[i]]
EncodeBool(v)   == <<16 * v.bytes[1] + v.type>>
EncodeString(s) == <<TypeId.cstr>> \o s \o <<0>>

\* The loop over the n elements does not move the pointer: it repeats the first.
EncodePointer(v, n) ==
    LET size == get_type_size(v.type - modifier_ptr)
    IN  <<v.type>> \o [j \in 1..(n * size) |-> v.bytes[((j - 1) % size) + 1]]

\* BinaryWriter::write_value, for typed values and by overloading.
write_value(v, n) ==
    CASE v.type \in Scalars     -> EncodeScalar(v)
      [] v.type \in Pointers    -> EncodePointer(v, n)
      [] v.type = TypeId.bool   -> EncodeBool(v)
      [] v.type = TypeId.cstr   -> EncodeString(v.bytes)
      [] v.type \in {TypeId.null, TypeId.void} -> <<v.type>>

\* The result, then what the pointers among the arguments point to.
write_result(result, args) ==
    LET written[i \in 0..Len(args)] ==
            IF i = 0 THEN <<packet_result>> \o write_value(result, 1)
            ELSE IF is_ptr_type(args[i].type)
                 THEN written[i - 1] \o write_value(args[i], 1)
            ELSE written[i - 1]
    IN  written[Len(args)]

-----------------------------------------------------------------------------
(* Reading from the bytes bs of a payload, at offset `at'. *)

Has(bs, at, n) == at + n <= Len(bs)    \* access_read does not throw

Ok(v, next) == [res |-> "ok", value |-> v, next |-> next]
Throws(e) == [res |-> e, value |-> <<>>, next |-> 0]
BadAccess == Throws("ERR_BAD_PACKET_ACCESS")

\* Mutation of read_type: a wire size below 11 is no pointer, as in a modifier
\* constant off by one.
read_type_Masked(h) ==
    IF h \div 16 < 11 THEN [type |-> h % 16, modifier |-> h \div 16]
                      ELSE [type |-> h, modifier |-> get_type_size(h % 16)]

\* The upper half of a type byte below 10 is a wire size; otherwise the whole
\* byte is the type of a pointer.
read_type(h) ==
    IF h \div 16 < 10 THEN [type |-> h % 16, modifier |-> h \div 16]
                      ELSE [type |-> h, modifier |-> get_type_size(h % 16)]

\* A wire size above the size of the type writes past the local variable.
read_value(id, w, bs, at) ==
    LET n == get_type_size(id)
    IN  IF ~Has(bs, at, w) THEN BadAccess
        ELSE IF w > n THEN Throws("undefined")
        ELSE Ok(Value(id, [i \in 1..n |-> IF i <= w THEN bs[at + i] ELSE 0]), at + w)

\* Mutation of read_ptr: the array is not skipped.
read_ptr_NotSkipped(id, bs, at) ==
    LET n == get_type_size(id - modifier_ptr)
    IN  IF Has(bs, at, n) THEN Ok(Value(id, SubSeq(bs, at + 1, at + n)), at)
                          ELSE BadAccess

\* The pointer goes into the packet; one element is skipped, whatever was sent.
read_ptr(id, bs, at) ==
    LET n == get_type_size(id - modifier_ptr)
    IN  IF Has(bs, at, n) THEN Ok(Value(id, SubSeq(bs, at + 1, at + n)), at + n)
                          ELSE BadAccess

read_cstr(bs, at) ==
    LET nuls == {i \in (at + 1)..Len(bs) : bs[i] = 0}
    IN  IF nuls = {} THEN BadAccess
        ELSE Ok(Value(TypeId.cstr, SubSeq(bs, at + 1, Min(nuls) - 1)), Min(nuls))

read_typed_value(bs, at) ==
    LET t == read_type(bs[at + 1])
    IN  CASE t.type \in {TypeId.null, TypeId.void} -> Ok(Value(t.type, <<>>), at + 1)
          [] t.type = TypeId.bool ->
                 Ok(Value(t.type, <<IF t.modifier # 0 THEN 1 ELSE 0>>), at + 1)
          [] t.type = TypeId.cstr -> read_cstr(bs, at + 1)
          [] t.type \in Scalars   -> read_value(t.type, t.modifier, bs, at + 1)
          [] t.type \in Pointers  -> read_ptr(t.type, bs, at + 1)
          [] OTHER                -> Throws("ERR_PARAM_TYPE_INVALID")

\* The offsets at which a parser that gets parsed[at] from offset `at' finds values,
\* from every offset on, up to the end of the payload or to where it throws.
Offsets(bs, parsed) ==
    LET from[at \in 0..Len(bs)] ==
            IF at < Len(bs) /\ parsed[at].res = "ok" THEN <<at>> \o from[parsed[at].next]
                                                    ELSE <<at>>
    IN  from

TypedValues(bs) == [at \in 0..(Len(bs) - 1) |-> read_typed_value(bs, at)]

\* The values from `start' to the end of the payload.
read_args(bs, start) ==
    LET offsets == Offsets(bs, TypedValues(bs))[start]
        number  == Len(offsets) - 1
        end     == offsets[number + 1]
    IN  [res    |-> IF end = Len(bs) THEN "ok" ELSE TypedValues(bs)[end].res,
         values |-> [i \in 1..number |-> TypedValues(bs)[offsets[i]].value]]

read_call(bs) ==
    IF bs # <<>> /\ bs[1] # packet_call THEN [res |-> "ERR_BAD_PACKET"]
    ELSE IF ~Has(bs, 0, 2) THEN [res |-> "ERR_BAD_PACKET_ACCESS"]
    ELSE IF read_type(bs[2]).type # TypeId.cstr THEN [res |-> "ERR_FUNC_NAME_MISSING"]
    ELSE LET name == read_cstr(bs, 2)
         IN  IF name.res # "ok" THEN [res |-> name.res]
             ELSE LET a == read_args(bs, name.next)
                  IN  [res |-> a.res, name |-> name.value.bytes, args |-> a.values]

\* An output parameter of type id; copy_to_ptr copies one element.
read_outparam(id, bs, at) ==
    IF ~Has(bs, at, 1) THEN BadAccess
    ELSE IF read_type(bs[at + 1]).type # id THEN Throws("ERR_OUTPARAM_TYPE_MISMATCH")
    ELSE read_ptr(id, bs, at + 1)

\* The arguments whose targets are output parameters.
OutParams(args) == {i \in DOMAIN args : is_ptr_type(args[i].type)}

\* The result, then the output parameters.
read_result(bs, args) ==
    LET read[i \in 0..Len(args)] ==
            IF i = 0 THEN read_typed_value(bs, 1)
            ELSE IF i \in OutParams(args) /\ read[i - 1].res = "ok"
                 THEN read_outparam(args[i].type, bs, read[i - 1].next)
            ELSE read[i - 1]
    IN  IF bs # <<>> /\ bs[1] # packet_result THEN [res |-> "ERR_BAD_PACKET"]
        ELSE IF ~Has(bs, 0, 2) THEN [res |-> "ERR_BAD_PACKET_ACCESS"]
        ELSE [res |-> read[Len(args)].res, result |-> read[0].value,
              outs |-> [i \in OutParams(args) |-> read[i].value]]

\* Mutation of format_value: the elements of a pointer are not skipped.
format_value_PtrByte(bs, at) ==
    LET t == read_type(bs[at + 1])
    IN  IF t.type \in {TypeId.cstr, Ptr(TypeId.cstr)} THEN read_cstr(bs, at + 1)
        ELSE IF t.type \notin Scalars THEN Ok(<<>>, at + 1)
        ELSE IF Has(bs, at + 1, t.modifier) THEN Ok(<<>>, at + 1 + t.modifier)
        ELSE BadAccess

\* The log's formatting of a value: it parses the packet on its own.
format_value(bs, at) ==
    LET t == read_type(bs[at + 1])
    IN  IF t.type \in {TypeId.cstr, Ptr(TypeId.cstr)} THEN read_cstr(bs, at + 1)
        ELSE IF t.type \notin Scalars \cup Pointers THEN Ok(<<>>, at + 1)
        ELSE IF Has(bs, at + 1, t.modifier) THEN Ok(<<>>, at + 1 + t.modifier)
        ELSE BadAccess

ArgumentsStart(bs) ==
    IF read_type(bs[2]).type = TypeId.cstr THEN read_cstr(bs, 2).next ELSE 2

\* BinaryReader::to_string: the offsets of the values it prints.
to_string(bs) ==
    LET logged == Offsets(bs, [at \in 0..(Len(bs) - 1) |-> format_value(bs, at)])
    IN  CASE bs[1] = packet_call   -> logged[ArgumentsStart(bs)]
          [] bs[1] = packet_result -> logged[1]
          [] OTHER                 -> <<>>

-----------------------------------------------------------------------------
(* The steps of a call. *)

NoCall == [res |-> "none"]

Init ==
    /\ stage = "idle"
    /\ tx = FreshPacket /\ rx = FreshPacket
    /\ framed = 0
    /\ sized = FALSE /\ count = 0
    /\ sent = [name |-> <<>>, args |-> <<>>, counts |-> <<>>, framed |-> 0]
    /\ got = NoCall /\ left = NoCall /\ ret = NoCall
    /\ err = "none"

\* An exception: the packets of the call are recycled.
Fail(e) ==
    /\ stage' = "failed" /\ err' = e
    /\ UNCHANGED <<tx, rx, framed, sized, count, sent, got, left, ret>>

\* Appends to tx; a full packet throws.
Writes(bs, next) ==
    /\ Fits(tx.payload, Len(bs))
    /\ tx' = AppendPayload(tx, bs)
    /\ stage' = next
    /\ UNCHANGED <<rx, framed, got, ret, err>>

BeginCall(name) ==
    LET bs == <<packet_call>> \o EncodeString(name)
    IN  /\ stage = "idle"
        /\ \/ /\ Writes(bs, "writing")
              /\ sent' = [sent EXCEPT !.name = name]
              /\ UNCHANGED <<sized, count, left>>
           \/ ~Fits(tx.payload, Len(bs)) /\ Fail("ERR_PACKET_FULL")

\* An argument.  A pointer without a size before it counts as one element; a
\* size that was given stays for the pointers after it.
WriteArg(v) ==
    LET n == IF v.type \notin Pointers \/ ~sized THEN 1 ELSE count
        bs == write_value(v, n)
    IN  /\ stage = "writing" /\ Len(sent.args) < MaxArgs
        /\ \/ /\ Writes(bs, "writing")
              /\ sent' = [sent EXCEPT !.args = Append(@, v), !.counts = Append(@, n)]
              /\ count' = IF v.type \in Pointers THEN n ELSE count
              /\ UNCHANGED <<sized, left>>
           \/ ~Fits(tx.payload, Len(bs)) /\ Fail("ERR_PACKET_FULL")

\* An argument of type arraysize_t, which is not sent.
WriteSize(n) ==
    /\ stage = "writing" /\ Len(sent.args) < MaxArgs
    /\ \/ /\ ~sized
          /\ sized' = TRUE /\ count' = n
          /\ UNCHANGED <<stage, tx, rx, framed, sent, got, left, ret, err>>
       \/ sized /\ Fail("ERR_POINTER_NEEDS_SIZE")

Arrives(p) ==
    /\ rx' = p
    /\ stage' = IF stage \in {"writing", "called"} THEN "received" ELSE "answered"
    /\ UNCHANGED <<sized, count, got, left, ret, err>>

\* RemoteEndpoint::send_packet hands the packet itself to the receiver.
Loopback ==
    /\ stage \in {"writing", "replied"}
    /\ Arrives(tx)
    /\ UNCHANGED <<tx, framed, sent>>

\* TcpChannel's receiving side: a packet without header, filled with as many
\* bytes as the size field says, less the size field.
Frame(wire) ==
    LET fresh == SetHeaderCapacity(FreshPacket, 0)
        size  == Min({Len(wire), HeaderSize + get_le(SubSeq(wire, 1, HeaderSize))})
    IN  DropHeader(AppendPayload(fresh, SubSeq(wire, 1, size)), HeaderSize)

\* Channel::send and the arrival of the packet.  The sender keeps the packet and
\* may send it again.
Transfer ==
    /\ stage \in {"writing", "replied"} \/ (stage = "called" /\ framed > 0)
    /\ framed < MaxSends
    /\ \/ LET p == PrependHeader(tx, set_le(tx.payload.size, HeaderSize))
          IN  /\ Fits(tx.header, HeaderSize)
              /\ tx' = p /\ framed' = framed + 1
              /\ sent' = [sent EXCEPT !.framed = IF stage = "replied" THEN @ ELSE framed + 1]
              /\ Arrives(Frame(OnWire(p)))
       \/ ~Fits(tx.header, HeaderSize) /\ Fail("ERR_PACKET_FULL")

\* The receiver sends the packet it got, which has no room for a header.
SendBack ==
    /\ stage = "called" /\ framed > 0
    /\ ~Fits(rx.header, HeaderSize)
    /\ Fail("ERR_PACKET_FULL")

ReadCall ==
    LET c == read_call(Contents(rx, rx.payload))
    IN  /\ stage = "received"
        /\ \/ /\ c.res = "ok"
              /\ got' = c /\ stage' = "called"
              /\ UNCHANGED <<tx, rx, framed, sized, count, sent, left, ret, err>>
           \/ c.res # "ok" /\ Fail(c.res)

\* What a function makes of the target of a pointer.
Touched(v) == [v EXCEPT !.bytes = [i \in DOMAIN @ |-> 255 - @[i]]]

\* handle_call after the function has run, on a packet and a writer of its own.
Reply(result, touch) ==
    LET args == [i \in DOMAIN got.args |->
                    IF touch /\ is_ptr_type(got.args[i].type) THEN Touched(got.args[i])
                                                              ELSE got.args[i]]
        bs == write_result(result, args)
    IN  /\ stage = "called"
        /\ \/ /\ Fits(FreshPacket.payload, Len(bs))
              /\ tx' = AppendPayload(FreshPacket, bs)
              /\ framed' = 0
              /\ left' = [res |-> "ok", result |-> result,
                          outs |-> [i \in OutParams(args) |-> args[i]]]
              /\ stage' = "replied"
              /\ UNCHANGED <<rx, sized, count, sent, got, ret, err>>
           \/ ~Fits(FreshPacket.payload, Len(bs)) /\ Fail("ERR_PACKET_FULL")

ReadResult ==
    LET r == read_result(Contents(rx, rx.payload), sent.args)
    IN  /\ stage = "answered"
        /\ \/ /\ r.res = "ok"
              /\ ret' = r /\ stage' = "returned"
              /\ UNCHANGED <<tx, rx, framed, sized, count, sent, got, left, err>>
           \/ r.res # "ok" /\ Fail(r.res)

Next ==
    \/ \E name \in Names : BeginCall(name)
    \/ \E v \in Args : WriteArg(v)
    \/ \E n \in ArraySizes : WriteSize(n)
    \/ Loopback
    \/ Transfer
    \/ SendBack
    \/ ReadCall
    \/ \E result \in Results, touch \in BOOLEAN : Reply(result, touch)
    \/ ReadResult

Spec == Init /\ [][Next]_vars

-----------------------------------------------------------------------------
(* Properties. *)

TypeOK ==
    /\ stage \in {"idle", "writing", "received", "called", "replied", "answered",
                  "returned", "failed"}
    /\ tx \in Packets /\ rx \in Packets
    /\ framed \in 0..MaxSends
    /\ sized \in BOOLEAN /\ count \in {0, 1} \cup ArraySizes
    /\ sent.args \in Seq(Args) /\ Len(sent.counts) = Len(sent.args)
    /\ err \in {"none", "undefined", "ERR_PACKET_FULL", "ERR_POINTER_NEEDS_SIZE",
                "ERR_BAD_PACKET", "ERR_BAD_PACKET_ACCESS", "ERR_FUNC_NAME_MISSING",
                "ERR_PARAM_TYPE_INVALID", "ERR_OUTPARAM_TYPE_MISMATCH"}

\* A packet's windows lie in its buffer, the header before the payload and
\* touching it unless a received header was dropped between them; neither is
\* larger than its capacity.
Sound(p) ==
    /\ p.header.data + p.header.size <= p.payload.data
    /\ p.payload.data + p.payload.size <= BufSize
    /\ p.header.size <= p.header.cap
    /\ p.payload.size <= p.payload.cap

\* After any sequence of writes, framing, receiving and dropping, header and
\* payload neither overlap nor leave the array (Packet, LBuffer, RBuffer).
WindowsSound == Sound(tx) /\ Sound(rx)

\* What goes on the wire is the headers followed by the payload, without a gap:
\* do_send transmits get_size() bytes from the start of the header window.
WireIsPacket == OnWire(tx) = Contents(tx, tx.header) \o Contents(tx, tx.payload)

\* The two windows always describe one packet of bytes in one array.
PacketSound == TypeOK /\ WindowsSound /\ WireIsPacket

\* A negative floating-point number whose most significant byte holds nothing but
\* the sign loses that byte.
SignLost(v) == v.type \in Floats /\ v.bytes[Len(v.bytes)] = 128

\* A call framed once at most, with arrays of one element only.
Clean == sent.framed <= 1 /\ \A i \in DOMAIN sent.counts : sent.counts[i] = 1

Kept(v, w) == v.type = w.type /\ (SignLost(v) \/ v.bytes = w.bytes)

\* What of a value is passed on: of a pointer's target the first element.
Passed(v) ==
    IF is_ptr_type(v.type)
    THEN [v EXCEPT !.bytes = [i \in 1..get_type_size(v.type - modifier_ptr) |-> @[i]]]
    ELSE v

\* The callee gets the name and the arguments that the caller passed, of every
\* pointer the first element, in order and in full, whatever was in the packet
\* before and whether it went over the wire or not (write_call, read_call).
CallRoundTrip ==
    stage = "called" /\ Clean =>
        /\ got.name = sent.name
        /\ Len(got.args) = Len(sent.args)
        /\ \A i \in DOMAIN sent.args :
               Kept(Passed(sent.args[i]), got.args[i])

\* The caller gets the function's result, and in the target of each of its
\* pointers what the function left there (write_result, read_result).
ResultRoundTrip ==
    stage = "returned" /\ Clean =>
        Kept(Passed(left.result), ret.result) /\ ret.outs = left.outs

\* The reader accepts everything the writer produces: apart from the writer's own
\* refusals no call of a sender that stays within one element per pointer and
\* sends each packet once can fail, and no read leaves the payload.
ReaderAccepts ==
    stage = "failed" /\ Clean => err \in {"ERR_PACKET_FULL", "ERR_POINTER_NEEDS_SIZE"}

\* The log formats every packet with a parser of its own before it is sent and
\* before it is handled; it finds the values where the reader finds them, so it
\* never throws and never prints a call other than the one made (to_string).
LoggingAgrees ==
    LET bs == Contents(rx, rx.payload)
        reads == Offsets(bs, TypedValues(bs))
    IN  stage \in {"received", "answered"} /\ Clean =>
            to_string(bs) = reads[IF stage = "received" THEN ArgumentsStart(bs) ELSE 1]

\* The claim of the encoding of scalars: what is left out of a number is zero, as
\* the comment above the loop over its bytes says, so that every number arrives
\* as it was sent (write_value).
NumbersArrive ==
    stage = "called" /\ Clean =>
        \A i \in DOMAIN sent.args :
            sent.args[i].type \in Scalars => got.args[i] = sent.args[i]
=============================================================================
