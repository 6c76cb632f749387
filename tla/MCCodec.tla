------------------------------- MODULE MCCodec -------------------------------
(* Codec with a packet of 16 payload and 8 header bytes and values of each kind
   at the edges of their encoding. *)
EXTENDS Codec

Letters(n) == [i \in 1..n |-> 96 + i]
MCNames == {Letters(1), Letters(14)}
U8(x)      == Value(TypeId.uint8, <<x>>)
U16(lo, hi) == Value(TypeId.uint16, <<lo, hi>>)
MinusOne   == Value(TypeId.int32, <<255, 255, 255, 255>>)
One        == Value(TypeId.float, <<0, 0, 128, 63>>)
MinusTwo   == Value(TypeId.float, <<0, 0, 0, 192>>)
MinusFltMin == Value(TypeId.float, <<0, 0, 128, 128>>)
True       == Value(TypeId.bool, <<1>>)
False      == Value(TypeId.bool, <<0>>)
Str(s)     == Value(TypeId.cstr, s)
Void       == Value(TypeId.void, <<>>)
Pair       == Value(Ptr(TypeId.uint16), <<5, 0, 6, 0>>)
Flag       == Value(Ptr(TypeId.bool), <<1, 0>>)

MCArgs == {U8(0), U8(200), U16(0, 1), U16(7, 0), MinusOne, One, MinusTwo, MinusFltMin,
           True, False, Str(<<>>), Str(<<97, 98>>), Pair, Flag}
MCResults == {Void, U16(0, 128), Str(Letters(9)), MinusFltMin}
=============================================================================
