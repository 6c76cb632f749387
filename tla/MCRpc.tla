-------------------------------- MODULE MCRpc --------------------------------
(* Rpc with two remote endpoints of two packets each and calls three deep, so
   that one endpoint runs out of packets while the other does not. *)
EXTENDS Rpc

CONSTANTS r1, r2, s, t

MCSymmetry == Permutations(Remotes)
MCNames == {<<"f", "1", "_">>, <<"1", "f">>}
I32(x) == [type |-> "int32", v |-> x]
Str(x) == [type |-> "cstr", v |-> x]
MCSignatures == {<<"cstr", "cstr">>, <<"cstr">>}
MCArgLists == {<<Str(s), Str(t)>>, <<Str(s)>>, <<Str("long")>>, <<I32("one")>>}
=============================================================================
