------------------------------- MODULE MCSocket -------------------------------
(* Socket for TLC: three objects, a source, a target and a third that may hold
   what one of the two lost, and as many descriptors, one of which other code
   can take at the worst moment.                                             *)
EXTENDS Socket, TLC

Places == Permutations(Objects) \cup Permutations(Fds)
=============================================================================
