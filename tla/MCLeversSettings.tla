-------------------------- MODULE MCLeversSettings ---------------------------
(* Instances of LeversSettings for TLC. *)
EXTENDS LeversSettings, TLC

CONSTANTS a1, a2, a3, h1, h2, h3

MCAddresses == {a1, a2, a3}
MCHandles == {h1, h2, h3}
Symmetry == Permutations(MCAddresses) \union Permutations(MCHandles)
=============================================================================
