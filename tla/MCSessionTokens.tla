--------------------------- MODULE MCSessionTokens ---------------------------
(* Instances of SessionTokens for TLC. *)
EXTENDS SessionTokens, TLC

Symmetry == Permutations(Tokens) \cup Permutations(Families) \cup Permutations(Calls)
=============================================================================
