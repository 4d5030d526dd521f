--------------------------- MODULE MCEventDispatch ---------------------------
(***************************************************************************)
(* Instances of EventDispatch for TLC.                                     *)
(***************************************************************************)
EXTENDS EventDispatch, TLC

Symmetry == Permutations(Events) \cup Permutations(Workers) \cup Permutations(Admins)
=============================================================================
