----------------------------- MODULE MC_UseGems ------------------------------
(***************************************************************************)
(* Two functions, one of them under three keys, of which the C++ library   *)
(* has patched one; three contexts and two calls of enable.                *)
(***************************************************************************)
EXTENDS UseGems

MCconfig ==
  << [key |-> "div.Tensor", fn |-> "true_divide"],
     [key |-> "mm", fn |-> "mm"],
     [key |-> "true_divide.Tensor", fn |-> "true_divide"],
     [key |-> "div.Scalar", fn |-> "true_divide"] >>

MCSymmetry == Permutations(Contexts) \cup Permutations(Enables)
=============================================================================
