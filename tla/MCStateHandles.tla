--------------------------- MODULE MCStateHandles ---------------------------
(* StateHandles on a small instance; states, stacks and holders are        *)
(* interchangeable among themselves.                                       *)
EXTENDS StateHandles, TLC

Symmetry ==
  Permutations(Handles \ Stacks) \cup Permutations(Stacks) \cup Permutations(Holders)
=============================================================================
