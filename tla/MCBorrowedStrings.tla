------------------------- MODULE MCBorrowedStrings -------------------------
(* BorrowedStrings with a few strings, places and pointers. *)
EXTENDS BorrowedStrings, TLC

CONSTANTS s1, s2, s3, p1, v1, v2
Symmetry == Permutations(Str) \cup Permutations(Place) \cup Permutations(View)
=============================================================================
