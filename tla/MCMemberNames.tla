--------------------------- MODULE MCMemberNames ---------------------------
(* MemberNames with a few names and addresses. *)
EXTENDS MemberNames, TLC

CONSTANTS n1, n2, a1, a2, a3
Symmetry == Permutations(Member) \cup Permutations(Address)
=============================================================================
