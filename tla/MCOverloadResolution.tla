------------------------ MODULE MCOverloadResolution ------------------------
(* OverloadResolution on a small instance: two parameter types that accept the *)
(* same Lua values, and pointers, of which const ones are another type.        *)
EXTENDS OverloadResolution

MCParam == {"int", "float", "pointer"}

MCArg == {"number", "pointer", "const"}

Symmetry == Permutations(Function)
=============================================================================
