---------------------------- MODULE MCReferences ----------------------------
(* References on a small instance; the references, the program's handles,  *)
(* the Lua states, the slots and the values are interchangeable.           *)
EXTENDS References, TLC

Symmetry ==
  UNION {Permutations(Refs), Permutations(Hosts), Permutations(LuaStates),
         Permutations(Slots), Permutations(Values)}
=============================================================================
