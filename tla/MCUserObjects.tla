---------------------------- MODULE MCUserObjects ----------------------------
(* UserObjects on a small instance; storage, userdata and the values that   *)
(* objects hold are interchangeable.                                        *)
EXTENDS UserObjects, TLC

Symmetry == UNION {Permutations(Cell), Permutations(Userdatum), Permutations(Value)}
=============================================================================
