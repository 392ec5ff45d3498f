--------------------------- MODULE MCClassRegistry ---------------------------
(* ClassRegistry with two classes, one of which is renamed and has members and *)
(* operators: A is called "a" or "z", B is called "b".                         *)
EXTENDS ClassRegistry, TLC

CONSTANTS A, B

MCFeaturesOf == [T \in Class |-> IF T = A THEN Feature ELSE {}]

MCNamesOf == [T \in Class |-> IF T = A THEN {"a", "z"} ELSE {"b"}]

Symmetry == Permutations(Buffer) \cup Permutations(Userdatum)
=============================================================================
