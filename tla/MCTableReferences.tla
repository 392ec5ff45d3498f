------------------------- MODULE MCTableReferences -------------------------
(* TableReferences with the globals and two other tables. *)
EXTENDS TableReferences, TLC

CONSTANTS g, t1, t2, r1, r2
MCTable == {g, t1, t2}
MCEntry == {<<g, 1>>, <<t1, 1>>, <<t1, 2>>}
RefSymmetry == Permutations(Ref)
=============================================================================
