------------------------------ MODULE MCCalls ------------------------------
(* Calls with a few types of C++ and of Lua functions. *)
EXTENDS Calls

MCPrototype ==
  {<<"container", "scalar", "scalar">>, <<"array", "container">>}
MCForm ==
  {[returns |-> "void", args |-> 1, results |-> <<>>],
   [returns |-> "value", args |-> 1, results |-> <<"scalar">>],
   [returns |-> "value", args |-> 0, results |-> <<"container">>],
   [returns |-> "tuple", args |-> 0, results |-> <<"scalar", "scalar">>],
   [returns |-> "tuple", args |-> 0, results |-> <<"array", "scalar">>],
   [returns |-> "tuple", args |-> 1, results |-> <<"scalar", "scalar">>]}
=============================================================================
