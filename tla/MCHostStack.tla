----------------------------- MODULE MCHostStack -----------------------------
(* HostStack with three keys, the second of which is no string, and functions of *)
(* every form.                                                                  *)
EXTENDS HostStack

MCSignature ==
  {[returns |-> "void", args |-> n, results |-> 1] : n \in {0, 1, 3}}
    \cup {[returns |-> "value", args |-> 1, results |-> 1]}
    \cup {[returns |-> "tuple", args |-> n, results |-> 2] : n \in {0, 1}}
=============================================================================
