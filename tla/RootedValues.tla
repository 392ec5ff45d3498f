---------------------------- MODULE RootedValues ----------------------------
(***************************************************************************)
(* What tlw::reference promises, without slots: it holds a Lua value until *)
(* it is assigned, moved from or destroyed itself.  Only a reference that  *)
(* does not own its Lua state may lose the value because of what somebody  *)
(* else does, namely when the last owner of that state lets go.            *)
(***************************************************************************)
CONSTANTS Refs, Values, Nothing

VARIABLES
  held,        \* held[r] : the Lua value r keeps alive, or Nothing
  borrowing    \* the references that own no Lua state

vars == <<held, borrowing>>

Init ==
  /\ held = [r \in Refs |-> Nothing]
  /\ borrowing = Refs

\* The state behind the borrowing references in S is closed by this step.
Closing(new, S) == [r \in Refs |-> IF r \in S THEN Nothing ELSE new[r]]

Owns(r, b) == IF b THEN borrowing \cup {r} ELSE borrowing \ {r}

\* r is given the value v, read from a Lua stack.
Bind(r, v, b, S) ==
  /\ borrowing' = Owns(r, b)
  /\ S \subseteq borrowing'
  /\ held' = Closing([held EXCEPT ![r] = v], S)

\* r holds what o holds, on the same terms.
Copy(r, o, S) ==
  /\ borrowing' = Owns(r, o \in borrowing)
  /\ S \subseteq borrowing'
  /\ held' = Closing([held EXCEPT ![r] = held[o]], S)

\* r takes what o holds, and o is left with nothing.
Move(r, o, S) ==
  /\ borrowing' = Owns(r, o \in borrowing) \cup {o}
  /\ S \subseteq borrowing'
  /\ held' = Closing([held EXCEPT ![r] = held[o], ![o] = Nothing], S)

\* r gives up its value.
Drop(r, S) ==
  /\ borrowing' = Owns(r, TRUE)
  /\ S \subseteq borrowing'
  /\ held' = Closing([held EXCEPT ![r] = Nothing], S)

\* A Lua state nobody owns any more is closed.
Close(S) ==
  /\ borrowing' = borrowing
  /\ S \subseteq borrowing'
  /\ held' = Closing(held, S)

Next ==
  \E S \in SUBSET Refs :
    \/ \E r \in Refs, v \in Values \cup {Nothing}, b \in BOOLEAN : Bind(r, v, b, S)
    \/ \E r, o \in Refs : Copy(r, o, S) \/ Move(r, o, S)
    \/ \E r \in Refs : Drop(r, S)
    \/ Close(S)

Spec == Init /\ [][Next]_vars
=============================================================================
