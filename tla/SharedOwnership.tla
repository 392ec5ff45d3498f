--------------------------- MODULE SharedOwnership ---------------------------
(***************************************************************************)
(* What tlw::state (include/tlw/state.hpp) promises, without its reference *)
(* counts: a Lua state that tlw opened belongs to a set of owning handles, *)
(* stays open while that set is not empty, and is closed in the very step  *)
(* in which the last owner lets go.  Handles that merely borrow a          *)
(* lua_State* do not appear: they may neither keep a state open nor close  *)
(* it.                                                                     *)
(***************************************************************************)
CONSTANTS
  Handles,     \* C++ objects of class tlw::state
  LuaStates,   \* addresses of Lua states
  Foreign,     \* Lua states opened by someone else (luaopen_*, lua_open())
  Nobody       \* "no Lua state" as the target of a handle

VARIABLES
  owners,      \* owners[L] : the handles that own L
  lua          \* lua[L] : life cycle of the Lua state

vars == <<owners, lua>>

Init ==
  /\ owners = [L \in LuaStates |-> {}]
  /\ lua = [L \in LuaStates |-> IF L \in Foreign THEN "open" ELSE "unused"]

\* Lua states that lose their last owner when the owners become new are closed.
Closing(new) ==
  [L \in LuaStates |-> IF owners[L] # {} /\ new[L] = {} THEN "closed" ELSE lua[L]]

\* A handle that owns nothing opens a fresh Lua state.
Open(h, L) ==
  /\ lua[L] = "unused"
  /\ \A M \in LuaStates : h \notin owners[M]
  /\ owners' = [owners EXCEPT ![L] = {h}]
  /\ lua' = [lua EXCEPT ![L] = "open"]

\* h gives up what it owns, if anything, and joins the owners of an owned state, if any.
Rebind(h, target) ==
  /\ target # Nobody => owners[target] # {}
  /\ owners' = [L \in LuaStates |-> IF L = target THEN owners[L] \cup {h} ELSE owners[L] \ {h}]
  /\ lua' = Closing(owners')

\* h gives up what it owns and takes over what o owns, which o then no longer does.
Transfer(o, h) ==
  /\ owners' = [L \in LuaStates |-> IF o \in owners[L] THEN (owners[L] \ {o}) \cup {h}
                                    ELSE owners[L] \ {h}]
  /\ lua' = Closing(owners')

Next ==
  \/ \E h \in Handles, L \in LuaStates : Open(h, L)
  \/ \E h \in Handles, target \in LuaStates \cup {Nobody} : Rebind(h, target)
  \/ \E o, h \in Handles : Transfer(o, h)

Spec == Init /\ [][Next]_vars
=============================================================================
