------------------------------- MODULE Calls -------------------------------
(***************************************************************************)
(* Calls between C++ and Lua, nested (function.hpp,                        *)
(* detail/function_traits.hpp): the program calls a Lua function, which    *)
(* calls a C++ function that was given to Lua, which calls Lua again.      *)
(*                                                                         *)
(* Each running function has a stack of its own.  C++ calls Lua with       *)
(* lua_pcall, and an error or an exception goes to the innermost protected *)
(* call.  A C++ function takes its arguments from its stack one by one, in *)
(* the order in which the compiler evaluates them, and a caller reads the  *)
(* results of Lua from the top of its own.  Taking a container changes the *)
(* stack: it removes the slot on top, or leaves a key there.               *)
(***************************************************************************)
EXTENDS Integers, SequencesExt

CONSTANTS
  Scalar,       \* values that are no tables
  Key,          \* a scalar that is a key of a large table
  SmallTable,   \* a table with no more entries than the arrays of the program have
  LargeTable,   \* a table with more
  Nil,
  Prototype,    \* the C++ functions: the kinds of their parameters
  Form,         \* the types tlw::function<...> that the program uses
  MaxDepth,     \* bound on nested calls, the program included
  MaxValues,    \* bound on arguments and results
  MaxOwn        \* bound on the values that C++ code has on a stack when it calls

\* What a parameter or a result is: std::vector and std::unordered_map, or std::array.
ItemKind == {"scalar", "container", "array"}
Table == {SmallTable, LargeTable}
Value == Scalar \cup Table \cup {Nil}

ASSUME CallsAssumption ==
  /\ Prototype \subseteq Seq(ItemKind)
  /\ Form \subseteq [returns : {"void", "value", "tuple"}, args : Nat, results : Seq(ItemKind)]
  /\ \A f \in Form : /\ f.returns = "void" => f.results = <<>>
                     /\ f.returns = "value" => Len(f.results) = 1
                     /\ f.returns = "tuple" => Len(f.results) >= 1
  /\ MaxDepth \in Nat \ {0} /\ MaxValues \in Nat /\ MaxOwn \in Nat
  /\ Key \in Scalar /\ Nil \notin Scalar /\ Table \cap (Scalar \cup {Nil}) = {}
  /\ SmallTable # LargeTable

VARIABLES
  frames,  \* the running functions, the program itself first
  got,     \* the last call of Lua that returned, as far as C++ has read its results, or NoCall
  fault,   \* "none"; "underflow" of a stack; "next" : lua_next on something else than a table
  rightToLeft  \* whether the compiler evaluates arguments from the right: one or the other

calls == <<frames, got, fault, rightToLeft>>

NoCall == [none |-> TRUE]

\* A C++ function: its stack, its parameters and arguments, how many parameters it has taken
\* and what for, whether a pcall of the script called it, and whether an exception is on its
\* way in it.
CppFrame(prototype, args, safe) ==
  [is |-> "cpp", slots |-> args, prototype |-> prototype, args |-> args,
   taken |-> 0, params |-> [i \in DOMAIN prototype |-> Nil], safe |-> safe, throws |-> FALSE]

\* (Mistake: C++ calls it without protection.)
LuaFrameUnsafe(form) == [is |-> "lua", form |-> form, safe |-> FALSE]

\* A Lua function, called by C++ as a tlw::function of a type.
LuaFrame(form) == [is |-> "lua", form |-> form, safe |-> TRUE]

(***************************************************************************)
(* Values from a stack.                                                    *)
(***************************************************************************)
At(s, i) == IF i \in DOMAIN s THEN s[i] ELSE Nil

\* stack_traits<...>::get(L, i) : lua_next works on a table only,
Works(kind, s, i) == kind # "scalar" => At(s, i) \in Table

\* (Mistake: a scalar is popped like a container.)
RestPopped(kind, s, i) ==
  IF kind = "array" /\ At(s, i) = LargeTable THEN Append(s, Key)
  ELSE IF s # <<>> THEN Front(s) ELSE s

\* and the slot on top goes with every container, for lua_next has popped the last key
\* already; but when an array is full before its table ends, lua_pop leaves the key instead.
Rest(kind, s, i) ==
  IF kind = "scalar" THEN s
  ELSE IF kind = "array" /\ At(s, i) = LargeTable THEN Append(s, Key)
  ELSE Front(s)

(***************************************************************************)
(* Parameters and results.                                                 *)
(***************************************************************************)
Ready(x) == x.taken = Len(x.prototype)

\* The parameter that is evaluated next.
Awaited(x) == IF rightToLeft THEN Len(x.prototype) - x.taken ELSE x.taken + 1

\* Whether parameter i is evaluated.
IsTaken(x, i) == IF rightToLeft THEN i > Len(x.prototype) - x.taken ELSE i <= x.taken

\* (Mistake: lua_pcall is asked for no result.)
WantedNone(f) ==
  CASE f.returns = "void"  -> 0
    [] f.returns = "value" -> 0
    [] f.returns = "tuple" -> IF f.args = 0 THEN Len(f.results) ELSE 1

\* How many results function<f> asks lua_pcall for, and how many slots it pops then.
Wanted(f) ==
  CASE f.returns = "void"  -> 0
    [] f.returns = "value" -> 1
    [] f.returns = "tuple" -> IF f.args = 0 THEN Len(f.results) ELSE 1

\* (Mistake: a single result is popped with the slot below.)
PoppedMore(f) ==
  CASE f.returns = "void"  -> f.args
    [] f.returns = "value" -> 2
    [] f.returns = "tuple" -> Len(f.results)

PoppedAfter(f) ==
  CASE f.returns = "void"  -> f.args
    [] f.returns = "value" -> 1
    [] f.returns = "tuple" -> Len(f.results)

\* lua_pcall makes as many results of rs as are wanted.
Adjusted(f, rs) == [i \in 1..Wanted(f) |-> At(rs, i)]

(***************************************************************************)
(* Actions.                                                                *)
(***************************************************************************)
CallsInit ==
  /\ rightToLeft \in BOOLEAN
  /\ frames = <<CppFrame(<<>>, <<>>, FALSE)>>
  /\ got = NoCall
  /\ fault = "none"

Top == Last(frames)
Runs(is) == fault = "none" /\ Top.is = is
Reading == got # NoCall /\ ~got.done
RunsCpp == Runs("cpp") /\ ~Top.throws /\ Ready(Top) /\ ~Reading

\* C++ code has a value of its own on its stack.
Push(v) ==
  /\ RunsCpp
  /\ Len(Top.slots) < MaxOwn
  /\ frames' = [frames EXCEPT ![Len(frames)].slots = Append(@, v)]
  /\ got' = NoCall
  /\ UNCHANGED fault

\* C++ calls Lua: the function and its arguments are pushed and gone with lua_pcall.
Call(f) ==
  /\ RunsCpp
  /\ Len(frames) < MaxDepth
  /\ Len(Top.slots) <= MaxOwn
  /\ frames' = Append(frames, LuaFrame(f))
  /\ got' = NoCall
  /\ UNCHANGED fault

\* The Lua function returns rs.
LuaReturns(rs) ==
  /\ Runs("lua")
  /\ LET caller == Len(frames) - 1
         before == frames[caller].slots
     IN /\ frames' = [Front(frames) EXCEPT ![caller].slots = before \o Adjusted(Top.form, rs)]
        /\ got' = [form |-> Top.form, sent |-> rs, before |-> before,
                   read |-> <<>>, done |-> FALSE]
  /\ UNCHANGED fault

\* Every result is read from index -1.
ReadResult ==
  /\ Runs("cpp")
  /\ Reading
  /\ Len(got.read) < Len(got.form.results)
  /\ LET kind == got.form.results[Len(got.read) + 1]
         top == Len(Top.slots)
     IN \/ /\ top > 0 /\ Works(kind, Top.slots, top)
           /\ frames' = [frames EXCEPT ![Len(frames)].slots = Rest(kind, @, top)]
           /\ got' = [got EXCEPT !.read = Append(@, At(Top.slots, top))]
           /\ UNCHANGED fault
        \/ /\ top > 0 /\ ~Works(kind, Top.slots, top)
           /\ fault' = "next"
           /\ UNCHANGED <<frames, got>>
        \/ /\ top = 0
           /\ fault' = "underflow"
           /\ UNCHANGED <<frames, got>>

\* The call ends: its results, or its arguments, are popped.
EndCall ==
  /\ Runs("cpp")
  /\ Reading
  /\ Len(got.read) = Len(got.form.results)
  /\ LET left == Len(Top.slots) - PoppedAfter(got.form)
     IN /\ frames' = [frames EXCEPT ![Len(frames)].slots = SubSeq(@, 1, left)]
        /\ fault' = IF left < 0 THEN "underflow" ELSE "none"
  /\ got' = [got EXCEPT !.done = TRUE]

\* The Lua function calls a C++ function, directly or with its own pcall.
Invoke(prototype, args, safe) ==
  /\ Runs("lua")
  /\ Len(frames) < MaxDepth
  /\ frames' = Append(frames, CppFrame(prototype, args, safe))
  /\ got' = NoCall
  /\ UNCHANGED fault

\* It takes its next parameter: stack_traits<_args>::get(L, Is + 1).
TakeParameter ==
  /\ Runs("cpp")
  /\ ~Ready(Top)
  /\ LET i == Awaited(Top)
         kind == Top.prototype[i]
     IN \/ /\ Works(kind, Top.slots, i)
           /\ frames' = [frames EXCEPT
                           ![Len(frames)].slots = Rest(kind, @, i),
                           ![Len(frames)].params = [@ EXCEPT ![i] = At(Top.slots, i)],
                           ![Len(frames)].taken = @ + 1]
           /\ UNCHANGED fault
        \/ /\ ~Works(kind, Top.slots, i)
           /\ fault' = "next"
           /\ UNCHANGED frames
  /\ UNCHANGED got

\* It returns: its stack is emptied, its result pushed, and the Lua function goes on.
CppReturns ==
  /\ RunsCpp
  /\ Len(frames) > 1
  /\ frames' = Front(frames)
  /\ got' = NoCall
  /\ UNCHANGED fault

\* The frames that are left when an error goes to the innermost protected call.  When that
\* is one of C++, function<...> throws an exception there.
Unwound ==
  LET k == CHOOSE k \in DOMAIN frames :
             frames[k].safe /\ \A i \in DOMAIN frames : frames[i].safe => i <= k
  IN IF frames[k].is = "cpp" THEN SubSeq(frames, 1, k - 1)
     ELSE [SubSeq(frames, 1, k - 1) EXCEPT ![k - 1].throws = TRUE]

\* A Lua error, or an exception that leaves a C++ function.
Fails ==
  /\ fault = "none"
  /\ Len(frames) > 1
  /\ frames' = Unwound
  /\ got' = NoCall
  /\ UNCHANGED fault

\* C++ code catches the exception.
Catch ==
  /\ Runs("cpp")
  /\ Top.throws
  /\ frames' = [frames EXCEPT ![Len(frames)].throws = FALSE]
  /\ UNCHANGED <<got, fault>>

Values == UNION {[1..n -> Value] : n \in 0..MaxValues}

CallsNext ==
  /\ rightToLeft' = rightToLeft
  /\ \/ \E v \in Scalar : Push(v)
     \/ \E f \in Form : Call(f)
     \/ \E rs \in Values : LuaReturns(rs)
     \/ ReadResult
     \/ EndCall
     \/ \E p \in Prototype, args \in Values, safe \in BOOLEAN : Invoke(p, args, safe)
     \/ TakeParameter
     \/ CppReturns
     \/ Fails
     \/ Catch

CallsSpec == CallsInit /\ [][CallsNext]_calls

-----------------------------------------------------------------------------
LuaFrames == [is : {"lua"}, form : Form, safe : {TRUE}]

CppFrames ==
  {x \in [is : {"cpp"}, slots : Seq(Value), prototype : Prototype \cup {<<>>}, args : Seq(Value),
          taken : Nat, params : Seq(Value), safe : BOOLEAN, throws : BOOLEAN] :
     x.taken <= Len(x.prototype) /\ Len(x.params) = Len(x.prototype)}

Calling ==
  {c \in [form : Form, sent : Seq(Value), before : Seq(Value), read : Seq(Value), done : BOOLEAN] :
     Len(c.read) <= Len(c.form.results)}

\* C++ and Lua take turns, so that every error has a protected call to go to.
CallsTypeOK ==
  /\ frames \in Seq(LuaFrames \cup CppFrames)
  /\ Len(frames) \in 1..MaxDepth
  /\ \A i \in DOMAIN frames : frames[i].is = "cpp" <=> i % 2 = 1
  /\ got \in Calling \cup {NoCall}
  /\ fault \in {"none", "underflow", "next"}
  /\ rightToLeft \in BOOLEAN

\* Every parameter that a C++ function took is the argument that the script gave, unless a
\* container was taken earlier and slots moved with it; a compiler that evaluates from the
\* right never loses one.
ArgumentsArrive ==
  \A n \in DOMAIN frames : frames[n].is = "cpp" =>
    LET x == frames[n] IN
    \A i \in DOMAIN x.params : IsTaken(x, i) /\ x.params[i] # At(x.args, i) =>
      ~rightToLeft /\ \E j \in 1..(i - 1) : x.prototype[j] # "scalar"

\* C++ has each result that Lua returned in its place, except those of tuples: of a call with
\* arguments only the first element is sure to be what Lua returned in its place, and of one
\* without arguments only the last, if no element before it is a container.
ResultsArrive ==
  got # NoCall => \A i \in DOMAIN got.read : got.read[i] # At(got.sent, i) =>
    IF got.form.args > 0 THEN i > 1
    ELSE i < Len(got.form.results) \/ \E j \in 1..(i - 1) : got.form.results[j] # "scalar"

\* Calls that pop what they were given: no container among the results, and a call with
\* arguments has one result.
Balanced(f) ==
  /\ \A i \in DOMAIN f.results : f.results[i] = "scalar"
  /\ f.args = 0 \/ Len(f.results) = 1

\* After such a call the stack of the C++ code is what it was before, whatever ran meanwhile.
BalancedCallsKeepStack ==
  got # NoCall /\ Balanced(got.form) /\ got.done => fault = "none" /\ Top.slots = got.before

\* The stack underflows only in another call; lua_next has something else than a table only
\* because the script gave that, or a container was taken earlier by a compiler that evaluates
\* from the left, or the result is one of several.
FaultHasCause ==
  /\ fault = "underflow" => got # NoCall /\ ~Balanced(got.form)
  /\ fault = "next" /\ got = NoCall =>
       LET i == Awaited(Top) IN
       /\ Top.prototype[i] # "scalar"
       /\ \/ At(Top.args, i) \notin Table
          \/ ~rightToLeft /\ \E j \in 1..(i - 1) : Top.prototype[j] # "scalar"
  /\ fault = "next" /\ got # NoCall =>
       LET i == Len(got.read) + 1 IN
       /\ got.form.results[i] # "scalar"
       /\ At(got.sent, i) \notin Table \/ Len(got.form.results) > 1
=============================================================================
