------------------------- MODULE OverloadResolution -------------------------
(***************************************************************************)
(* Which C++ function a call from Lua runs: overloaded_ctor,               *)
(* overloaded_method and overloaded_operator of user_def.hpp, and the      *)
(* builder functions that fill their tables.                               *)
(*                                                                         *)
(* Overloads of a constructor or method are kept by number of parameters,  *)
(* in the order of their registration.  A call looks up the number of its  *)
(* arguments and runs the first overload whose parameters all accept them; *)
(* there is no ranking.  The tables of one class and one method name are   *)
(* modelled, for the names do not interact.                                *)
(***************************************************************************)
EXTENDS SequencesExt

CONSTANTS
  Param,         \* the parameter types in use
  Arg,           \* the types of Lua values in use
  Function,      \* C++ functions that implement the method
  None,          \* no function
  MaxArgs,       \* bound on the number of parameters
  MaxRegistered  \* bound on the number of registrations

\* What the Lua type of a value must be for inspect() of a parameter type to accept it.
\* A userdatum is of one of three types: the class by value, by pointer, by pointer to
\* const, and none of them passes for another.
LuaTypeOf ==
  [int |-> "number", float |-> "number", bool |-> "boolean", string |-> "string",
   table |-> "table", function |-> "function", reference |-> "nil",
   value |-> "value", pointer |-> "pointer", const |-> "const"]

Kind == {"value", "pointer", "const"}

ASSUME OverloadAssumption ==
  /\ Param \subseteq DOMAIN LuaTypeOf
  /\ Arg \subseteq {LuaTypeOf[p] : p \in DOMAIN LuaTypeOf}
  /\ None \notin Function
  /\ MaxArgs \in Nat /\ MaxRegistered \in Nat

\* The parameter lists and the argument lists within the bound.
Upto(S) == UNION {[1..n -> S] : n \in 0..MaxArgs}

\* The type of a pointer to member function.
Method == [params : Upto(Param), readonly : BOOLEAN]

VARIABLES
  constructors,  \* constructors[n] : parameter lists of length n, in order
  methods,       \* methods[n] : method types with n parameters, in order
  target,        \* target[m] : user_method<..., m>::methods[name]
  operands,      \* types of the second operand of a binary operator, in order
  registered     \* number of registrations so far

vars == <<constructors, methods, target, operands, registered>>

Init ==
  /\ constructors = [n \in 0..MaxArgs |-> <<>>]
  /\ methods = [n \in 0..MaxArgs |-> <<>>]
  /\ target = [m \in Method |-> None]
  /\ operands = <<>>
  /\ registered = 0

Counted == registered < MaxRegistered /\ registered' = registered + 1

\* ctor<params...>()
AddConstructor(params) ==
  /\ Counted
  /\ constructors' = [constructors EXCEPT ![Len(params)] = Append(@, params)]
  /\ UNCHANGED <<methods, target, operands>>

\* (Mistake: a new overload goes to the front.)
RegisterMethodFirst(m) == [methods EXCEPT ![Len(m.params)] = <<m>> \o @]

RegisterMethod(m) == [methods EXCEPT ![Len(m.params)] = Append(@, m)]

\* (Mistake: a function is kept for the parameters alone.)
AddMethodByParameters(m, f) ==
  /\ Counted
  /\ methods' = RegisterMethod(m)
  /\ target' = [n \in Method |-> IF n.params = m.params THEN f ELSE target[n]]
  /\ UNCHANGED <<constructors, operands>>

\* method(name, f): a method of the same type replaces the function of the old one,
\* and is registered once more.
AddMethod(m, f) ==
  /\ Counted
  /\ methods' = RegisterMethod(m)
  /\ target' = [target EXCEPT ![m] = f]
  /\ UNCHANGED <<constructors, operands>>

\* add<other>() and its kin
AddOperator(other) ==
  /\ Counted
  /\ operands' = Append(operands, other)
  /\ UNCHANGED <<constructors, methods, target>>

\* metatable<T>::reset(): the functions and the operators stay.
Reset ==
  /\ constructors' = [n \in 0..MaxArgs |-> <<>>]
  /\ methods' = [n \in 0..MaxArgs |-> <<>>]
  /\ UNCHANGED <<target, operands, registered>>

Next ==
  \/ \E params \in Upto(Param) : AddConstructor(params)
  \/ \E m \in Method, f \in Function : AddMethod(m, f)
  \/ \E other \in Param : AddOperator(other)
  \/ Reset

Spec == Init /\ [][Next]_vars

(***************************************************************************)
(* Calls.  None of them changes the tables.                                *)
(***************************************************************************)
\* (Mistake: one parameter that accepts its argument is enough.)
AcceptsSome(params, args) ==
  args = <<>> \/ \E i \in DOMAIN params : LuaTypeOf[params[i]] = args[i]

\* check_args and test: every parameter accepts its argument.
Accepts(params, args) == \A i \in DOMAIN params : LuaTypeOf[params[i]] = args[i]

\* (Mistake: only the last overload is tried.)
FirstOverloadOnly(lists, args) ==
  LET overloads == lists[Len(args)]
  IN IF overloads # <<>> /\ Accepts(Last(overloads), args) THEN Len(overloads) ELSE 0

\* The index of the overload that takes args, or 0.
FirstOverload(lists, args) ==
  SelectInSeq(lists[Len(args)], LAMBDA params : Accepts(params, args))

\* provide() refuses to run a non-const method on a pointer to const.
ReadonlyError(kind, m) == kind = "const" /\ ~m.readonly

Result(outcome, index) == [outcome |-> outcome, index |-> index]

\* C(args) and C.new(args)
ResolveConstructor(args) ==
  LET i == FirstOverload(constructors, args)
  IN Result(IF i = 0 THEN "none" ELSE "run", i)

Parameters == [n \in 0..MaxArgs |-> [i \in DOMAIN methods[n] |-> methods[n][i].params]]

\* obj.name(args), for an object of the kind given
ResolveMethod(kind, args) ==
  LET i == FirstOverload(Parameters, args)
  IN Result(CASE i = 0 -> "none"
              [] i # 0 /\ ReadonlyError(kind, methods[Len(args)][i]) -> "readonly"
              [] OTHER -> "run",
            i)

\* test() of an operator declared for a class and another type.
OperatorAccepts(kind, a, other, b) == a = kind /\ LuaTypeOf[other] = b

\* a op b, one of which is a userdatum of the class.  Lua takes the metamethod of the
\* first operand that has one.
ResolveOperator(a, b) ==
  LET kind == IF a \in Kind THEN a ELSE b
      i == SelectInSeq(operands, LAMBDA other : OperatorAccepts(kind, a, other, b))
  IN Result(IF i = 0 THEN "none" ELSE "run", i)

-----------------------------------------------------------------------------
TypeOK ==
  /\ \A n \in 0..MaxArgs : \A i \in DOMAIN constructors[n] :
       constructors[n][i] \in Upto(Param) /\ Len(constructors[n][i]) = n
  /\ \A n \in 0..MaxArgs : \A i \in DOMAIN methods[n] :
       methods[n][i] \in Method /\ Len(methods[n][i].params) = n
  /\ target \in [Method -> Function \cup {None}]
  /\ \A i \in DOMAIN operands : operands[i] \in Param
  /\ registered \in 0..MaxRegistered

MayPass(params, args) ==
  Len(params) = Len(args) /\ \A i \in 1..Len(args) : LuaTypeOf[params[i]] = args[i]

\* A function only runs with as many arguments as it has parameters, each of the type
\* that reading it from the Lua stack takes for granted; on a const object only const
\* methods run; an operator has an object of its class on the left.
RunsOnlyWhatFits ==
  /\ \A args \in Upto(Arg) :
       /\ LET r == ResolveConstructor(args) IN
          r.outcome = "run" => MayPass(constructors[Len(args)][r.index], args)
       /\ \A kind \in Kind :
            LET r == ResolveMethod(kind, args) IN
            r.outcome = "run" =>
              LET m == methods[Len(args)][r.index] IN
              /\ MayPass(m.params, args)
              /\ kind = "const" => m.readonly
              /\ target[m] # None
  /\ \A a, b \in Arg :
       {a, b} \cap Kind # {} =>
         LET r == ResolveOperator(a, b) IN
         r.outcome = "run" => a \in Kind /\ LuaTypeOf[operands[r.index]] = b

\* A call only fails when no overload takes its arguments, with one exception: a call on
\* a const object that a const method would take fails if a non-const one that takes the
\* same arguments was registered before it.
FailsOnlyWhenUnservable ==
  \A args \in Upto(Arg) :
    /\ ResolveConstructor(args).outcome = "none" =>
         \A i \in DOMAIN constructors[Len(args)] : ~MayPass(constructors[Len(args)][i], args)
    /\ \A kind \in Kind :
         LET fits == {i \in DOMAIN methods[Len(args)] :
                        MayPass(methods[Len(args)][i].params, args)}
             r == ResolveMethod(kind, args)
         IN /\ r.outcome = "none" => fits = {}
            /\ r.outcome = "readonly" =>
                 /\ kind = "const"
                 /\ \A i \in fits : methods[Len(args)][i].readonly =>
                      \E j \in fits : j < i /\ ~methods[Len(args)][j].readonly

\* Unless the class is reset, declaring more never changes what a call resolves to that
\* something takes already: the overload that a constructor, a method or an operator runs, or
\* that a method was refused as readonly.  And the function that a method runs changes only
\* when that very method type is declared again.
RegistrationIsMonotone ==
  [][~Reset =>
       /\ \A args \in Upto(Arg) :
            LET r == ResolveConstructor(args) IN
            r.outcome # "none" =>
              /\ ResolveConstructor(args)' = r
              /\ constructors'[Len(args)][r.index] = constructors[Len(args)][r.index]
       /\ \A args \in Upto(Arg), kind \in Kind :
            LET r == ResolveMethod(kind, args)
                m == methods[Len(args)][r.index]
            IN r.outcome # "none" =>
                 /\ ResolveMethod(kind, args)' = r
                 /\ methods'[Len(args)][r.index] = m
                 /\ target'[m] # target[m] => methods' = RegisterMethod(m)
       /\ \A a, b \in Arg :
            LET r == ResolveOperator(a, b) IN
            r.outcome # "none" =>
              /\ ResolveOperator(a, b)' = r
              /\ operands'[r.index] = operands[r.index]]_vars
=============================================================================
