-------------------------- MODULE FunctionsProofs --------------------------
(***************************************************************************)
(* The functions of tlw: OverloadResolution for any parameter types, any   *)
(* number of overloads and any history of registrations and resets, Calls  *)
(* for any functions, any kinds and numbers of results, any depth of       *)
(* nested calls and either order in which compilers evaluate arguments,    *)
(* and Conversions for any width of integers and any precision of doubles. *)
(***************************************************************************)
EXTENDS OverloadResolution, Calls, Conversions, WellFoundedInduction, FiniteSetTheorems,
        SequenceTheorems, TLAPS

\* A non-empty set of natural numbers has a least one.
LEMMA LeastNumber ==
  ASSUME NEW I, I \subseteq Nat, I # {}
  PROVE  Min(I) \in I /\ \A i \in I : Min(I) <= i
<1> DEFINE R == OpToRel(<, Nat)
<1>1. IsWellFoundedOn(R, Nat)
  BY NatLessThanWellFounded
<1>2. \A x, y \in Nat : y < x => <<y, x>> \in R
  BY DEF OpToRel
<1> HIDE DEF R
<1>3. PICK x \in I : \A y \in I : <<y, x>> \notin R
  BY <1>1, WFMin
<1>4. ASSUME NEW y \in I PROVE x <= y
  <2>1. x \in Nat /\ y \in Nat
    OBVIOUS
  <2>2. ~(y < x)
    BY <1>2, <1>3, <2>1
  <2> QED
    BY <2>1, <2>2
<1> QED
  BY <1>4 DEF Min

-----------------------------------------------------------------------------
(* The tables.                                                             *)

\* A list of at most MaxArgs elements is a sequence of its length.
LEMMA UptoSeq ==
  ASSUME NEW S, NEW s \in Upto(S)
  PROVE  s \in Seq(S) /\ Len(s) \in 0..MaxArgs /\ DOMAIN s = 1..Len(s)
<1>1. PICK n \in 0..MaxArgs : s \in [1..n -> S]
  BY DEF Upto
<1>2. n \in Nat
  BY OverloadAssumption
<1>3. s \in Seq(S) /\ DOMAIN s = 1..n
  BY <1>1, <1>2
<1>4. Len(s) = n
  BY <1>2, <1>3, LenProperties
<1> QED
  BY <1>1, <1>3, <1>4

Filled(table, S) == table \in [0..MaxArgs -> Seq(S)]

\* The tables hold overloads by their number of parameters, and every registered method
\* type has a function.
Inv ==
  /\ Filled(constructors, Upto(Param))
  /\ \A n \in 0..MaxArgs : \A i \in 1..Len(constructors[n]) : Len(constructors[n][i]) = n
  /\ Filled(methods, Method)
  /\ \A n \in 0..MaxArgs : \A i \in 1..Len(methods[n]) :
       Len(methods[n][i].params) = n /\ target[methods[n][i]] \in Function
  /\ target \in [Method -> Function \cup {None}]
  /\ operands \in Seq(Param)
  /\ registered \in 0..MaxRegistered

\* The tables begin empty.
LEMMA InitInv == Init => Inv
<1> SUFFICES ASSUME Init PROVE Inv
  OBVIOUS
<1>1. MaxRegistered \in Nat
  BY OverloadAssumption
<1> QED
  BY <1>1 DEF Init, Inv, Filled

\* new is table with x added to row n.
Extended(new, table, n, x) ==
  /\ \A k \in 0..MaxArgs : k # n => new[k] = table[k]
  /\ Len(new[n]) = Len(table[n]) + 1
  /\ \A i \in 1..Len(table[n]) : new[n][i] = table[n][i]
  /\ new[n][Len(table[n]) + 1] = x

WithAdded(table, n, x) == [table EXCEPT ![n] = Append(@, x)]

\* A row with one more overload holds what it should, and what it held.
LEMMA Added ==
  ASSUME NEW S, NEW table, Filled(table, S), NEW n \in 0..MaxArgs, NEW x \in S
  PROVE  /\ Filled(WithAdded(table, n, x), S)
         /\ Extended(WithAdded(table, n, x), table, n, x)
<1>1. table[n] \in Seq(S)
  BY DEF Filled
<1>2. WithAdded(table, n, x)[n] = Append(table[n], x)
  BY DEF Filled, WithAdded
<1>3. Append(table[n], x) \in Seq(S)
  BY <1>1
<1>4. Filled(WithAdded(table, n, x), S)
  BY <1>3 DEF Filled, WithAdded
<1>5. \A k \in 0..MaxArgs : k # n => WithAdded(table, n, x)[k] = table[k]
  BY DEF Filled, WithAdded
<1> QED
  BY <1>1, <1>2, <1>4, <1>5, AppendProperties DEF Extended

\* A constructor goes to the row of its number of parameters (user_def.hpp:294-323).
LEMMA AddConstructorInv ==
  ASSUME Inv, NEW params \in Upto(Param), AddConstructor(params)
  PROVE  Inv'
<1> DEFINE n == Len(params)
<1>1. n \in 0..MaxArgs
  BY UptoSeq
<1>2. Filled(constructors, Upto(Param)) /\ constructors' = WithAdded(constructors, n, params)
  BY DEF Inv, AddConstructor, WithAdded
<1>3. Filled(constructors', Upto(Param)) /\ Extended(constructors', constructors, n, params)
  <2> HIDE DEF n
  <2> QED
    BY <1>1, <1>2, Added
<1>4. ASSUME NEW k \in 0..MaxArgs, NEW i \in 1..Len(constructors'[k])
      PROVE  Len(constructors'[k][i]) = k
  <2>1. CASE k # n
    BY <1>3, <2>1 DEF Inv, Extended
  <2>2. CASE k = n
    <3>1. Len(constructors[n]) \in Nat
      BY <1>1, <1>2 DEF Filled
    <3>2. i \in 1..Len(constructors[n]) \/ i = Len(constructors[n]) + 1
      BY <1>3, <2>2, <3>1 DEF Extended
    <3> QED
      BY <1>1, <1>3, <2>2, <3>2 DEF Inv, Extended
  <2> QED
    BY <2>1, <2>2
<1>5. registered' \in 0..MaxRegistered
  BY OverloadAssumption DEF Inv, AddConstructor, Counted
<1> QED
  BY <1>3, <1>4, <1>5 DEF Inv, AddConstructor

\* A method goes to the row of its number of parameters, and its type has a function then
\* (user_def.hpp:364-379).
LEMMA AddMethodInv ==
  ASSUME Inv, NEW m \in Method, NEW f \in Function, AddMethod(m, f)
  PROVE  Inv'
<1> DEFINE n == Len(m.params)
<1>1. n \in 0..MaxArgs
  BY UptoSeq DEF Method
<1>2. Filled(methods, Method) /\ methods' = WithAdded(methods, n, m)
  BY DEF Inv, AddMethod, RegisterMethod, WithAdded
<1>3. Filled(methods', Method) /\ Extended(methods', methods, n, m)
  <2> HIDE DEF n
  <2> QED
    BY <1>1, <1>2, Added
<1>4. target' = [target EXCEPT ![m] = f] /\ target \in [Method -> Function \cup {None}]
  BY DEF Inv, AddMethod
<1>5. target' \in [Method -> Function \cup {None}]
  BY <1>4
<1>6. ASSUME NEW k \in 0..MaxArgs, NEW i \in 1..Len(methods'[k])
      PROVE  Len(methods'[k][i].params) = k /\ target'[methods'[k][i]] \in Function
  <2>1. Len(methods[k]) \in Nat /\ \A j \in 1..Len(methods[k]) : methods[k][j] \in Method
    BY <1>2 DEF Filled
  <2>2. ASSUME i \in 1..Len(methods[k]), methods'[k][i] = methods[k][i]
        PROVE  Len(methods'[k][i].params) = k /\ target'[methods'[k][i]] \in Function
    BY <1>4, <2>1, <2>2 DEF Inv
  <2>3. CASE k # n
    BY <1>3, <2>2, <2>3 DEF Extended
  <2>4. CASE k = n
    <3>1. i \in 1..Len(methods[n]) \/ i = Len(methods[n]) + 1
      BY <1>3, <2>1, <2>4 DEF Extended
    <3>2. CASE i = Len(methods[n]) + 1
      BY <1>3, <1>4, <2>4, <3>2 DEF Extended
    <3> QED
      BY <1>3, <2>2, <2>4, <3>1, <3>2 DEF Extended
  <2> QED
    BY <2>3, <2>4
<1>7. registered' \in 0..MaxRegistered
  BY OverloadAssumption DEF Inv, AddMethod, Counted
<1> QED
  BY <1>3, <1>5, <1>6, <1>7 DEF Inv, AddMethod

\* An operator has the type of its second operand (user_def.hpp:400-497).
LEMMA AddOperatorInv ==
  ASSUME Inv, NEW other \in Param, AddOperator(other)
  PROVE  Inv'
<1>1. operands' \in Seq(Param)
  BY DEF Inv, AddOperator
<1>2. registered' \in 0..MaxRegistered
  BY OverloadAssumption DEF Inv, AddOperator, Counted
<1> QED
  BY <1>1, <1>2 DEF Inv, AddOperator

\* A reset leaves the operators (metatable.hpp:77-86).
LEMMA ResetInv == Inv /\ Reset => Inv'
  BY DEF Inv, Reset, Filled

\* The invariant of the tables is inductive.
LEMMA StepInv == Inv /\ [Next]_vars => Inv'
<1> SUFFICES ASSUME Inv, [Next]_vars PROVE Inv'
  OBVIOUS
<1>1. CASE UNCHANGED vars
  BY <1>1 DEF vars, Inv
<1>2. CASE Next
  BY <1>2, AddConstructorInv, AddMethodInv, AddOperatorInv, ResetInv DEF Next
<1> QED
  BY <1>1, <1>2

\* Every reachable state satisfies the invariant.
THEOREM Invariant == Spec => []Inv
<1> QED
  BY InitInv, StepInv, PTL DEF Spec

\* The tables keep their types.
THEOREM TypeCorrect == Spec => []TypeOK
<1>1. Inv => TypeOK
  <2> SUFFICES ASSUME Inv PROVE TypeOK
    OBVIOUS
  <2>1. ASSUME NEW n \in 0..MaxArgs
        PROVE  /\ DOMAIN constructors[n] = 1..Len(constructors[n])
               /\ \A i \in 1..Len(constructors[n]) : constructors[n][i] \in Upto(Param)
    BY DEF Inv, Filled
  <2>2. ASSUME NEW n \in 0..MaxArgs
        PROVE  /\ DOMAIN methods[n] = 1..Len(methods[n])
               /\ \A i \in 1..Len(methods[n]) : methods[n][i] \in Method
    BY DEF Inv, Filled
  <2>3. \A i \in DOMAIN operands : operands[i] \in Param
    BY DEF Inv
  <2> QED
    BY <2>1, <2>2, <2>3 DEF Inv, TypeOK
<1> QED
  BY Invariant, <1>1, PTL

-----------------------------------------------------------------------------
(* Calls.                                                                  *)

\* i is the first index of list whose parameters accept args, or 0 if there is none.
IsFirst(i, list, args) ==
  \/ i = 0 /\ \A j \in 1..Len(list) : ~Accepts(list[j], args)
  \/ /\ i \in 1..Len(list)
     /\ Accepts(list[i], args)
     /\ \A j \in 1..Len(list) : Accepts(list[j], args) => i <= j

\* The loop over a row ends at the first overload that accepts the arguments.
LEMMA FirstFound ==
  ASSUME NEW S, NEW lists, NEW args, lists[Len(args)] \in Seq(S)
  PROVE  IsFirst(FirstOverload(lists, args), lists[Len(args)], args)
<1> DEFINE list == lists[Len(args)]
           I == {i \in 1..Len(list) : Accepts(list[i], args)}
<1>1. FirstOverload(lists, args) = IF I # {} THEN Min(I) ELSE 0
  BY DEF FirstOverload, SelectInSeq
<1>2. Len(list) \in Nat
  OBVIOUS
<1>3. I \subseteq Nat
  BY <1>2
<1>4. CASE I = {}
  BY <1>1, <1>4 DEF IsFirst
<1>5. CASE I # {}
  <2>1. Min(I) \in I /\ \A i \in I : Min(I) <= i
    <3> HIDE DEF I
    <3> QED
      BY <1>3, <1>5, LeastNumber
  <2>2. FirstOverload(lists, args) = Min(I)
    BY <1>1, <1>5
  <2> QED
    BY <2>1, <2>2 DEF IsFirst
<1> QED
  BY <1>4, <1>5

\* There is one such index.
LEMMA FirstUnique ==
  ASSUME NEW list, Len(list) \in Nat, NEW args, NEW i, NEW j,
         IsFirst(i, list, args), IsFirst(j, list, args)
  PROVE  i = j
  BY DEF IsFirst

\* For as many arguments as parameters, accepting them is to take them.
LEMMA AcceptsFits ==
  ASSUME NEW params \in Upto(Param), NEW args, Len(params) = Len(args)
  PROVE  Accepts(params, args) <=> MayPass(params, args)
  BY UptoSeq DEF Accepts, MayPass

\* A constructor is the first one of its row whose parameters are those of the arguments.
LEMMA ConstructorFirst ==
  ASSUME Inv, NEW args \in Upto(Arg)
  PROVE  /\ IsFirst(FirstOverload(constructors, args), constructors[Len(args)], args)
         /\ Len(constructors[Len(args)]) \in Nat
         /\ DOMAIN constructors[Len(args)] = 1..Len(constructors[Len(args)])
         /\ \A i \in 1..Len(constructors[Len(args)]) :
              Accepts(constructors[Len(args)][i], args) <=>
                MayPass(constructors[Len(args)][i], args)
<1>1. Len(args) \in 0..MaxArgs
  BY UptoSeq
<1>2. constructors[Len(args)] \in Seq(Upto(Param))
  BY <1>1 DEF Inv, Filled
<1>3. IsFirst(FirstOverload(constructors, args), constructors[Len(args)], args)
  BY <1>2, FirstFound
<1>4. ASSUME NEW i \in 1..Len(constructors[Len(args)])
      PROVE  Accepts(constructors[Len(args)][i], args) <=> MayPass(constructors[Len(args)][i], args)
  <2>1. constructors[Len(args)][i] \in Upto(Param)
    BY <1>2
  <2>2. Len(constructors[Len(args)][i]) = Len(args)
    BY <1>1 DEF Inv
  <2> QED
    BY <2>1, <2>2, AcceptsFits
<1> QED
  BY <1>2, <1>3, <1>4

\* The same of methods, whose parameters are part of their types.
LEMMA MethodFirst ==
  ASSUME Inv, NEW args \in Upto(Arg)
  PROVE  /\ IsFirst(FirstOverload(Parameters, args), Parameters[Len(args)], args)
         /\ Len(methods[Len(args)]) \in Nat
         /\ Len(Parameters[Len(args)]) = Len(methods[Len(args)])
         /\ DOMAIN methods[Len(args)] = 1..Len(methods[Len(args)])
         /\ \A i \in 1..Len(methods[Len(args)]) :
              /\ Parameters[Len(args)][i] = methods[Len(args)][i].params
              /\ target[methods[Len(args)][i]] \in Function
              /\ Accepts(methods[Len(args)][i].params, args)
                   <=> MayPass(methods[Len(args)][i].params, args)
<1> DEFINE n == Len(args)
<1>1. n \in 0..MaxArgs
  BY UptoSeq
<1>2. methods[n] \in Seq(Method)
  BY <1>1 DEF Inv, Filled
<1>3. Parameters[n] = [i \in 1..Len(methods[n]) |-> methods[n][i].params]
  BY <1>1, <1>2 DEF Parameters
<1>4. \A i \in 1..Len(methods[n]) : methods[n][i].params \in Upto(Param)
  <2>1. \A i \in 1..Len(methods[n]) : methods[n][i] \in Method
    BY <1>2
  <2> QED
    BY <2>1 DEF Method
<1>5. Parameters[n] \in Seq(Upto(Param)) /\ Len(Parameters[n]) = Len(methods[n])
  BY <1>2, <1>3, <1>4
<1>6. IsFirst(FirstOverload(Parameters, args), Parameters[n], args)
  BY <1>5, FirstFound
<1>7. ASSUME NEW i \in 1..Len(methods[n])
      PROVE  Accepts(methods[n][i].params, args) <=> MayPass(methods[n][i].params, args)
  <2>1. Len(methods[n][i].params) = Len(args)
    BY <1>1 DEF Inv
  <2> QED
    BY <1>4, <2>1, AcceptsFits
<1>8. \A i \in 1..Len(methods[n]) : target[methods[n][i]] \in Function
  BY <1>1 DEF Inv
<1> QED
  BY <1>2, <1>3, <1>5, <1>6, <1>7, <1>8

\* An operator that runs has its class on the left and its second operand on the right.
LEMMA OperatorFits ==
  ASSUME Inv, NEW a \in Arg, NEW b \in Arg, {a, b} \cap Kind # {},
         ResolveOperator(a, b).outcome = "run"
  PROVE  a \in Kind /\ LuaTypeOf[operands[ResolveOperator(a, b).index]] = b
<1> DEFINE kind == IF a \in Kind THEN a ELSE b
           I == {i \in 1..Len(operands) : OperatorAccepts(kind, a, operands[i], b)}
           i == IF I # {} THEN Min(I) ELSE 0
<1>1. ResolveOperator(a, b) = Result(IF i = 0 THEN "none" ELSE "run", i)
  BY DEF ResolveOperator, SelectInSeq
<1>2. ResolveOperator(a, b).index = i /\ i # 0
  BY <1>1 DEF Result
<1>3. I \subseteq Nat
  BY DEF Inv
<1>4. i \in I
  <2> HIDE DEF I
  <2> QED
    BY <1>2, <1>3, LeastNumber
<1> QED
  BY <1>2, <1>4 DEF OperatorAccepts

\* A call runs only what its arguments fit (user_def.hpp, detail/user_method.hpp).
THEOREM OnlyWhatFitsRuns == Spec => []RunsOnlyWhatFits
<1>1. Inv => RunsOnlyWhatFits
  <2> SUFFICES ASSUME Inv PROVE RunsOnlyWhatFits
    OBVIOUS
  <2>1. ASSUME NEW args \in Upto(Arg), ResolveConstructor(args).outcome = "run"
        PROVE  MayPass(constructors[Len(args)][ResolveConstructor(args).index], args)
    <3>1. ResolveConstructor(args).index = FirstOverload(constructors, args)
      BY DEF ResolveConstructor, Result
    <3>2. FirstOverload(constructors, args) # 0
      BY <2>1 DEF ResolveConstructor, Result
    <3> QED
      BY <3>1, <3>2, ConstructorFirst DEF IsFirst
  <2>2. ASSUME NEW args \in Upto(Arg), NEW kind \in Kind, ResolveMethod(kind, args).outcome = "run"
        PROVE  LET m == methods[Len(args)][ResolveMethod(kind, args).index] IN
               MayPass(m.params, args) /\ (kind = "const" => m.readonly) /\ target[m] # None
    <3> DEFINE i == FirstOverload(Parameters, args)
               m == methods[Len(args)][i]
    <3>1. ResolveMethod(kind, args).index = i
      BY DEF ResolveMethod, Result
    <3>2. i # 0 /\ ~ReadonlyError(kind, m)
      BY <2>2 DEF ResolveMethod, Result
    <3>3. i \in 1..Len(methods[Len(args)]) /\ Accepts(Parameters[Len(args)][i], args)
      BY <3>2, MethodFirst DEF IsFirst
    <3>4. MayPass(m.params, args) /\ target[m] \in Function
      BY <3>3, MethodFirst
    <3>5. kind = "const" => m.readonly
      BY <3>2 DEF ReadonlyError
    <3> QED
      BY <3>1, <3>4, <3>5, OverloadAssumption
  <2> QED
    BY <2>1, <2>2, OperatorFits DEF RunsOnlyWhatFits
<1> QED
  BY Invariant, <1>1, PTL

\* A call fails only when nothing takes its arguments, or when a method that is not const
\* shadows a const one (user_def.hpp, detail/user_method.hpp).
THEOREM WhatFitsRuns == Spec => []FailsOnlyWhenUnservable
<1>1. Inv => FailsOnlyWhenUnservable
  <2> SUFFICES ASSUME Inv PROVE FailsOnlyWhenUnservable
    OBVIOUS
  <2>1. ASSUME NEW args \in Upto(Arg), ResolveConstructor(args).outcome = "none"
        PROVE  \A i \in DOMAIN constructors[Len(args)] : ~MayPass(constructors[Len(args)][i], args)
    <3>1. FirstOverload(constructors, args) = 0
      BY <2>1 DEF ResolveConstructor, Result
    <3> QED
      BY <3>1, ConstructorFirst DEF IsFirst
  <2>2. ASSUME NEW args \in Upto(Arg), NEW kind \in Kind
        PROVE  LET fits == {i \in DOMAIN methods[Len(args)] :
                              MayPass(methods[Len(args)][i].params, args)}
                   r == ResolveMethod(kind, args)
               IN /\ r.outcome = "none" => fits = {}
                  /\ r.outcome = "readonly" =>
                       /\ kind = "const"
                       /\ \A i \in fits : methods[Len(args)][i].readonly =>
                            \E j \in fits : j < i /\ ~methods[Len(args)][j].readonly
    <3> DEFINE fits == {i \in DOMAIN methods[Len(args)] :
                          MayPass(methods[Len(args)][i].params, args)}
               first == FirstOverload(Parameters, args)
    <3>1. ResolveMethod(kind, args).outcome =
            CASE first = 0 -> "none"
              [] first # 0 /\ ReadonlyError(kind, methods[Len(args)][first]) -> "readonly"
              [] OTHER -> "run"
      BY DEF ResolveMethod, Result
    <3>2. first = 0 => fits = {}
      BY MethodFirst DEF IsFirst
    <3>3. first # 0 => first \in fits /\ \A i \in fits : first <= i
      BY MethodFirst DEF IsFirst
    <3>4. ASSUME first # 0, ReadonlyError(kind, methods[Len(args)][first]),
                 NEW i \in fits, methods[Len(args)][i].readonly
          PROVE  \E j \in fits : j < i /\ ~methods[Len(args)][j].readonly
      <4>1. first \in fits /\ first <= i /\ ~methods[Len(args)][first].readonly
        BY <3>3, <3>4 DEF ReadonlyError
      <4>2. first # i
        BY <3>4, <4>1
      <4>3. first \in Nat /\ i \in Nat
        BY <4>1, MethodFirst
      <4>4. first < i
        BY <4>1, <4>2, <4>3
      <4> QED
        BY <4>1, <4>4
    <3> HIDE DEF fits, first
    <3>5. ResolveMethod(kind, args).outcome = "none" => first = 0
      BY <3>1
    <3>6. ResolveMethod(kind, args).outcome = "readonly" =>
            first # 0 /\ ReadonlyError(kind, methods[Len(args)][first])
      BY <3>1
    <3> QED
      BY <3>2, <3>4, <3>5, <3>6 DEF ReadonlyError, fits
  <2> QED
    BY <2>1, <2>2 DEF FailsOnlyWhenUnservable
<1> QED
  BY Invariant, <1>1, PTL

-----------------------------------------------------------------------------
(* Registration.                                                           *)

\* The first overload that fits stays the first when a list only grows at its end.
LEMMA FirstKept ==
  ASSUME NEW list, Len(list) \in Nat, NEW longer, Len(longer) \in Nat, NEW args, NEW i, NEW j,
         Len(list) <= Len(longer), \A k \in 1..Len(list) : longer[k] = list[k],
         IsFirst(i, list, args), IsFirst(j, longer, args), i # 0
  PROVE  j = i
<1>1. i \in 1..Len(list) /\ Accepts(longer[i], args) /\ i \in 1..Len(longer)
  BY DEF IsFirst
<1>2. j \in 1..Len(longer) /\ j <= i /\ Accepts(longer[j], args)
  BY <1>1 DEF IsFirst
<1>3. j \in 1..Len(list) /\ Accepts(list[j], args)
  BY <1>1, <1>2
<1>4. i <= j
  BY <1>1, <1>3 DEF IsFirst
<1> QED
  BY <1>1, <1>2, <1>4

\* Each row of a table is the beginning of what it is afterwards.
Grows(new, table) ==
  \A n \in 0..MaxArgs :
    /\ Len(table[n]) <= Len(new[n])
    /\ \A i \in 1..Len(table[n]) : new[n][i] = table[n][i]

\* So it is when an overload is added.
LEMMA AddedGrows ==
  ASSUME NEW S, NEW table, Filled(table, S), NEW n \in 0..MaxArgs, NEW x \in S
  PROVE  Grows(WithAdded(table, n, x), table)
<1>1. Extended(WithAdded(table, n, x), table, n, x)
  BY Added
<1>2. \A k \in 0..MaxArgs : Len(table[k]) \in Nat
  BY DEF Filled
<1> QED
  BY <1>1, <1>2 DEF Extended, Grows

\* Nothing but a reset takes overloads away.
LEMMA TablesGrow ==
  ASSUME Inv, [Next]_vars, ~Reset
  PROVE  Grows(constructors', constructors) /\ Grows(methods', methods)
<1>1. \A n \in 0..MaxArgs : Len(constructors[n]) \in Nat /\ Len(methods[n]) \in Nat
  BY DEF Inv, Filled
<1>2. constructors' = constructors => Grows(constructors', constructors)
  BY <1>1 DEF Grows
<1>3. methods' = methods => Grows(methods', methods)
  BY <1>1 DEF Grows
<1>4. ASSUME NEW params \in Upto(Param), AddConstructor(params)
      PROVE  Grows(constructors', constructors)
  <2>1. Len(params) \in 0..MaxArgs
    BY UptoSeq
  <2>2. constructors' = WithAdded(constructors, Len(params), params)
    BY <1>4 DEF AddConstructor, WithAdded
  <2> QED
    BY <2>1, <2>2, AddedGrows DEF Inv
<1>5. ASSUME NEW m \in Method, NEW f \in Function, AddMethod(m, f)
      PROVE  Grows(methods', methods)
  <2>1. Len(m.params) \in 0..MaxArgs
    BY UptoSeq DEF Method
  <2>2. methods' = WithAdded(methods, Len(m.params), m)
    BY <1>5 DEF AddMethod, RegisterMethod, WithAdded
  <2> QED
    BY <2>1, <2>2, AddedGrows DEF Inv
<1> QED
  BY <1>2, <1>3, <1>4, <1>5 DEF Next, vars, AddConstructor, AddMethod, AddOperator

\* The function of a method type changes only when that type is declared again.
LEMMA TargetKept ==
  ASSUME Inv, [Next]_vars, NEW m \in Method, target'[m] # target[m]
  PROVE  methods' = RegisterMethod(m)
<1>1. PICK n \in Method, f \in Function : AddMethod(n, f)
  BY DEF Next, vars, AddConstructor, AddOperator, Reset
<1>2. target' = [target EXCEPT ![n] = f] /\ target \in [Method -> Function \cup {None}]
  BY <1>1 DEF AddMethod, Inv
<1>3. m = n
  BY <1>2
<1> QED
  BY <1>1, <1>3 DEF AddMethod

ConstructorKept(args) ==
  LET r == ResolveConstructor(args) IN
  r.outcome # "none" =>
    /\ ResolveConstructor(args)' = r
    /\ constructors'[Len(args)][r.index] = constructors[Len(args)][r.index]

\* A constructor that takes the arguments goes on to do so.
LEMMA ConstructorKeeps ==
  ASSUME Inv, Inv', [Next]_vars, ~Reset, NEW args \in Upto(Arg)
  PROVE  ConstructorKept(args)
<1> DEFINE n == Len(args)
           i == FirstOverload(constructors, args)
           j == FirstOverload(constructors', args)
<1>1. n \in 0..MaxArgs
  BY UptoSeq
<1>2. IsFirst(i, constructors[n], args) /\ Len(constructors[n]) \in Nat
  BY ConstructorFirst
<1>3. constructors'[n] \in Seq(Upto(Param))
  BY <1>1 DEF Inv, Filled
<1>4. IsFirst(j, constructors'[n], args) /\ Len(constructors'[n]) \in Nat
  BY <1>3, FirstFound
<1>5. /\ Len(constructors[n]) <= Len(constructors'[n])
      /\ \A k \in 1..Len(constructors[n]) : constructors'[n][k] = constructors[n][k]
  BY <1>1, TablesGrow DEF Grows
<1>6. /\ ResolveConstructor(args) = Result(IF i = 0 THEN "none" ELSE "run", i)
      /\ ResolveConstructor(args)' = Result(IF j = 0 THEN "none" ELSE "run", j)
  BY DEF ResolveConstructor
<1> HIDE DEF n, i, j
<1>7. i # 0 => j = i
  BY <1>2, <1>4, <1>5, FirstKept
<1>8. ResolveConstructor(args).outcome # "none" => i # 0
  BY <1>6 DEF Result
<1>9. ResolveConstructor(args).index = i
  BY <1>6 DEF Result
<1>10. i # 0 => constructors'[n][i] = constructors[n][i]
  BY <1>2, <1>5 DEF IsFirst
<1> QED
  BY <1>6, <1>7, <1>8, <1>9, <1>10 DEF ConstructorKept, n

MethodKept(kind, args) ==
  LET r == ResolveMethod(kind, args)
      m == methods[Len(args)][r.index]
  IN r.outcome # "none" =>
       /\ ResolveMethod(kind, args)' = r
       /\ methods'[Len(args)][r.index] = m
       /\ target'[m] # target[m] => methods' = RegisterMethod(m)

\* So does a method, and it runs the same function unless its type is declared again.
LEMMA MethodKeeps ==
  ASSUME Inv, Inv', [Next]_vars, ~Reset, NEW args \in Upto(Arg), NEW kind \in Kind
  PROVE  MethodKept(kind, args)
<1> DEFINE n == Len(args)
           i == FirstOverload(Parameters, args)
           j == FirstOverload(Parameters', args)
<1>1. n \in 0..MaxArgs
  BY UptoSeq
<1>2. /\ IsFirst(i, Parameters[n], args)
      /\ Len(methods[n]) \in Nat
      /\ Len(Parameters[n]) = Len(methods[n])
      /\ \A k \in 1..Len(methods[n]) : Parameters[n][k] = methods[n][k].params
  BY MethodFirst
<1>3. /\ IsFirst(j, Parameters'[n], args)
      /\ Len(methods'[n]) \in Nat
      /\ Len(Parameters'[n]) = Len(methods'[n])
      /\ \A k \in 1..Len(methods'[n]) : Parameters'[n][k] = methods'[n][k].params
  <2>1. methods'[n] \in Seq(Method)
    BY <1>1 DEF Inv, Filled
  <2>2. Parameters'[n] = [k \in 1..Len(methods'[n]) |-> methods'[n][k].params]
    BY <1>1, <2>1 DEF Parameters
  <2>3. \A k \in 1..Len(methods'[n]) : methods'[n][k].params \in Upto(Param)
    <3>1. \A k \in 1..Len(methods'[n]) : methods'[n][k] \in Method
      BY <2>1
    <3> QED
      BY <3>1 DEF Method
  <2>4. Parameters'[n] \in Seq(Upto(Param)) /\ Len(Parameters'[n]) = Len(methods'[n])
    BY <2>1, <2>2, <2>3
  <2>5. IsFirst(j, Parameters'[n], args)
    BY <2>4, FirstFound
  <2> QED
    BY <2>1, <2>2, <2>4, <2>5
<1>4. /\ Len(methods[n]) <= Len(methods'[n])
      /\ \A k \in 1..Len(methods[n]) : methods'[n][k] = methods[n][k]
  BY <1>1, TablesGrow DEF Grows
<1>5. /\ ResolveMethod(kind, args) =
           Result(CASE i = 0 -> "none"
                    [] i # 0 /\ ReadonlyError(kind, methods[n][i]) -> "readonly"
                    [] OTHER -> "run", i)
      /\ ResolveMethod(kind, args)' =
           Result(CASE j = 0 -> "none"
                    [] j # 0 /\ ReadonlyError(kind, methods'[n][j]) -> "readonly"
                    [] OTHER -> "run", j)
  BY DEF ResolveMethod
<1>6. \A k \in 1..Len(methods[n]) : methods[n][k] \in Method
  BY <1>1 DEF Inv, Filled
<1> HIDE DEF n, i, j
<1>7. i # 0 => i \in 1..Len(methods[n])
  BY <1>2 DEF IsFirst
<1>8. i # 0 => j = i
  BY <1>2, <1>3, <1>4, FirstKept
<1>9. ResolveMethod(kind, args).index = i
  BY <1>5 DEF Result
<1>10. ResolveMethod(kind, args).outcome # "none" => i # 0
  BY <1>5 DEF Result
<1>11. i # 0 => methods'[n][i] = methods[n][i] /\ methods[n][i] \in Method
  BY <1>4, <1>6, <1>7
<1>12. i # 0 => ResolveMethod(kind, args)' = ResolveMethod(kind, args)
  BY <1>5, <1>8, <1>11
<1>13. i # 0 /\ target'[methods[n][i]] # target[methods[n][i]]
         => methods' = RegisterMethod(methods[n][i])
  BY <1>11, TargetKept
<1> QED
  BY <1>9, <1>10, <1>11, <1>12, <1>13 DEF MethodKept, n

OperatorKept(a, b) ==
  LET r == ResolveOperator(a, b) IN
  r.outcome # "none" =>
    /\ ResolveOperator(a, b)' = r
    /\ operands'[r.index] = operands[r.index]

\* And so does an operator.
LEMMA OperatorKeeps ==
  ASSUME Inv, Inv', [Next]_vars, NEW a \in Arg, NEW b \in Arg
  PROVE  OperatorKept(a, b)
<1> DEFINE kind == IF a \in Kind THEN a ELSE b
           I == {i \in 1..Len(operands) : OperatorAccepts(kind, a, operands[i], b)}
           J == {i \in 1..Len(operands') : OperatorAccepts(kind, a, operands'[i], b)}
           i == IF I # {} THEN Min(I) ELSE 0
           j == IF J # {} THEN Min(J) ELSE 0
<1>1. ResolveOperator(a, b) = Result(IF i = 0 THEN "none" ELSE "run", i)
  BY DEF ResolveOperator, SelectInSeq
<1>2. ResolveOperator(a, b)' = Result(IF j = 0 THEN "none" ELSE "run", j)
  BY DEF ResolveOperator, SelectInSeq
<1>3. /\ Len(operands) \in Nat /\ Len(operands') \in Nat
      /\ Len(operands) <= Len(operands')
      /\ \A k \in 1..Len(operands) : operands'[k] = operands[k]
  <2>1. operands \in Seq(Param) /\ operands' \in Seq(Param)
    BY DEF Inv
  <2>2. ASSUME NEW other \in Param, AddOperator(other)
        PROVE  operands' = Append(operands, other)
    BY <2>2 DEF AddOperator
  <2>3. operands' = operands \/ \E other \in Param : operands' = Append(operands, other)
    BY <2>2 DEF Next, vars, AddConstructor, AddMethod, Reset
  <2> QED
    BY <2>1, <2>3
<1>4. I \subseteq Nat /\ J \subseteq Nat
  BY <1>3
<1>5. ASSUME I # {}
      PROVE  i = j /\ operands'[i] = operands[i] /\ i # 0
  <2>1. \A k \in I : k \in J
    BY <1>3
  <2>2. \A k \in J : k \in 1..Len(operands) => k \in I
    BY <1>3
  <2>3. I \subseteq 1..Len(operands)
    OBVIOUS
  <2> HIDE DEF I, J
  <2>4. Min(I) \in I /\ \A k \in I : Min(I) <= k
    BY <1>4, <1>5, LeastNumber
  <2>5. J # {}
    BY <1>5, <2>1
  <2>6. Min(J) \in J /\ \A k \in J : Min(J) <= k
    BY <1>4, <2>5, LeastNumber
  <2>7. Min(J) <= Min(I) /\ Min(I) \in 1..Len(operands) /\ Min(J) \in Nat
    BY <1>4, <2>1, <2>3, <2>4, <2>6
  <2>8. Min(J) \in 1..Len(operands')
    BY <2>6 DEF J
  <2>9. Min(J) \in 1..Len(operands)
    BY <1>3, <2>7, <2>8
  <2>10. Min(I) <= Min(J)
    BY <2>2, <2>4, <2>6, <2>9
  <2>11. Min(I) = Min(J)
    BY <2>7, <2>10
  <2> QED
    BY <1>3, <1>5, <2>5, <2>7, <2>11
<1> HIDE DEF I, J
<1>6. ResolveOperator(a, b).index = i
  BY <1>1 DEF Result
<1>7. ResolveOperator(a, b).outcome # "none" => I # {}
  BY <1>1 DEF Result
<1> QED
  BY <1>1, <1>2, <1>5, <1>6, <1>7 DEF OperatorKept

\* Whatever is declared, what constructors, methods and operators run for arguments that one
\* takes already stays, but for a method type that is declared again (user_def.hpp: overloads
\* go to the end and the first that fits is run; the function of a method type is replaced).
THEOREM DeclaringMoreKeeps == Spec => RegistrationIsMonotone
<1> DEFINE Kept == /\ \A args \in Upto(Arg) : ConstructorKept(args)
                   /\ \A args \in Upto(Arg), kind \in Kind : MethodKept(kind, args)
                   /\ \A a, b \in Arg : OperatorKept(a, b)
<1>1. Inv /\ Inv' /\ [Next]_vars => [~Reset => Kept]_vars
  BY ConstructorKeeps, MethodKeeps, OperatorKeeps
<1>2. [][~Reset => Kept]_vars => RegistrationIsMonotone
  BY PTL DEF RegistrationIsMonotone, ConstructorKept, MethodKept, OperatorKept
<1> QED
  BY <1>1, <1>2, Invariant, PTL DEF Spec

-----------------------------------------------------------------------------
(* Values from stacks.                                                     *)

\* A slot has a value, and there is none beyond the slots.
LEMMA AtOp ==
  ASSUME NEW s \in Seq(Value), NEW i \in Int
  PROVE  /\ At(s, i) \in Value
         /\ i \in 1..Len(s) => At(s, i) = s[i]
         /\ i \notin 1..Len(s) => At(s, i) = Nil
<1>1. DOMAIN s = 1..Len(s) /\ \A k \in 1..Len(s) : s[k] \in Value
  OBVIOUS
<1>2. Nil \in Value
  BY DEF Value
<1> QED
  BY <1>1, <1>2 DEF At

\* What stack_traits<...>::get leaves: only the slot on top, or one above it, changes, and it
\* changes for containers only; a table was found in one of the slots.
LEMMA RestOp ==
  ASSUME NEW s \in Seq(Value), NEW i \in Int, NEW kind \in ItemKind, Works(kind, s, i)
  PROVE  /\ Rest(kind, s, i) \in Seq(Value)
         /\ kind = "scalar" => Rest(kind, s, i) = s
         /\ kind # "scalar" => i \in 1..Len(s)
         /\ kind # "scalar" =>
              \A k \in 1..(Len(s) - 1) : At(Rest(kind, s, i), k) = At(s, k)
<1>1. Len(s) \in Nat /\ Key \in Value
  BY CallsAssumption DEF Value
<1>2. CASE kind = "scalar"
  BY <1>2 DEF Rest
<1>3. CASE kind # "scalar"
  <2>1. i \in 1..Len(s)
    <3>1. At(s, i) \in Table /\ Nil \notin Table
      BY <1>3, CallsAssumption DEF Works
    <3> QED
      BY <3>1, AtOp
  <2>2. Len(s) >= 1 /\ s # <<>>
    BY <1>1, <2>1
  <2>3. CASE kind = "array" /\ At(s, i) = LargeTable
    <3>1. Rest(kind, s, i) = Append(s, Key)
      BY <1>3, <2>3 DEF Rest
    <3>2. Append(s, Key) \in Seq(Value)
      BY <1>1
    <3>3. ASSUME NEW k \in 1..(Len(s) - 1) PROVE At(Append(s, Key), k) = At(s, k)
      <4>1. k \in 1..Len(s) /\ k \in Int /\ k \in 1..Len(Append(s, Key)) /\ Append(s, Key)[k] = s[k]
        BY <1>1
      <4> QED
        BY <3>2, <4>1, AtOp
    <3> QED
      BY <1>3, <2>1, <3>1, <3>2, <3>3
  <2>4. CASE ~(kind = "array" /\ At(s, i) = LargeTable)
    <3>1. Rest(kind, s, i) = Front(s)
      BY <1>3, <2>4 DEF Rest
    <3>2. Front(s) = SubSeq(s, 1, Len(s) - 1) /\ Front(s) \in Seq(Value)
      BY <1>1, <2>2 DEF Front
    <3>3. ASSUME NEW k \in 1..(Len(s) - 1) PROVE At(Front(s), k) = At(s, k)
      <4> DEFINE n == Len(s) - 1
      <4>1. n \in Nat /\ n <= Len(s) /\ k \in 1..n /\ Front(s) = SubSeq(s, 1, n)
        BY <1>1, <2>2, <3>2
      <4> HIDE DEF n
      <4>2. Len(SubSeq(s, 1, n)) = n /\ SubSeq(s, 1, n)[k] = s[k]
        BY <1>1, <4>1
      <4>3. k \in 1..Len(s) /\ k \in Int /\ k \in 1..Len(Front(s)) /\ Front(s)[k] = s[k]
        BY <1>1, <4>1, <4>2
      <4> QED
        BY <3>2, <4>3, AtOp
    <3> QED
      BY <1>3, <2>1, <3>1, <3>2, <3>3
  <2> QED
    BY <2>3, <2>4
<1> QED
  BY <1>2, <1>3

-----------------------------------------------------------------------------
(* The invariant of nested calls.                                          *)

\* The parameters that a C++ function took, and what it still has of its arguments.
Takes(backwards, x) ==
  /\ backwards => \A i \in DOMAIN x.params :
       IF i > Len(x.prototype) - x.taken THEN x.params[i] = At(x.args, i)
       ELSE At(x.slots, i) = At(x.args, i)
  /\ ~backwards =>
       /\ \A i \in 1..x.taken : x.params[i] # At(x.args, i) =>
            \E j \in 1..(i - 1) : x.prototype[j] # "scalar"
       /\ ~Ready(x) /\ (\A j \in 1..x.taken : x.prototype[j] = "scalar") => x.slots = x.args

\* Every C++ function takes its arguments, and has all of them before it calls Lua.
AllTake ==
  \A n \in DOMAIN frames : frames[n].is = "cpp" =>
    Takes(rightToLeft, frames[n]) /\ (n < Len(frames) => Ready(frames[n]))

\* The results are on the stack as Lua left them until a container is read.
ResultsStand ==
  got # NoCall =>
    /\ Top.is = "cpp" /\ Ready(Top)
    /\ ~got.done /\ (\A j \in 1..Len(got.read) : got.form.results[j] = "scalar") =>
         Top.slots = got.before \o Adjusted(got.form, got.sent)

Outcome == ResultsStand /\ ResultsArrive /\ BalancedCallsKeepStack /\ FaultHasCause

CallsInv == CallsTypeOK /\ AllTake /\ Outcome

\* What the types say of the frames: C++ and Lua take turns.
LEMMA FramesOp ==
  ASSUME CallsTypeOK
  PROVE  /\ frames # <<>> /\ Len(frames) \in Nat /\ Len(frames) >= 1 /\ Len(frames) <= MaxDepth
         /\ DOMAIN frames = 1..Len(frames) /\ Top = frames[Len(frames)]
         /\ \A i \in DOMAIN frames :
              /\ frames[i] \in LuaFrames \cup CppFrames
              /\ frames[i].is = "cpp" => frames[i] \in CppFrames /\ i % 2 = 1
              /\ frames[i].is # "cpp" => /\ frames[i] \in LuaFrames /\ frames[i].is = "lua"
                                         /\ frames[i].safe /\ i % 2 = 0
<1>1. MaxDepth \in Nat
  BY CallsAssumption
<1>2. frames \in Seq(LuaFrames \cup CppFrames) /\ Len(frames) \in 1..MaxDepth
  BY DEF CallsTypeOK
<1>3. /\ Len(frames) \in Nat /\ Len(frames) >= 1 /\ Len(frames) <= MaxDepth
      /\ DOMAIN frames = 1..Len(frames) /\ frames # <<>>
  BY <1>1, <1>2
<1>4. Top = frames[Len(frames)]
  BY DEF Top, Last
<1>5. ASSUME NEW i \in DOMAIN frames
      PROVE  /\ frames[i] \in LuaFrames \cup CppFrames
             /\ frames[i].is = "cpp" => frames[i] \in CppFrames /\ i % 2 = 1
             /\ frames[i].is # "cpp" => /\ frames[i] \in LuaFrames /\ frames[i].is = "lua"
                                        /\ frames[i].safe /\ i % 2 = 0
  <2>1. frames[i] \in LuaFrames \cup CppFrames
    BY <1>2
  <2>2. frames[i] \in LuaFrames => frames[i].is = "lua" /\ frames[i].safe
    BY DEF LuaFrames
  <2>3. frames[i] \in CppFrames => frames[i].is = "cpp"
    BY DEF CppFrames
  <2>4. (frames[i].is = "cpp" <=> i % 2 = 1) /\ (i % 2 = 0 \/ i % 2 = 1)
    BY <1>3 DEF CallsTypeOK
  <2> QED
    BY <2>1, <2>2, <2>3, <2>4
<1> QED
  BY <1>3, <1>4, <1>5

\* The fields of the frame of a C++ function.
LEMMA CppOp ==
  ASSUME NEW x \in CppFrames
  PROVE  /\ x.is = "cpp" /\ x.slots \in Seq(Value) /\ x.args \in Seq(Value)
         /\ x.prototype \in Seq(ItemKind) /\ x.params \in Seq(Value)
         /\ x.taken \in Nat /\ x.taken <= Len(x.prototype) /\ Len(x.prototype) \in Nat
         /\ DOMAIN x.params = 1..Len(x.prototype) /\ Len(x.params) = Len(x.prototype)
<1>1. /\ x.is = "cpp" /\ x.slots \in Seq(Value) /\ x.args \in Seq(Value)
      /\ x.prototype \in Prototype \cup {<<>>} /\ x.params \in Seq(Value)
      /\ x.taken \in Nat /\ x.taken <= Len(x.prototype) /\ Len(x.params) = Len(x.prototype)
  BY DEF CppFrames
<1>2. Prototype \subseteq Seq(ItemKind) /\ <<>> \in Seq(ItemKind)
  BY CallsAssumption
<1>3. x.prototype \in Seq(ItemKind)
  BY <1>1, <1>2
<1> QED
  BY <1>1, <1>3

\* A frame is still that of the same call: its stack changes only when it has its parameters.
SameCall(y, x) ==
  /\ y.is = x.is
  /\ x.is = "cpp" => /\ y.prototype = x.prototype /\ y.args = x.args
                     /\ y.taken = x.taken /\ y.params = x.params
                     /\ Ready(x) \/ y.slots = x.slots

\* Such a frame has taken what it had taken.
LEMMA SameTakes ==
  ASSUME NEW backwards \in BOOLEAN, NEW x \in CppFrames, NEW y, SameCall(y, x),
         Takes(backwards, x)
  PROVE  Takes(backwards, y) /\ (Ready(x) <=> Ready(y))
<1>1. /\ y.prototype = x.prototype /\ y.args = x.args /\ y.taken = x.taken /\ y.params = x.params
      /\ Ready(x) \/ y.slots = x.slots
  BY CppOp DEF SameCall
<1>2. Ready(x) <=> Ready(y)
  BY <1>1 DEF Ready
<1>3. Ready(x) => \A i \in DOMAIN x.params : i > Len(x.prototype) - x.taken
  BY CppOp DEF Ready
<1> QED
  BY <1>1, <1>2, <1>3 DEF Takes

\* Steps that begin no call.
LEMMA KeepsCalls ==
  ASSUME CallsTypeOK, AllTake, rightToLeft' = rightToLeft,
         got' \in Calling \cup {NoCall}, fault' \in {"none", "underflow", "next"},
         frames' \in Seq(LuaFrames \cup CppFrames), frames' # <<>>,
         Len(frames') <= Len(frames),
         \A i \in 1..Len(frames') : SameCall(frames'[i], frames[i])
  PROVE  CallsTypeOK' /\ AllTake'
<1>1. /\ Len(frames') \in Nat /\ Len(frames') >= 1 /\ DOMAIN frames' = 1..Len(frames')
      /\ Len(frames) \in Nat /\ DOMAIN frames = 1..Len(frames) /\ Len(frames) <= MaxDepth
      /\ MaxDepth \in Nat
  BY FramesOp, CallsAssumption
<1>2. \A i \in 1..Len(frames') : i \in DOMAIN frames
  BY <1>1
<1>3. CallsTypeOK'
  <2>1. \A i \in DOMAIN frames' : frames'[i].is = "cpp" <=> i % 2 = 1
    BY <1>1, <1>2 DEF CallsTypeOK, SameCall
  <2>2. Len(frames') \in 1..MaxDepth
    BY <1>1
  <2> QED
    BY <2>1, <2>2 DEF CallsTypeOK
<1>4. AllTake'
  <2>1. ASSUME NEW n \in DOMAIN frames', frames'[n].is = "cpp"
        PROVE  Takes(rightToLeft, frames'[n]) /\ (n < Len(frames') => Ready(frames'[n]))
    <3>1. n \in DOMAIN frames /\ SameCall(frames'[n], frames[n]) /\ n \in Nat
      BY <1>1, <1>2
    <3>2. frames[n].is = "cpp" /\ frames[n] \in CppFrames
      BY <2>1, <3>1, FramesOp DEF SameCall
    <3>3. Takes(rightToLeft, frames[n]) /\ (n < Len(frames) => Ready(frames[n]))
      BY <3>1, <3>2 DEF AllTake
    <3>4. rightToLeft \in BOOLEAN
      BY DEF CallsTypeOK
    <3> QED
      BY <1>1, <3>1, <3>2, <3>3, <3>4, SameTakes
  <2> QED
    BY <2>1 DEF AllTake, Takes, Ready
<1> QED
  BY <1>3, <1>4

\* Steps after which no results are known.
LEMMA NoOutcome ==
  ASSUME got' = NoCall, fault' = "none"
  PROVE  Outcome'
BY DEF Outcome, ResultsStand, ResultsArrive, BalancedCallsKeepStack, FaultHasCause

\* The program begins without arguments.
LEMMA CallsBegin == CallsInit => CallsInv
<1> SUFFICES ASSUME CallsInit PROVE CallsInv
  OBVIOUS
<1> DEFINE x == CppFrame(<<>>, <<>>, FALSE)
<1>1. /\ x.is = "cpp" /\ x.prototype = <<>> /\ x.args = <<>> /\ x.taken = 0 /\ x.slots = <<>>
      /\ x.params = [i \in 1..0 |-> Nil]
  BY DEF CppFrame
<1>2. x.params \in Seq(Value) /\ Len(x.params) = 0
  <2>1. x.params \in [1..0 -> Value]
    BY <1>1 DEF Value
  <2> HIDE DEF x
  <2> QED
    BY <2>1, SeqDef
<1>3. x \in CppFrames
  <2>1. x = [is |-> "cpp", slots |-> <<>>, prototype |-> <<>>, args |-> <<>>, taken |-> 0,
             params |-> x.params, safe |-> FALSE, throws |-> FALSE]
    BY DEF CppFrame
  <2>2. <<>> \in Seq(Value) /\ Len(<<>>) = 0
    OBVIOUS
  <2> DEFINE p == x.params
  <2>3. p \in Seq(Value) /\ Len(p) = 0
    BY <1>2
  <2> HIDE DEF p
  <2>4. [is |-> "cpp", slots |-> <<>>, prototype |-> <<>>, args |-> <<>>, taken |-> 0,
         params |-> p, safe |-> FALSE, throws |-> FALSE] \in CppFrames
    BY <2>2, <2>3 DEF CppFrames
  <2> QED
    BY <2>1, <2>4 DEF p
<1>4. frames = <<x>> /\ got = NoCall /\ fault = "none" /\ rightToLeft \in BOOLEAN
  BY DEF CallsInit
<1>5. Takes(rightToLeft, x)
  <2>1. DOMAIN x.params = 1..0 /\ x.taken = 0 /\ Len(x.prototype) = 0
    BY <1>1
  <2> HIDE DEF x
  <2>2. (\A i \in 1..0 : FALSE) /\ Ready(x)
    BY <2>1 DEF Ready
  <2> QED
    BY <2>1, <2>2 DEF Takes
<1> HIDE DEF x
<1>6. /\ frames \in Seq(LuaFrames \cup CppFrames) /\ Len(frames) = 1 /\ DOMAIN frames = 1..1
      /\ frames[1] = x
  BY <1>3, <1>4
<1>7. CallsTypeOK
  BY <1>1, <1>4, <1>6, CallsAssumption DEF CallsTypeOK
<1>8. AllTake
  BY <1>4, <1>5, <1>6 DEF AllTake
<1> QED
  BY <1>4, <1>7, <1>8 DEF CallsInv, Outcome, ResultsStand, ResultsArrive, BalancedCallsKeepStack,
                          FaultHasCause

\* The frame on top changes, but is that of the same call.
LEMMA TopKeeps ==
  ASSUME CallsTypeOK, AllTake, rightToLeft' = rightToLeft,
         got' \in Calling \cup {NoCall}, fault' \in {"none", "underflow", "next"},
         NEW x \in CppFrames, SameCall(x, Top), Top.is = "cpp",
         frames' = [frames EXCEPT ![Len(frames)] = x]
  PROVE  CallsTypeOK' /\ AllTake' /\ Top' = x
<1>1. /\ Len(frames) \in DOMAIN frames /\ Top = frames[Len(frames)]
      /\ frames \in Seq(LuaFrames \cup CppFrames)
  BY FramesOp DEF CallsTypeOK
<1>2. /\ frames' \in Seq(LuaFrames \cup CppFrames) /\ Len(frames') = Len(frames)
      /\ \A i \in 1..Len(frames) : frames'[i] = IF i = Len(frames) THEN x ELSE frames[i]
  BY <1>1
<1>3. frames' # <<>> /\ Len(frames') <= Len(frames)
  BY <1>1, <1>2, FramesOp
<1>4. \A i \in 1..Len(frames') : SameCall(frames'[i], frames[i])
  BY <1>1, <1>2 DEF SameCall
<1>5. CallsTypeOK' /\ AllTake'
  <2>1. /\ got' \in Calling \cup {NoCall} /\ fault' \in {"none", "underflow", "next"}
        /\ rightToLeft' = rightToLeft /\ CallsTypeOK /\ AllTake
    OBVIOUS
  <2> QED
    BY <1>2, <1>3, <1>4, <2>1, KeepsCalls, Zenon
<1>6. Top' = frames'[Len(frames)]
  BY <1>2 DEF Top, Last
<1> QED
  BY <1>1, <1>2, <1>5, <1>6, FramesOp

\* The function on top in C++.
LEMMA TopCpp ==
  ASSUME CallsInv, Top.is = "cpp"
  PROVE  /\ Top \in CppFrames /\ Takes(rightToLeft, Top) /\ rightToLeft \in BOOLEAN
         /\ Top = frames[Len(frames)] /\ Len(frames) \in DOMAIN frames
BY FramesOp DEF CallsInv, AllTake, CallsTypeOK

\* Only its stack is another.
LEMMA OtherSlots ==
  ASSUME NEW x \in CppFrames, NEW s \in Seq(Value)
  PROVE  /\ [x EXCEPT !.slots = s] \in CppFrames /\ [x EXCEPT !.slots = s].slots = s
         /\ Ready(x) => SameCall([x EXCEPT !.slots = s], x)
         /\ Ready([x EXCEPT !.slots = s]) <=> Ready(x)
BY DEF CppFrames, SameCall, Ready

\* C++ code pushes a value.
LEMMA PushValueInv ==
  ASSUME CallsInv, NEW v \in Scalar, Push(v), rightToLeft' = rightToLeft
  PROVE  CallsInv'
<1>1. /\ fault' = "none" /\ Top.is = "cpp" /\ got' = NoCall /\ Ready(Top)
      /\ frames' = [frames EXCEPT ![Len(frames)].slots = Append(@, v)]
  BY DEF Push, RunsCpp, Runs
<1> DEFINE s == Append(Top.slots, v)
           x == [Top EXCEPT !.slots = s]
<1>2. Top \in CppFrames /\ v \in Value
  BY <1>1, TopCpp DEF Value
<1>3. s \in Seq(Value)
  BY <1>2, CppOp
<1>4. frames' = [frames EXCEPT ![Len(frames)] = x]
  BY <1>1, TopCpp
<1> HIDE DEF s
<1>5. x \in CppFrames /\ SameCall(x, Top)
  BY <1>1, <1>2, <1>3, OtherSlots
<1> HIDE DEF x
<1>6. CallsTypeOK' /\ AllTake'
  BY <1>1, <1>4, <1>5, TopKeeps DEF CallsInv
<1> QED
  BY <1>1, <1>6, NoOutcome DEF CallsInv

\* C++ code catches what a call threw.
LEMMA CatchInv ==
  ASSUME CallsInv, Catch, rightToLeft' = rightToLeft
  PROVE  CallsInv'
<1>1. /\ fault = "none" /\ Top.is = "cpp" /\ UNCHANGED <<got, fault>>
      /\ frames' = [frames EXCEPT ![Len(frames)].throws = FALSE]
  BY DEF Catch, Runs
<1> DEFINE x == [Top EXCEPT !.throws = FALSE]
<1>2. Top \in CppFrames
  BY <1>1, TopCpp
<1>3. /\ x \in CppFrames /\ SameCall(x, Top) /\ x.slots = Top.slots /\ x.is = "cpp"
      /\ Ready(x) <=> Ready(Top)
  BY <1>2 DEF CppFrames, SameCall, Ready
<1>4. frames' = [frames EXCEPT ![Len(frames)] = x]
  BY <1>1, TopCpp
<1> HIDE DEF x
<1>5. CallsTypeOK' /\ AllTake' /\ Top' = x
  BY <1>1, <1>3, <1>4, TopKeeps DEF CallsInv, CallsTypeOK
<1>6. ResultsStand' /\ ResultsArrive' /\ BalancedCallsKeepStack'
  BY <1>1, <1>3, <1>5
     DEF CallsInv, Outcome, ResultsStand, ResultsArrive, BalancedCallsKeepStack, Ready
<1>7. FaultHasCause'
  BY <1>1 DEF FaultHasCause
<1> QED
  BY <1>5, <1>6, <1>7 DEF CallsInv, Outcome

\* A call begins.
LEMMA BeginsInv ==
  ASSUME CallsInv, rightToLeft' = rightToLeft, got' = NoCall, fault' = "none",
         Len(frames) < MaxDepth,
         NEW x \in LuaFrames \cup CppFrames, frames' = Append(frames, x),
         x.is = "cpp" <=> Top.is # "cpp",
         x.is = "cpp" => Takes(rightToLeft, x), Top.is = "cpp" => Ready(Top)
  PROVE  CallsInv'
<1>1. /\ Len(frames) \in Nat /\ DOMAIN frames = 1..Len(frames) /\ Len(frames) >= 1
      /\ frames \in Seq(LuaFrames \cup CppFrames) /\ MaxDepth \in Nat
      /\ Top = frames[Len(frames)]
  BY FramesOp, CallsAssumption DEF CallsInv, CallsTypeOK
<1>2. /\ frames' \in Seq(LuaFrames \cup CppFrames) /\ Len(frames') = Len(frames) + 1
      /\ DOMAIN frames' = 1..(Len(frames) + 1) /\ frames'[Len(frames) + 1] = x
      /\ \A i \in DOMAIN frames : frames'[i] = frames[i]
  BY <1>1
<1>3. \A i \in DOMAIN frames' : i \in DOMAIN frames \/ i = Len(frames) + 1
  BY <1>1, <1>2
<1>4. CallsTypeOK'
  <2>1. \A i \in DOMAIN frames : frames[i].is = "cpp" <=> i % 2 = 1
    BY DEF CallsInv, CallsTypeOK
  <2>2. (Len(frames) % 2 = 1) <=> ~((Len(frames) + 1) % 2 = 1)
    BY <1>1
  <2>3. Len(frames) \in DOMAIN frames
    BY <1>1
  <2>4. x.is = "cpp" <=> (Len(frames) + 1) % 2 = 1
    BY <1>1, <2>1, <2>2, <2>3
  <2>5. Len(frames') \in 1..MaxDepth
    BY <1>1, <1>2
  <2>6. \A i \in DOMAIN frames' : frames'[i].is = "cpp" <=> i % 2 = 1
    BY <1>2, <1>3, <2>1, <2>4
  <2> QED
    BY <1>2, <2>5, <2>6 DEF CallsInv, CallsTypeOK
<1>5. AllTake'
  <2>1. ASSUME NEW n \in DOMAIN frames', frames'[n].is = "cpp"
        PROVE  Takes(rightToLeft, frames'[n]) /\ (n < Len(frames') => Ready(frames'[n]))
    <3>1. CASE n = Len(frames) + 1
      BY <1>1, <1>2, <2>1, <3>1
    <3>2. CASE n \in DOMAIN frames
      <4>1. frames'[n] = frames[n] /\ (n = Len(frames) \/ n < Len(frames))
        BY <1>1, <1>2, <3>2
      <4>2. Takes(rightToLeft, frames[n]) /\ (n < Len(frames) => Ready(frames[n]))
        BY <2>1, <3>2, <4>1 DEF CallsInv, AllTake
      <4> QED
        BY <1>1, <2>1, <4>1, <4>2
    <3> QED
      BY <1>3, <3>1, <3>2
  <2> QED
    BY <2>1 DEF AllTake, Takes, Ready
<1> QED
  BY <1>4, <1>5, NoOutcome DEF CallsInv

\* C++ calls Lua (function.hpp:149-159).
LEMMA CallLuaInv ==
  ASSUME CallsInv, NEW f \in Form, Call(f), rightToLeft' = rightToLeft
  PROVE  CallsInv'
<1>1. /\ fault' = "none" /\ Top.is = "cpp" /\ Ready(Top) /\ Len(frames) < MaxDepth
      /\ frames' = Append(frames, LuaFrame(f)) /\ got' = NoCall
  BY DEF Call, RunsCpp, Runs
<1>2. LuaFrame(f) \in LuaFrames /\ LuaFrame(f).is = "lua"
  BY DEF LuaFrame, LuaFrames
<1> QED
  BY <1>1, <1>2, BeginsInv

\* Arguments and results are sequences.
LEMMA ValuesOp ==
  ASSUME NEW vs \in Values
  PROVE  vs \in Seq(Value)
<1>1. PICK n \in 0..MaxValues : vs \in [1..n -> Value]
  BY DEF Values
<1>2. n \in Nat
  BY CallsAssumption
<1> QED
  BY <1>1, <1>2, SeqDef

\* Lua calls a C++ function, which has taken none of its arguments (function_traits.hpp:69-77).
LEMMA InvokeInv ==
  ASSUME CallsInv, NEW prototype \in Prototype, NEW args \in Values, NEW safe \in BOOLEAN,
         Invoke(prototype, args, safe), rightToLeft' = rightToLeft
  PROVE  CallsInv'
<1> DEFINE x == CppFrame(prototype, args, safe)
<1>1. /\ fault' = "none" /\ Top.is = "lua" /\ Len(frames) < MaxDepth
      /\ frames' = Append(frames, x) /\ got' = NoCall
  BY DEF Invoke, Runs
<1>2. args \in Seq(Value) /\ prototype \in Seq(ItemKind) /\ Len(prototype) \in Nat
  BY ValuesOp, CallsAssumption
<1>3. /\ x.is = "cpp" /\ x.prototype = prototype /\ x.args = args /\ x.slots = args
      /\ x.taken = 0 /\ x.params = [i \in 1..Len(prototype) |-> Nil]
      /\ x.safe = safe /\ x.throws = FALSE
  BY <1>2 DEF CppFrame
<1>4. x.params \in Seq(Value) /\ Len(x.params) = Len(prototype)
  <2>1. x.params \in [1..Len(prototype) -> Value]
    BY <1>3 DEF Value
  <2> HIDE DEF x
  <2> QED
    BY <1>2, <2>1, SeqDef
<1>5. x \in CppFrames
  <2> DEFINE p == [i \in DOMAIN prototype |-> Nil]
  <2>1. p \in Seq(Value) /\ Len(p) = Len(prototype)
    BY <1>3, <1>4 DEF CppFrame
  <2>2. x = [is |-> "cpp", slots |-> args, prototype |-> prototype, args |-> args, taken |-> 0,
             params |-> p, safe |-> safe, throws |-> FALSE]
    BY DEF CppFrame
  <2> HIDE DEF p
  <2>3. [is |-> "cpp", slots |-> args, prototype |-> prototype, args |-> args, taken |-> 0,
         params |-> p, safe |-> safe, throws |-> FALSE] \in CppFrames
    BY <1>2, <2>1 DEF CppFrames
  <2> QED
    BY <2>2, <2>3
<1>6. Takes(rightToLeft, x)
  <2>1. /\ DOMAIN x.params = 1..Len(x.prototype) /\ x.taken = 0 /\ Len(x.prototype) \in Nat
        /\ x.slots = x.args
    BY <1>2, <1>3
  <2> HIDE DEF x
  <2>2. \A i \in DOMAIN x.params : ~(i > Len(x.prototype) - x.taken)
    BY <2>1
  <2>3. \A i \in 1..x.taken : FALSE
    BY <2>1
  <2> QED
    BY <2>1, <2>2, <2>3 DEF Takes
<1> HIDE DEF x
<1>7. x.is = "cpp"
  BY <1>3
<1> QED
  BY <1>1, <1>5, <1>6, <1>7, BeginsInv

\* A C++ function takes its next parameter, or finds no table (function_traits.hpp:73-77).
LEMMA TakeParameterInv ==
  ASSUME CallsInv, TakeParameter, rightToLeft' = rightToLeft
  PROVE  CallsInv'
<1> DEFINE i == Awaited(Top)
           kind == Top.prototype[i]
           n == Len(Top.prototype)
           k == Top.taken
           p == Top.prototype
           s == Top.slots
           a == Top.args
<1>1. Top.is = "cpp" /\ ~Ready(Top) /\ got' = got /\ fault = "none"
  BY DEF TakeParameter, Runs
<1>2. Top \in CppFrames /\ Takes(rightToLeft, Top) /\ rightToLeft \in BOOLEAN
  BY <1>1, TopCpp
<1>3. /\ s \in Seq(Value) /\ a \in Seq(Value) /\ p \in Seq(ItemKind) /\ n \in Nat /\ k \in Nat
      /\ k < n /\ Top.params \in Seq(Value) /\ DOMAIN Top.params = 1..n
      /\ Len(Top.params) = n
  <2>1. k <= n /\ k # n /\ k \in Nat /\ n \in Nat
    BY <1>1, <1>2, CppOp DEF Ready
  <2> QED
    BY <1>2, <2>1, CppOp
<1>4. i \in 1..n /\ i \in Int /\ kind \in ItemKind /\ i = IF rightToLeft THEN n - k ELSE k + 1
  <2>1. i = IF rightToLeft THEN n - k ELSE k + 1
    BY DEF Awaited
  <2>2. i \in 1..n /\ i \in Int
    BY <1>2, <1>3, <2>1
  <2> QED
    BY <1>3, <2>1, <2>2
<1>5. got = NoCall
  BY <1>1 DEF CallsInv, Outcome, ResultsStand
<1>6. rightToLeft => \A j \in 1..n : IF j > n - k THEN Top.params[j] = At(a, j)
                                     ELSE At(s, j) = At(a, j)
  BY <1>2, <1>3 DEF Takes
<1>7. ~rightToLeft =>
        /\ \A j \in 1..k : Top.params[j] # At(a, j) => \E l \in 1..(j - 1) : p[l] # "scalar"
        /\ (\A j \in 1..k : p[j] = "scalar") => s = a
  BY <1>1, <1>2 DEF Takes
<1>8. At(s, i) = At(a, i) \/ (~rightToLeft /\ \E l \in 1..(i - 1) : p[l] # "scalar")
  <2>1. CASE rightToLeft
    <3>1. i <= n - k /\ i \in 1..n
      BY <1>3, <1>4, <2>1
    <3>2. ~(i > n - k)
      BY <1>3, <1>4, <3>1
    <3> QED
      BY <1>6, <2>1, <3>1, <3>2
  <2>2. CASE ~rightToLeft
    <3>1. i - 1 = k
      BY <1>3, <1>4, <2>2
    <3> QED
      BY <1>7, <2>2, <3>1
  <2> QED
    BY <2>1, <2>2
<1> HIDE DEF i, kind, n, k, p, s, a
<1>9. CASE /\ Works(kind, s, i) /\ fault' = fault
           /\ frames' = [frames EXCEPT ![Len(frames)].slots = Rest(kind, @, i),
                                       ![Len(frames)].params = [@ EXCEPT ![i] = At(s, i)],
                                       ![Len(frames)].taken = @ + 1]
  <2> DEFINE r == Rest(kind, s, i)
             ps == [Top.params EXCEPT ![i] = At(s, i)]
             x == [Top EXCEPT !.slots = r, !.params = ps, !.taken = k + 1]
  <2>1. /\ r \in Seq(Value) /\ (kind = "scalar" => r = s)
        /\ kind # "scalar" => i \in 1..Len(s) /\ \A j \in 1..(Len(s) - 1) : At(r, j) = At(s, j)
    BY <1>3, <1>4, <1>9, RestOp
  <2>2. /\ ps \in Seq(Value) /\ Len(ps) = n /\ DOMAIN ps = 1..n
        /\ \A j \in 1..n : ps[j] = IF j = i THEN At(s, i) ELSE Top.params[j]
    <3>1. At(s, i) \in Value
      BY <1>3, <1>4, AtOp
    <3> QED
      BY <1>3, <1>4, <3>1
  <2>3. frames' = [frames EXCEPT ![Len(frames)] = x]
    <3>1. Top = frames[Len(frames)] /\ Len(frames) \in DOMAIN frames
      BY <1>1, TopCpp
    <3> QED
      BY <1>9, <3>1 DEF k, s
  <2> HIDE DEF r, ps
  <2>4. /\ x \in CppFrames /\ x.is = "cpp" /\ x.prototype = p /\ x.args = a /\ x.slots = r
        /\ x.params = ps /\ x.taken = k + 1
    <3>1. k + 1 \in Nat /\ k + 1 <= Len(Top.prototype) /\ Len(ps) = Len(Top.prototype)
      BY <1>3, <2>2 DEF n
    <3> HIDE DEF k
    <3> QED
      BY <1>2, <2>1, <2>2, <3>1 DEF CppFrames, p, a
  <2> HIDE DEF x
  <2>5. Takes(rightToLeft, x)
    <3>1. CASE rightToLeft
      <4>1. ASSUME NEW j \in 1..n
            PROVE  IF j > n - (k + 1) THEN ps[j] = At(a, j) ELSE At(r, j) = At(a, j)
        <5>1. CASE j = i
          <6>1. At(s, i) = At(a, i)
            BY <1>8, <3>1, Zenon
          <6>2. j > n - (k + 1)
            BY <1>3, <1>4, <3>1, <5>1
          <6>3. ps[j] = At(s, i)
            BY <2>2, <5>1
          <6> QED
            BY <5>1, <6>1, <6>2, <6>3
        <5>2. CASE j > i
          <6>1. j > n - (k + 1) /\ j > n - k /\ j # i
            BY <1>3, <1>4, <3>1, <5>2
          <6> QED
            BY <1>6, <2>2, <3>1, <6>1
        <5>3. CASE j < i
          <6>1. ~(j > n - (k + 1)) /\ ~(j > n - k)
            BY <1>3, <1>4, <3>1, <5>3
          <6>2. At(s, j) = At(a, j)
            BY <1>6, <3>1, <6>1
          <6>3. At(r, j) = At(s, j)
            <7>1. CASE kind = "scalar"
              BY <2>1, <7>1
            <7>2. CASE kind # "scalar"
              <8>1. i \in 1..Len(s) /\ Len(s) \in Nat
                BY <1>3, <2>1, <7>2
              <8>2. j \in 1..(Len(s) - 1)
                BY <1>4, <5>3, <8>1
              <8> QED
                BY <2>1, <7>2, <8>2
            <7> QED
              BY <7>1, <7>2
          <6> QED
            BY <6>1, <6>2, <6>3
        <5> QED
          BY <1>4, <5>1, <5>2, <5>3
      <4> QED
        BY <2>2, <2>4, <3>1, <4>1 DEF Takes, n, p
    <3>2. CASE ~rightToLeft
      <4>1. i = k + 1 /\ k \in Nat /\ k + 1 <= n
        BY <1>3, <1>4, <3>2
      <4>2. ASSUME NEW j \in 1..(k + 1), ps[j] # At(a, j)
            PROVE  \E l \in 1..(j - 1) : p[l] # "scalar"
        <5>1. CASE j = i
          BY <1>4, <1>8, <2>2, <4>2, <5>1
        <5>2. CASE j # i
          <6>1. j \in 1..k /\ j \in 1..n
            BY <1>3, <4>1, <5>2
          <6> QED
            BY <1>7, <2>2, <3>2, <4>2, <5>2, <6>1
        <5> QED
          BY <5>1, <5>2
      <4>3. ASSUME \A j \in 1..(k + 1) : p[j] = "scalar" PROVE r = a
        <5>1. k + 1 \in 1..(k + 1) /\ \A j \in 1..k : j \in 1..(k + 1)
          BY <4>1
        <5>2. kind = "scalar" /\ \A j \in 1..k : p[j] = "scalar"
          BY <4>1, <4>3, <5>1 DEF kind, p
        <5> QED
          BY <1>7, <2>1, <3>2, <5>2
      <4> QED
        BY <2>4, <3>2, <4>2, <4>3 DEF Takes
    <3> QED
      BY <1>2, <3>1, <3>2
  <2>6. CallsTypeOK' /\ AllTake'
    <3> DEFINE m == Len(frames)
    <3>1. /\ m \in Nat /\ m >= 1 /\ DOMAIN frames = 1..m /\ m \in 1..MaxDepth
          /\ frames \in Seq(LuaFrames \cup CppFrames) /\ Top = frames[m]
          /\ \A j \in 1..m : frames[j].is = "cpp" <=> j % 2 = 1
      BY FramesOp DEF CallsInv, CallsTypeOK
    <3>2. ASSUME NEW j \in 1..m, frames[j].is = "cpp"
          PROVE  Takes(rightToLeft, frames[j]) /\ (j < m => Ready(frames[j]))
      BY <3>1, <3>2 DEF CallsInv, AllTake
    <3>3. frames' = [frames EXCEPT ![m] = x] /\ Len(frames) = m
      BY <2>3
    <3> HIDE DEF m
    <3>4. /\ frames' \in Seq(LuaFrames \cup CppFrames) /\ Len(frames') = m
          /\ \A j \in 1..m : frames'[j] = IF j = m THEN x ELSE frames[j]
      BY <2>4, <3>1, <3>3
    <3>5. DOMAIN frames' = 1..m
      BY <3>4
    <3>6. CallsTypeOK'
      <4>1. \A j \in 1..m : frames'[j].is = "cpp" <=> j % 2 = 1
        BY <1>1, <2>4, <3>1, <3>4
      <4> QED
        BY <1>1, <1>9, <3>1, <3>4, <3>5, <4>1 DEF CallsInv, CallsTypeOK
    <3>7. ASSUME NEW j \in 1..m, frames'[j].is = "cpp"
          PROVE  Takes(rightToLeft, frames'[j]) /\ (j < m => Ready(frames'[j]))
      <4>1. CASE j = m
        <5>1. frames'[j] = x /\ ~(j < m)
          BY <3>1, <3>4, <4>1
        <5> QED
          BY <2>5, <5>1
      <4>2. CASE j # m
        <5>1. frames'[j] = frames[j]
          BY <3>4, <4>2
        <5> QED
          BY <3>2, <3>7, <5>1
      <4> QED
        BY <4>1, <4>2
    <3> QED
      BY <3>4, <3>5, <3>6, <3>7 DEF AllTake, Takes, Ready
  <2> QED
    BY <1>1, <1>5, <1>9, <2>6, NoOutcome DEF CallsInv
<1>10. CASE ~Works(kind, s, i) /\ fault' = "next" /\ UNCHANGED frames
  <2>1. CallsTypeOK' /\ AllTake'
    BY <1>1, <1>10 DEF CallsInv, CallsTypeOK, AllTake, Takes, Ready
  <2>2. kind # "scalar" /\ At(s, i) \notin Table
    BY <1>10 DEF Works
  <2>3. At(a, i) \notin Table \/ (~rightToLeft /\ \E l \in 1..(i - 1) : p[l] # "scalar")
    BY <1>8, <2>2
  <2>4. Awaited(Top)' = i /\ Top' = Top
    BY <1>10 DEF Top, Awaited, i
  <2>5. FaultHasCause'
    BY <1>1, <1>5, <1>10, <2>2, <2>3, <2>4 DEF FaultHasCause, kind, p, a
  <2>6. ResultsStand' /\ ResultsArrive' /\ BalancedCallsKeepStack'
    BY <1>1, <1>5 DEF ResultsStand, ResultsArrive, BalancedCallsKeepStack
  <2> QED
    BY <2>1, <2>5, <2>6 DEF CallsInv, Outcome
<1> QED
  BY <1>9, <1>10 DEF TakeParameter, i, kind, s

\* What is left when the last frames are gone.
LEMMA FrontOp ==
  ASSUME CallsTypeOK, NEW k \in Nat, 1 <= k, k <= Len(frames)
  PROVE  /\ SubSeq(frames, 1, k) \in Seq(LuaFrames \cup CppFrames)
         /\ Len(SubSeq(frames, 1, k)) = k
         /\ \A i \in 1..k : SubSeq(frames, 1, k)[i] = frames[i]
<1>1. frames \in Seq(LuaFrames \cup CppFrames) /\ Len(frames) \in Nat
  BY FramesOp DEF CallsTypeOK
<1> QED
  BY <1>1

\* The last frames are gone, and the C++ function that is then on top goes on.
LEMMA ReturnsTo ==
  ASSUME CallsTypeOK, AllTake, NEW k \in Nat, 1 <= k, k <= Len(frames),
         got' \in Calling \cup {NoCall}, fault' \in {"none", "underflow", "next"},
         rightToLeft' = rightToLeft,
         NEW x \in LuaFrames \cup CppFrames, SameCall(x, frames[k]),
         frames' = [SubSeq(frames, 1, k) EXCEPT ![k] = x]
  PROVE  CallsTypeOK' /\ AllTake' /\ Top' = x
<1> DEFINE s == SubSeq(frames, 1, k)
<1>1. /\ s \in Seq(LuaFrames \cup CppFrames) /\ Len(s) = k /\ \A i \in 1..k : s[i] = frames[i]
      /\ frames' = [s EXCEPT ![k] = x]
  BY FrontOp
<1> HIDE DEF s
<1>2. /\ frames' \in Seq(LuaFrames \cup CppFrames) /\ Len(frames') = k
      /\ \A i \in 1..k : frames'[i] = IF i = k THEN x ELSE frames[i]
  BY <1>1
<1>3. frames' # <<>> /\ Len(frames') <= Len(frames)
  BY <1>2
<1>4. \A i \in 1..Len(frames') : SameCall(frames'[i], frames[i])
  BY <1>2 DEF SameCall
<1>5. frames' \in Seq(LuaFrames \cup CppFrames)
  BY <1>2
<1>6. CallsTypeOK' /\ AllTake'
  BY <1>3, <1>4, <1>5, KeepsCalls, Zenon
<1>7. Top' = x
  BY <1>2, <1>3 DEF Top, Last
<1> QED
  BY <1>6, <1>7

\* The results that Lua leaves, and what the forms of calls say.
LEMMA AdjustedOp ==
  ASSUME NEW f \in Form, NEW rs \in Seq(Value)
  PROVE  /\ f.args \in Nat /\ f.results \in Seq(ItemKind) /\ Len(f.results) \in Nat
         /\ Wanted(f) \in Nat /\ PoppedAfter(f) \in Nat
         /\ Len(f.results) > 0 => Wanted(f) > 0
         /\ f.args = 0 \/ Len(f.results) = 1 => PoppedAfter(f) = Wanted(f)
         /\ f.args = 0 \/ Len(f.results) = 1 => Wanted(f) = Len(f.results)
         /\ f.args > 0 /\ Len(f.results) > 0 => Wanted(f) = 1
         /\ Adjusted(f, rs) \in Seq(Value) /\ Len(Adjusted(f, rs)) = Wanted(f)
         /\ \A i \in 1..Wanted(f) : Adjusted(f, rs)[i] = At(rs, i)
<1>1. /\ f.returns \in {"void", "value", "tuple"} /\ f.args \in Nat
      /\ f.results \in Seq(ItemKind) /\ Len(f.results) \in Nat
      /\ f.returns = "void" => Len(f.results) = 0
      /\ f.returns = "value" => Len(f.results) = 1
      /\ f.returns = "tuple" => Len(f.results) >= 1
  BY CallsAssumption
<1>2. /\ Wanted(f) \in Nat /\ PoppedAfter(f) \in Nat
      /\ Len(f.results) > 0 => Wanted(f) > 0
      /\ f.args = 0 \/ Len(f.results) = 1 => PoppedAfter(f) = Wanted(f)
      /\ f.args = 0 \/ Len(f.results) = 1 => Wanted(f) = Len(f.results)
      /\ f.args > 0 /\ Len(f.results) > 0 => Wanted(f) = 1
  <2> DEFINE a == f.args
             r == Len(f.results)
             w == Wanted(f)
             p == PoppedAfter(f)
  <2>1. CASE f.returns = "void"
    <3>1. w = 0 /\ p = a /\ r = 0 /\ a \in Nat
      BY <1>1, <2>1 DEF Wanted, PoppedAfter
    <3>2. /\ w \in Nat /\ p \in Nat /\ (r > 0 => w > 0)
          /\ (a = 0 \/ r = 1 => p = w) /\ (a = 0 \/ r = 1 => w = r) /\ (a > 0 /\ r > 0 => w = 1)
      <4> HIDE DEF a, r, w, p
      <4> QED
        BY <3>1
    <3> QED
      BY <3>2
  <2>2. CASE f.returns = "value"
    <3>1. w = 1 /\ p = 1 /\ r = 1 /\ a \in Nat
      BY <1>1, <2>2 DEF Wanted, PoppedAfter
    <3> QED
      BY <3>1
  <2>3. CASE f.returns = "tuple"
    <3>1. /\ w = (IF a = 0 THEN r ELSE 1) /\ p = r /\ r \in Nat /\ r >= 1 /\ a \in Nat
      BY <1>1, <2>3 DEF Wanted, PoppedAfter
    <3>2. /\ w \in Nat /\ p \in Nat /\ (r > 0 => w > 0)
          /\ (a = 0 \/ r = 1 => p = w) /\ (a = 0 \/ r = 1 => w = r) /\ (a > 0 /\ r > 0 => w = 1)
      <4> HIDE DEF a, r, w, p
      <4> QED
        BY <3>1
    <3> QED
      BY <3>2
  <2> QED
    BY <1>1, <2>1, <2>2, <2>3
<1>3. \A i \in 1..Wanted(f) : At(rs, i) \in Value
  BY <1>2, AtOp
<1>4. Adjusted(f, rs) \in [1..Wanted(f) -> Value]
  BY <1>3 DEF Adjusted
<1>5. Adjusted(f, rs) \in Seq(Value)
  BY <1>2, <1>4, SeqDef
<1>6. Len(Adjusted(f, rs)) = Wanted(f)
  BY <1>2, <1>4, <1>5
<1>7. \A i \in 1..Wanted(f) : Adjusted(f, rs)[i] = At(rs, i)
  BY DEF Adjusted
<1> QED
  BY <1>1, <1>2, <1>5, <1>6, <1>7

\* A Lua function returns to C++, which has not read its results yet.
LEMMA LuaReturnsInv ==
  ASSUME CallsInv, NEW rs \in Values, LuaReturns(rs), rightToLeft' = rightToLeft
  PROVE  CallsInv'
<1> DEFINE k == Len(frames) - 1
           f == Top.form
           before == frames[k].slots
           s == before \o Adjusted(f, rs)
           x == [frames[k] EXCEPT !.slots = s]
<1>1. /\ fault = "none" /\ fault' = "none" /\ Top.is = "lua"
      /\ frames' = [Front(frames) EXCEPT ![k].slots = s]
      /\ got' = [form |-> f, sent |-> rs, before |-> before, read |-> <<>>, done |-> FALSE]
  BY DEF LuaReturns, Runs
<1>2. k \in Nat /\ k >= 1 /\ k + 1 = Len(frames) /\ k <= Len(frames) /\ f \in Form
  <2>1. Top \in LuaFrames /\ Len(frames) % 2 = 0 /\ Len(frames) \in Nat /\ Len(frames) >= 1
    BY <1>1, FramesOp DEF CallsInv
  <2> QED
    BY <2>1 DEF LuaFrames
<1>3. frames[k] \in CppFrames /\ frames[k].is = "cpp" /\ Ready(frames[k])
  <2>1. k \in DOMAIN frames /\ Len(frames) \in DOMAIN frames
    BY <1>2, FramesOp DEF CallsInv
  <2>2. Len(frames) % 2 = 0
    BY <1>1, <2>1, FramesOp DEF CallsInv
  <2>3. k % 2 = 1
    BY <1>2, <2>2
  <2>4. frames[k] \in CppFrames /\ frames[k].is = "cpp"
    BY <2>1, <2>3, FramesOp DEF CallsInv, CallsTypeOK
  <2>5. k < Len(frames)
    BY <1>2
  <2> QED
    BY <2>1, <2>4, <2>5 DEF CallsInv, AllTake
<1>4. rs \in Seq(Value) /\ before \in Seq(Value)
  BY <1>3, ValuesOp, CppOp
<1>5. /\ Adjusted(f, rs) \in Seq(Value) /\ f.results \in Seq(ItemKind) /\ Len(f.results) \in Nat
  BY <1>2, <1>4, AdjustedOp
<1>6. s \in Seq(Value)
  BY <1>4, <1>5
<1>7. got' \in Calling
  <2>1. <<>> \in Seq(Value) /\ Len(<<>>) = 0 /\ 0 <= Len(f.results)
    BY <1>5
  <2> HIDE DEF f, before
  <2> QED
    BY <1>1, <1>2, <1>4, <2>1 DEF Calling
<1>8. frames' = [SubSeq(frames, 1, k) EXCEPT ![k] = x]
  <2>1. Front(frames) = SubSeq(frames, 1, k)
    BY <1>2 DEF Front
  <2>2. SubSeq(frames, 1, k)[k] = frames[k]
    BY <1>2, FrontOp DEF CallsInv
  <2> QED
    BY <1>1, <2>1, <2>2
<1> HIDE DEF s
<1>9. /\ x \in CppFrames /\ SameCall(x, frames[k]) /\ x.slots = s /\ x.is = "cpp"
      /\ Ready(x)
  BY <1>3, <1>6, OtherSlots, CppOp
<1> HIDE DEF x, k
<1>10. CallsTypeOK' /\ AllTake' /\ Top' = x
  BY <1>1, <1>2, <1>7, <1>8, <1>9, ReturnsTo DEF CallsInv
<1>11. got'.form = f /\ got'.sent = rs /\ got'.before = before /\ got'.read = <<>> /\ ~got'.done
  BY <1>1
<1>12. ResultsStand'
  <2>1. got' # NoCall => got'.before \o Adjusted(got'.form, got'.sent) = s
    BY <1>11 DEF s
  <2> QED
    BY <1>9, <1>10, <2>1 DEF ResultsStand, Ready, Adjusted, Wanted, At
<1>13. ResultsArrive' /\ BalancedCallsKeepStack' /\ FaultHasCause'
  BY <1>1, <1>11 DEF ResultsArrive, BalancedCallsKeepStack, FaultHasCause
<1> QED
  BY <1>10, <1>12, <1>13 DEF CallsInv, Outcome

\* A C++ function returns to Lua (detail/function_traits.hpp:76-104).
LEMMA CppReturnsInv ==
  ASSUME CallsInv, CppReturns, rightToLeft' = rightToLeft
  PROVE  CallsInv'
<1> DEFINE k == Len(frames) - 1
<1>1. /\ fault' = "none" /\ got' = NoCall /\ Len(frames) > 1 /\ frames' = Front(frames)
  BY DEF CppReturns, RunsCpp, Runs
<1>2. k \in Nat /\ k >= 1 /\ k <= Len(frames) /\ k \in DOMAIN frames
  BY <1>1, FramesOp DEF CallsInv
<1>3. frames' = SubSeq(frames, 1, k)
  BY <1>1 DEF Front
<1> HIDE DEF k
<1>4. /\ frames' \in Seq(LuaFrames \cup CppFrames) /\ Len(frames') = k
      /\ \A i \in 1..k : frames'[i] = frames[i]
  BY <1>2, <1>3, FrontOp DEF CallsInv
<1>5. frames' # <<>> /\ \A i \in 1..k : SameCall(frames'[i], frames[i])
  BY <1>2, <1>4 DEF SameCall
<1>6. CallsTypeOK' /\ AllTake'
  BY <1>1, <1>2, <1>4, <1>5, KeepsCalls DEF CallsInv
<1> QED
  BY <1>1, <1>6, NoOutcome DEF CallsInv

\* One sequence after another.
LEMMA Concat ==
  ASSUME NEW b \in Seq(Value), NEW r \in Seq(Value)
  PROVE  /\ b \o r \in Seq(Value) /\ Len(b \o r) = Len(b) + Len(r)
         /\ Len(b) \in Nat /\ Len(r) \in Nat
         /\ \A i \in 1..Len(r) : (b \o r)[Len(b) + i] = r[i]
         /\ SubSeq(b \o r, 1, Len(b)) = b
OBVIOUS

\* The result that C++ reads from the top, as long as it read no container.
LEMMA ResultOp ==
  ASSUME NEW f \in Form, NEW rs \in Seq(Value), NEW before \in Seq(Value),
         NEW s, s = before \o Adjusted(f, rs), Len(f.results) > 0
  PROVE  /\ Len(s) > 0 /\ Len(s) = Len(before) + Wanted(f)
         /\ At(s, Len(s)) = At(rs, Wanted(f))
<1> DEFINE a == Len(before)
           w == Wanted(f)
           r == Adjusted(f, rs)
<1>1. /\ a \in Nat /\ w \in Nat /\ w > 0 /\ Len(r) = w /\ r \in Seq(Value)
      /\ r[w] = At(rs, w)
  <2>1. /\ w \in Nat /\ w > 0 /\ Len(r) = w /\ r \in Seq(Value)
        /\ \A i \in 1..w : r[i] = At(rs, i)
    BY AdjustedOp
  <2> HIDE DEF w, r
  <2>2. w \in 1..w
    BY <2>1
  <2> QED
    BY <2>1, <2>2
<1>2. s = before \o r
  OBVIOUS
<1> HIDE DEF w, r
<1>3. s \in Seq(Value) /\ Len(s) = a + w
  BY <1>1, <1>2, Concat
<1>4. s[a + w] = r[w]
  <2>1. w \in 1..Len(r)
    BY <1>1
  <2> QED
    BY <1>1, <1>2, <2>1, Concat
<1> HIDE DEF a
<1>5. a + w > 0 /\ a + w \in 1..(a + w) /\ a + w \in Int
  BY <1>1
<1>6. At(s, a + w) = r[w]
  BY <1>3, <1>4, <1>5, AtOp
<1> QED
  BY <1>1, <1>3, <1>5, <1>6 DEF a, w

\* C++ reads a result (function.hpp:80, 105, 155, 180).
LEMMA ReadResultInv ==
  ASSUME CallsInv, ReadResult, rightToLeft' = rightToLeft
  PROVE  CallsInv'
<1> DEFINE f == got.form
           k == Len(got.read)
           kind == f.results[k + 1]
           s == Top.slots
           top == Len(s)
<1>1. /\ fault = "none" /\ Top.is = "cpp" /\ got # NoCall /\ ~got.done /\ k < Len(f.results)
  BY DEF ReadResult, Runs, Reading
<1>2. /\ Top \in CppFrames /\ Ready(Top) /\ s \in Seq(Value) /\ top \in Nat
      /\ Top = frames[Len(frames)] /\ Len(frames) \in DOMAIN frames
  <2>1. Ready(Top)
    BY <1>1 DEF CallsInv, Outcome, ResultsStand
  <2>2. Top \in CppFrames /\ Top = frames[Len(frames)] /\ Len(frames) \in DOMAIN frames
    BY <1>1, TopCpp
  <2>3. Top.slots \in Seq(Value)
    BY <2>2, CppOp
  <2> QED
    BY <2>1, <2>2, <2>3
<1>3. /\ got \in Calling /\ f \in Form /\ got.sent \in Seq(Value) /\ got.before \in Seq(Value)
      /\ got.read \in Seq(Value) /\ k \in Nat
  BY <1>1 DEF CallsInv, CallsTypeOK, Calling
<1>4. f.results \in Seq(ItemKind) /\ Len(f.results) \in Nat /\ f.args \in Nat /\ Len(f.results) > 0
  <2>1. f.results \in Seq(ItemKind) /\ f.args \in Nat
    BY <1>3, AdjustedOp
  <2> HIDE DEF f, k
  <2>2. Len(f.results) \in Nat
    BY <2>1
  <2> QED
    BY <1>1, <1>3, <2>1, <2>2
<1>5. k + 1 \in 1..Len(f.results) /\ kind \in ItemKind /\ DOMAIN f.results = 1..Len(f.results)
  <2>1. k + 1 \in 1..Len(f.results)
    BY <1>1, <1>3, <1>4
  <2> QED
    BY <1>4, <2>1
<1>6. (\A j \in 1..k : f.results[j] = "scalar") => s = got.before \o Adjusted(f, got.sent)
  BY <1>1 DEF CallsInv, Outcome, ResultsStand
<1>7. (\A j \in 1..k : f.results[j] = "scalar") => top > 0 /\ At(s, top) = At(got.sent, Wanted(f))
  BY <1>3, <1>4, <1>6, ResultOp
<1>8. Balanced(f) => \A j \in 1..k : f.results[j] = "scalar"
  <2>1. \A j \in 1..k : j \in DOMAIN f.results
    BY <1>1, <1>3, <1>4, <1>5
  <2> QED
    BY <2>1 DEF Balanced
<1> HIDE DEF f, k, s, top, kind
<1>9. CASE /\ top > 0 /\ Works(kind, s, top) /\ fault' = fault
           /\ frames' = [frames EXCEPT ![Len(frames)].slots = Rest(kind, @, top)]
           /\ got' = [got EXCEPT !.read = Append(@, At(s, top))]
  <2> DEFINE r == Rest(kind, s, top)
             x == [Top EXCEPT !.slots = r]
             v == At(s, top)
             g == [got EXCEPT !.read = Append(@, v)]
  <2>1. r \in Seq(Value) /\ (kind = "scalar" => r = s)
    BY <1>2, <1>5, <1>9, RestOp
  <2>2. frames' = [frames EXCEPT ![Len(frames)] = x]
    BY <1>2, <1>9 DEF s
  <2>3. v \in Value
    BY <1>2, AtOp
  <2> HIDE DEF v
  <2>4. /\ Append(got.read, v) \in Seq(Value) /\ Len(Append(got.read, v)) = k + 1
        /\ k + 1 <= Len(f.results)
        /\ \A j \in 1..k : Append(got.read, v)[j] = got.read[j]
        /\ Append(got.read, v)[k + 1] = v
        /\ DOMAIN Append(got.read, v) = 1..(k + 1) /\ DOMAIN got.read = 1..k
    BY <1>3, <1>5, <2>3 DEF k
  <2>5. /\ g \in Calling /\ g.form = f /\ g.sent = got.sent /\ g.before = got.before
        /\ g.read = Append(got.read, v) /\ ~g.done
    <3> DEFINE q == Append(got.read, v)
    <3>1. q \in Seq(Value) /\ Len(q) <= Len(got.form.results)
      BY <2>4 DEF f
    <3>2. g = [got EXCEPT !.read = q]
      OBVIOUS
    <3> HIDE DEF q
    <3> QED
      BY <1>1, <1>3, <3>1, <3>2 DEF Calling, f, q
  <2>6. got' = g
    BY <1>9 DEF v
  <2> HIDE DEF r, g
  <2>7. /\ x \in CppFrames /\ SameCall(x, Top) /\ x.slots = r /\ x.is = "cpp" /\ Ready(x)
    BY <1>2, <2>1, OtherSlots, CppOp
  <2> HIDE DEF x
  <2>8. CallsTypeOK' /\ AllTake' /\ Top' = x
    BY <1>1, <1>9, <2>2, <2>5, <2>6, <2>7, TopKeeps DEF CallsInv
  <2>9. ResultsStand'
    <3>1. ASSUME \A j \in 1..(k + 1) : f.results[j] = "scalar"
          PROVE  r = got.before \o Adjusted(f, got.sent)
      <4>1. (\A j \in 1..k : j \in 1..(k + 1)) /\ k + 1 \in 1..(k + 1)
        BY <1>3
      <4>2. kind = "scalar" /\ \A j \in 1..k : f.results[j] = "scalar"
        BY <3>1, <4>1 DEF kind
      <4> QED
        BY <1>6, <2>1, <4>2
    <3>2. Ready(Top)' /\ Top'.is = "cpp"
      BY <2>7, <2>8 DEF Ready
    <3>3. (\A j \in 1..Len(got'.read) : got'.form.results[j] = "scalar") =>
            Top'.slots = got'.before \o Adjusted(got'.form, got'.sent)
      BY <2>4, <2>5, <2>6, <2>7, <2>8, <3>1
    <3> QED
      BY <3>2, <3>3 DEF ResultsStand, Adjusted, Wanted, At
  <2>10. ResultsArrive'
    <3> SUFFICES ASSUME NEW i \in 1..(k + 1), Append(got.read, v)[i] # At(got.sent, i)
                 PROVE  IF f.args > 0 THEN i > 1
                        ELSE i < Len(f.results) \/ \E j \in 1..(i - 1) : f.results[j] # "scalar"
      BY <2>4, <2>5, <2>6 DEF ResultsArrive, At
    <3>1. CASE i \in 1..k
      <4>1. got.read[i] # At(got.sent, i) /\ i \in DOMAIN got.read
        BY <2>4, <3>1
      <4> QED
        BY <1>1, <4>1 DEF CallsInv, Outcome, ResultsArrive, f
    <3>2. CASE i \notin 1..k
      <4>1. i = k + 1 /\ i - 1 = k
        BY <1>3, <3>2
      <4>2. v # At(got.sent, i)
        BY <2>4, <4>1
      <4>3. CASE f.args > 0
        <5>1. Wanted(f) = 1
          BY <1>3, <1>4, <4>3, AdjustedOp
        <5>2. k = 0 => v = At(got.sent, 1)
          BY <1>7, <5>1 DEF v
        <5>3. k # 0
          BY <4>1, <4>2, <5>2
        <5> QED
          BY <1>3, <4>1, <4>3, <5>3
      <4>4. CASE ~(f.args > 0)
        <5>1. Wanted(f) = Len(f.results)
          <6>1. f.args = 0
            BY <1>4, <4>4
          <6> QED
            BY <1>3, <6>1, AdjustedOp
        <5>2. ASSUME \A j \in 1..k : f.results[j] = "scalar", ~(i < Len(f.results)) PROVE FALSE
          <6>1. v = At(got.sent, Len(f.results))
            BY <1>7, <5>1, <5>2 DEF v
          <6>2. i = Len(f.results)
            BY <1>4, <1>5, <4>1, <5>2
          <6> QED
            BY <4>2, <6>1, <6>2
        <5> QED
          BY <4>1, <4>4, <5>2
      <4> QED
        BY <4>3, <4>4
    <3> QED
      BY <3>1, <3>2
  <2>11. BalancedCallsKeepStack' /\ FaultHasCause'
    BY <1>1, <1>9, <2>5, <2>6 DEF BalancedCallsKeepStack, FaultHasCause
  <2> QED
    BY <2>8, <2>9, <2>10, <2>11 DEF CallsInv, Outcome
<1>10. CASE top > 0 /\ ~Works(kind, s, top) /\ fault' = "next" /\ UNCHANGED <<frames, got>>
  <2>1. /\ CallsTypeOK' /\ AllTake' /\ ResultsStand' /\ ResultsArrive'
        /\ BalancedCallsKeepStack'
    BY <1>1, <1>10 DEF CallsInv, CallsTypeOK, AllTake, Takes, Ready, Outcome, ResultsStand, Top,
         ResultsArrive, BalancedCallsKeepStack, Adjusted, Wanted, At, Balanced
  <2>2. kind # "scalar" /\ At(s, top) \notin Table
    BY <1>10 DEF Works
  <2>3. Len(f.results) > 1 \/ At(got.sent, k + 1) \notin Table
    <3> SUFFICES ASSUME ~(Len(f.results) > 1) PROVE At(got.sent, k + 1) \notin Table
      OBVIOUS
    <3>1. Len(f.results) = 1 /\ k = 0
      <4> DEFINE n == Len(f.results)
      <4>1. n \in Nat /\ n > 0 /\ k \in Nat /\ k < n /\ ~(n > 1)
        BY <1>1, <1>3, <1>4
      <4> HIDE DEF n
      <4>2. n = 1 /\ k = 0
        BY <4>1
      <4> QED
        BY <4>2 DEF n
    <3>2. Wanted(f) = 1
      BY <1>3, <3>1, AdjustedOp
    <3>3. At(s, top) = At(got.sent, 1)
      BY <1>7, <3>1, <3>2
    <3> QED
      BY <2>2, <3>1, <3>3
  <2>4. FaultHasCause'
    BY <1>1, <1>10, <2>2, <2>3 DEF FaultHasCause, f, k, kind, At
  <2> QED
    BY <2>1, <2>4 DEF CallsInv, Outcome
<1>11. CASE top = 0 /\ fault' = "underflow" /\ UNCHANGED <<frames, got>>
  <2>1. /\ CallsTypeOK' /\ AllTake' /\ ResultsStand' /\ ResultsArrive'
        /\ BalancedCallsKeepStack'
    BY <1>1, <1>11 DEF CallsInv, CallsTypeOK, AllTake, Takes, Ready, Outcome, ResultsStand, Top,
         ResultsArrive, BalancedCallsKeepStack, Adjusted, Wanted, At, Balanced
  <2>2. ~Balanced(f)
    BY <1>7, <1>8, <1>11
  <2>3. FaultHasCause'
    BY <1>1, <1>11, <2>2 DEF FaultHasCause, f, Balanced
  <2> QED
    BY <2>1, <2>3 DEF CallsInv, Outcome
<1> QED
  BY <1>9, <1>10, <1>11 DEF ReadResult, f, k, s, top, kind

\* A call is not the absence of one.
LEMMA IsCall == \A c \in Calling : c # NoCall
<1> SUFFICES ASSUME NEW c \in Calling PROVE c # NoCall
  OBVIOUS
<1>1. DOMAIN c = {"form", "sent", "before", "read", "done"}
  BY DEF Calling
<1>2. DOMAIN NoCall = {"none"}
  BY DEF NoCall
<1> QED
  BY <1>1, <1>2

\* The call ends (function.hpp:81, 106, 130-132, 156, 181).
LEMMA EndCallInv ==
  ASSUME CallsInv, EndCall, rightToLeft' = rightToLeft
  PROVE  CallsInv'
<1> DEFINE f == got.form
           s == Top.slots
           left == Len(s) - PoppedAfter(f)
           r == SubSeq(s, 1, left)
           x == [Top EXCEPT !.slots = r]
           g == [got EXCEPT !.done = TRUE]
<1>1. /\ fault = "none" /\ Top.is = "cpp" /\ got # NoCall /\ ~got.done
      /\ Len(got.read) = Len(f.results)
      /\ fault' = IF left < 0 THEN "underflow" ELSE "none"
      /\ frames' = [frames EXCEPT ![Len(frames)].slots = SubSeq(@, 1, left)]
      /\ got' = g
  BY DEF EndCall, Runs, Reading
<1>2. /\ Top \in CppFrames /\ Ready(Top) /\ s \in Seq(Value) /\ Len(s) \in Nat
      /\ Top = frames[Len(frames)] /\ Len(frames) \in DOMAIN frames
  <2>1. Ready(Top)
    BY <1>1 DEF CallsInv, Outcome, ResultsStand
  <2>2. Top \in CppFrames /\ Top = frames[Len(frames)] /\ Len(frames) \in DOMAIN frames
    BY <1>1, TopCpp
  <2>3. Top.slots \in Seq(Value)
    BY <2>2, CppOp
  <2> QED
    BY <2>1, <2>2, <2>3
<1>3. /\ got \in Calling /\ f \in Form /\ got.sent \in Seq(Value) /\ got.before \in Seq(Value)
  BY <1>1 DEF CallsInv, CallsTypeOK, Calling
<1>4. /\ f.results \in Seq(ItemKind) /\ Len(f.results) \in Nat /\ PoppedAfter(f) \in Nat
      /\ Wanted(f) \in Nat
  BY <1>3, AdjustedOp
<1>5. /\ g \in Calling /\ g.form = f /\ g.sent = got.sent /\ g.before = got.before
      /\ g.read = got.read /\ g.done
  BY <1>3 DEF Calling
<1>6. frames' = [frames EXCEPT ![Len(frames)] = x]
  BY <1>1, <1>2
<1>7. left \in Int /\ left <= Len(s)
  BY <1>2, <1>4
<1>8. Balanced(f) => left >= 0 /\ r = got.before
  <2> SUFFICES ASSUME Balanced(f) PROVE left >= 0 /\ r = got.before
    OBVIOUS
  <2> DEFINE a == Adjusted(f, got.sent)
             b == got.before
             n == Len(b)
             w == Wanted(f)
  <2>1. DOMAIN f.results = 1..Len(got.read)
    BY <1>1, <1>4
  <2>2. s = b \o a
    BY <1>1, <2>1 DEF CallsInv, Outcome, ResultsStand, Balanced
  <2>3. a \in Seq(Value) /\ b \in Seq(Value) /\ Len(a) = w /\ w \in Nat /\ n \in Nat
    BY <1>3, AdjustedOp
  <2>4. PoppedAfter(f) = w
    BY <1>3, AdjustedOp DEF Balanced
  <2> HIDE DEF a, b, w
  <2>5. Len(s) = n + w
    BY <2>2, <2>3, Concat
  <2>6. left = n
    BY <2>3, <2>4, <2>5
  <2>7. SubSeq(b \o a, 1, n) = b
    BY <2>3, Concat
  <2> QED
    BY <2>2, <2>3, <2>6, <2>7 DEF b
<1> HIDE DEF left, g, f
<1>9. r \in Seq(Value)
  BY <1>2, <1>7
<1> HIDE DEF r
<1>10. x \in CppFrames /\ SameCall(x, Top) /\ x.slots = r /\ x.is = "cpp" /\ Ready(x)
  BY <1>2, <1>9, OtherSlots, CppOp
<1> HIDE DEF x
<1>11. got' \in Calling \cup {NoCall} /\ fault' \in {"none", "underflow", "next"}
  BY <1>1, <1>5
<1>12. CallsTypeOK' /\ AllTake' /\ Top' = x
  BY <1>1, <1>6, <1>10, <1>11, TopKeeps DEF CallsInv
<1>13. ResultsStand'
  BY <1>1, <1>5, <1>10, <1>12 DEF ResultsStand, Ready
<1>14. ResultsArrive'
  BY <1>1, <1>5 DEF CallsInv, Outcome, ResultsArrive, f, At
<1>15. BalancedCallsKeepStack' /\ FaultHasCause'
  <2>1. ~(left < 0 /\ left >= 0)
    BY <1>7
  <2>2. BalancedCallsKeepStack'
    BY <1>1, <1>5, <1>8, <1>10, <1>12, <2>1 DEF BalancedCallsKeepStack, Balanced
  <2>3. FaultHasCause'
    <3>1. fault' # "next" /\ (fault' = "underflow" => left < 0)
      BY <1>1
    <3>2. got' # NoCall
      <4>1. got' \in Calling
        BY <1>1, <1>5
      <4> QED
        BY <4>1, IsCall
    <3>3. fault' = "underflow" => ~Balanced(got'.form)
      BY <1>1, <1>5, <1>8, <2>1, <3>1
    <3> QED
      BY <3>1, <3>2, <3>3 DEF FaultHasCause, Balanced
  <2> QED
    BY <2>2, <2>3
<1> QED
  BY <1>12, <1>13, <1>14, <1>15 DEF CallsInv, Outcome

\* The innermost protected call is the running function or a Lua function that called it.
LEMMA UnwoundOp ==
  ASSUME CallsInv, Len(frames) > 1
  PROVE  \E k \in DOMAIN frames :
           /\ k > 1 /\ (k = Len(frames) \/ (k = Len(frames) - 1 /\ frames[k].is = "lua"))
           /\ Unwound = IF frames[k].is = "cpp" THEN SubSeq(frames, 1, k - 1)
                        ELSE [SubSeq(frames, 1, k - 1) EXCEPT ![k - 1].throws = TRUE]
<1> DEFINE n == Len(frames)
           Innermost(k) == frames[k].safe /\ \A i \in DOMAIN frames : frames[i].safe => i <= k
           c == CHOOSE k \in DOMAIN frames : Innermost(k)
<1>1. n \in Nat /\ n > 1 /\ DOMAIN frames = 1..n
  BY FramesOp DEF CallsInv
<1>2. \E k \in DOMAIN frames :
        k > 1 /\ (k = n \/ (k = n - 1 /\ frames[k].is = "lua")) /\ Innermost(k)
  <2>1. CASE frames[n].safe
    BY <1>1, <2>1
  <2>2. CASE ~frames[n].safe
    <3>1. n \in DOMAIN frames /\ n - 1 \in DOMAIN frames
      BY <1>1
    <3>2. n % 2 = 1
      BY <2>2, <3>1, FramesOp DEF CallsInv
    <3>3. (n - 1) % 2 = 0 /\ n > 2
      BY <1>1, <3>2
    <3>4. frames[n - 1].is = "lua" /\ frames[n - 1].safe
      BY <3>1, <3>3, FramesOp DEF CallsInv
    <3>5. \A i \in DOMAIN frames : i # n => i <= n - 1
      BY <1>1
    <3>6. Innermost(n - 1)
      BY <2>2, <3>1, <3>4, <3>5
    <3> QED
      BY <1>1, <3>1, <3>3, <3>4, <3>6
  <2> QED
    BY <2>1, <2>2
<1>3. PICK k \in DOMAIN frames :
        k > 1 /\ (k = n \/ (k = n - 1 /\ frames[k].is = "lua")) /\ Innermost(k)
  BY <1>2
<1>4. c \in DOMAIN frames /\ Innermost(c)
  BY <1>3
<1>5. c = k
  <2>1. c <= k /\ k <= c /\ c \in Nat /\ k \in Nat
    BY <1>1, <1>3, <1>4
  <2> QED
    BY <2>1
<1>6. Unwound = IF frames[c].is = "cpp" THEN SubSeq(frames, 1, c - 1)
                ELSE [SubSeq(frames, 1, c - 1) EXCEPT ![c - 1].throws = TRUE]
  BY DEF Unwound
<1> QED
  BY <1>3, <1>5, <1>6

\* An error goes to the innermost protected call (function.hpp:29-33).
LEMMA FailsInv ==
  ASSUME CallsInv, Fails, rightToLeft' = rightToLeft
  PROVE  CallsInv'
<1>1. fault = "none" /\ fault' = "none" /\ got' = NoCall /\ Len(frames) > 1 /\ frames' = Unwound
  BY DEF Fails
<1>2. PICK k \in DOMAIN frames :
        /\ k > 1
        /\ Unwound = IF frames[k].is = "cpp" THEN SubSeq(frames, 1, k - 1)
                     ELSE [SubSeq(frames, 1, k - 1) EXCEPT ![k - 1].throws = TRUE]
  BY <1>1, UnwoundOp
<1> DEFINE m == k - 1
<1>3. m \in Nat /\ m >= 1 /\ m <= Len(frames) /\ m \in DOMAIN frames /\ k \in Nat /\ m + 1 = k
  <2>1. /\ k \in Nat /\ k > 1 /\ k <= Len(frames)
        /\ Len(frames) \in Nat /\ DOMAIN frames = 1..Len(frames)
    BY <1>2, FramesOp DEF CallsInv
  <2> QED
    BY <2>1
<1>4. CASE frames[k].is = "cpp"
  <2>1. frames' = SubSeq(frames, 1, m)
    BY <1>1, <1>2, <1>4
  <2> HIDE DEF m
  <2>2. /\ frames' \in Seq(LuaFrames \cup CppFrames) /\ Len(frames') = m
        /\ \A i \in 1..m : frames'[i] = frames[i]
    BY <1>3, <2>1, FrontOp DEF CallsInv
  <2>3. frames' # <<>> /\ \A i \in 1..m : SameCall(frames'[i], frames[i])
    BY <1>3, <2>2 DEF SameCall
  <2>4. CallsTypeOK' /\ AllTake'
    BY <1>1, <1>3, <2>2, <2>3, KeepsCalls DEF CallsInv
  <2> QED
    BY <1>1, <2>4, NoOutcome DEF CallsInv
<1>5. CASE frames[k].is # "cpp"
  <2> DEFINE x == [frames[m] EXCEPT !.throws = TRUE]
  <2>1. frames' = [SubSeq(frames, 1, m) EXCEPT ![m].throws = TRUE]
    BY <1>1, <1>2, <1>5
  <2>2. SubSeq(frames, 1, m)[m] = frames[m]
    BY <1>3, FrontOp DEF CallsInv
  <2>3. frames' = [SubSeq(frames, 1, m) EXCEPT ![m] = x]
    BY <2>1, <2>2
  <2> HIDE DEF m
  <2>4. k % 2 = 0
    BY <1>5, FramesOp DEF CallsInv
  <2>5. m % 2 = 1
    BY <1>3, <2>4
  <2>6. frames[m] \in CppFrames
    BY <1>3, <2>5, FramesOp DEF CallsInv
  <2>7. x \in CppFrames /\ SameCall(x, frames[m])
    BY <2>6 DEF CppFrames, SameCall
  <2> HIDE DEF x
  <2>8. CallsTypeOK' /\ AllTake'
    BY <1>1, <1>3, <2>3, <2>7, ReturnsTo DEF CallsInv
  <2> QED
    BY <1>1, <2>8, NoOutcome DEF CallsInv
<1> QED
  BY <1>4, <1>5

\* The invariant is inductive.
LEMMA CallsStep == CallsInv /\ [CallsNext]_calls => CallsInv'
<1> SUFFICES ASSUME CallsInv, [CallsNext]_calls PROVE CallsInv'
  OBVIOUS
<1>1. CASE UNCHANGED calls
  <2>1. CallsTypeOK' /\ AllTake'
    BY <1>1 DEF calls, CallsInv, CallsTypeOK, AllTake, Takes, Ready
  <2>2. ResultsStand' /\ ResultsArrive'
    BY <1>1 DEF calls, CallsInv, Outcome, ResultsStand, Ready, Top, ResultsArrive, Adjusted,
                Wanted, At
  <2>3. BalancedCallsKeepStack' /\ FaultHasCause'
    BY <1>1 DEF calls, CallsInv, Outcome, BalancedCallsKeepStack, FaultHasCause, Top, Balanced,
                Awaited, At
  <2> QED
    BY <2>1, <2>2, <2>3 DEF CallsInv, Outcome
<1>2. CASE CallsNext
  BY <1>2, PushValueInv, CallLuaInv, LuaReturnsInv, ReadResultInv, EndCallInv, InvokeInv,
     TakeParameterInv, CppReturnsInv, FailsInv, CatchInv
     DEF CallsNext
<1> QED
  BY <1>1, <1>2

-----------------------------------------------------------------------------
(* Theorems about calls.                                                   *)

\* Every reachable state satisfies the invariant of calls.
THEOREM CallsInvariant == CallsSpec => []CallsInv
<1> QED
  BY CallsBegin, CallsStep, PTL DEF CallsSpec

\* C++ and Lua take turns, with frames that keep their types (function.hpp:53-184;
\* detail/function_traits.hpp:59-104).
THEOREM CallsTypeCorrect == CallsSpec => []CallsTypeOK
<1>1. CallsInv => CallsTypeOK
  BY DEF CallsInv
<1> QED
  BY <1>1, CallsInvariant, PTL

\* Which results of Lua arrive in their places, for functions with any results, of any kinds
\* (function.hpp:75-183; detail/primitive_traits.hpp:135-206).
THEOREM ResultsReach == CallsSpec => []ResultsArrive
<1>1. CallsInv => ResultsArrive
  BY DEF CallsInv, Outcome
<1> QED
  BY <1>1, CallsInvariant, PTL

\* A call with no containers among its results, and one result if it has arguments, leaves the
\* stack as it was (function.hpp:53-183).
THEOREM BalancedIsEven == CallsSpec => []BalancedCallsKeepStack
<1>1. CallsInv => BalancedCallsKeepStack
  BY DEF CallsInv, Outcome
<1> QED
  BY <1>1, CallsInvariant, PTL

\* Whatever functions a script calls with whatever arguments, a C++ function has them as its
\* parameters, unless the compiler evaluates from the left and a container was taken earlier
\* (detail/function_traits.hpp:73-77; detail/primitive_traits.hpp:135-206).
THEOREM ArgumentsReach == CallsSpec => []ArgumentsArrive
<1>1. CallsInv => ArgumentsArrive
  <2> SUFFICES ASSUME CallsInv, NEW n \in DOMAIN frames, frames[n].is = "cpp",
                      NEW i \in DOMAIN frames[n].params, IsTaken(frames[n], i),
                      frames[n].params[i] # At(frames[n].args, i)
               PROVE  ~rightToLeft /\ \E j \in 1..(i - 1) : frames[n].prototype[j] # "scalar"
    BY DEF ArgumentsArrive
  <2> DEFINE x == frames[n]
  <2>1. x \in CppFrames /\ Takes(rightToLeft, x) /\ rightToLeft \in BOOLEAN
    BY FramesOp DEF CallsInv, CallsTypeOK, AllTake
  <2>2. /\ x.taken \in Nat /\ x.taken <= Len(x.prototype) /\ Len(x.prototype) \in Nat
        /\ DOMAIN x.params = 1..Len(x.prototype)
    BY <2>1, CppOp
  <2>3. ~rightToLeft
    BY <2>1 DEF Takes, IsTaken
  <2>4. i \in 1..x.taken
    BY <2>2, <2>3 DEF IsTaken
  <2> QED
    BY <2>1, <2>3, <2>4 DEF Takes
<1> QED
  BY <1>1, CallsInvariant, PTL

\* Calls underflow the stack, and reading a container fails, only for the reasons that
\* FaultHasCause names (function.hpp:124-183; detail/primitive_traits.hpp:135-206).
THEOREM FaultIsExplained == CallsSpec => []FaultHasCause
<1>1. CallsInv => FaultHasCause
  BY DEF CallsInv, Outcome
<1> QED
  BY <1>1, CallsInvariant, PTL
-----------------------------------------------------------------------------
(* Arithmetic of conversions.                                              *)

\* Multiples of a unit are ordered as their factors are.
LEMMA ProductOrder ==
  ASSUME NEW a \in Int, NEW b \in Int, NEW u \in Nat \ {0}
  PROVE  /\ a * u \in Int /\ b * u \in Int
         /\ a * u < b * u => a < b
         /\ a * u <= b * u => a <= b
         /\ a <= b => a * u <= b * u
<1>1. ASSUME a <= b PROVE a * u <= b * u
  BY <1>1
<1>2. ASSUME b < a PROVE b * u < a * u
  BY <1>2
<1> QED
  BY <1>1, <1>2

\* Division with remainder.
LEMMA Division ==
  ASSUME NEW x \in Int, NEW u \in Nat \ {0}
  PROVE  /\ x \div u \in Int /\ x % u \in 0..(u - 1)
         /\ x - (x % u) = (x \div u) * u
         /\ x - (x % u) + u = (x \div u + 1) * u
<1>1. x \div u \in Int /\ x % u \in 0..(u - 1) /\ x = u * (x \div u) + (x % u)
  OBVIOUS
<1> DEFINE q == x \div u
           r == x % u
<1>2. q \in Int /\ r \in Int /\ x = u * q + r
  BY <1>1
<1> HIDE DEF q, r
<1>3. x - r = q * u /\ x - r + u = (q + 1) * u
  BY <1>2
<1>4. x - (x % u) = (x \div u) * u
  BY <1>3, Zenon DEF q, r
<1>5. x - (x % u) + u = (x \div u + 1) * u
  BY <1>3, Zenon DEF q, r
<1> QED
  BY <1>1, <1>4, <1>5

\* A multiple has no remainder.
LEMMA NoRemainder ==
  ASSUME NEW m \in Int, NEW u \in Nat \ {0}
  PROVE  (m * u) % u = 0
<1> DEFINE x == m * u
           q == x \div u
           r == x % u
<1>1. x \in Int
  OBVIOUS
<1> HIDE DEF x
<1>2. q \in Int /\ r \in 0..(u - 1) /\ x - r = q * u
  BY <1>1, Division
<1> HIDE DEF q, r
<1>3. r = (m - q) * u
  BY <1>1, <1>2 DEF x
<1>4. m - q \in Int /\ 0 * u <= (m - q) * u /\ (m - q) * u < 1 * u
  BY <1>2, <1>3
<1>5. 0 <= m - q /\ m - q < 1
  BY <1>4, ProductOrder
<1>6. m - q = 0
  BY <1>2, <1>5
<1>7. r = 0
  BY <1>3, <1>6
<1> QED
  BY <1>7 DEF x, r

\* Of two powers of two the lesser divides the other one.
LEMMA PowersDivide ==
  ASSUME NEW units, PowersOfTwo(units), NEW u \in units, NEW w \in units, u <= w
  PROVE  \E k \in Nat : w = k * u
<1> DEFINE Undivided(n) == \E v \in units : v <= n /\ ~\E k \in Nat : n = k * v
           B == {n \in units : Undivided(n)}
<1> SUFFICES ASSUME B # {} PROVE FALSE
  OBVIOUS
<1>1. B \subseteq Nat
  BY DEF PowersOfTwo
<1>2. Min(B) \in B /\ \A n \in B : Min(B) <= n
  BY <1>1, LeastNumber
<1>3. PICK n \in B : \A i \in B : n <= i
  BY <1>2
<1>4. PICK v \in units : v <= n /\ ~\E k \in Nat : n = k * v
  BY <1>3
<1>5. n \in Nat \ {0} /\ v \in Nat \ {0} /\ n \in units
  BY <1>3, <1>4 DEF PowersOfTwo
<1>6. v # 1
  BY <1>4, <1>5
<1>7. n # 1
  BY <1>4, <1>5, <1>6
<1>8. PICK h \in units : n = 2 * h
  BY <1>5, <1>7 DEF PowersOfTwo
<1>9. PICK g \in units : v = 2 * g
  BY <1>4, <1>6 DEF PowersOfTwo
<1>10. h \in Nat \ {0} /\ g \in Nat \ {0}
  BY DEF PowersOfTwo
<1>11. h < n /\ g <= h
  BY <1>4, <1>8, <1>9, <1>10
<1>12. h \notin B
  BY <1>3, <1>5, <1>10, <1>11
<1>13. PICK k \in Nat : h = k * g
  BY <1>11, <1>12
<1>14. n = k * v
  BY <1>8, <1>9, <1>10, <1>13
<1> QED
  BY <1>4, <1>14

-----------------------------------------------------------------------------
(* Rounding.                                                               *)

\* The unit for a number in range is one of the units, and no lesser one would do.
LEMMA UnitOp ==
  ASSUME NEW bound \in Nat, NEW units, PowersOfTwo(units), NEW x \in Int,
         NEW w \in units, Within(x, bound * w)
  PROVE  LET u == UnitOf(bound, units, x)
         IN /\ u \in units /\ u \in Nat \ {0} /\ u <= w
            /\ Within(x, bound * u)
            /\ \A v \in units : v < u => ~Within(x, bound * v)
<1> DEFINE I == {u \in units : Within(x, bound * u)}
<1>1. I \subseteq Nat /\ w \in I
  BY DEF PowersOfTwo
<1>2. Min(I) \in I /\ \A u \in I : Min(I) <= u
  BY <1>1, LeastNumber
<1> DEFINE Chosen(u) == Within(x, bound * u) /\ \A v \in units : v < u => ~Within(x, bound * v)
<1>3. \A v \in units : v < Min(I) => ~Within(x, bound * v)
  <2> SUFFICES ASSUME NEW v \in units, v < Min(I), Within(x, bound * v) PROVE FALSE
    OBVIOUS
  <2>1. v \in I
    OBVIOUS
  <2>2. v \in Nat /\ Min(I) \in Nat /\ Min(I) <= v
    BY <1>1, <1>2, <2>1
  <2> QED
    BY <2>2
<1>4. \E u \in units : Chosen(u)
  BY <1>2, <1>3
<1>5. UnitOf(bound, units, x) = CHOOSE u \in units : Chosen(u)
  BY DEF UnitOf
<1> HIDE DEF Chosen
<1> DEFINE u == UnitOf(bound, units, x)
<1>6. u \in units /\ Chosen(u)
  BY <1>4, <1>5
<1>7. u \in Nat \ {0} /\ w \in Nat
  BY <1>6 DEF PowersOfTwo
<1> HIDE DEF u
<1>8. u <= w
  BY <1>6, <1>7 DEF Chosen
<1> QED
  BY <1>6, <1>7, <1>8 DEF u, Chosen

\* A rounded number is a multiple of its unit, and at most half a unit away.
LEMMA RoundedOp ==
  ASSUME NEW bound \in Nat, NEW units, PowersOfTwo(units), NEW x \in Int,
         NEW w \in units, Within(x, bound * w), NEW d \in Rounded(bound, units, x)
  PROVE  LET u == UnitOf(bound, units, x)
         IN /\ d \in Int
            /\ 2 * (x - d) <= u /\ 2 * (d - x) <= u
            /\ \E m \in -bound..bound : d = m * u
<1> DEFINE u == UnitOf(bound, units, x)
           q == x \div u
           r == x % u
<1>1. u \in Nat \ {0} /\ Within(x, bound * u)
  BY UnitOp
<1>2. d \in Neighbours(x, u) /\ Within(2 * (x - d), u)
  BY DEF Rounded
<1> HIDE DEF u
<1>3. q \in Int /\ r \in 0..(u - 1) /\ x - r = q * u /\ x - r + u = (q + 1) * u
  BY <1>1, Division
<1>4. d = x - r \/ (r # 0 /\ d = x - r + u)
  BY <1>2, <1>3 DEF Neighbours
<1> HIDE DEF q, r
<1>5. d = q * u \/ (r # 0 /\ d = (q + 1) * u)
  BY <1>3, <1>4
<1>6. d \in Int /\ u \in Int /\ r \in Int /\ -bound \in Int /\ bound \in Int
  BY <1>1, <1>3, <1>4
<1>7. 2 * (x - d) <= u /\ 2 * (d - x) <= u
  BY <1>1, <1>2, <1>6 DEF Within
<1>8. -(bound * u) <= x /\ x <= bound * u /\ bound * u \in Int
  BY <1>1 DEF Within
<1>9. q * u <= bound * u /\ (-bound) * u < (q + 1) * u
  BY <1>1, <1>3, <1>8
<1>10. q <= bound /\ -bound < q + 1
  BY <1>1, <1>3, <1>6, <1>9, ProductOrder
<1>11. r # 0 => q < bound
  <2> SUFFICES ASSUME r # 0 PROVE q < bound
    OBVIOUS
  <2>1. q * u < bound * u
    BY <1>3, <1>6, <1>8
  <2> QED
    BY <1>1, <1>3, <2>1, ProductOrder
<1>12. \E m \in -bound..bound : d = m * u
  <2>1. q \in -bound..bound
    BY <1>3, <1>10
  <2>2. r # 0 => q + 1 \in -bound..bound
    BY <1>3, <1>10, <1>11
  <2> QED
    BY <1>5, <2>1, <2>2
<1> QED
  BY <1>6, <1>7, <1>12 DEF u

\* A number that need not be rounded is not.
LEMMA RoundedKeeps ==
  ASSUME NEW bound \in Nat, NEW units, PowersOfTwo(units), NEW w \in units,
         NEW m \in -bound..bound
  PROVE  /\ m * w \in Int /\ Within(m * w, bound * w)
         /\ Rounded(bound, units, m * w) = {m * w}
<1> DEFINE x == m * w
           u == UnitOf(bound, units, x)
<1>1. m \in Int /\ m <= bound /\ -bound <= m /\ w \in Nat \ {0} /\ -bound \in Int
  BY DEF PowersOfTwo
<1>2. m * w <= bound * w /\ (-bound) * w <= m * w /\ m * w \in Int /\ bound * w \in Int
  BY <1>1, ProductOrder
<1>3. Within(x, bound * w)
  BY <1>1, <1>2 DEF Within
<1>4. x \in Int
  BY <1>2
<1>5. u \in units /\ u \in Nat \ {0} /\ u <= w
  BY <1>3, <1>4, UnitOp
<1> HIDE DEF u
<1>6. PICK k \in Nat : w = k * u
  BY <1>5, PowersDivide
<1>7. x = (m * k) * u /\ m * k \in Int
  BY <1>1, <1>5, <1>6
<1>8. x % u = 0
  BY <1>5, <1>7, NoRemainder
<1> HIDE DEF x
<1>9. Neighbours(x, u) = {x}
  BY <1>8 DEF Neighbours
<1>10. Within(2 * (x - x), u)
  BY <1>4, <1>5 DEF Within
<1>11. Rounded(bound, units, x) = {x}
  BY <1>9, <1>10 DEF Rounded, u
<1> QED
  BY <1>3, <1>4, <1>11 DEF x

-----------------------------------------------------------------------------
(* Types and casts.                                                        *)

\* The constants that double and float are made of.
LEMMA Precisions ==
  /\ IntMod \in Nat /\ LongMod \in Nat /\ Exact \in Nat /\ FloatExact \in Nat
  /\ IntMod > 1 /\ Exact > 1 /\ Exact < LongMod \div 2 /\ LongMod <= 2 * Exact * Exact
  /\ PowersOfTwo(Unit) /\ PowersOfTwo(FloatUnit)
  /\ Unit \subseteq Nat \ {0} /\ FloatUnit \subseteq Nat \ {0} /\ 1 \in Unit
  /\ Float \subseteq Double
<1>1. PowersOfTwo(Unit) /\ PowersOfTwo(FloatUnit)
  BY ConversionsAssumption
<1>2. Unit \subseteq Nat \ {0} /\ FloatUnit \subseteq Nat \ {0} /\ 1 \in Unit
  BY <1>1 DEF PowersOfTwo
<1> QED
  BY <1>1, <1>2, ConversionsAssumption

\* Doubles are not rounded when they become doubles.
LEMMA DoubleKept ==
  ASSUME NEW d \in Double
  PROVE  d \in Int /\ ToDouble(d) = {d}
<1>1. PICK m \in -Exact..Exact, u \in Unit : d = m * u
  BY DEF Double
<1>2. Exact \in Nat /\ PowersOfTwo(Unit)
  BY Precisions
<1>3. m * u \in Int /\ Rounded(Exact, Unit, m * u) = {m * u}
  BY <1>1, <1>2, RoundedKeeps
<1> QED
  BY <1>1, <1>3 DEF ToDouble

\* Nor are floats when they become floats.
LEMMA FloatKept ==
  ASSUME NEW d \in Float
  PROVE  d \in Int /\ ToFloat(d) = {d}
<1>1. PICK m \in -FloatExact..FloatExact, u \in FloatUnit : d = m * u
  BY DEF Float
<1>2. FloatExact \in Nat /\ PowersOfTwo(FloatUnit)
  BY Precisions
<1>3. m * u \in Int /\ Rounded(FloatExact, FloatUnit, m * u) = {m * u}
  BY <1>1, <1>2, RoundedKeeps
<1> QED
  BY <1>1, <1>3 DEF ToFloat

\* Integers up to Exact are doubles.
LEMMA ExactIsDouble ==
  ASSUME NEW x \in -Exact..Exact
  PROVE  x \in Double
<1>1. x \in Int /\ x * 1 = x /\ 1 \in Unit
  BY Precisions
<1> QED
  BY <1>1 DEF Double

\* A double of every integer in the range of long.
LEMMA LongToDouble ==
  ASSUME NEW x \in Int, Within(x, LongMod \div 2), NEW d \in ToDouble(x)
  PROVE  d \in Double
<1>1. PICK w \in Unit : LongMod \div 2 <= Exact * w
  BY ConversionsAssumption
<1>2. LongMod \div 2 \in Int /\ Exact * w \in Int
  BY Precisions
<1>3. Within(x, Exact * w)
  BY <1>1, <1>2 DEF Within
<1>4. UnitOf(Exact, Unit, x) \in Unit
  BY <1>3, Precisions, UnitOp
<1>5. \E m \in -Exact..Exact : d = m * UnitOf(Exact, Unit, x)
  BY <1>3, Precisions, RoundedOp DEF ToDouble
<1> QED
  BY <1>4, <1>5 DEF Double

\* A float of every double.
LEMMA DoubleToFloat ==
  ASSUME NEW x \in Double, NEW d \in ToFloat(x)
  PROVE  d \in Float
<1>1. PICK m \in -Exact..Exact, u \in Unit : x = m * u
  BY DEF Double
<1>2. PICK w \in FloatUnit : Exact * u <= FloatExact * w
  BY ConversionsAssumption
<1>3. Within(x, Exact * u) /\ x \in Int
  BY <1>1, Precisions, RoundedKeeps
<1>4. Exact * u \in Int /\ FloatExact * w \in Int
  BY Precisions
<1>5. Within(x, FloatExact * w)
  BY <1>2, <1>3, <1>4 DEF Within
<1>6. UnitOf(FloatExact, FloatUnit, x) \in FloatUnit
  BY <1>3, <1>5, Precisions, UnitOp
<1>7. \E k \in -FloatExact..FloatExact : d = k * UnitOf(FloatExact, FloatUnit, x)
  BY <1>3, <1>5, Precisions, RoundedOp DEF ToFloat
<1> QED
  BY <1>6, <1>7 DEF Float

\* The range of an integer type.
LEMMA Ranges ==
  ASSUME NEW t \in IntegerType
  PROVE  /\ Mod(t) \in Nat \ {0} /\ Least(t) \in Int /\ Largest(t) \in Int
         /\ Least(t) <= Largest(t) /\ ValuesOf(t) = Least(t)..Largest(t)
         /\ ValuesOf(t) \subseteq Int
<1>1. IntMod \in Nat \ {0} /\ LongMod \in Nat \ {0}
  BY Precisions
<1>2. Mod(t) \in Nat \ {0}
  BY <1>1 DEF Mod
<1>3. Mod(t) \div 2 \in Int
  BY <1>2
<1>4. Least(t) \in Int
  BY <1>3 DEF Least
<1>5. Largest(t) \in Int /\ Least(t) <= Largest(t)
  BY <1>2, <1>4 DEF Largest
<1>6. ValuesOf(t) = Least(t)..Largest(t)
  BY DEF ValuesOf, IntegerType
<1>7. Least(t)..Largest(t) \subseteq Int
  BY <1>4, <1>5
<1> QED
  BY <1>2, <1>4, <1>5, <1>6, <1>7, Zenon

\* A cast to an integer type gives one of its values, and keeps those.
LEMMA CastInteger ==
  ASSUME NEW t \in IntegerType, NEW d \in Int
  PROVE  /\ Cast(t, d) \subseteq ValuesOf(t)
         /\ d \in ValuesOf(t) => Cast(t, d) = {d} /\ Wrapped(t, d) = d
<1> DEFINE n == Mod(t)
           a == Least(t)
           b == Largest(t)
<1>1. /\ n \in Nat \ {0} /\ a \in Int /\ b \in Int /\ a <= b /\ ValuesOf(t) = a..b
      /\ b = a + n - 1
  BY Ranges DEF Largest
<1>2. Cast(t, d) = IF d \in ValuesOf(t) THEN {d} ELSE {Wrapped(t, d), Saturated(t, d), Least(t)}
  BY DEF Cast, IntegerType
<1>3. Wrapped(t, d) = a + ((d - a) % n)
  BY DEF Wrapped
<1>4. Saturated(t, d) \in {a, b}
  BY DEF Saturated
<1> HIDE DEF n, a, b
<1>5. d - a \in Int /\ (d - a) % n \in 0..(n - 1)
  BY <1>1
<1>6. Wrapped(t, d) \in a..b
  BY <1>1, <1>3, <1>5
<1>7. ASSUME d \in a..b PROVE Wrapped(t, d) = d
  <2>1. d - a \in 0..(n - 1)
    BY <1>1, <1>7
  <2>2. (d - a) % n = d - a
    BY <1>1, <2>1
  <2> QED
    BY <1>1, <1>3, <2>2
<1>8. Saturated(t, d) \in a..b /\ Least(t) \in a..b
  BY <1>1, <1>4 DEF a
<1> QED
  BY <1>1, <1>2, <1>6, <1>7, <1>8

\* A wrapped number is one of the type.
LEMMA WrappedOp ==
  ASSUME NEW t \in IntegerType, NEW x \in Int
  PROVE  Wrapped(t, x) \in ValuesOf(t)
<1> DEFINE n == Mod(t)
           a == Least(t)
<1>1. n \in Nat \ {0} /\ a \in Int /\ ValuesOf(t) = a..(a + n - 1)
  BY Ranges DEF Largest
<1>2. Wrapped(t, x) = a + ((x - a) % n)
  BY DEF Wrapped
<1> HIDE DEF n, a
<1>3. x - a \in Int /\ (x - a) % n \in 0..(n - 1)
  BY <1>1
<1> QED
  BY <1>1, <1>2, <1>3

\* A cast of a double gives a value of the type, and keeps those.
LEMMA CastOp ==
  ASSUME NEW t \in NumberType, NEW d \in Double
  PROVE  /\ Cast(t, d) \subseteq ValuesOf(t)
         /\ d \in ValuesOf(t) => Cast(t, d) = {d}
<1>1. d \in Int
  BY DoubleKept
<1>2. CASE t \in IntegerType
  BY <1>1, <1>2, CastInteger
<1>3. CASE t = "float"
  <2>1. Cast(t, d) = ToFloat(d) /\ ValuesOf(t) = Float
    BY <1>3 DEF Cast, ValuesOf, IntegerType
  <2> QED
    BY <2>1, FloatKept, DoubleToFloat
<1>4. CASE t = "double"
  BY <1>4 DEF Cast, ValuesOf, IntegerType
<1> QED
  BY <1>2, <1>3, <1>4 DEF NumberType

\* The range of long.
LEMMA LongRange ==
  /\ "long" \in IntegerType
  /\ LongMod \div 2 \in Nat
  /\ ValuesOf("long") = -(LongMod \div 2)..(LongMod - (LongMod \div 2) - 1)
  /\ \A i \in ValuesOf("long") : i \in Int /\ Within(i, LongMod \div 2)
  /\ -Exact..Exact \subseteq ValuesOf("long")
<1>1. LongMod \in Nat /\ Exact \in Nat /\ Exact < LongMod \div 2
  BY Precisions
<1> DEFINE h == LongMod \div 2
<1>2. h \in Nat /\ LongMod - h - 1 <= h /\ Exact <= LongMod - h - 1 /\ Exact < h
  BY <1>1
<1>3. "long" \in IntegerType
  BY DEF IntegerType
<1>4. Least("long") = -h /\ Largest("long") = -h + LongMod - 1
  BY DEF Least, Largest, Mod
<1>5. ValuesOf("long") = Least("long")..Largest("long")
  BY <1>3, Ranges
<1> HIDE DEF h
<1>6. ValuesOf("long") = -h..(LongMod - h - 1)
  BY <1>1, <1>2, <1>4, <1>5
<1>7. \A i \in ValuesOf("long") : i \in Int /\ Within(i, h)
  BY <1>1, <1>2, <1>6 DEF Within
<1>8. -Exact..Exact \subseteq ValuesOf("long")
  BY <1>1, <1>2, <1>6
<1> QED
  BY <1>2, <1>3, <1>6, <1>7, <1>8 DEF h

-----------------------------------------------------------------------------
(* Numbers that are pushed and read.                                       *)

\* What Lua has is a double next to the number, unless the number is a long whose double is
\* out of the range of long; up to Exact it is the number.
Close(x, d) ==
  /\ d \in Double
  /\ Within(x, Exact) => d = x
  /\ Within(x, Limit) => d \in ToDouble(x) /\ d \in ValuesOf("long")

\* A double close to a number of long is in the range of long.
LEMMA NearIsLong ==
  ASSUME NEW x \in Int, Within(x, Limit), NEW d \in ToDouble(x)
  PROVE  d \in ValuesOf("long")
<1> DEFINE h == LongMod \div 2
           u == UnitOf(Exact, Unit, x)
<1>1. /\ LongMod \in Nat /\ Exact \in Nat \ {0} /\ Exact < h /\ h \in Nat
      /\ LongMod <= 2 * Exact * Exact
  BY Precisions, LongRange
<1>2. 2 * h <= LongMod
  BY <1>1
<1>3. Limit = h - Exact
  BY DEF Limit
<1>4. PICK w \in Unit : h <= Exact * w
  BY ConversionsAssumption
<1>5. w \in Nat /\ Exact * w \in Int
  BY <1>1, Precisions
<1> HIDE DEF h
<1>6. -(h - Exact) <= x /\ x <= h - Exact
  BY <1>3 DEF Within
<1>7. Within(x, Exact * w)
  BY <1>1, <1>4, <1>5, <1>6 DEF Within
<1>8. /\ u \in Unit /\ u \in Nat \ {0}
      /\ \A v \in Unit : v < u => ~Within(x, Exact * v)
  BY <1>7, Precisions, UnitOp
<1>9. d \in Int /\ 2 * (x - d) <= u /\ 2 * (d - x) <= u
  BY <1>7, Precisions, RoundedOp DEF ToDouble
<1> HIDE DEF u
<1>10. u < 2 * Exact
  <2>1. CASE u = 1
    BY <1>1, <2>1
  <2>2. CASE u # 1
    <3>1. PICK v \in Unit : u = 2 * v
      BY <1>8, <2>2, Precisions DEF PowersOfTwo
    <3>2. v \in Nat \ {0} /\ v < u
      BY <1>8, <3>1, Precisions
    <3>3. ~Within(x, Exact * v)
      BY <1>8, <3>2
    <3>4. Exact * v \in Int
      BY <1>1, <3>2
    <3>5. Exact * v < h - Exact
      BY <1>1, <1>6, <3>3, <3>4 DEF Within
    <3>6. 2 * (Exact * v) < 2 * Exact * Exact
      BY <1>1, <1>2, <3>4, <3>5
    <3>7. v * Exact < Exact * Exact
      BY <1>1, <3>2, <3>6
    <3>8. v < Exact
      BY <1>1, <3>2, <3>7, ProductOrder
    <3> QED
      BY <1>1, <3>1, <3>2, <3>8
  <2> QED
    BY <2>1, <2>2
<1>11. -h <= d /\ d <= h - 1
  BY <1>1, <1>6, <1>8, <1>9, <1>10
<1>12. ValuesOf("long") = -h..(LongMod - h - 1)
  BY LongRange DEF h
<1> QED
  BY <1>1, <1>2, <1>9, <1>11, <1>12

\* Numbers up to Limit are in the range of long.
LEMMA LimitIsLong ==
  ASSUME NEW x \in Int, Within(x, Limit)
  PROVE  x \in ValuesOf("long")
<1> DEFINE h == LongMod \div 2
<1>1. LongMod \in Nat /\ Exact \in Nat /\ Exact < h /\ h \in Nat /\ 2 * h <= LongMod
  BY Precisions, LongRange
<1>2. -(h - Exact) <= x /\ x <= h - Exact
  BY DEF Within, Limit
<1>3. ValuesOf("long") = -h..(LongMod - h - 1)
  BY LongRange
<1>4. Exact > 0
  BY ConversionsAssumption
<1> HIDE DEF h
<1> QED
  BY <1>1, <1>2, <1>3, <1>4

\* What Lua has after a number is pushed.
LEMMA PushedOp ==
  ASSUME NEW t \in NumberType, NEW x \in ValuesOf(t), NEW d \in Pushed(t, x)
  PROVE  x \in Int /\ Close(x, d)
<1>1. CASE t \in {"float", "double"}
  <2>1. d = x /\ x \in Double
    BY <1>1, Precisions DEF Pushed, ValuesOf, IntegerType
  <2>2. x \in Int /\ ToDouble(x) = {x}
    BY <2>1, DoubleKept
  <2> QED
    BY <2>1, <2>2, NearIsLong DEF Close
<1>2. CASE t \notin {"float", "double"}
  <2>1. t \in IntegerType
    BY <1>2 DEF NumberType
  <2>2. x \in Int
    BY <2>1, Ranges
  <2> DEFINE l == Wrapped("long", x)
  <2>3. PICK c \in ToDouble(l) : \E i \in Cast("long", c) : d \in ToDouble(i)
    BY <1>2 DEF Pushed
  <2> PICK i \in Cast("long", c) : d \in ToDouble(i)
    BY <2>3
  <2>4. l \in ValuesOf("long")
    BY <2>2, LongRange, WrappedOp
  <2>5. l \in Int /\ Within(l, LongMod \div 2)
    BY <2>4, LongRange
  <2>6. c \in Double /\ c \in Int
    BY <2>3, <2>5, LongToDouble, DoubleKept
  <2>7. i \in ValuesOf("long")
    BY <2>3, <2>6, LongRange, CastInteger
  <2>8. i \in Int /\ Within(i, LongMod \div 2)
    BY <2>7, LongRange
  <2>9. d \in Double
    BY <2>3, <2>8, LongToDouble
  <2>10. x \in ValuesOf("long") => l = x
    BY <2>2, LongRange, CastInteger
  <2>11. c \in ValuesOf("long") => i = c /\ d = c
    BY <2>3, <2>6, LongRange, CastInteger, DoubleKept
  <2> HIDE DEF l
  <2>12. ASSUME Within(x, Exact) PROVE d = x
    <3>1. x \in -Exact..Exact
      BY <2>2, <2>12, Precisions DEF Within
    <3>2. x \in ValuesOf("long") /\ x \in Double
      BY <3>1, LongRange, ExactIsDouble
    <3>3. l = x /\ c = x
      BY <2>3, <2>10, <3>2, DoubleKept
    <3> QED
      BY <2>11, <3>2, <3>3
  <2>13. ASSUME Within(x, Limit) PROVE d \in ToDouble(x) /\ d \in ValuesOf("long")
    <3>1. x \in ValuesOf("long")
      BY <2>2, <2>13, LimitIsLong
    <3>2. c \in ToDouble(x)
      BY <2>3, <2>10, <3>1
    <3>3. c \in ValuesOf("long")
      BY <2>2, <2>13, <3>2, NearIsLong
    <3> QED
      BY <2>11, <3>2, <3>3
  <2> QED
    BY <2>2, <2>9, <2>12, <2>13 DEF Close
<1> QED
  BY <1>1, <1>2

\* A number of a type is read from what Lua has; what the type can represent is read as it
\* is, if it is in the range of long as well or the type is no integer type.
LEMMA ReadOp ==
  ASSUME NEW t \in NumberType, NEW d \in Double, NEW v \in Read(t, d)
  PROVE  /\ v \in ValuesOf(t)
         /\ d \in ValuesOf(t) /\ (t \in IntegerType => d \in ValuesOf("long")) => v = d
<1>1. CASE t \in {"float", "double"}
  <2>1. v \in Cast(t, d) /\ t \notin IntegerType
    BY <1>1 DEF Read, IntegerType
  <2> QED
    BY <2>1, CastOp
<1>2. CASE t \notin {"float", "double"}
  <2>1. t \in IntegerType
    BY <1>2 DEF NumberType
  <2>2. PICK i \in Cast("long", d) : \E c \in ToDouble(i) : v \in Cast(t, c)
    BY <1>2 DEF Read
  <2> PICK c \in ToDouble(i) : v \in Cast(t, c)
    BY <2>2
  <2>3. d \in Int
    BY DoubleKept
  <2>4. i \in ValuesOf("long")
    BY <2>2, <2>3, LongRange, CastInteger
  <2>5. i \in Int /\ Within(i, LongMod \div 2)
    BY <2>4, LongRange
  <2>6. c \in Double
    BY <2>2, <2>5, LongToDouble
  <2>7. v \in ValuesOf(t)
    BY <2>2, <2>6, CastOp
  <2>8. ASSUME d \in ValuesOf(t), d \in ValuesOf("long") PROVE v = d
    <3>1. i = d
      BY <2>2, <2>3, <2>8, LongRange, CastInteger
    <3>2. c = d
      BY <2>2, <3>1, DoubleKept
    <3> QED
      BY <2>2, <2>8, <3>2, CastOp
  <2> QED
    BY <2>1, <2>7, <2>8
<1> QED
  BY <1>1, <1>2

-----------------------------------------------------------------------------
(* Theorems about conversions.                                             *)

\* The invariant of conversions: what Lua has is close to what was given.
NumbersInv ==
  /\ NumbersTypeOK
  /\ given # NoNumber => Close(given, slot)
  /\ ExactIsKept
  /\ LongIsNear

\* Nothing was given or read yet.
LEMMA NumbersBegin == NumbersInit => NumbersInv
<1> SUFFICES ASSUME NumbersInit PROVE NumbersInv
  OBVIOUS
<1>1. 0 \in -Exact..Exact
  BY Precisions
<1>2. slot \in Double
  BY <1>1, ExactIsDouble DEF NumbersInit
<1> QED
  BY <1>2 DEF NumbersInit, NumbersInv, NumbersTypeOK, ExactIsKept, LongIsNear

\* A number is given, by the program or by a script.
LEMMA GivenInv ==
  ASSUME NEW x \in Int, given' = x, Close(x, slot'), result' = NoNumber
  PROVE  NumbersInv'
<1>1. slot' \in Double
  BY DEF Close
<1> QED
  BY <1>1 DEF NumbersInv, NumbersTypeOK, ExactIsKept, LongIsNear, Close

\* A number is read.
LEMMA GetInv ==
  ASSUME NumbersInv, NEW t \in NumberType, Get(t)
  PROVE  NumbersInv'
<1>1. PICK v \in Read(t, slot) : result' = [type |-> t, value |-> v]
  BY DEF Get
<1>2. /\ given' = given /\ slot' = slot /\ slot \in Double
      /\ given \in Int \cup {NoNumber} /\ (given # NoNumber => Close(given, slot))
  BY DEF Get, NumbersInv, NumbersTypeOK
<1>3. /\ v \in ValuesOf(t)
      /\ slot \in ValuesOf(t) /\ (t \in IntegerType => slot \in ValuesOf("long")) => v = slot
  BY <1>1, <1>2, ReadOp
<1>4. result'.type = t /\ result'.value = v
  BY <1>1
<1>5. NumbersTypeOK'
  BY <1>2, <1>3, <1>4 DEF NumbersTypeOK
<1>6. ASSUME given # NoNumber, given \in -Exact..Exact, given \in ValuesOf(t) PROVE v = given
  <2>1. given \in Int /\ Within(given, Exact)
    BY <1>2, <1>6, Precisions DEF Within
  <2>2. slot = given
    BY <1>2, <1>6, <2>1 DEF Close
  <2>3. slot \in ValuesOf("long")
    BY <1>6, <2>2, LongRange
  <2> QED
    BY <1>3, <1>6, <2>2, <2>3
<1>7. ASSUME given # NoNumber, t = "long", given \in -Limit..Limit PROVE v \in ToDouble(given)
  <2>1. Within(given, Limit)
    BY <1>7 DEF Within
  <2>2. slot \in ToDouble(given) /\ slot \in ValuesOf("long")
    BY <1>2, <1>7, <2>1 DEF Close
  <2> QED
    BY <1>3, <1>7, <2>2
<1>8. ExactIsKept'
  BY <1>2, <1>4, <1>6 DEF ExactIsKept
<1>9. LongIsNear'
  BY <1>2, <1>4, <1>7 DEF LongIsNear
<1> QED
  BY <1>2, <1>5, <1>8, <1>9 DEF NumbersInv

\* The invariant is inductive.
LEMMA NumbersStep == NumbersInv /\ [NumbersNext]_numbers => NumbersInv'
<1> SUFFICES ASSUME NumbersInv, [NumbersNext]_numbers PROVE NumbersInv'
  OBVIOUS
<1>1. ASSUME NEW t \in NumberType, NEW x \in ValuesOf(t), PushNumber(t, x) PROVE NumbersInv'
  BY <1>1, PushedOp, GivenInv DEF PushNumber
<1>2. ASSUME NEW x \in Double, Script(x) PROVE NumbersInv'
  <2>1. x \in Int /\ ToDouble(x) = {x}
    BY DoubleKept
  <2>2. Close(x, x)
    BY <2>1, NearIsLong DEF Close
  <2> QED
    BY <1>2, <2>1, <2>2, GivenInv DEF Script
<1>3. CASE UNCHANGED numbers
  BY <1>3 DEF numbers, NumbersInv, NumbersTypeOK, ExactIsKept, LongIsNear
<1> QED
  BY <1>1, <1>2, <1>3, GetInv DEF NumbersNext

\* Every reachable state satisfies the invariant of conversions.
THEOREM NumbersInvariant == NumbersSpec => []NumbersInv
<1> QED
  BY NumbersBegin, NumbersStep, PTL DEF NumbersSpec

\* Lua always has a double, and a read gives a value of its type, whatever was pushed
\* (detail/primitive_traits.hpp:29-40).
THEOREM NumbersTypeCorrect == NumbersSpec => []NumbersTypeOK
<1>1. NumbersInv => NumbersTypeOK
  BY DEF NumbersInv
<1> QED
  BY <1>1, NumbersInvariant, PTL

\* Numbers that all types on the way can represent come out as they went in
\* (detail/type_traits.hpp:103-120).
THEOREM ExactComesBack == NumbersSpec => []ExactIsKept
<1>1. NumbersInv => ExactIsKept
  BY DEF NumbersInv
<1> QED
  BY <1>1, NumbersInvariant, PTL

\* A long comes back as a double next to it, unless rounding takes it out of the range of
\* lua_Integer (detail/type_traits.hpp:103-120).
THEOREM LongComesBackNear == NumbersSpec => []LongIsNear
<1>1. NumbersInv => LongIsNear
  BY DEF NumbersInv
<1> QED
  BY <1>1, NumbersInvariant, PTL
=============================================================================
