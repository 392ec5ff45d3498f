----------------------------- MODULE Conversions -----------------------------
(***************************************************************************)
(* Numbers on their way between C++ and Lua (type.hpp,                     *)
(* detail/type_traits.hpp, detail/primitive_traits.hpp).                   *)
(*                                                                         *)
(* Lua has doubles.  An integer of type T goes T -> lua_Integer -> double  *)
(* -> lua_Integer -> double into Lua, because type_traits<integer_t> takes *)
(* and returns number_t::type, and comes double -> lua_Integer -> double   *)
(* -> T out of it.  Casting a double that T cannot represent is undefined: *)
(* what processors do is to wrap, to saturate or to give the least value.  *)
(*                                                                         *)
(* Integers have their width and doubles their precision as constants, in  *)
(* the proportions of 32, 64 and 53 bits.  Fractions are left out: casts   *)
(* cut them off.                                                           *)
(***************************************************************************)
EXTENDS Integers

CONSTANTS
  IntMod,      \* 2^32 : the number of values of int
  LongMod,     \* 2^64 : the number of values of long and of lua_Integer
  Exact,       \* 2^53 : up to here all integers are doubles
  FloatExact,  \* 2^24 : up to here all integers are floats
  Unit,        \* 1, 2, 4, ... : what larger doubles are multiples of
  FloatUnit,   \* and floats
  NoNumber

IntegerType == {"int", "unsigned int", "long", "unsigned long"}
NumberType == IntegerType \cup {"float", "double"}

Double == {m * u : m \in -Exact..Exact, u \in Unit}
Float == {m * u : m \in -FloatExact..FloatExact, u \in FloatUnit}

\* 1, 2, 4, ..., and with each of them half of it.
PowersOfTwo(units) ==
  /\ units \subseteq Nat \ {0} /\ 1 \in units
  /\ \A u \in units \ {1} : \E w \in units : u = 2 * w

\* Every long is in the range of the doubles, and every float is a double.  Only doubles in
\* the range of the floats are in the model: casting others to float is undefined.
ASSUME ConversionsAssumption ==
  /\ IntMod \in Nat /\ LongMod \in Nat /\ Exact \in Nat /\ FloatExact \in Nat
  /\ IntMod > 1 /\ IntMod <= Exact /\ Exact < LongMod \div 2 /\ LongMod <= 2 * Exact * Exact
  /\ PowersOfTwo(Unit) /\ PowersOfTwo(FloatUnit)
  /\ \E u \in Unit : LongMod \div 2 <= Exact * u
  /\ Float \subseteq Double
  /\ \A u \in Unit : \E w \in FloatUnit : Exact * u <= FloatExact * w
  /\ NoNumber \notin Int

Mod(t) == IF t \in {"int", "unsigned int"} THEN IntMod ELSE LongMod
Least(t) == IF t \in {"int", "long"} THEN -(Mod(t) \div 2) ELSE 0
Largest(t) == Least(t) + Mod(t) - 1

\* The values of a type.
ValuesOf(t) ==
  CASE t \in IntegerType -> Least(t)..Largest(t)
    [] t = "float"       -> Float
    [] t = "double"      -> Double

VARIABLES
  given,  \* the number that the program pushed or a script computed, or NoNumber
  slot,   \* what Lua has
  result  \* the type that was read and its value, or NoNumber

numbers == <<given, slot, result>>

NumbersInit ==
  /\ given = NoNumber
  /\ slot = 0
  /\ result = NoNumber

(***************************************************************************)
(* The conversions of C++.                                                 *)
(***************************************************************************)
Within(x, bound) == -bound <= x /\ x <= bound

\* The multiples of a unit next to x.
Neighbours(x, u) == IF x % u = 0 THEN {x} ELSE {x - (x % u), x - (x % u) + u}

\* The least unit with which numbers up to bound reach x.
UnitOf(bound, units, x) ==
  CHOOSE u \in units : Within(x, bound * u) /\ \A w \in units : w < u => ~Within(x, bound * w)

\* x rounded to a number of m * u, with m up to bound and the least u of units; in the
\* middle either way, for C++ takes the even one and no property is about which.
Rounded(bound, units, x) ==
  LET u == UnitOf(bound, units, x)
  IN {d \in Neighbours(x, u) : Within(2 * (x - d), u)}

ToDouble(x) == Rounded(Exact, Unit, x)
ToFloat(x) == Rounded(FloatExact, FloatUnit, x)

\* Integers to integers.
Wrapped(t, x) == Least(t) + ((x - Least(t)) % Mod(t))

Saturated(t, x) == IF x < Least(t) THEN Least(t) ELSE Largest(t)

\* (Mistake: a double that t cannot represent stays as it is.)
CastPlain(t, d) == IF t = "float" THEN ToFloat(d) ELSE {d}

\* Doubles to t.
Cast(t, d) ==
  CASE t = "double" -> {d}
    [] t = "float"  -> ToFloat(d)
    [] OTHER        -> IF d \in ValuesOf(t) THEN {d}
                       ELSE {Wrapped(t, d), Saturated(t, d), Least(t)}

(***************************************************************************)
(* type_traits<integer_t> and type_traits<number_t>.                       *)
(***************************************************************************)
\* (Mistake: the integer passes through int.)
PushedNarrow(t, v) ==
  IF t \in {"float", "double"} THEN {v}
  ELSE UNION {ToDouble(i) : i \in UNION {Cast("int", d) : d \in ToDouble(Wrapped("long", v))}}

\* What Lua may have after v of type t is pushed.
Pushed(t, v) ==
  IF t \in {"float", "double"} THEN {v}
  ELSE UNION {ToDouble(i) : i \in UNION {Cast("long", d) : d \in ToDouble(Wrapped("long", v))}}

\* (Mistake: integers pass through float.)
ReadFloat(t, x) ==
  IF t \in {"float", "double"} THEN Cast(t, x)
  ELSE UNION {Cast(t, d) : d \in UNION {ToFloat(i) : i \in Cast("long", x)}}

\* What reading x as a t may give.
Read(t, x) ==
  IF t \in {"float", "double"} THEN Cast(t, x)
  ELSE UNION {Cast(t, d) : d \in UNION {ToDouble(i) : i \in Cast("long", x)}}

(***************************************************************************)
(* The program and scripts.                                                *)
(***************************************************************************)
PushNumber(t, v) ==
  /\ given' = v
  /\ slot' \in Pushed(t, v)
  /\ result' = NoNumber

\* A script computes a number.
Script(x) ==
  /\ given' = x
  /\ slot' = x
  /\ result' = NoNumber

Get(t) ==
  /\ \E v \in Read(t, slot) : result' = [type |-> t, value |-> v]
  /\ UNCHANGED <<given, slot>>

NumbersNext ==
  \/ \E t \in NumberType : \E v \in ValuesOf(t) : PushNumber(t, v)
  \/ \E x \in Double : Script(x)
  \/ \E t \in NumberType : Get(t)

NumbersSpec == NumbersInit /\ [][NumbersNext]_numbers

-----------------------------------------------------------------------------
NumbersTypeOK ==
  /\ given \in Int \cup {NoNumber}
  /\ slot \in Double
  /\ result # NoNumber => result.type \in NumberType /\ result.value \in ValuesOf(result.type)

\* A number that all types on the way can represent comes out as it went in, whichever
\* type it is read as: every int and unsigned int, read as itself or as a longer type.
ExactIsKept ==
  /\ result # NoNumber /\ given # NoNumber
  /\ given \in -Exact..Exact /\ given \in ValuesOf(result.type)
  => result.value = given

\* The last integer that comes back at least rounded, and not as something else.
Limit == (LongMod \div 2) - Exact

\* A long comes back as one of the doubles next to it, unless it is so large that rounding
\* takes it out of the range of lua_Integer.
LongIsNear ==
  result # NoNumber /\ given # NoNumber /\ result.type = "long" /\ given \in -Limit..Limit =>
    result.value \in ToDouble(given)
=============================================================================
