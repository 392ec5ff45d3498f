----------------------------- MODULE HostStack -----------------------------
(***************************************************************************)
(* The Lua stack as the C++ program uses it (stack.hpp, table.hpp,         *)
(* function.hpp, table_reference.hpp, _lua.hpp, and the containers of      *)
(* primitive_traits.hpp).                                                  *)
(*                                                                         *)
(* A range-based for over a table keeps a frame of three slots on the      *)
(* stack as long as it runs: the table, the key and the value.  The        *)
(* program pushes and takes values of its own meanwhile, nests loops, and  *)
(* calls the library, most of which leaves the stack as it was.  What does *)
(* not is: functions without a result that take arguments, functions that  *)
(* take arguments and return several results, reading a container, sources *)
(* that do not load and subscripts of what is no table.                    *)
(*                                                                         *)
(* Exceptions close the loops that they leave.                             *)
(***************************************************************************)
EXTENDS Integers, SequencesExt

CONSTANTS
  Value,        \* what the program pushes
  NumKeys,      \* number of keys of a table, which lua_next visits in order
  StringKeys,   \* those that are strings: loops deliver no others
  Signature,    \* the types of Lua functions that the program calls
  MaxLoops,     \* bound on nested loops
  MaxOwn,       \* bound on the values that the program has there
  MaxSlots      \* bound on the stack

Key == 1..NumKeys

ASSUME HostStackAssumption ==
  /\ NumKeys \in Nat /\ StringKeys \subseteq Key
  /\ Signature \subseteq [returns : {"void", "value", "tuple"}, args : Nat, results : Nat \ {0}]
  /\ MaxLoops \in Nat /\ MaxOwn \in Nat /\ MaxSlots \in Nat

\* What a slot holds.  "left" is anything that the library forgot.
Slot == [is : {"own"}, x : Value] \cup [is : {"key", "value"}, x : Key]
          \cup [is : {"table", "nil", "left"}, x : {0}]

Own(v) == [is |-> "own", x |-> v]
TableSlot == [is |-> "table", x |-> 0]
NilSlot == [is |-> "nil", x |-> 0]
LeftSlot == [is |-> "left", x |-> 0]

VARIABLES
  stack,   \* the Lua stack
  loops,   \* the table iterators in scope, from the outermost to the innermost
  own,     \* the values that the program has on the stack, as it believes
  damage,  \* the outermost loop whose body disturbed the stack; 0 : outside of loops
  fault    \* "none", "underflow" : popped an empty stack, "next" : lua_next got a wrong key

vars == <<stack, loops, own, damage, fault>>

\* No loop disturbed the stack.
NoDamage == MaxLoops + 1

\* An iterator.  It delivered the keys seen; the program had base values before it.
Iterator == [top : 0..MaxSlots, ended : BOOLEAN, seen : Seq(Key), base : 0..MaxOwn]

Init ==
  /\ stack = <<>>
  /\ loops = <<>>
  /\ own = <<>>
  /\ damage = NoDamage
  /\ fault = "none"

Depth == Len(loops)

\* The program runs; a loop at its end is closed first.  Once the stack is disturbed
\* outside of loops the model only follows the program to its next clear().
Runs ==
  /\ fault = "none"
  /\ damage # 0
  /\ loops # <<>> => ~Last(loops).ended

Base == IF loops = <<>> THEN 0 ELSE Last(loops).base

Bottom == IF loops = <<>> THEN 0 ELSE Last(loops).top

Least(a, b) == IF a < b THEN a ELSE b

\* lua_pop(L, n).
Popped(s, n) == SubSeq(s, 1, Len(s) - n)

\* lua_settop(L, n).
Settop(s, n) == [i \in 1..n |-> IF i <= Len(s) THEN s[i] ELSE NilSlot]

\* The loop that is disturbed when the innermost body pops n slots too many: itself if
\* its frame begins above, else take it that all are.
Disturbed(n) == IF Len(stack) - n >= Bottom THEN Depth ELSE 0

\* Slots are popped, n in all, and excess of them are not the caller's.
Pops(n, excess) ==
  /\ stack' = Popped(stack, n)
  /\ fault' = IF n > Len(stack) THEN "underflow" ELSE fault
  /\ damage' = IF excess > 0 \/ Len(stack) - n < Bottom
               THEN Least(damage, Disturbed(n)) ELSE damage

(***************************************************************************)
(* The program's own values (stack.hpp).  Loop bodies take what they       *)
(* pushed, and clear() is called outside of loops.                         *)
(***************************************************************************)
Push(v) ==
  /\ Runs
  /\ Len(stack) < MaxSlots /\ Len(own) < MaxOwn
  /\ stack' = Append(stack, Own(v))
  /\ own' = Append(own, v)
  /\ UNCHANGED <<loops, damage, fault>>

\* pop<T>() for n = 1, and grab<T...>() of n values.
Take(n) ==
  /\ Runs
  /\ Len(own) - n >= Base
  /\ Pops(n, 0)
  /\ own' = Popped(own, n)
  /\ UNCHANGED loops

\* pick<T>(-k)
Pick(k) ==
  /\ Runs
  /\ Len(own) - k >= Base
  /\ own' = RemoveAt(own, Len(own) + 1 - k)
  /\ IF k > Len(stack)
     THEN fault' = "underflow" /\ UNCHANGED stack
     ELSE stack' = RemoveAt(stack, Len(stack) + 1 - k) /\ UNCHANGED fault
  /\ damage' = IF Len(stack) - k < Bottom THEN 0 ELSE damage
  /\ UNCHANGED loops

Clear ==
  /\ fault = "none"
  /\ loops = <<>>
  /\ stack' = <<>>
  /\ own' = <<>>
  /\ damage' = NoDamage
  /\ UNCHANGED <<loops, fault>>

(***************************************************************************)
(* Loops over a table (table.hpp).                                         *)
(***************************************************************************)
\* The key at the top of s is that of the iterator whose frame starts above top.
NextWorks(s, top) ==
  /\ Len(s) = top + 2
  /\ s[top + 1] = TableSlot
  /\ s[top + 2].is \in {"nil", "key"}

\* (Mistake: the loop ends at the first key that is no string.)
LaterUnfiltered(s) == {k \in StringKeys : k = IF Last(s).is = "nil" THEN 1 ELSE Last(s).x + 1}

\* (Mistake: the key at the top of s is delivered again.)
LaterAgain(s) == {k \in StringKeys : Last(s).is = "nil" \/ k >= Last(s).x}

\* The string keys that lua_next delivers, called until it has no more.
Later(s) == {k \in StringKeys : Last(s).is = "nil" \/ k > Last(s).x}

\* (Mistake: the end of the loop is a key too.)
FrameWithEnd(s) ==
  LET k == IF Later(s) = {} THEN 0 ELSE Min(Later(s))
  IN <<TableSlot, [is |-> "key", x |-> k], [is |-> "value", x |-> k]>>

\* The frame when lua_next went on from the key at the top of s to the next string key,
\* or there is none.
Frame(s) ==
  LET k == Min(Later(s))
  IN IF Later(s) = {} THEN <<TableSlot, NilSlot>>
     ELSE <<TableSlot, [is |-> "key", x |-> k], [is |-> "value", x |-> k]>>

\* The iterator after that.
Moved(it, s) ==
  IF Later(s) = {} THEN [it EXCEPT !.ended = TRUE]
  ELSE [it EXCEPT !.seen = Append(@, Min(Later(s)))]

\* begin(): the iterator pushes the table and two nils, and moves.
Open ==
  /\ Runs
  /\ Depth < MaxLoops /\ Len(stack) + 3 <= MaxSlots
  /\ LET s == stack \o <<TableSlot, NilSlot>>
         it == [top |-> Len(stack), ended |-> FALSE, seen |-> <<>>, base |-> Len(own)]
     IN /\ stack' = stack \o Frame(s)
        /\ loops' = Append(loops, Moved(it, s))
  /\ UNCHANGED <<own, damage, fault>>

\* The innermost iterator calls lua_next on s, which gives the stack after.
Nexts(s, after) ==
  IF NextWorks(s, Bottom)
  THEN /\ stack' = after
       /\ loops' = [loops EXCEPT ![Depth] = Moved(@, s)]
       /\ UNCHANGED fault
  ELSE fault' = "next" /\ UNCHANGED <<stack, loops>>

\* A loop whose frame was lost may begin anew; the keys it sees are bounded here.
Goes == Runs /\ loops # <<>> /\ Len(Last(loops).seen) <= NumKeys

\* ++it: the old value is popped, and the key is at the top.
Advance ==
  /\ Goes
  /\ LET s == Popped(stack, 1) IN Nexts(s, Popped(s, 2) \o Frame(s))
  /\ damage' = IF Len(own) > Base THEN Least(damage, Depth) ELSE damage
  /\ UNCHANGED own

\* (Mistake: the iterators leave their frames on the stack.)
LeaveFrames(s, n, harm) ==
  LET k == Depth - n
  IN /\ stack' = s
     /\ loops' = SubSeq(loops, 1, k)
     /\ own' = IF n = 0 THEN own ELSE SubSeq(own, 1, loops[k + 1].base)
     /\ damage' = IF harm > k THEN NoDamage ELSE harm

\* The innermost n loops leave their scope and restore the stack s they left.
Leave(s, n, harm) ==
  LET k == Depth - n
  IN /\ stack' = IF n = 0 THEN s ELSE Settop(s, loops[k + 1].top)
     /\ loops' = SubSeq(loops, 1, k)
     /\ own' = IF n = 0 THEN own ELSE SubSeq(own, 1, loops[k + 1].base)
     /\ damage' = IF harm > k THEN NoDamage ELSE harm

\* The end of a loop, or a break in its body.
Close ==
  /\ fault = "none"
  /\ loops # <<>>
  /\ Leave(stack, 1, damage)
  /\ UNCHANGED fault

\* it++: the copy that is returned dies, and takes the frame with it.
PostIncrement ==
  /\ Goes
  /\ Nexts(Popped(stack, 1), Settop(stack, Bottom))
  /\ damage' = Least(damage, Depth)
  /\ UNCHANGED own

(***************************************************************************)
(* Calls of the library.                                                   *)
(***************************************************************************)
\* How many results function<f> asks lua_pcall for, and how many slots it pops then.
Wanted(f) ==
  CASE f.returns = "void" -> 0
    [] f.returns = "value" -> 1
    [] f.returns = "tuple" -> IF f.args = 0 THEN f.results ELSE 1

PoppedAfter(f) ==
  CASE f.returns = "void" -> f.args
    [] f.returns = "value" -> 1
    [] f.returns = "tuple" -> f.results

\* A Lua function returns.
Call(f) ==
  /\ Runs
  /\ Pops(PoppedAfter(f) - Wanted(f), PoppedAfter(f) - Wanted(f))
  /\ UNCHANGED <<loops, own>>

\* A Lua function fails: the message is popped and thrown, and n loops are left.
CallFails(n) ==
  /\ Runs
  /\ Leave(stack, n, damage)
  /\ UNCHANGED fault

\* A container is read from wherever Lua has one: one slot too many is popped.
ReadContainer ==
  /\ Runs
  /\ Pops(1, 1)
  /\ UNCHANGED <<loops, own>>

\* Into a std::array that is too small for it: the last key stays behind.
ReadOverfullArray ==
  /\ Runs
  /\ Len(stack) < MaxSlots
  /\ stack' = Append(stack, LeftSlot)
  /\ damage' = Least(damage, Depth)
  /\ UNCHANGED <<loops, own, fault>>

\* A source that does not load, or t[a][b] where t[a] is no table: the exception leaves
\* one slot on the stack, and n loops.
Fails(n) ==
  /\ Runs
  /\ Len(stack) < MaxSlots
  /\ Leave(Append(stack, LeftSlot), n, Least(damage, Depth))
  /\ UNCHANGED fault

Next ==
  \/ \E v \in Value : Push(v)
  \/ \E n \in 1..Len(own) : Take(n) \/ Pick(n)
  \/ Clear
  \/ Open
  \/ Advance
  \/ Close
  \/ PostIncrement
  \/ \E f \in Signature : Call(f)
  \/ \E n \in 0..Depth : CallFails(n) \/ Fails(n)
  \/ ReadContainer
  \/ ReadOverfullArray

Spec == Init /\ [][Next]_vars

\* A range-based for moves its iterator when the body is over, and ends when the iterator
\* has.  That bodies end is the program's business and assumed here, as often as they are
\* entered: they may hold whole loops.
LoopsGoOn ==
  /\ \A d \in 1..MaxLoops : SF_vars(Depth = d /\ Advance)
  /\ WF_vars(loops # <<>> /\ Last(loops).ended /\ Close)

FairSpec == Spec /\ LoopsGoOn

-----------------------------------------------------------------------------
TypeOK ==
  /\ stack \in Seq(Slot) /\ Len(stack) <= MaxSlots
  /\ loops \in Seq(Iterator) /\ Len(loops) <= MaxLoops
  /\ own \in Seq(Value) /\ Len(own) <= MaxOwn
  /\ damage \in 0..NoDamage
  /\ fault \in {"none", "underflow", "next"}

\* The loops around the j-th of the program's values.
Around(j) == {i \in DOMAIN loops : loops[i].base < j}

\* The values that the program believes on the stack, at any depth of loops, are where
\* it left them, unless the stack was disturbed at that depth or outside of it: what
\* the library gets wrong in the body of a loop is put right at its end.
OwnValuesStand ==
  \A j \in DOMAIN own :
    LET depth == Cardinality(Around(j))
    IN depth < damage =>
         Len(stack) >= j + 3 * depth /\ stack[j + 3 * depth] = Own(own[j])

\* A loop that no body disturbed, nor its own, has its table, key and value on the stack.
\* It has delivered string keys in order without a gap, and all of them if it is over.
LoopsVisitAll ==
  \A i \in DOMAIN loops :
    LET it == loops[i] IN
    i < damage =>
      /\ stack[it.top + 1] = TableSlot
      /\ ~it.ended =>
           /\ it.seen # <<>>
           /\ stack[it.top + 2] = [is |-> "key", x |-> Last(it.seen)]
           /\ stack[it.top + 3] = [is |-> "value", x |-> Last(it.seen)]
      /\ \A a, b \in DOMAIN it.seen : a < b => it.seen[a] < it.seen[b]
      /\ ToSet(it.seen) = {k \in StringKeys : ~it.ended => k <= Last(it.seen)}

\* A loop ends, whatever its body pushes, takes, calls and loops over, unless the stack is
\* disturbed: then lua_next may start again with another key of the table.
LoopsEnd ==
  \A d \in 1..MaxLoops :
    Depth >= d ~> Depth < d \/ damage # NoDamage \/ fault # "none"

=============================================================================
