--------------------------- MODULE BorrowedStrings ---------------------------
(***************************************************************************)
(* The lifetime of strings that are read from Lua as const char *          *)
(* (string_t in type.hpp, detail/type_traits.hpp, detail/primitive_traits, *)
(* function.hpp, detail/function_traits.hpp).                              *)
(*                                                                         *)
(* What the program gets is a pointer to the bytes of a Lua string, which  *)
(* live as long as Lua holds the string: on the stack, in an entry of a    *)
(* table, in the registry.  The collector works in steps that Lua takes    *)
(* when it allocates.  So a pointer is good while the place it was read    *)
(* from keeps the value, and after that until Lua allocates again.  A      *)
(* number is made a string when it is read, where it is on the stack; of   *)
(* any other value, and of a slot that is not there, a null pointer is     *)
(* read.                                                                   *)
(*                                                                         *)
(* The rules of a careful program, which the library relies on:            *)
(*   1. a string is used only while it is good;                            *)
(*   2. a string is given back to Lua, as a value, a key or the result of  *)
(*      a C++ function, only while a place keeps it which is still there   *)
(*      when Lua allocates;                                                *)
(*   3. scripts raise no errors that are neither strings nor numbers;      *)
(*   4. a null pointer is not used: only what is known to be a string or a *)
(*      number is read as std::string.                                     *)
(***************************************************************************)
EXTENDS Integers, Sequences, SequencesExt

CONSTANTS
  Str,       \* Lua strings
  Number,    \* any number
  Nil,       \* any value that is neither a string nor a number
  Freed,     \* the bytes of a string that was collected
  Place,     \* entries of tables and registry slots of references
  View,      \* variables of type const char *
  Fresh, Adrift,  \* how a pointer stands that no place keeps
  None,
  MaxSlots   \* bound on the slots of the stack

\* at is the slot or the place that keeps the string.  Without one the string is Fresh
\* until Lua allocates, and Adrift from then on.  A null pointer has Nil for the string.
ViewType == [str : Str \cup {Freed, Nil}, at : Nat \cup Place \cup {Fresh, Adrift}]

ASSUME BorrowedStringsAssumption ==
  /\ {Number, Nil, Freed} \cap Str = {} /\ Number # Nil /\ Freed \notin {Number, Nil}
  /\ MaxSlots \in Nat
  /\ None \notin Nat /\ None \notin ViewType
  /\ Place \cap (Nat \cup {Fresh, Adrift}) = {} /\ {Fresh, Adrift} \cap Nat = {} /\ Fresh # Adrift

Value == Str \cup {Number, Nil}

VARIABLES
  heap,    \* the strings that Lua has allocated and not collected
  stack,   \* the values on the stack, those of waiting calls included
  base,    \* the slots below the frame of the C function that runs, or None
  place,   \* the value in each place
  view,    \* what each pointer points to
  fault,   \* "none", or what was read: "freed" memory or a "null" pointer
  careful  \* whether the program keeps the rules

vars == <<heap, stack, base, place, view, fault, careful>>

Init ==
  /\ heap = {}
  /\ stack = <<>>
  /\ base = None
  /\ place = [p \in Place |-> Nil]
  /\ view = [v \in View |-> None]
  /\ fault = "none"
  /\ careful \in BOOLEAN

Runs == fault = "none"

\* The strings that Lua holds.
Held(st) == {s \in Str : (\E i \in DOMAIN st : st[i] = s) \/ (\E p \in Place : place[p] = s)}

\* What the collector may take while the stack is st.
Garbage(st) == SUBSET (heap \ Held(st))

\* The views after Lua allocated and the collector took the strings of dead.
After(vw, dead) ==
  [v \in View |->
     IF vw[v] = None THEN None
     ELSE [str |-> IF vw[v].str \in dead THEN Freed ELSE vw[v].str,
           at |-> IF vw[v].at = Fresh THEN Adrift ELSE vw[v].at]]

\* The views vw when what they have in the places lost is replaced.
Losing(vw, lost) ==
  [v \in View |-> IF vw[v] # None /\ vw[v].at \in lost THEN [vw[v] EXCEPT !.at = Fresh]
                  ELSE vw[v]]

\* The slots of the frame that runs.
Bottom == IF base = None THEN 0 ELSE base
Slot == (Bottom + 1)..Len(stack)

\* lua_tostring on x returns a pointer to s, which x is or which is made of it, or null.
ReadsAs(x, s) == x = s \/ x = Number \/ x = Nil

\* The pointer to s that was read from x, kept at this place.
Pointer(x, s, at) ==
  IF x = Nil THEN [str |-> Nil, at |-> Adrift] ELSE [str |-> s, at |-> at]

\* The strings after reading x, of those in hp.
Made(x, s, hp) == IF x = Nil THEN hp ELSE hp \cup {s}

(***************************************************************************)
(* The stack.                                                              *)
(***************************************************************************)
\* push(text), where the program has the text: Lua makes a string s of it, or it has one.
Push(s, dead) ==
  /\ Runs
  /\ Len(stack) < MaxSlots
  /\ heap' = (heap \ dead) \cup {s}
  /\ stack' = Append(stack, s)
  /\ view' = After(view, dead)
  /\ UNCHANGED <<base, place, fault>>

\* push(v) : the collector works before the text is copied.  For null nil is pushed.
PushView(v, dead) ==
  /\ Runs
  /\ Len(stack) < MaxSlots
  /\ view[v] # None /\ view[v].str # Nil
  /\ careful => view[v].at \notin {Fresh, Adrift}
  /\ heap' = heap \ dead
  /\ IF view[v].str \in dead \cup {Freed}
     THEN fault' = "freed" /\ UNCHANGED stack
     ELSE stack' = Append(stack, view[v].str) /\ UNCHANGED fault
  /\ view' = After(view, dead)
  /\ UNCHANGED <<base, place>>

\* push of what needs no string: a number, a boolean, nil or a null pointer.
PushOther(x) ==
  /\ Runs
  /\ Len(stack) < MaxSlots
  /\ stack' = Append(stack, x)
  /\ UNCHANGED <<heap, base, place, view, fault>>

\* get<const char *>(i): a number in the slot becomes a string.  The slot may be empty.
Get(v, i, s, dead) ==
  LET x == IF i \in Slot THEN stack[i] ELSE Nil
  IN /\ Runs
     /\ i > Bottom
     /\ ReadsAs(x, s)
     /\ IF x # Number
        THEN view' = [view EXCEPT ![v] = Pointer(x, s, i)] /\ UNCHANGED <<heap, stack>>
        ELSE /\ heap' = (heap \ dead) \cup {s}
             /\ stack' = [stack EXCEPT ![i] = s]
             /\ view' = [After(view, dead) EXCEPT ![v] = Pointer(x, s, i)]
     /\ UNCHANGED <<base, place, fault>>

\* The top slot is removed: pop() of what the program does not want as a string, or has
\* got; pop<const char *>() is get and this.
Drop ==
  /\ Runs
  /\ Slot # {}
  /\ stack' = Front(stack)
  /\ view' = Losing(view, {Len(stack)})
  /\ UNCHANGED <<heap, base, place, fault>>

\* The views when slot i is removed and those above it move down.
Shifted(i) ==
  [v \in View |->
     IF view[v] = None \/ view[v].at \notin i..Len(stack) THEN view[v]
     ELSE [view[v] EXCEPT !.at = IF @ = i THEN Fresh ELSE @ - 1]]

\* (Mistake: the top slot is removed.)
PickTop(i) ==
  /\ Runs
  /\ i \in Slot
  /\ stack' = Front(stack)
  /\ view' = Shifted(i)
  /\ UNCHANGED <<heap, base, place, fault>>

\* pick(i), after its get.
Pick(i) ==
  /\ Runs
  /\ i \in Slot
  /\ stack' = RemoveAt(stack, i)
  /\ view' = Shifted(i)
  /\ UNCHANGED <<heap, base, place, fault>>

(***************************************************************************)
(* Tables and references.                                                  *)
(***************************************************************************)
\* get<const char *>(key) : the key is pushed, so that Lua allocates; then the value is
\* pushed, read and popped, so that nothing holds the string that a number becomes.
Read(v, p, s, dead) ==
  /\ Runs
  /\ ReadsAs(place[p], s)
  /\ heap' = Made(place[p], s, heap \ dead)
  /\ view' = [After(view, dead) EXCEPT
                ![v] = Pointer(place[p], s, IF place[p] = Number THEN Fresh ELSE p)]
  /\ UNCHANGED <<stack, base, place, fault>>

\* A table_reference is converted, which has no key to push.  A number is as in Read.
Convert(v, p, s) ==
  /\ Runs
  /\ place[p] # Number /\ ReadsAs(place[p], s)
  /\ view' = [view EXCEPT ![v] = Pointer(place[p], s, p)]
  /\ UNCHANGED <<heap, stack, base, place, fault>>

\* Place p gets x: by set, which pushes a key and lets Lua allocate, or without a key.
Replace(p, x, dead) ==
  /\ place' = [place EXCEPT ![p] = x]
  /\ \/ heap' = heap \ dead /\ view' = Losing(After(view, dead), {p})
     \/ heap' = heap /\ view' = Losing(view, {p})
  /\ UNCHANGED <<stack, base, fault>>

\* A place is given what is on top of the stack, by set, a reference or the script.
Store(p, dead) ==
  /\ Runs
  /\ Slot # {}
  /\ Replace(p, stack[Len(stack)], dead)

\* The entry is removed, or the reference destroyed.
Forget(p, dead) ==
  /\ Runs
  /\ Replace(p, Nil, dead)

(***************************************************************************)
(* Calls of Lua.  The script may do what the actions above do meanwhile.   *)
(***************************************************************************)
\* A function returns x as const char * : it is read from the top slot, which is popped.
Result(v, x, s, dead) ==
  /\ Runs
  /\ ReadsAs(x, s)
  /\ heap' = Made(x, s, heap \ dead)
  /\ view' = [After(view, dead) EXCEPT ![v] = Pointer(x, s, Fresh)]
  /\ UNCHANGED <<stack, base, place, fault>>

\* (Mistake: Lua allocates between the pop and the copy, for a traceback.)
FailsLate(x, s, dead) ==
  /\ Runs
  /\ careful => x # Nil
  /\ ReadsAs(x, s)
  /\ heap' = heap \ dead
  /\ view' = After(view, dead)
  /\ fault' = IF x = Nil THEN "null" ELSE IF s \in dead \ Held(stack) THEN "freed" ELSE "none"
  /\ UNCHANGED <<stack, base, place>>

\* A function fails with the error x: the message is popped and then copied into the
\* exception, and there is none unless x is a string or a number.
Fails(x, s, dead) ==
  /\ Runs
  /\ careful => x # Nil
  /\ ReadsAs(x, s)
  /\ heap' = Made(x, s, heap \ dead)
  /\ view' = After(view, dead)
  /\ fault' = IF x = Nil THEN "null" ELSE "none"
  /\ UNCHANGED <<stack, base, place>>

\* The script calls a C++ function with an argument x, whatever the function takes.
Enter(x, dead) ==
  /\ Runs
  /\ base = None
  /\ Len(stack) < MaxSlots
  /\ base' = Len(stack)
  /\ stack' = Append(stack, x)
  /\ heap' = (heap \ dead) \cup ({x} \cap Str)
  /\ view' = After(view, dead)
  /\ UNCHANGED <<place, fault>>

\* The frame of the C++ function is emptied.
Below == SubSeq(stack, 1, base)

\* The function returns nothing, or what needs no string, as a null pointer.
Return ==
  /\ Runs
  /\ base # None
  /\ stack' = Below
  /\ view' = Losing(view, Slot)
  /\ base' = None
  /\ UNCHANGED <<heap, place, fault>>

\* It returns a string: the frame is emptied, and then Lua allocates and copies the text.
ReturnView(v, dead) ==
  /\ Runs
  /\ base # None
  /\ view[v] # None /\ view[v].str # Nil
  /\ careful => view[v].at \in Place
  /\ dead \in Garbage(Below)
  /\ fault' = IF view[v].str \in dead \cup {Freed} THEN "freed" ELSE "none"
  /\ heap' = heap \ dead
  /\ stack' = Below
  /\ view' = After(Losing(view, Slot), dead)
  /\ base' = None
  /\ UNCHANGED place

(***************************************************************************)
(* The program.                                                            *)
(***************************************************************************)
Good(v) == view[v].at # Adrift /\ view[v].str # Nil

\* The program reads the text, or a std::string is made of it: get<std::string> reads a
\* const char * and does this.
Use(v) ==
  /\ Runs
  /\ view[v] # None
  /\ careful => Good(v)
  /\ fault' = IF view[v].str = Freed THEN "freed" ELSE IF view[v].str = Nil THEN "null" ELSE "none"
  /\ UNCHANGED <<heap, stack, base, place, view>>

Next ==
  /\ careful' = careful
  /\ \/ Drop
     \/ Return
     \/ \E i \in 1..MaxSlots : Pick(i)
     \/ \E x \in {Number, Nil} : PushOther(x)
     \/ \E v \in View : Use(v)
     \/ \E v \in View : \E dead \in SUBSET heap : ReturnView(v, dead)
     \/ \E v \in View, p \in Place, s \in Str : Convert(v, p, s)
     \/ \E dead \in Garbage(stack) :
          \/ \E x \in Value : Enter(x, dead)
          \/ \E v \in View : PushView(v, dead)
          \/ \E p \in Place : Store(p, dead) \/ Forget(p, dead)
          \/ \E s \in Str :
               \/ Push(s, dead)
               \/ \E x \in Value : Fails(x, s, dead)
               \/ \E v \in View :
                    \/ \E i \in 1..MaxSlots : Get(v, i, s, dead)
                    \/ \E p \in Place : Read(v, p, s, dead)
                    \/ \E x \in Value : Result(v, x, s, dead)

Spec == Init /\ [][Next]_vars

-----------------------------------------------------------------------------
TypeOK ==
  /\ heap \subseteq Str
  /\ stack \in Seq(Value) /\ Len(stack) <= MaxSlots
  /\ base = None \/ base \in 0..Len(stack)
  /\ place \in [Place -> Value]
  /\ view \in [View -> ViewType \cup {None}]
  /\ fault \in {"none", "freed", "null"}
  /\ careful \in BOOLEAN

\* A pointer whose place still has the value points to that string, and the string of one
\* that lost its place is there until Lua allocates: whatever the program popped, picked,
\* overwrote or called, a string is freed only when neither is so.
DanglingHasCause ==
  \A v \in View : view[v] # None =>
    /\ view[v].at \in Nat => view[v].at \in DOMAIN stack /\ stack[view[v].at] = view[v].str
    /\ view[v].at \in Place => place[view[v].at] = view[v].str
    /\ view[v].at = Fresh => view[v].str \in heap

\* Freed memory is read only through a pointer of the program that is adrift; the library
\* copies messages of errors before Lua can free them.
FaultHasCause == fault = "freed" => \E v \in View : view[v] = [str |-> Freed, at |-> Adrift]

\* A program that keeps the rules never reads freed memory or a null pointer.
CarefulIsSafe == careful => fault = "none"
=============================================================================
