---------------------------- MODULE UserObjects ----------------------------
(***************************************************************************)
(* C++ objects seen from Lua (detail/user_traits.hpp, user_prop.hpp,       *)
(* user_method.hpp, user_ctor.hpp, operators.hpp).  A registered class     *)
(* reaches Lua as three kinds of userdata: a value (the block holds a copy *)
(* of the object), a pointer and a pointer to const (the block holds an    *)
(* address).  No userdatum has a __gc: collecting one frees its block and  *)
(* nothing else.                                                           *)
(*                                                                         *)
(* Two classes stand for all: an object of class "inner" has a primitive   *)
(* property, one of class "outer" a property of class "inner" and one that *)
(* is a pointer to an "inner".  What an object holds is one value, the     *)
(* primitive of the inner part, and one link, where the pointer leads.     *)
(*                                                                         *)
(* The library checks no lifetimes and no types of values it reads, so     *)
(* programs have rules to keep; careful says whether this one keeps them:  *)
(*   - an object is destroyed when no userdatum points to it any more, and *)
(*     no pointer of another object;                                       *)
(*   - a value stays reachable while a pointer to a part of it does, and   *)
(*     as long as objects with such a pointer live;                        *)
(*   - nested properties are assigned values, pointer properties pointers  *)
(*     that are not const, of their class;                                 *)
(*   - pointer properties are read when they are not null;                 *)
(*   - methods that return a pointer to their own object, or to a part of  *)
(*     it, are called on pointers, not on values;                          *)
(*   - userdata are read back as the class and kind they were pushed as.   *)
(***************************************************************************)
EXTENDS Integers, FiniteSets

CONSTANTS
  Cell,        \* storage for objects, in C++ or in the block of a userdatum
  Userdatum,   \* userdata
  Value,       \* what the primitive may hold
  Garbage,     \* what a block read as another type yields
  Freed,       \* content of storage whose lifetime is over
  Nowhere,     \* null, or a pointer read from a block of another type
  Nothing,     \* storage or userdatum not in use
  MaxClosures  \* bound on the closures that Lua has at once

ASSUME UserObjectsAssumption ==
  /\ Garbage \notin Value /\ Freed \notin Value /\ Garbage # Freed
  /\ Nowhere \notin Cell /\ MaxClosures \in Nat
  /\ Nothing \notin [class : {"outer", "inner"}, home : {"host", "lua", "temp"},
                     x : Value \cup {Garbage, Freed}, link : Cell \cup {Nowhere}]
  /\ Nothing \notin [class : {"outer", "inner"}, kind : {"value", "pointer", "const"},
                     at : Cell \cup {Nowhere}]

Class == {"outer", "inner"}
Kind == {"value", "pointer", "const"}

Address == Cell \cup {Nowhere}

\* An object: of the program, which C.new makes too, inside a value userdatum, or the copy
\* that a method of a value works on.
Object == [class : Class, home : {"host", "lua", "temp"}, x : Value \cup {Garbage, Freed},
           link : Address]

Datum == [class : Class, kind : Kind, at : Address]

VARIABLES
  object,      \* object[c] : what lives in c, or Nothing
  datum,       \* datum[u] : class, kind and object of userdatum u, or Nothing
  variables,   \* userdata that Lua variables hold
  closures,    \* userdata that method closures hold as their upvalue
  running,     \* whose code runs: "host" or "lua"
  fault,       \* the first wild access: "none", "freed" or "null"
  careful      \* whether the program keeps the rules above

vars == <<object, datum, variables, closures, running, fault, careful>>

Init ==
  /\ object = [c \in Cell |-> Nothing]
  /\ datum = [u \in Userdatum |-> Nothing]
  /\ variables = {}
  /\ closures = {}
  /\ running = "host"
  /\ fault = "none"
  /\ careful \in BOOLEAN

Alive(c) == c \in Cell /\ object[c] # Nothing /\ object[c].x # Freed

\* Lua code runs and has u in a variable.
Holds(u) == running = "lua" /\ fault = "none" /\ u \in variables

HostRuns == running = "host" /\ fault = "none"

Vacant(u) == datum[u] = Nothing

\* What is left of an object.
Dead(obj) == [obj EXCEPT !.x = Freed, !.link = Nowhere]

\* Some userdatum has the address c, or the pointer of some object has.
Pointed(objs, data, c) ==
  \/ \E u \in Userdatum : data[u] # Nothing /\ data[u].at = c
  \/ \E k \in Cell : objs[k] # Nothing /\ objs[k].link = c

\* Dead storage that nothing points to may be reused.
Swept(objs, data) ==
  [c \in Cell |-> IF /\ objs[c] # Nothing /\ objs[c].x = Freed
                     /\ ~Pointed(objs, data, c)
                  THEN Nothing ELSE objs[c]]

(***************************************************************************)
(* Pushing userdata.                                                       *)
(***************************************************************************)
\* type_traits<user_data_t>::push and the metatable: u is given to Lua.
Push(u, class, kind, c) ==
  /\ Vacant(u)
  /\ datum' = [datum EXCEPT ![u] = [class |-> class, kind |-> kind, at |-> c]]
  /\ variables' = variables \cup {u}

\* (Mistake: the block is used as it was allocated.)
PushCopyRaw(objs, u, class, x, link) ==
  \E c \in Cell :
    /\ objs[c] = Nothing
    /\ Push(u, class, "value", c)
    /\ object' = [objs EXCEPT ![c] = [class |-> class, home |-> "lua", x |-> Garbage,
                                      link |-> link]]

\* A copy of an object that holds x and link, in a block of its own.
PushCopy(objs, u, class, x, link) ==
  \E c \in Cell :
    /\ objs[c] = Nothing
    /\ Push(u, class, "value", c)
    /\ object' = [objs EXCEPT ![c] = [class |-> class, home |-> "lua", x |-> x,
                                      link |-> link]]

(***************************************************************************)
(* The C++ program.                                                        *)
(***************************************************************************)
\* The program makes an object of its own.
HostMake(c, class, v) ==
  /\ HostRuns
  /\ object[c] = Nothing
  /\ object' = [object EXCEPT ![c] = [class |-> class, home |-> "host", x |-> v,
                                      link |-> Nowhere]]
  /\ UNCHANGED <<datum, variables, closures, running, fault>>

\* The program works on an object of its own.
HostChange(c, v) ==
  /\ HostRuns
  /\ Alive(c) /\ object[c].home = "host"
  /\ object' = [object EXCEPT ![c].x = v]
  /\ UNCHANGED <<datum, variables, closures, running, fault>>

\* It sets the pointer of an object of its own: to another, to a part of one, or to null.
HostLink(c, d) ==
  /\ HostRuns
  /\ Alive(c) /\ object[c].home = "host" /\ object[c].class = "outer"
  /\ d = Nowhere \/ (Alive(d) /\ object[d].home = "host")
  /\ object' = [object EXCEPT ![c].link = d]
  /\ UNCHANGED <<datum, variables, closures, running, fault>>

\* An object of the program goes out of scope or is deleted, whoever points to it.
HostDestroy(c) ==
  /\ HostRuns
  /\ Alive(c) /\ object[c].home = "host"
  /\ careful => ~Pointed([object EXCEPT ![c] = Dead(object[c])], datum, c)
  /\ object' = Swept([object EXCEPT ![c] = Dead(object[c])], datum)
  /\ UNCHANGED <<datum, variables, closures, running, fault>>

\* stack::push(obj): the object is copied into the userdatum.
PushValue(c, u) ==
  /\ HostRuns
  /\ Alive(c) /\ object[c].home = "host"
  /\ PushCopy(object, u, object[c].class, object[c].x, object[c].link)
  /\ UNCHANGED <<closures, running, fault>>

\* stack::push(&obj), for an object that the program has const or not.
PushPointer(c, u, kind) ==
  /\ HostRuns
  /\ Alive(c) /\ object[c].home = "host"
  /\ Push(u, object[c].class, kind, c)
  /\ UNCHANGED <<object, closures, running, fault>>

IsValueOf(u, class) == datum[u].kind = "value" /\ datum[u].class = class

\* The block of u, read as an object of a class without looking at what it holds.
ReadAs(u, class) == IF IsValueOf(u, class) THEN object[datum[u].at].x ELSE Garbage

LinkAs(u, class) == IF IsValueOf(u, class) THEN object[datum[u].at].link ELSE Nowhere

\* stack::get<class> and the conversion of table references: a copy.
HostRead(u, class, c) ==
  /\ HostRuns
  /\ u \in variables
  /\ object[c] = Nothing
  /\ careful => IsValueOf(u, class)
  /\ object' = [object EXCEPT ![c] = [class |-> class, home |-> "host", x |-> ReadAs(u, class),
                                      link |-> LinkAs(u, class)]]
  /\ UNCHANGED <<datum, variables, closures, running, fault>>

\* A script is called, and returns or fails.  A function of the program that a script
\* calls is the program's code as well: the script is left for it, and entered again.
Enter ==
  /\ HostRuns
  /\ running' = "lua"
  /\ UNCHANGED <<object, datum, variables, closures, fault>>

Leave ==
  /\ running = "lua" /\ fault = "none"
  /\ running' = "host"
  /\ UNCHANGED <<object, datum, variables, closures, fault>>

(***************************************************************************)
(* Lua code: constructors, properties, methods and operators.              *)
(***************************************************************************)
\* C(...): a value userdatum.
CallClass(u, class, v) ==
  /\ running = "lua" /\ fault = "none"
  /\ PushCopy(object, u, class, v, Nowhere)
  /\ UNCHANGED <<closures, running, fault>>

\* C.new(...): an object on the heap, which nothing deletes unless the program does.
New(u, class, c, v) ==
  /\ running = "lua" /\ fault = "none"
  /\ object[c] = Nothing
  /\ object' = [object EXCEPT ![c] = [class |-> class, home |-> "host", x |-> v,
                                      link |-> Nowhere]]
  /\ Push(u, class, "pointer", c)
  /\ UNCHANGED <<closures, running, fault>>

\* The object behind u is read or written: if it is gone, the access is wild.
Touches(u) ==
  fault' = IF Alive(datum[u].at) THEN fault
           ELSE IF datum[u].at = Nowhere THEN "null" ELSE "freed"

Written(u, v) ==
  IF Alive(datum[u].at) THEN [object EXCEPT ![datum[u].at].x = v] ELSE object

\* Reading the primitive.
GetField(u) ==
  /\ Holds(u)
  /\ datum[u].class = "inner"
  /\ Touches(u)
  /\ UNCHANGED <<object, datum, variables, closures, running>>

\* Assigning the primitive; through a pointer to const this is a Lua error.
SetField(u, v) ==
  /\ Holds(u)
  /\ datum[u].class = "inner" /\ datum[u].kind # "const"
  /\ Touches(u)
  /\ object' = Written(u, v)
  /\ UNCHANGED <<datum, variables, closures, running>>

\* The kind of a pointer to a part of an object of the kind given.
Interior(kind) == IF kind = "const" THEN "const" ELSE "pointer"

\* Reading the nested property pushes the address of the part, and reads nothing.
GetNested(u, w) ==
  /\ Holds(u)
  /\ datum[u].class = "outer"
  /\ Push(w, "inner", Interior(datum[u].kind), datum[u].at)
  /\ UNCHANGED <<object, closures, running, fault>>

\* Assigning the nested property; through a pointer to const this is a Lua error.
SetNested(u, w) ==
  /\ Holds(u) /\ Holds(w)
  /\ datum[u].class = "outer" /\ datum[u].kind # "const"
  /\ careful => IsValueOf(w, "inner")
  /\ Touches(u)
  /\ object' = Written(u, ReadAs(w, "inner"))
  /\ UNCHANGED <<datum, variables, closures, running>>

\* Either kind of property is assigned something else than a userdatum: its address is null.
SetToOther(u) ==
  /\ ~careful
  /\ Holds(u)
  /\ datum[u].class = "outer" /\ datum[u].kind # "const"
  /\ fault' = "null"
  /\ UNCHANGED <<object, datum, variables, closures, running>>

\* The pointer property is read, or a method called that returns it.  What is pushed is
\* the pointer: not const, even if it was read through a pointer to const.
GetLink(u, w) ==
  /\ running = "lua" /\ fault = "none"
  /\ u \in variables \cup closures
  /\ datum[u].class = "outer" /\ Alive(datum[u].at)
  /\ careful => object[datum[u].at].link # Nowhere
  /\ Push(w, "inner", "pointer", object[datum[u].at].link)
  /\ UNCHANGED <<object, closures, running, fault>>

\* Assigning the pointer property copies the pointer in the block of w, const or not.
SetLink(u, w) ==
  /\ Holds(u) /\ Holds(w)
  /\ datum[u].class = "outer" /\ datum[u].kind # "const"
  /\ careful => datum[w].kind = "pointer" /\ datum[w].class = "inner"
  /\ Touches(u)
  /\ LET link == IF datum[w].kind = "value" THEN Nowhere ELSE datum[w].at
     IN object' = IF Alive(datum[u].at) THEN [object EXCEPT ![datum[u].at].link = link]
                  ELSE object
  /\ UNCHANGED <<datum, variables, closures, running>>

\* Indexing u with a name that is no property makes a closure over u.
Bind(u) ==
  /\ Holds(u)
  /\ closures' = closures \cup {u}
  /\ Cardinality(closures') <= MaxClosures
  /\ UNCHANGED <<object, datum, variables, running, fault>>

\* A closure is called, and the method reads its object.  A value is copied first.
CallReader(u) ==
  /\ running = "lua" /\ fault = "none"
  /\ u \in closures
  /\ Touches(u)
  /\ UNCHANGED <<object, datum, variables, closures, running>>

\* (Mistake: provide() does not ask whether the pointer is const.)
AfterMutatorUnchecked(u, v) == IF datum[u].kind = "value" THEN object ELSE Written(u, v)

\* What a method that writes v leaves: a value is copied before the call, and a
\* pointer to const makes the call a Lua error.
AfterMutator(u, v) == IF datum[u].kind = "pointer" THEN Written(u, v) ELSE object

\* The method returns nothing.
CallMutator(u, v) ==
  /\ running = "lua" /\ fault = "none"
  /\ u \in closures
  /\ datum[u].kind = "const" => UNCHANGED fault
  /\ datum[u].kind # "const" => Touches(u)
  /\ object' = AfterMutator(u, v)
  /\ UNCHANGED <<datum, variables, closures, running>>

\* The method also returns an object by value, with its own pointer or none: Lua is given
\* a copy.  On a pointer to const such a method is a const one and writes nothing.
CallReturning(u, v, r, class, y) ==
  /\ running = "lua" /\ fault = "none"
  /\ u \in closures
  /\ Alive(datum[u].at)
  /\ \/ PushCopy(AfterMutator(u, v), r, class, y, Nowhere)
     \/ /\ class = "outer" /\ datum[u].class = "outer"
        /\ PushCopy(AfterMutator(u, v), r, class, y, object[datum[u].at].link)
  /\ UNCHANGED <<closures, running, fault>>

\* The method returns a pointer to its object, or to the nested part; that of a const
\* method is const.  A value is copied before the call, and the copy dies with the call.
CallPointer(u, r, class, kind) ==
  /\ running = "lua" /\ fault = "none"
  /\ u \in closures
  /\ Alive(datum[u].at)
  /\ class = datum[u].class \/ class = "inner"
  /\ datum[u].kind = "const" => kind = "const"
  /\ careful => datum[u].kind # "value"
  /\ \/ /\ datum[u].kind # "value"
        /\ Push(r, class, kind, datum[u].at)
        /\ UNCHANGED object
     \/ /\ datum[u].kind = "value"
        /\ \E c \in Cell :
             /\ object[c] = Nothing
             /\ Push(r, class, kind, c)
             /\ object' = [object EXCEPT ![c] = [class |-> datum[u].class, home |-> "temp",
                                                 x |-> Freed, link |-> Nowhere]]
  /\ UNCHANGED <<closures, running, fault>>

\* (Mistake: the result of the operator is the operand's own storage.)
OperateInPlace(u, w, r, v) ==
  /\ Holds(u) /\ Holds(w)
  /\ datum[u].class = "inner"
  /\ datum[w].class = "inner" /\ datum[w].kind = "value"
  /\ Alive(datum[u].at)
  /\ Push(r, "inner", "value", datum[u].at)
  /\ UNCHANGED <<object, closures, running, fault>>

\* u op w for a class that declares the operator with itself: w must be a value,
\* u may be of any kind, and the result is a new value.
Operate(u, w, r, v) ==
  /\ Holds(u) /\ Holds(w)
  /\ datum[u].class = "inner"
  /\ datum[w].class = "inner" /\ datum[w].kind = "value"
  /\ Alive(datum[u].at)
  /\ PushCopy(object, r, "inner", v, Nowhere)
  /\ UNCHANGED <<closures, running, fault>>

\* -u for a class that declares it.
Negate(u, r, v) ==
  /\ Holds(u)
  /\ datum[u].class = "inner"
  /\ Alive(datum[u].at)
  /\ PushCopy(object, r, "inner", v, Nowhere)
  /\ UNCHANGED <<closures, running, fault>>

\* u == w, u < w, u <= w, under the same conditions as u op w.
Compare(u, w) ==
  /\ Holds(u) /\ Holds(w)
  /\ datum[u].class = "inner"
  /\ datum[w].class = "inner" /\ datum[w].kind = "value"
  /\ Touches(u)
  /\ UNCHANGED <<object, datum, variables, closures, running>>

\* #u and tostring(u) call a const method, whatever the kind of u.
Describe(u) ==
  /\ Holds(u)
  /\ Touches(u)
  /\ UNCHANGED <<object, datum, variables, closures, running>>

\* What would push a result reaches a dead object first.
Stray(u) ==
  /\ running = "lua" /\ fault = "none"
  /\ u \in variables \cup closures
  /\ ~Alive(datum[u].at)
  /\ Touches(u)
  /\ UNCHANGED <<object, datum, variables, closures, running>>

(***************************************************************************)
(* Lua's memory.                                                           *)
(***************************************************************************)
\* Lua reaches a pointer to a part of the value u, or an object has one.
HasInterior(u) ==
  /\ datum[u].kind = "value"
  /\ \/ \E w \in (variables \cup closures) \ {u} : datum[w].at = datum[u].at
     \/ \E k \in Cell : object[k] # Nothing /\ object[k].link = datum[u].at

\* The last variable, or the last closure, that holds u is overwritten.
Forget(u) ==
  /\ fault = "none"
  /\ u \in variables \cup closures
  /\ careful => ~HasInterior(u)
  /\ \/ u \in variables /\ variables' = variables \ {u} /\ UNCHANGED closures
     \/ u \in closures /\ closures' = closures \ {u} /\ UNCHANGED variables
  /\ UNCHANGED <<object, datum, running, fault>>

\* (Mistake: the userdatum deletes what it points to.)
AfterCollectDeep(u) ==
  IF Alive(datum[u].at) THEN [object EXCEPT ![datum[u].at] = Dead(object[datum[u].at])]
  ELSE object

\* The storage in the block of u dies with it; what u points to does not.
AfterCollect(u) ==
  IF datum[u].kind = "value" THEN [object EXCEPT ![datum[u].at] = Dead(object[datum[u].at])]
  ELSE object

Collect(u) ==
  /\ fault = "none"
  /\ ~Vacant(u) /\ u \notin variables \cup closures
  /\ LET data == [datum EXCEPT ![u] = Nothing]
     IN /\ datum' = data
        /\ object' = Swept(AfterCollect(u), data)
  /\ UNCHANGED <<variables, closures, running, fault>>

HostNext ==
  \/ \E c \in Cell, v \in Value, class \in Class : HostMake(c, class, v)
  \/ \E c \in Cell, v \in Value : HostChange(c, v)
  \/ \E c \in Cell, d \in Address : HostLink(c, d)
  \/ \E c \in Cell : HostDestroy(c)
  \/ \E c \in Cell, u \in Userdatum : PushValue(c, u)
  \/ \E c \in Cell, u \in Userdatum, kind \in {"pointer", "const"} : PushPointer(c, u, kind)
  \/ \E c \in Cell, u \in Userdatum, class \in Class : HostRead(u, class, c)
  \/ Enter

LuaNext ==
  \/ \E u \in Userdatum, class \in Class, v \in Value : CallClass(u, class, v)
  \/ \E u \in Userdatum, class \in Class, c \in Cell, v \in Value : New(u, class, c, v)
  \/ \E u \in Userdatum :
       \/ GetField(u)
       \/ \E v \in Value : SetField(u, v)
       \/ \E w \in Userdatum : GetNested(u, w) \/ SetNested(u, w)
       \/ \E w \in Userdatum : GetLink(u, w) \/ SetLink(u, w)
       \/ SetToOther(u)
       \/ Bind(u)
       \/ CallReader(u)
       \/ \E v \in Value : CallMutator(u, v)
       \/ \E v, y \in Value, r \in Userdatum, class \in Class : CallReturning(u, v, r, class, y)
       \/ \E r \in Userdatum, class \in Class, kind \in {"pointer", "const"} :
            CallPointer(u, r, class, kind)
       \/ \E w, r \in Userdatum, v \in Value : Operate(u, w, r, v)
       \/ \E r \in Userdatum, v \in Value : Negate(u, r, v)
       \/ \E w \in Userdatum : Compare(u, w)
       \/ Describe(u)
       \/ Stray(u)
  \/ Leave

Next ==
  /\ careful' = careful
  /\ HostNext \/ LuaNext \/ \E u \in Userdatum : Forget(u) \/ Collect(u)

Spec == Init /\ [][Next]_vars

-----------------------------------------------------------------------------
TypeOK ==
  /\ object \in [Cell -> Object \cup {Nothing}]
  /\ datum \in [Userdatum -> Datum \cup {Nothing}]
  /\ variables \subseteq Userdatum
  /\ closures \subseteq Userdatum
  /\ running \in {"host", "lua"}
  /\ fault \in {"none", "freed", "null"}
  /\ careful \in BOOLEAN

\* A value userdatum is the only value in its storage, and the storage lives exactly
\* as long: whatever methods return and operators compute is a copy.
ValuesOwnTheirCells ==
  /\ \A u \in Userdatum :
       ~Vacant(u) /\ datum[u].kind = "value" =>
         /\ Alive(datum[u].at) /\ object[datum[u].at].home = "lua"
         /\ object[datum[u].at].class = datum[u].class
  /\ \A u, w \in Userdatum :
       /\ ~Vacant(u) /\ datum[u].kind = "value"
       /\ ~Vacant(w) /\ datum[w].kind = "value"
       /\ datum[u].at = datum[w].at
       => u = w
  /\ \A c \in Cell :
       Alive(c) /\ object[c].home = "lua" =>
         \E u \in Userdatum : ~Vacant(u) /\ datum[u].kind = "value" /\ datum[u].at = c

\* A pointer leads to a dead object for one of three reasons only: the program destroyed
\* the object; or it was inside a value userdatum that Lua has collected while a pointer
\* to its nested part was still around; or a method of a value returned the address of
\* the copy that it worked on.
DanglingHasCause ==
  \A u \in Userdatum :
    ~Vacant(u) /\ datum[u].at # Nowhere /\ ~Alive(datum[u].at) =>
      LET o == object[datum[u].at] IN
      /\ o # Nothing /\ datum[u].kind # "value"
      /\ \/ o.home = "host"
         \/ o.home = "lua" /\ o.class = "outer" /\ datum[u].class = "inner"
         \/ o.home = "temp"

\* Lua has a userdatum through which c may be written.
Writable(c) == \E u \in Userdatum : ~Vacant(u) /\ datum[u].at = c /\ datum[u].kind # "const"

\* Some object's pointer leads to c.
Linked(c) == \E k \in Cell : Alive(k) /\ object[k].link = c

\* No object that Lua was given as const only, and to which no pointer property leads,
\* changes, and no way to write it appears; nor, if the program is careful, a pointer
\* property that leads to it.
KeepsConst ==
  \A c \in Cell : Alive(c) /\ ~Writable(c) /\ ~Linked(c) =>
    /\ object'[c] = object[c]
    /\ ~Writable(c)'
    /\ careful => ~Linked(c)'

\* Const correctness, as far as it goes: as long as Lua code runs, no sequence of property
\* reads, method calls and operators changes an object that Lua was given as const only,
\* nor obtains a way to write it, other than through a pointer property: reading one
\* forgets the const of the object read, and assigning one the const of the pointer.
ConstObjectsUntouched == [][running = "lua" => KeepsConst]_vars

\* The rules suffice: a careful program never reads or writes a dead object, and none
\* of its objects ever holds anything but a proper value.
CarefulIsSafe ==
  careful => /\ fault = "none"
             /\ \A c \in Cell : object[c] # Nothing => object[c].x # Garbage
=============================================================================
