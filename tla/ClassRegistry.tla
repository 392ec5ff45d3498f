--------------------------- MODULE ClassRegistry ---------------------------
(***************************************************************************)
(* How C++ classes become known to Lua (metatable.hpp, define and the      *)
(* meta_table_builder of user_def.hpp, the name checks of user_traits.hpp).*)
(*                                                                         *)
(* A class T has static tables in metatable<T>, metatable<T*> and          *)
(* metatable<const T*>, shared by all Lua states: what was declared, and a *)
(* name.  define() sets those names, the two of the pointers in fresh heap *)
(* buffers; build() copies the three into meta_table_registry<...>; the    *)
(* function that build() returns makes a Lua metatable for each of them.   *)
(* Pushing an object looks its metatable up by name, and inspecting a      *)
(* userdatum compares names.                                               *)
(*                                                                         *)
(* The buffers of "T*" and "const T*" are made and freed together and are  *)
(* one buffer here; both spell the name of the class, plus what tells them *)
(* apart.                                                                  *)
(***************************************************************************)
CONSTANTS
  Class,       \* C++ classes
  NamesOf,     \* NamesOf[T] : the names the program gives T, over time
  FeaturesOf,  \* FeaturesOf[T] : what the program declares of T, over time
  Buffer,      \* addresses of heap buffers
  LuaState,    \* Lua states
  Userdatum,   \* userdata
  Tables,      \* what reset() clears: constructors, methods, properties ...
  Overloads,   \* what it does not: the overloads of the binary operators
  Null,        \* the null pointer; no metatable; no userdatum
  Unallocated  \* content of a buffer that is not allocated

Name == UNION {NamesOf[T] : T \in Class}

Feature == Tables \cup Overloads

ASSUME ClassRegistryAssumption ==
  /\ \A T, S \in Class : T # S => NamesOf[T] \cap NamesOf[S] = {}
  /\ \A T \in Class : FeaturesOf[T] \subseteq Feature
  /\ Null \notin Name /\ Null \notin Buffer /\ Unallocated \notin Name
  /\ Tables \cap Overloads = {}
  /\ Null \notin [class : Class, indirect : BOOLEAN, meta : Name \cup {Null}]

VARIABLES
  name,        \* name[T] : metatable<T>::name
  derived,     \* derived[T] : metatable<T*>::name, metatable<const T*>::name
  known,       \* known[T] : meta_table_registry<T>::name
  pointed,     \* pointed[T] : meta_table_registry<T*>::name, and of const T*
  buffer,      \* buffer[b] : the class name spelt in b, or Unallocated
  declared,    \* declared[T] : the features in the static tables of T
  metatables,  \* metatables[L] : the names of the metatables that L has
  fields,      \* fields[L][n] : what the metatable of name n in L has functions for
  datum,       \* datum[u] : a userdatum and the name of its metatable
  fault,       \* a name was read from freed memory, or was null
  careful      \* whether the program exposes only known classes, and pushes only objects
               \* of classes that the Lua state was exposed to

vars ==
  <<name, derived, known, pointed, buffer, declared, metatables, fields, datum, fault, careful>>

statics == <<name, derived, known, pointed, buffer, declared>>

Init ==
  /\ name = [T \in Class |-> Null]
  /\ derived = [T \in Class |-> Null]
  /\ known = [T \in Class |-> Null]
  /\ pointed = [T \in Class |-> Null]
  /\ buffer = [b \in Buffer |-> Unallocated]
  /\ declared = [T \in Class |-> {}]
  /\ metatables = [L \in LuaState |-> {}]
  /\ fields = [L \in LuaState |-> [n \in Name |-> {}]]
  /\ datum = [u \in Userdatum |-> Null]
  /\ fault = FALSE
  /\ careful \in BOOLEAN

(***************************************************************************)
(* The static tables.                                                      *)
(***************************************************************************)
\* (Mistake: the buffers are not owned by the names that reset() deletes.)
DeletedRegistered(T) ==
  IF pointed[T] = Null THEN buffer ELSE [buffer EXCEPT ![pointed[T]] = Unallocated]

\* The buffers after reset() deleted the derived names of T.
Deleted(T) == IF derived[T] = Null THEN buffer ELSE [buffer EXCEPT ![derived[T]] = Unallocated]

\* (Mistake: everything is cleared.)
AfterResetNone(T) == {}

\* What is left in the static tables by metatable<T>::reset().
AfterReset(T) == declared[T] \cap Overloads

\* meta_table_registry<T>::reset().  The names of the pointers stay registered.
Reset(T) ==
  /\ ~fault
  /\ name' = [name EXCEPT ![T] = Null]
  /\ derived' = [derived EXCEPT ![T] = Null]
  /\ known' = [known EXCEPT ![T] = Null]
  /\ buffer' = Deleted(T)
  /\ declared' = [declared EXCEPT ![T] = AfterReset(T)]
  /\ UNCHANGED <<pointed, metatables, fields, datum, fault>>

\* define<T>(n) finds T registered under another name.
Renames(T, n) == known[T] # Null /\ known[T] # n

\* The metatable builder takes a fresh buffer b for the derived names; the old one,
\* unless a reset deleted it, is forgotten.
Named(T, n, b) ==
  /\ name' = [name EXCEPT ![T] = n]
  /\ derived' = [derived EXCEPT ![T] = b]

\* define<T>(n) and the builder calls that follow, which declare F; build() is apart.
Define(T, n, F, b) ==
  /\ ~fault
  /\ LET bufs == IF Renames(T, n) THEN Deleted(T) ELSE buffer
         base == IF Renames(T, n) THEN AfterReset(T) ELSE declared[T]
     IN /\ bufs[b] = Unallocated
        /\ buffer' = [bufs EXCEPT ![b] = n]
        /\ declared' = [declared EXCEPT ![T] = base \cup F]
  /\ known' = [known EXCEPT ![T] = IF Renames(T, n) THEN Null ELSE @]
  /\ Named(T, n, b)
  /\ UNCHANGED <<pointed, metatables, fields, datum, fault>>

\* (Mistake: build() registers names once and for all.)
RegisteredOnce(T) == IF pointed[T] = Null THEN [pointed EXCEPT ![T] = derived[T]] ELSE pointed

Registered(T) == [pointed EXCEPT ![T] = derived[T]]

\* build(), on the builder that the last define<T> returned.
Build(T) ==
  /\ ~fault
  /\ known' = [known EXCEPT ![T] = name[T]]
  /\ pointed' = Registered(T)
  /\ UNCHANGED <<name, derived, buffer, declared, metatables, fields, datum, fault>>

(***************************************************************************)
(* Lua states.                                                             *)
(***************************************************************************)
\* The function that build() returned makes the metatables of T, with functions for what is
\* declared by now, or adds those to the ones that exist already.
Expose(T, L) ==
  /\ ~fault
  /\ careful => known[T] # Null
  /\ IF name[T] = Null
     THEN fault' = TRUE /\ UNCHANGED <<metatables, fields>>
     ELSE /\ metatables' = [metatables EXCEPT ![L] = @ \cup {name[T]}]
          /\ fields' = [fields EXCEPT ![L][name[T]] = @ \cup declared[T]]
          /\ UNCHANGED fault
  /\ UNCHANGED <<statics, datum>>

\* What a new userdatum finds under name n in L.
Meta(L, n) == IF n \in metatables[L] THEN n ELSE Null

\* L has the metatables of T, as it is known.
Usable(T, L) == known[T] # Null /\ known[T] \in metatables[L]

\* Pushing an object of class T: by metatable<T>::name, if there is one.
PushValue(T, L, u) ==
  /\ ~fault
  /\ datum[u] = Null
  /\ name[T] # Null
  /\ careful => Usable(T, L)
  /\ datum' = [datum EXCEPT ![u] = [class |-> T, indirect |-> FALSE, meta |-> Meta(L, name[T])]]
  /\ UNCHANGED <<statics, metatables, fields, fault>>

\* Pushing a pointer to it: by meta_table_registry<T*>::name, whatever that points to.
PushPointer(T, L, u) ==
  /\ ~fault
  /\ datum[u] = Null
  /\ pointed[T] # Null
  /\ careful => Usable(T, L)
  /\ IF buffer[pointed[T]] = Unallocated
     THEN fault' = TRUE /\ UNCHANGED datum
     ELSE /\ datum' = [datum EXCEPT ![u] = [class |-> T, indirect |-> TRUE,
                                            meta |-> Meta(L, buffer[pointed[T]])]]
          /\ UNCHANGED fault
  /\ UNCHANGED <<statics, metatables, fields>>

\* A pointer to an object of a class without a name becomes light userdata.
GivesLight(T) == pointed[T] = Null

\* inspect<T> or inspect<T*> of u, as for an argument of an overload: the name of the
\* class is compared with the one that the metatable of u has.
Compare(T, indirect, u) ==
  /\ ~fault
  /\ datum[u] # Null
  /\ IF indirect THEN derived[T] # Null ELSE name[T] # Null
  /\ fault' = (datum[u].meta = Null \/ (indirect /\ buffer[derived[T]] = Unallocated))
  /\ UNCHANGED <<statics, metatables, fields, datum>>

Collect(u) ==
  /\ datum[u] # Null
  /\ datum' = [datum EXCEPT ![u] = Null]
  /\ UNCHANGED <<statics, metatables, fields, fault>>

Next ==
  /\ careful' = careful
  /\ \/ \E T \in Class :
          \/ Reset(T)
          \/ \E n \in NamesOf[T], b \in Buffer : \E F \in SUBSET FeaturesOf[T] : Define(T, n, F, b)
          \/ Build(T)
          \/ \E L \in LuaState :
               \/ Expose(T, L)
               \/ \E u \in Userdatum : PushValue(T, L, u) \/ PushPointer(T, L, u)
          \/ \E u \in Userdatum, indirect \in BOOLEAN : Compare(T, indirect, u)
     \/ \E u \in Userdatum : Collect(u)

Spec == Init /\ [][Next]_vars

-----------------------------------------------------------------------------
\* inspect<T> and inspect<T*>: the name in the metatable of u is that of the class.
Inspect(T, indirect, u) ==
  LET n == IF ~indirect THEN name[T]
           ELSE IF derived[T] = Null THEN Null ELSE buffer[derived[T]]
  IN n # Null /\ datum[u].meta = n /\ datum[u].indirect = indirect

TypeOK ==
  /\ name \in [Class -> Name \cup {Null}]
  /\ derived \in [Class -> Buffer \cup {Null}]
  /\ known \in [Class -> Name \cup {Null}]
  /\ pointed \in [Class -> Buffer \cup {Null}]
  /\ buffer \in [Buffer -> Name \cup {Unallocated}]
  /\ declared \in [Class -> SUBSET Feature]
  /\ metatables \in [LuaState -> SUBSET Name]
  /\ fields \in [LuaState -> [Name -> SUBSET Feature]]
  /\ datum \in [Userdatum -> [class : Class, indirect : BOOLEAN, meta : Name \cup {Null}] \cup {Null}]
  /\ fault \in BOOLEAN
  /\ careful \in BOOLEAN

\* The derived names are live, spell the name of their class and belong to one class:
\* reset() never deletes a buffer twice, nor one that another class uses.
DerivedNamesOwned ==
  /\ \A T \in Class : derived[T] # Null => buffer[derived[T]] = name[T] /\ name[T] # Null
  /\ \A T, S \in Class : T # S /\ derived[T] # Null => derived[T] # derived[S]

\* While a class is known, the registered names of its pointers are live and spell the
\* name it is known under, through any sequence of definitions, renamings and resets.
KnownNamesRead ==
  \A T \in Class : known[T] # Null /\ pointed[T] # Null => buffer[pointed[T]] = known[T]

\* A program that uses classes only where they are known and exposed never reads a name
\* that was freed or is null, however often they are renamed, reset and defined again.
CarefulReadsNames == careful => ~fault

\* When the names of the classes differ and only objects of known classes are pushed, a
\* userdatum passes for class T only if it is one.
InspectSound ==
  careful =>
    \A u \in Userdatum, T \in Class, indirect \in BOOLEAN :
      datum[u] # Null /\ Inspect(T, indirect, u) => datum[u].class = T

\* A binary operator that some Lua state has in a metatable of a class, under any name that
\* the class had, goes on finding the overloads it was exposed with, whatever is renamed, reset
\* and exposed since: the metatables call into static tables, and those of operators stay.
OperatorsStayUsable ==
  \A L \in LuaState, T \in Class, n \in Name :
    n \in NamesOf[T] => fields[L][n] \cap Overloads \subseteq declared[T]

\* README.md: a pointer to an object of a class that is not known becomes light userdata.
UnknownClassGivesLight == \A T \in Class : known[T] = Null => GivesLight(T)
=============================================================================
