------------------------ MODULE ClassRegistryProofs ------------------------
(***************************************************************************)
(* ClassRegistry for any number of classes, names, buffers, Lua states and *)
(* userdata.  The argument: a name spells its class, and names of classes  *)
(* differ, so that a live buffer tells whose it is.  What reset() deletes  *)
(* is spelt like the class it resets, and no other class has registered    *)
(* it; what define() takes was free, and no known class reads it.          *)
(***************************************************************************)
EXTENDS ClassRegistry, MemberNames, TLAPS

\* Classes go by names of their own.
NamesRight ==
  \A T \in Class : name[T] \in NamesOf[T] \cup {Null} /\ known[T] \in NamesOf[T] \cup {Null}

\* When the program is careful, the name that a userdatum carries is one of its class.
DataNamed ==
  careful => \A u \in Userdatum :
    datum[u] # Null => datum[u].meta \in NamesOf[datum[u].class]

\* A class is known by the name that it has.
KnownAsNamed == \A T \in Class : known[T] # Null => known[T] = name[T]

Inv ==
  /\ TypeOK
  /\ NamesRight
  /\ DerivedNamesOwned
  /\ KnownNamesRead
  /\ OperatorsStayUsable
  /\ DataNamed
  /\ KnownAsNamed
  /\ CarefulReadsNames

-----------------------------------------------------------------------------
\* reset() deletes the buffer of the derived names of T and no other.
LEMMA DeletedOp ==
  ASSUME TypeOK, NEW T \in Class
  PROVE  /\ Deleted(T) \in [Buffer -> Name \cup {Unallocated}]
         /\ \A b \in Buffer :
              Deleted(T)[b] = IF b = derived[T] THEN Unallocated ELSE buffer[b]
  BY ClassRegistryAssumption DEF Deleted, TypeOK

\* A name of a class is one of the names.
LEMMA NamesAreNames ==
  ASSUME NEW T \in Class
  PROVE  NamesOf[T] \subseteq Name /\ Null \notin NamesOf[T] /\ Unallocated \notin NamesOf[T]
  BY ClassRegistryAssumption DEF Name

\* A known class has registered no buffer that another class may delete.
LEMMA KnownIsApart ==
  ASSUME Inv, NEW T \in Class, NEW S \in Class, T # S,
         known[T] # Null, pointed[T] # Null, derived[S] # Null
  PROVE  pointed[T] # derived[S]
<1>1. buffer[pointed[T]] \in NamesOf[T]
  BY DEF Inv, KnownNamesRead, NamesRight
<1>2. buffer[derived[S]] \in NamesOf[S]
  BY DEF Inv, DerivedNamesOwned, NamesRight
<1> QED
  BY <1>1, <1>2, ClassRegistryAssumption

-----------------------------------------------------------------------------
\* A program starts without classes.
LEMMA InitInv == Init => Inv
<1> SUFFICES ASSUME Init PROVE Inv
  OBVIOUS
<1>1. TypeOK
  BY DEF Init, TypeOK
<1>2. NamesRight /\ DerivedNamesOwned /\ KnownNamesRead
  BY DEF Init, NamesRight, DerivedNamesOwned, KnownNamesRead
<1>3. OperatorsStayUsable /\ DataNamed
  BY DEF Init, OperatorsStayUsable, DataNamed
<1>4. KnownAsNamed /\ CarefulReadsNames
  BY DEF Init, KnownAsNamed, CarefulReadsNames
<1> QED
  BY <1>1, <1>2, <1>3, <1>4 DEF Inv

\* meta_table_registry<T>::reset() (metatable.hpp:77-86, 108-119).
LEMMA ResetInv ==
  ASSUME Inv, NEW T \in Class, Reset(T),
         careful' = careful
  PROVE  Inv'
<1> USE DEF Inv
<1>1. /\ name' = [name EXCEPT ![T] = Null]
      /\ derived' = [derived EXCEPT ![T] = Null]
      /\ known' = [known EXCEPT ![T] = Null]
      /\ buffer' = Deleted(T)
      /\ UNCHANGED <<pointed, metatables, fields, datum, fault>>
  BY DEF Reset
<1>2. TypeOK'
  <2>1. declared' \in [Class -> SUBSET Feature]
    BY DEF Reset, AfterReset, TypeOK, Feature
  <2> QED
    BY <1>1, <2>1, DeletedOp DEF TypeOK
<1>3. NamesRight'
  BY <1>1 DEF NamesRight, TypeOK
<1>4. DerivedNamesOwned'
  BY <1>1, DeletedOp DEF DerivedNamesOwned, TypeOK
<1>5. KnownNamesRead'
  <2> SUFFICES ASSUME NEW S \in Class, known'[S] # Null, pointed'[S] # Null
               PROVE  buffer'[pointed'[S]] = known'[S]
    BY DEF KnownNamesRead
  <2>1. S # T /\ known'[S] = known[S] /\ pointed'[S] = pointed[S]
    BY <1>1 DEF TypeOK
  <2>2. pointed[S] \in Buffer /\ pointed[S] # derived[T]
    BY <2>1, KnownIsApart DEF TypeOK
  <2> QED
    BY <1>1, <2>1, <2>2, DeletedOp DEF KnownNamesRead
<1>6. OperatorsStayUsable'
  BY DEF OperatorsStayUsable, Reset, AfterReset, TypeOK
<1>7. DataNamed' /\ CarefulReadsNames'
  BY <1>1 DEF DataNamed, CarefulReadsNames
<1>8. KnownAsNamed'
  BY <1>1 DEF KnownAsNamed, TypeOK
<1> QED
  BY <1>2, <1>3, <1>4, <1>5, <1>6, <1>7, <1>8

\* define<T>(n) and the declarations that follow (user_def.hpp:275-292, 624-635).
LEMMA DefineInv ==
  ASSUME Inv, NEW T \in Class, NEW n \in NamesOf[T], NEW b \in Buffer,
         NEW F \in SUBSET FeaturesOf[T], Define(T, n, F, b),
         careful' = careful
  PROVE  Inv'
<1> USE DEF Inv
<1> DEFINE bufs == IF Renames(T, n) THEN Deleted(T) ELSE buffer
<1>1. /\ name' = [name EXCEPT ![T] = n]
      /\ derived' = [derived EXCEPT ![T] = b]
      /\ known' = [known EXCEPT ![T] = IF Renames(T, n) THEN Null ELSE @]
      /\ bufs[b] = Unallocated
      /\ buffer' = [bufs EXCEPT ![b] = n]
      /\ UNCHANGED <<pointed, metatables, fields, datum, fault>>
  BY DEF Define, Named
<1>2. /\ bufs \in [Buffer -> Name \cup {Unallocated}]
      /\ \A c \in Buffer : bufs[c] = buffer[c] \/ (c = derived[T] /\ Renames(T, n))
  BY DeletedOp DEF TypeOK
<1> HIDE DEF bufs
<1>3. n \in Name /\ n # Null /\ n # Unallocated
  BY NamesAreNames
<1>4. TypeOK'
  <2>1. declared' \in [Class -> SUBSET Feature]
    BY ClassRegistryAssumption DEF Define, AfterReset, TypeOK, Feature
  <2> QED
    BY <1>1, <1>2, <1>3, <2>1 DEF TypeOK
<1>5. NamesRight'
  BY <1>1, <1>3 DEF NamesRight, TypeOK
<1>6. \A S \in Class : S # T /\ derived[S] # Null =>
        derived[S] # b /\ derived[S] # derived[T] /\ bufs[derived[S]] = buffer[derived[S]]
  <2> SUFFICES ASSUME NEW S \in Class, S # T, derived[S] # Null
               PROVE  /\ derived[S] # b /\ derived[S] # derived[T]
                      /\ bufs[derived[S]] = buffer[derived[S]]
    OBVIOUS
  <2>1. derived[S] \in Buffer /\ derived[S] # derived[T]
    BY DEF DerivedNamesOwned, TypeOK
  <2>2. bufs[derived[S]] = buffer[derived[S]]
    BY <1>2, <2>1
  <2>3. buffer[derived[S]] # Unallocated
    BY NamesAreNames DEF DerivedNamesOwned, NamesRight
  <2> QED
    BY <1>1, <2>1, <2>2, <2>3
<1>7. DerivedNamesOwned'
  <2>1. \A S \in Class : derived'[S] # Null => buffer'[derived'[S]] = name'[S] /\ name'[S] # Null
    BY <1>1, <1>2, <1>3, <1>6 DEF DerivedNamesOwned, TypeOK
  <2>2. \A S, R \in Class : S # R /\ derived'[S] # Null => derived'[S] # derived'[R]
    BY <1>1, <1>6 DEF DerivedNamesOwned, TypeOK
  <2> QED
    BY <2>1, <2>2 DEF DerivedNamesOwned
<1>8. KnownNamesRead'
  <2> SUFFICES ASSUME NEW S \in Class, known'[S] # Null, pointed'[S] # Null
               PROVE  buffer'[pointed'[S]] = known'[S]
    BY DEF KnownNamesRead
  <2>1. known'[S] = known[S] /\ pointed'[S] = pointed[S] /\ (S = T => ~Renames(T, n))
    BY <1>1 DEF TypeOK
  <2>2. pointed[S] \in Buffer /\ buffer[pointed[S]] = known[S] /\ known[S] # Unallocated
    BY <2>1, NamesAreNames DEF TypeOK, KnownNamesRead, NamesRight
  <2>3. bufs[pointed[S]] = buffer[pointed[S]]
    BY <1>2, <2>1, <2>2, KnownIsApart, ClassRegistryAssumption DEF Renames
  <2> QED
    BY <1>1, <1>2, <2>1, <2>2, <2>3
<1>9. OperatorsStayUsable'
  BY DEF OperatorsStayUsable, Define, AfterReset, TypeOK
<1>10. DataNamed' /\ CarefulReadsNames'
  BY <1>1 DEF DataNamed, CarefulReadsNames
<1>11. KnownAsNamed'
  BY <1>1 DEF KnownAsNamed, Renames, TypeOK
<1> QED
  BY <1>4, <1>5, <1>7, <1>8, <1>9, <1>10, <1>11

\* build() (user_def.hpp:513-518).
LEMMA BuildInv ==
  ASSUME Inv, NEW T \in Class, Build(T),
         careful' = careful
  PROVE  Inv'
<1> USE DEF Inv, Build, Registered
<1>1. TypeOK'
  BY DEF TypeOK
<1>2. NamesRight'
  BY DEF NamesRight, TypeOK
<1>3. DerivedNamesOwned'
  BY DEF DerivedNamesOwned
<1>4. KnownNamesRead'
  BY DEF KnownNamesRead, DerivedNamesOwned, TypeOK
<1>5. OperatorsStayUsable' /\ DataNamed' /\ CarefulReadsNames'
  BY DEF OperatorsStayUsable, DataNamed, CarefulReadsNames
<1>6. KnownAsNamed'
  BY DEF KnownAsNamed, TypeOK
<1> QED
  BY <1>1, <1>2, <1>3, <1>4, <1>5, <1>6

\* A step that leaves the static tables alone only has to respect the userdata and the
\* metatables, and to read no bad name in a careful program.
LEMMA StaticsInv ==
  ASSUME Inv, UNCHANGED statics, TypeOK', DataNamed', CarefulReadsNames', OperatorsStayUsable',
         careful' = careful
  PROVE  Inv'
  BY DEF Inv, statics, NamesRight, DerivedNamesOwned, KnownNamesRead, KnownAsNamed

\* The same, when it leaves what metatables have alone as well.
LEMMA FieldsInv ==
  ASSUME Inv, UNCHANGED statics, UNCHANGED fields, TypeOK', DataNamed', CarefulReadsNames',
         careful' = careful
  PROVE  Inv'
  BY StaticsInv DEF Inv, statics, OperatorsStayUsable

\* The function that build() returned (user_def.hpp:520-621).
LEMMA ExposeInv ==
  ASSUME Inv, NEW T \in Class, NEW L \in LuaState, Expose(T, L),
         careful' = careful
  PROVE  Inv'
<1>1. UNCHANGED statics /\ UNCHANGED datum
  BY DEF Expose
<1>2. CarefulReadsNames'
  BY DEF Inv, Expose, KnownAsNamed, CarefulReadsNames
<1>3. CASE name[T] = Null
  <2>1. UNCHANGED <<metatables, fields>> /\ fault' \in BOOLEAN
    BY <1>3 DEF Expose
  <2>2. TypeOK' /\ DataNamed'
    BY <1>1, <2>1 DEF Inv, TypeOK, DataNamed, statics
  <2> QED
    BY <1>1, <1>2, <2>1, <2>2, FieldsInv
<1>4. CASE name[T] # Null
  <2>1. name[T] \in Name /\ name[T] \in NamesOf[T]
    BY <1>4 DEF Inv, TypeOK, NamesRight
  <2> DEFINE m == metatables[L] \cup {name[T]}
             f == [fields[L] EXCEPT ![name[T]] = @ \cup declared[T]]
  <2>2. m \in SUBSET Name
    BY <2>1 DEF Inv, TypeOK
  <2>3. /\ fields[L] \in [Name -> SUBSET Feature] /\ f \in [Name -> SUBSET Feature]
        /\ \A n \in Name : f[n] = IF n = name[T] THEN fields[L][n] \cup declared[T]
                                  ELSE fields[L][n]
    <3> DEFINE g == fields[L][name[T]] \cup declared[T]
    <3>1. fields[L] \in [Name -> SUBSET Feature] /\ g \in SUBSET Feature
      BY <2>1 DEF Inv, TypeOK
    <3>2. f = [fields[L] EXCEPT ![name[T]] = g]
      OBVIOUS
    <3> HIDE DEF f, g
    <3>3. f \in [Name -> SUBSET Feature]
      BY <3>1, <3>2
    <3>4. \A n \in Name : f[n] = IF n = name[T] THEN g ELSE fields[L][n]
      BY <2>1, <3>1, <3>2
    <3> QED
      BY <3>1, <3>3, <3>4 DEF g
  <2>4. /\ metatables' = [metatables EXCEPT ![L] = m] /\ UNCHANGED fault
        /\ fields' = [fields EXCEPT ![L] = f]
    BY <1>4 DEF Expose
  <2> HIDE DEF m, f
  <2>5. TypeOK' /\ DataNamed'
    BY <1>1, <2>2, <2>3, <2>4 DEF Inv, TypeOK, DataNamed, statics
  <2>6. ASSUME NEW K \in LuaState, NEW S \in Class, NEW n \in Name, n \in NamesOf[S]
        PROVE  fields'[K][n] \cap Overloads \subseteq declared[S]
    <3>1. fields[K][n] \cap Overloads \subseteq declared[S]
      BY <2>6 DEF Inv, OperatorsStayUsable
    <3>2. CASE K = L /\ n = name[T]
      <4>1. S = T
        BY <2>1, <2>6, <3>2, ClassRegistryAssumption
      <4>2. fields'[K][n] = fields[K][n] \cup declared[T]
        BY <2>3, <2>4, <3>2 DEF Inv, TypeOK
      <4> QED
        BY <3>1, <4>1, <4>2
    <3>3. CASE ~(K = L /\ n = name[T])
      <4>1. fields'[K][n] = fields[K][n]
        BY <2>3, <2>4, <3>3 DEF Inv, TypeOK
      <4> QED
        BY <3>1, <4>1
    <3> QED
      BY <3>2, <3>3
  <2>7. OperatorsStayUsable'
    BY <1>1, <2>6 DEF OperatorsStayUsable, statics
  <2> QED
    BY <1>1, <1>2, <2>5, <2>7, StaticsInv
<1> QED
  BY <1>3, <1>4

\* What a new userdatum carries is the name it was pushed by, or none.
LEMMA MetaOp ==
  ASSUME TypeOK, NEW L \in LuaState, NEW n \in Name
  PROVE  /\ Meta(L, n) \in {n, Null} /\ Meta(L, n) \in Name \cup {Null}
         /\ n \in metatables[L] => Meta(L, n) = n
  BY DEF Meta

\* Pushing objects and pointers to them (detail/user_traits.hpp:87-134).
LEMMA PushInv ==
  ASSUME Inv, NEW T \in Class, NEW L \in LuaState, NEW u \in Userdatum,
         PushValue(T, L, u) \/ PushPointer(T, L, u),
         careful' = careful
  PROVE  Inv'
<1> USE DEF Inv
<1>1. CASE PushValue(T, L, u)
  <2>1. UNCHANGED statics /\ UNCHANGED fields /\ name[T] \in Name /\ name[T] \in NamesOf[T]
    BY <1>1, ClassRegistryAssumption DEF PushValue, TypeOK, NamesRight
  <2>2. TypeOK'
    BY <1>1, <2>1, MetaOp DEF PushValue, TypeOK, statics
  <2>3. careful => Meta(L, name[T]) = name[T]
    BY <1>1, <2>1, MetaOp DEF PushValue, Usable, KnownAsNamed
  <2>4. DataNamed'
    BY <1>1, <2>1, <2>3 DEF PushValue, DataNamed, TypeOK
  <2>5. CarefulReadsNames'
    BY <1>1 DEF PushValue, CarefulReadsNames
  <2> QED
    BY <2>1, <2>2, <2>4, <2>5, FieldsInv
<1>2. CASE PushPointer(T, L, u)
  <2>1. UNCHANGED statics /\ UNCHANGED fields /\ pointed[T] \in Buffer
    BY <1>2 DEF PushPointer, TypeOK
  <2>2. CASE buffer[pointed[T]] = Unallocated
    <3>1. TypeOK' /\ DataNamed'
      BY <1>2, <2>1, <2>2 DEF PushPointer, TypeOK, DataNamed, statics
    <3>2. ~careful
      BY <1>2, <2>2, NamesAreNames DEF PushPointer, Usable, KnownNamesRead, NamesRight
    <3> QED
      BY <2>1, <3>1, <3>2, FieldsInv DEF CarefulReadsNames
  <2>3. CASE buffer[pointed[T]] # Unallocated
    <3>1. buffer[pointed[T]] \in Name
      BY <2>1, <2>3 DEF TypeOK
    <3>2. careful => /\ buffer[pointed[T]] \in NamesOf[T]
                     /\ buffer[pointed[T]] \in metatables[L]
      BY <1>2, <2>1 DEF PushPointer, Usable, KnownNamesRead, NamesRight
    <3> DEFINE m == Meta(L, buffer[pointed[T]])
    <3>3. m \in Name \cup {Null} /\ (careful => m = buffer[pointed[T]])
      BY <3>1, <3>2, MetaOp
    <3>4. /\ datum' = [datum EXCEPT ![u] = [class |-> T, indirect |-> TRUE, meta |-> m]]
          /\ UNCHANGED <<metatables, fields, fault>>
      BY <1>2, <2>3 DEF PushPointer
    <3> HIDE DEF m
    <3>5. TypeOK'
      BY <2>1, <3>3, <3>4 DEF TypeOK, statics
    <3>6. DataNamed'
      BY <3>2, <3>3, <3>4 DEF DataNamed, TypeOK
    <3>7. CarefulReadsNames'
      BY <3>4 DEF CarefulReadsNames
    <3> QED
      BY <2>1, <3>5, <3>6, <3>7, FieldsInv
  <2> QED
    BY <2>2, <2>3
<1> QED
  BY <1>1, <1>2

\* inspect() of a userdatum (detail/user_traits.hpp:32-50).
LEMMA CompareInv ==
  ASSUME Inv, NEW T \in Class, NEW indirect \in BOOLEAN, NEW u \in Userdatum,
         Compare(T, indirect, u),
         careful' = careful
  PROVE  Inv'
<1>1. UNCHANGED statics /\ UNCHANGED <<metatables, fields, datum>> /\ fault' \in BOOLEAN
  BY DEF Compare
<1>2. TypeOK' /\ DataNamed'
  BY <1>1 DEF Inv, TypeOK, DataNamed, statics
<1>3. careful => datum[u].meta # Null
  <2>1. datum[u] # Null /\ datum[u].class \in Class
    BY DEF Inv, Compare, TypeOK
  <2> QED
    BY <2>1, NamesAreNames DEF Inv, DataNamed
<1>4. indirect => buffer[derived[T]] # Unallocated
  BY NamesAreNames DEF Inv, Compare, DerivedNamesOwned, NamesRight
<1>5. CarefulReadsNames'
  BY <1>3, <1>4 DEF Compare, CarefulReadsNames
<1> QED
  BY <1>1, <1>2, <1>5, FieldsInv

\* The collector takes a userdatum.
LEMMA CollectInv ==
  ASSUME Inv, NEW u \in Userdatum, Collect(u),
         careful' = careful
  PROVE  Inv'
<1>1. UNCHANGED statics /\ UNCHANGED fields
  BY DEF Collect
<1>2. TypeOK' /\ DataNamed' /\ CarefulReadsNames'
  BY <1>1 DEF Inv, Collect, TypeOK, DataNamed, CarefulReadsNames, statics
<1> QED
  BY <1>1, <1>2, FieldsInv

\* The invariant is inductive.
LEMMA StepInv == Inv /\ [Next]_vars => Inv'
<1> SUFFICES ASSUME Inv, [Next]_vars PROVE Inv'
  OBVIOUS
<1>1. CASE UNCHANGED vars
  BY <1>1 DEF vars, Inv, TypeOK, NamesRight, DerivedNamesOwned, KnownNamesRead,
              OperatorsStayUsable, DataNamed, KnownAsNamed, CarefulReadsNames
<1>2. CASE Next
  BY <1>2, ResetInv, DefineInv, BuildInv, ExposeInv, PushInv, CompareInv, CollectInv DEF Next
<1> QED
  BY <1>1, <1>2

-----------------------------------------------------------------------------
\* Every reachable state satisfies the invariant.
THEOREM Invariant == Spec => []Inv
<1> QED
  BY InitInv, StepInv, PTL DEF Spec

\* The static tables, metatables and userdata keep their types.
THEOREM TypeCorrect == Spec => []TypeOK
<1>1. Inv => TypeOK
  BY DEF Inv
<1> QED
  BY Invariant, <1>1, PTL

\* The buffers of derived names are live, right and belong to one class each, so that
\* reset() and define() never free one twice nor one that another class uses.
THEOREM NamesAreOwned == Spec => []DerivedNamesOwned
<1>1. Inv => DerivedNamesOwned
  BY DEF Inv
<1> QED
  BY Invariant, <1>1, PTL

\* The names registered for the pointers of a known class read as its name.
THEOREM KnownNamesAreRead == Spec => []KnownNamesRead
<1>1. Inv => KnownNamesRead
  BY DEF Inv
<1> QED
  BY Invariant, <1>1, PTL

\* What a metatable has a binary operator for stays in the static tables of its class, through
\* any resets, renamings and exposures (metatable.hpp:77-86, user_def.hpp:549-596).
THEOREM OperatorsStay == Spec => []OperatorsStayUsable
<1>1. Inv => OperatorsStayUsable
  BY DEF Inv
<1> QED
  BY Invariant, <1>1, PTL

\* A program that uses classes only where they are known and exposed reads no name that
\* was freed or is null, neither when it pushes nor when overloads inspect userdata.
THEOREM CarefulReads == Spec => []CarefulReadsNames
<1>1. Inv => CarefulReadsNames
  BY DEF Inv
<1> QED
  BY Invariant, <1>1, PTL

\* If only objects of known classes are pushed, a userdatum passes inspect() for no
\* other class than its own, whatever was renamed or reset since it was pushed.
THEOREM ClassesAreTold == Spec => []InspectSound
<1>1. Inv => InspectSound
  <2> SUFFICES ASSUME Inv, careful, NEW u \in Userdatum, NEW T \in Class,
                      NEW indirect \in BOOLEAN, datum[u] # Null, Inspect(T, indirect, u)
               PROVE  datum[u].class = T
    BY DEF InspectSound
  <2>1. datum[u].class \in Class /\ datum[u].meta # Null
    BY DEF Inv, TypeOK, Inspect
  <2>2. datum[u].meta \in NamesOf[datum[u].class]
    BY <2>1 DEF Inv, DataNamed
  <2>3. datum[u].meta \in NamesOf[T]
    BY DEF Inv, Inspect, DerivedNamesOwned, NamesRight
  <2> QED
    BY <2>1, <2>2, <2>3, ClassRegistryAssumption
<1> QED
  BY Invariant, <1>1, PTL

-----------------------------------------------------------------------------
(***************************************************************************)
(* The names of the members of one class, of which there may be any        *)
(* number, at any addresses.  The argument: as long as Lua has not freed   *)
(* the key of an entry, the key spells the name the entry was made for, so *)
(* that a lookup of the name finds it and no second one is made.  So an    *)
(* entry can only be missing, or hold another function than it should,     *)
(* where an entry of the name has lost its key; and such an entry stays    *)
(* until the class is reset.                                               *)
(***************************************************************************)

\* An entry for n has lost its key; in a map that compares only texts, any entry.
Lost(n) == \E e \in getters : e.loose /\ (HashFirst => e.name = n)

Expected(n) == IF n \in properties THEN n ELSE NoFunction

\* A key that is not loose is a literal or the text of a string that Lua has.
KeysSpell ==
  \A e \in getters :
    ~e.loose => Spells(e.key) = e.name /\ (e.key \in Address => e.key \in live)

\* The entries have the functions they should.
FunctionsRight == \A e \in getters : ~e.loose => e.fn = Expected(e.name) \/ Lost(e.name)

DeclaredHaveEntries ==
  \A n \in properties : (\E e \in getters : ~e.loose /\ e.name = n) \/ Lost(n)

FunctionsOwn == HashFirst => \A e \in getters : e.fn \in {NoFunction, e.name}

MembersInv ==
  /\ MembersTypeOK
  /\ KeysSpell
  /\ OneEntryPerName
  /\ FunctionsRight
  /\ DeclaredHaveEntries
  /\ FunctionsOwn
  /\ WrongHasCause
  /\ GetterIsOwn

-----------------------------------------------------------------------------
\* At first the table has no entries.
LEMMA MembersBegin == MembersInit => MembersInv
  BY DEF MembersInit, MembersInv, MembersTypeOK, KeysSpell, OneEntryPerName, FunctionsRight,
         DeclaredHaveEntries, FunctionsOwn, WrongHasCause, GetterIsOwn

\* An entry whose key is not loose is found under its name, and only there.
LEMMA FoundUnderName ==
  ASSUME MembersInv, NEW e \in getters, ~e.loose, NEW n \in Member
  PROVE  e \in Matching(n) <=> e.name = n
  BY DEF MembersInv, KeysSpell, Matching

\* What is found for a name is the entry of the name, or one that lost its key.
LEMMA MatchIsRight ==
  ASSUME MembersInv, NEW n \in Member, NEW e \in Matching(n)
  PROVE  /\ e \in getters
         /\ (e.loose => Lost(n)) /\ (~e.loose => e.name = n) /\ (HashFirst => e.name = n)
  BY FoundUnderName DEF Matching, Lost

-----------------------------------------------------------------------------
\* Entering a name that is not there (operator[] of std::unordered_map).
LEMMA NewEntry ==
  ASSUME MembersInv,
         NEW n \in Member, NEW key \in Member \cup Address, NEW f \in {n, NoFunction},
         key \in Address => key \in live /\ bytes[key] = n,
         key \in Member => key = n,
         Matching(n) = {},
         getters' = getters \cup {[key |-> key, name |-> n, fn |-> f, loose |-> FALSE]},
         UNCHANGED <<live, bytes>>,
         properties' = IF f = NoFunction THEN properties ELSE properties \cup {n}
  PROVE  /\ getters' \subseteq EntryType /\ properties' \subseteq Member
         /\ KeysSpell' /\ OneEntryPerName'
         /\ FunctionsRight' /\ DeclaredHaveEntries' /\ FunctionsOwn'
         /\ n \in properties /\ f = NoFunction => Lost(n)'
<1> USE DEF MembersInv
<1> DEFINE new == [key |-> key, name |-> n, fn |-> f, loose |-> FALSE]
<1>1. new \in EntryType /\ new.key = key /\ new.name = n /\ new.fn = f /\ ~new.loose
  BY DEF EntryType
<1>2. /\ getters' = getters \cup {new}
      /\ getters \subseteq EntryType /\ properties \subseteq Member
  BY DEF MembersTypeOK
<1>3. \A e \in getters : ~e.loose => e.name # n
  BY FoundUnderName
<1>4. \A m \in Member : Lost(m) => Lost(m)'
  BY <1>2 DEF Lost
<1>5. \A m \in Member : Lost(m)' => Lost(m)
  BY <1>1, <1>2 DEF Lost
<1>6. n \in properties => Lost(n)
  BY <1>3 DEF DeclaredHaveEntries
<1>7. n # NoFunction
  BY MemberNamesAssumption
<1> HIDE DEF new
<1>8. getters' \subseteq EntryType /\ properties' \subseteq Member
  BY <1>1, <1>2
<1>9. KeysSpell'
  BY <1>1, <1>2, MemberNamesAssumption DEF KeysSpell, Spells
<1>10. OneEntryPerName'
  BY <1>1, <1>2, <1>3 DEF OneEntryPerName
<1>11. FunctionsRight'
  <2> SUFFICES ASSUME NEW e \in getters', ~e.loose
               PROVE  e.fn = Expected(e.name)' \/ Lost(e.name)'
    BY DEF FunctionsRight
  <2>1. CASE e = new
    BY <1>1, <1>4, <1>6, <1>7, <2>1 DEF Expected
  <2>2. CASE e \in getters
    <3>1. e.name # n /\ e.name \in Member
      BY <1>2, <1>3, <2>2 DEF EntryType
    <3>2. Expected(e.name)' = Expected(e.name)
      BY <3>1 DEF Expected
    <3> QED
      BY <1>4, <2>2, <3>1, <3>2 DEF FunctionsRight
  <2> QED
    BY <1>2, <2>1, <2>2
<1>12. DeclaredHaveEntries'
  BY <1>1, <1>2, <1>4 DEF DeclaredHaveEntries
<1>13. FunctionsOwn'
  BY <1>1, <1>2 DEF FunctionsOwn
<1> QED
  BY <1>4, <1>6, <1>8, <1>9, <1>10, <1>11, <1>12, <1>13

\* Declaring a name that is found.
LEMMA OldEntry ==
  ASSUME MembersInv, NEW n \in Member, NEW e \in Matching(n),
         getters' = (getters \ {e}) \cup {[e EXCEPT !.fn = n]},
         UNCHANGED <<live, bytes>>,
         properties' = properties \cup {n}
  PROVE  /\ getters' \subseteq EntryType /\ properties' \subseteq Member
         /\ KeysSpell' /\ OneEntryPerName'
         /\ FunctionsRight' /\ DeclaredHaveEntries' /\ FunctionsOwn'
<1> USE DEF MembersInv
<1> DEFINE new == [e EXCEPT !.fn = n]
<1>1. e \in getters /\ e \in EntryType
  BY MatchIsRight DEF MembersTypeOK
<1>2. /\ new \in EntryType /\ new.key = e.key /\ new.name = e.name /\ new.fn = n
      /\ new.loose = e.loose
  BY <1>1 DEF EntryType
<1>3. /\ getters' = (getters \ {e}) \cup {new}
      /\ getters \subseteq EntryType /\ properties \subseteq Member
  BY DEF MembersTypeOK
<1>4. (e.loose => Lost(n)) /\ (~e.loose => e.name = n) /\ (HashFirst => e.name = n)
  BY MatchIsRight
<1> HIDE DEF new
<1>5. \A m \in Member : Lost(m) => Lost(m)'
  BY <1>1, <1>2, <1>3 DEF Lost
<1>6. getters' \subseteq EntryType /\ properties' \subseteq Member
  BY <1>2, <1>3
<1>7. KeysSpell'
  BY <1>1, <1>2, <1>3 DEF KeysSpell, Spells
<1>8. OneEntryPerName'
  BY <1>1, <1>2, <1>3 DEF OneEntryPerName
<1>9. FunctionsRight'
  <2> SUFFICES ASSUME NEW d \in getters', ~d.loose
               PROVE  d.fn = Expected(d.name)' \/ Lost(d.name)'
    BY DEF FunctionsRight
  <2>1. CASE d = new
    BY <1>2, <1>4, <2>1 DEF Expected
  <2>2. CASE d # new
    <3>1. d \in getters /\ d # e /\ d.name \in Member
      BY <1>3, <2>2 DEF EntryType
    <3>2. CASE d.name = n
      <4>1. e.loose
        BY <1>1, <1>4, <3>1, <3>2 DEF OneEntryPerName
      <4> QED
        BY <1>4, <1>5, <3>2, <4>1
    <3>3. CASE d.name # n
      BY <1>5, <3>1, <3>3 DEF FunctionsRight, Expected
    <3> QED
      BY <3>2, <3>3
  <2> QED
    BY <2>1, <2>2
<1>10. DeclaredHaveEntries'
  <2> SUFFICES ASSUME NEW m \in properties'
               PROVE  (\E d \in getters' : ~d.loose /\ d.name = m) \/ Lost(m)'
    BY DEF DeclaredHaveEntries
  <2>1. CASE m = n
    BY <1>2, <1>3, <1>4, <1>5, <2>1
  <2>2. CASE m # n
    <3>1. m \in properties /\ m \in Member
      BY <1>3, <2>2
    <3>2. CASE Lost(m)
      BY <1>5, <3>1, <3>2
    <3>3. CASE \E d \in getters : ~d.loose /\ d.name = m
      <4>1. PICK d \in getters : ~d.loose /\ d.name = m
        BY <3>3
      <4>2. CASE d = e
        BY <1>2, <1>3, <4>1, <4>2
      <4>3. CASE d # e
        BY <1>3, <4>1, <4>3
      <4> QED
        BY <4>2, <4>3
    <3> QED
      BY <3>1, <3>2, <3>3 DEF DeclaredHaveEntries
  <2> QED
    BY <2>1, <2>2
<1>11. FunctionsOwn'
  BY <1>1, <1>2, <1>3, <1>4 DEF FunctionsOwn
<1> QED
  BY <1>6, <1>7, <1>8, <1>9, <1>10, <1>11

-----------------------------------------------------------------------------
\* prop() (user_def.hpp:325-346).
LEMMA DeclareMemberInv ==
  ASSUME MembersInv, NEW n \in Member, Declare(n)
  PROVE  MembersInv'
<1>1. /\ UNCHANGED <<live, bytes>> /\ got' = None
      /\ properties' = properties \cup {n} /\ Enter(n, n, n)
  BY DEF Declare
<1>2. n \notin Address /\ n # NoFunction
  BY MemberNamesAssumption
<1>3. /\ getters' \subseteq EntryType /\ properties' \subseteq Member
      /\ KeysSpell' /\ OneEntryPerName'
      /\ FunctionsRight' /\ DeclaredHaveEntries' /\ FunctionsOwn'
  <2>1. CASE Matching(n) = {}
    <3>1. getters' = getters \cup {[key |-> n, name |-> n, fn |-> n, loose |-> FALSE]}
      BY <1>1, <2>1 DEF Enter
    <3> QED
      BY <1>1, <1>2, <2>1, <3>1, NewEntry
  <2>2. CASE Matching(n) # {}
    <3>1. PICK e \in Matching(n) : getters' = (getters \ {e}) \cup {[e EXCEPT !.fn = n]}
      BY <1>1, <2>2 DEF Enter
    <3> QED
      BY <1>1, <3>1, OldEntry
  <2> QED
    BY <2>1, <2>2
<1> QED
  BY <1>1, <1>3 DEF MembersInv, MembersTypeOK, WrongHasCause, GetterIsOwn

\* __index and __newindex (user_def.hpp:241-262).
LEMMA FindMemberInv ==
  ASSUME MembersInv,
         NEW n \in Member, NEW a \in Address, Find(n, a)
  PROVE  MembersInv'
<1>1. a \in live /\ bytes[a] = n /\ UNCHANGED <<live, bytes, properties>>
  BY DEF Find
<1>2. n # NoFunction /\ n # None /\ a \notin Member
  BY MemberNamesAssumption
<1>3. CASE Matching(n) = {} /\ Enter(a, n, NoFunction) /\ Got(n, NoFunction)
  <2>1. getters' = getters \cup {[key |-> a, name |-> n, fn |-> NoFunction, loose |-> FALSE]}
    BY <1>3 DEF Enter
  <2>2. /\ getters' \subseteq EntryType /\ properties' \subseteq Member
        /\ KeysSpell' /\ OneEntryPerName'
        /\ FunctionsRight' /\ DeclaredHaveEntries' /\ FunctionsOwn'
        /\ n \in properties => Lost(n)'
    BY <1>1, <1>2, <1>3, <2>1, NewEntry
  <2>3. got' = [asked |-> n, declared |-> n \in properties, fn |-> NoFunction]
    BY <1>3 DEF Got
  <2>4. /\ got' \in GotType /\ got'.asked = n
        /\ got'.declared = (n \in properties) /\ got'.fn = NoFunction
    BY <2>3 DEF GotType
  <2>5. WrongHasCause' /\ GetterIsOwn'
    BY <2>2, <2>4 DEF WrongHasCause, GetterIsOwn, Right, Lost
  <2> QED
    BY <1>1, <2>2, <2>4, <2>5 DEF MembersInv, MembersTypeOK
<1>4. CASE \E e \in Matching(n) : Got(n, e.fn) /\ UNCHANGED getters
  <2>1. PICK e \in Matching(n) : Got(n, e.fn)
    BY <1>4
  <2>2. UNCHANGED getters
    BY <1>4
  <2>3. /\ e \in getters
        /\ (e.loose => Lost(n)) /\ (~e.loose => e.name = n) /\ (HashFirst => e.name = n)
    BY MatchIsRight
  <2>4. e.fn \in Member \cup {NoFunction}
    BY <2>3 DEF MembersInv, MembersTypeOK, EntryType
  <2>5. got' = [asked |-> n, declared |-> n \in properties, fn |-> e.fn]
    BY <2>1 DEF Got
  <2>6. /\ got' \in GotType /\ got'.asked = n
        /\ got'.declared = (n \in properties) /\ got'.fn = e.fn
    BY <2>4, <2>5 DEF GotType
  <2>7. e.fn = Expected(n) \/ Lost(n)
    BY <2>3 DEF MembersInv, FunctionsRight
  <2>8. WrongHasCause'
    BY <2>2, <2>6, <2>7 DEF WrongHasCause, Right, Expected, Lost
  <2>9. GetterIsOwn'
    BY <2>3, <2>6 DEF MembersInv, FunctionsOwn, GetterIsOwn
  <2>10. /\ KeysSpell' /\ OneEntryPerName' /\ FunctionsRight' /\ DeclaredHaveEntries'
         /\ FunctionsOwn'
    BY <1>1, <2>2 DEF MembersInv, KeysSpell, Spells, OneEntryPerName, FunctionsRight,
                      Expected, Lost,
                      DeclaredHaveEntries, FunctionsOwn
  <2> QED
    BY <1>1, <2>2, <2>6, <2>8, <2>9, <2>10 DEF MembersInv, MembersTypeOK
<1> QED
  BY <1>3, <1>4 DEF Find

\* metatable::reset() (metatable.hpp:77-86).
LEMMA ResetMembersInv ==
  ASSUME MembersInv, ResetMembers
  PROVE  MembersInv'
  BY DEF MembersInv, ResetMembers, MembersTypeOK, KeysSpell, OneEntryPerName, FunctionsRight,
         DeclaredHaveEntries, FunctionsOwn, WrongHasCause, GetterIsOwn

\* A string of Lua goes where none is, and no key that is not loose points there.
LEMMA InternInv ==
  ASSUME MembersInv, NEW n \in Member, NEW a \in Address, Intern(n, a)
  PROVE  MembersInv'
<1>1. /\ a \notin live /\ live' = live \cup {a} /\ bytes' = [bytes EXCEPT ![a] = n]
      /\ got' = None /\ UNCHANGED <<getters, properties>>
  BY DEF Intern
<1>2. MembersTypeOK'
  BY <1>1 DEF MembersInv, MembersTypeOK
<1>3. KeysSpell'
  BY <1>1 DEF MembersInv, MembersTypeOK, KeysSpell, Spells
<1>4. OneEntryPerName' /\ FunctionsRight' /\ DeclaredHaveEntries' /\ FunctionsOwn'
  BY <1>1 DEF MembersInv, OneEntryPerName, FunctionsRight, Expected, Lost,
              DeclaredHaveEntries, FunctionsOwn
<1>5. WrongHasCause' /\ GetterIsOwn'
  BY <1>1 DEF WrongHasCause, GetterIsOwn
<1> QED
  BY <1>2, <1>3, <1>4, <1>5 DEF MembersInv

\* Lua frees a string: the entries stay, and those with its key are loose.
LEMMA CollectStringInv ==
  ASSUME MembersInv, NEW a \in Address, NEW x \in Member \cup {Junk}, CollectString(a, x)
  PROVE  MembersInv'
<1> DEFINE Aged(e) == [e EXCEPT !.loose = @ \/ e.key = a]
<1>1. /\ live' = live \ {a} /\ bytes' = [bytes EXCEPT ![a] = x]
      /\ getters' = {Aged(e) : e \in getters}
      /\ got' = None /\ properties' = properties
  BY DEF CollectString
<1>2. \A e \in getters : /\ Aged(e) \in EntryType
                         /\ Aged(e).key = e.key /\ Aged(e).name = e.name
                         /\ Aged(e).fn = e.fn /\ Aged(e).loose = (e.loose \/ e.key = a)
  BY DEF MembersInv, MembersTypeOK, EntryType
<1> HIDE DEF Aged
<1>3. /\ getters' \subseteq EntryType /\ live' \subseteq Address
      /\ bytes' \in [Address -> Member \cup {Junk}]
  BY <1>1, <1>2 DEF MembersInv, MembersTypeOK
<1>4. MembersTypeOK'
  BY <1>1, <1>3 DEF MembersInv, MembersTypeOK
<1>5. KeysSpell'
  <2> SUFFICES ASSUME NEW e \in getters, ~Aged(e).loose
               PROVE  /\ Spells(Aged(e).key)' = Aged(e).name
                      /\ Aged(e).key \in Address => Aged(e).key \in live'
    BY <1>1 DEF KeysSpell
  <2>1. ~e.loose /\ e.key # a /\ Aged(e).key = e.key /\ Aged(e).name = e.name
    BY <1>2
  <2>2. Spells(e.key)' = Spells(e.key)
    BY <1>1, <2>1 DEF MembersInv, MembersTypeOK, Spells
  <2> QED
    BY <1>1, <2>1, <2>2 DEF MembersInv, KeysSpell
<1>6. OneEntryPerName'
  <2> SUFFICES ASSUME NEW d \in getters, NEW e \in getters, ~Aged(d).loose, ~Aged(e).loose,
                      Aged(d).name = Aged(e).name
               PROVE  Aged(d) = Aged(e)
    BY <1>1 DEF OneEntryPerName
  <2> QED
    BY <1>2 DEF MembersInv, OneEntryPerName
<1>7. \A m \in Member : Lost(m) => Lost(m)'
  <2> SUFFICES ASSUME NEW m \in Member, Lost(m) PROVE Lost(m)'
    OBVIOUS
  <2>1. PICK e \in getters : e.loose /\ (HashFirst => e.name = m)
    BY DEF Lost
  <2>2. Aged(e) \in getters' /\ Aged(e).loose /\ Aged(e).name = e.name
    BY <1>1, <1>2, <2>1
  <2> QED
    BY <2>1, <2>2 DEF Lost
<1>8. FunctionsRight'
  <2> SUFFICES ASSUME NEW e \in getters, ~Aged(e).loose
               PROVE  Aged(e).fn = Expected(Aged(e).name)' \/ Lost(Aged(e).name)'
    BY <1>1 DEF FunctionsRight
  <2>1. e.name \in Member
    BY DEF MembersInv, MembersTypeOK, EntryType
  <2> QED
    BY <1>1, <1>2, <1>7, <2>1 DEF MembersInv, FunctionsRight, Expected
<1>9. DeclaredHaveEntries'
  <2> SUFFICES ASSUME NEW m \in properties
               PROVE  (\E e \in getters' : ~e.loose /\ e.name = m) \/ Lost(m)'
    BY <1>1 DEF DeclaredHaveEntries
  <2>1. m \in Member
    BY DEF MembersInv, MembersTypeOK
  <2>2. CASE Lost(m)
    BY <1>7, <2>1, <2>2
  <2>3. CASE \E e \in getters : ~e.loose /\ e.name = m
    <3>1. PICK e \in getters : ~e.loose /\ e.name = m
      BY <2>3
    <3>2. Aged(e) \in getters' /\ Aged(e).name = m /\ Aged(e).loose \in BOOLEAN
      BY <1>1, <1>2, <3>1 DEF EntryType
    <3> QED
      BY <3>2 DEF Lost
  <2> QED
    BY <2>2, <2>3 DEF MembersInv, DeclaredHaveEntries
<1>10. FunctionsOwn' /\ WrongHasCause' /\ GetterIsOwn'
  BY <1>1, <1>2 DEF MembersInv, FunctionsOwn, WrongHasCause, GetterIsOwn
<1> QED
  BY <1>4, <1>5, <1>6, <1>8, <1>9, <1>10 DEF MembersInv

\* The invariant is inductive.
LEMMA MembersStep ==
  ASSUME MembersInv, [MembersNext]_members
  PROVE  MembersInv'
<1>1. CASE UNCHANGED members
  BY <1>1 DEF members, MembersInv, MembersTypeOK, KeysSpell, Spells,
              OneEntryPerName, FunctionsRight, Expected, Lost,
              DeclaredHaveEntries, FunctionsOwn, WrongHasCause, Right, GetterIsOwn
<1>2. CASE MembersNext
  BY <1>2, DeclareMemberInv, FindMemberInv, ResetMembersInv, InternInv,
     CollectStringInv DEF MembersNext
<1> QED
  BY <1>1, <1>2

-----------------------------------------------------------------------------
\* Every reachable state satisfies the invariant.
THEOREM MembersInvariant == MembersSpec => []MembersInv
<1>1. MembersInv /\ [MembersNext]_members => MembersInv'
  BY MembersStep
<1> QED
  BY MembersBegin, <1>1, PTL DEF MembersSpec

\* The table and the strings of Lua keep their types.
THEOREM MembersTypeCorrect == MembersSpec => []MembersTypeOK
<1>1. MembersInv => MembersTypeOK
  BY DEF MembersInv
<1> QED
  BY MembersInvariant, <1>1, PTL

\* A lookup errs only where Lua freed the key of an entry: with hashes compared first, of
\* an entry of this name.
THEOREM WrongIsExplained == MembersSpec => []WrongHasCause
<1>1. MembersInv => WrongHasCause
  BY DEF MembersInv
<1> QED
  BY MembersInvariant, <1>1, PTL

\* With hashes compared first no lookup gives the getter of another property.
THEOREM NoForeignGetter == MembersSpec => []GetterIsOwn
<1>1. MembersInv => GetterIsOwn
  BY DEF MembersInv
<1> QED
  BY MembersInvariant, <1>1, PTL

\* However often scripts look a name up, it has one entry, but for those that lost their key.
THEOREM EntriesAreSingle == MembersSpec => []OneEntryPerName
<1>1. MembersInv => OneEntryPerName
  BY DEF MembersInv
<1> QED
  BY MembersInvariant, <1>1, PTL
=============================================================================
