------------------------ MODULE TableReferencesProofs ------------------------
(***************************************************************************)
(* TableReferences for any tables, keys and values, any number of objects  *)
(* and chains of any length.  The argument is one about each object: what  *)
(* it was made of was in the tables when it was made, and every write      *)
(* looks for the objects whose entries it changes.                         *)
(***************************************************************************)
EXTENDS TableReferences, SequenceTheorems, TLAPS

\* The tables t are typed, and have something only where expressions go.
FieldGood(t) ==
  /\ t \in [Table -> [Key -> Value]]
  /\ \A u \in Table, k \in Key : t[u][k] # Nil => <<u, k>> \in Entry

\* In tables t, entry e has value v.
Has(t, e, v) == t[e[1]][e[2]] = v

\* What a table_reference is, with the tables t.
Good(x, t) ==
  /\ x \in RefType
  /\ Len(x.via) \in 1..MaxVia
  /\ Named(x) = <<x.origin, x.at>>
  /\ "value" \notin x.stale => Has(t, <<x.origin, x.at>>, x.value)
  /\ "path" \notin x.stale => \A i \in 1..(Len(x.via) - 1) : Has(t, x.via[i], x.via[i + 1][1])

LoopGood(l, t) ==
  /\ l \in LoopType
  /\ <<l.table, l.at>> \in Entry
  /\ ~l.written => Has(t, <<l.table, l.at>>, l.value)

Inv ==
  /\ FieldGood(field)
  /\ DOMAIN ref = Ref /\ ref = [r \in Ref |-> ref[r]]
  /\ \A r \in Ref : InScope(r) => Good(ref[r], field)
  /\ held \in [Holder -> Value \cup {None}]
  /\ loop # None => LoopGood(loop, field)
  /\ fault \in BOOLEAN

\* No objects are alive at first.
LEMMA InitInv == Init => Inv
<1> SUFFICES ASSUME Init PROVE Inv
  OBVIOUS
<1>1. FieldGood(field)
  BY DEF Init, FieldGood, Value
<1> QED
  BY <1>1 DEF Init, Inv, InScope

\* An entry is a pair of a table and a key.
LEMMA EntryPair ==
  ASSUME NEW e \in Entry
  PROVE  e = <<e[1], e[2]>> /\ e[1] \in Table /\ e[2] \in Key
  BY TableReferencesAssumption DEF Key

-----------------------------------------------------------------------------
(* Writing an entry.                                                       *)

Put(t, e, v) == [t EXCEPT ![e[1]][e[2]] = v]

\* An entry that is put leaves the others.
LEMMA PutHas ==
  ASSUME NEW t, FieldGood(t), NEW e \in Entry, NEW v \in Value
  PROVE  /\ FieldGood(Put(t, e, v))
         /\ \A d \in Table \X Key : \A w : d # e /\ Has(t, d, w) => Has(Put(t, e, v), d, w)
<1>1. e = <<e[1], e[2]>> /\ e[1] \in Table /\ e[2] \in Key
  BY EntryPair
<1>2. Put(t, e, v) \in [Table -> [Key -> Value]]
  BY <1>1 DEF FieldGood, Put
<1>3. ASSUME NEW u \in Table, NEW k \in Key
      PROVE  Put(t, e, v)[u][k] = IF <<u, k>> = e THEN v ELSE t[u][k]
  BY <1>1 DEF FieldGood, Put
<1>4. \A u \in Table, k \in Key : Put(t, e, v)[u][k] # Nil => <<u, k>> \in Entry
  BY <1>3 DEF FieldGood
<1>5. ASSUME NEW d \in Table \X Key, NEW w, d # e, Has(t, d, w)
      PROVE  Has(Put(t, e, v), d, w)
  BY <1>3, <1>5 DEF Has
<1> QED
  BY <1>2, <1>4, <1>5 DEF FieldGood

\* What became of a reference fits the tables after the write.
LEMMA AfterGood ==
  ASSUME NEW t, FieldGood(t), NEW e \in Entry, NEW v \in Value, NEW x, x # None, Good(x, t)
  PROVE  Good(After(x, e), Put(t, e, v))
<1> DEFINE P == {p \in {"value", "path"} :
                   \E i \in DOMAIN x.via : x.via[i] = e /\ (p = "value" <=> i = Len(x.via))}
           y == [x EXCEPT !.stale = x.stale \cup P]
<1>1. After(x, e) = y
  BY DEF After
<1>2. x \in RefType /\ x.via \in Seq(Entry) /\ DOMAIN x.via = 1..Len(x.via) /\ Len(x.via) \in 1..MaxVia
  BY DEF Good, RefType
<1>3. /\ y \in RefType /\ y.via = x.via /\ y.origin = x.origin /\ y.at = x.at /\ y.value = x.value
      /\ y.stale = x.stale \cup P
  BY <1>2 DEF RefType
<1> HIDE DEF y
<1>4. Named(y) = Named(x)
  BY <1>3 DEF Named
<1>5. ASSUME "value" \notin y.stale PROVE Has(Put(t, e, v), <<y.origin, y.at>>, y.value)
  <2>1. "value" \notin P /\ "value" \notin x.stale
    BY <1>3, <1>5
  <2>2. x.via[Len(x.via)] # e
    BY <1>2, <2>1
  <2>3. Has(t, <<x.origin, x.at>>, x.value) /\ <<x.origin, x.at>> # e
    BY <2>1, <2>2 DEF Good, Named
  <2>4. <<x.origin, x.at>> \in Table \X Key
    BY <1>2 DEF RefType
  <2> QED
    BY <1>3, <2>3, <2>4, PutHas
<1>6. ASSUME "path" \notin y.stale, NEW i \in 1..(Len(y.via) - 1)
      PROVE  Has(Put(t, e, v), y.via[i], y.via[i + 1][1])
  <2>1. "path" \notin P /\ "path" \notin x.stale
    BY <1>3, <1>6
  <2>2. i \in 1..Len(x.via) /\ i # Len(x.via) /\ i \in 1..(Len(x.via) - 1)
    BY <1>2, <1>3
  <2>3. x.via[i] # e
    BY <1>2, <2>1, <2>2
  <2>4. x.via[i] \in Table \X Key
    BY <1>2, <2>2, EntryPair
  <2>5. Has(t, x.via[i], x.via[i + 1][1])
    BY <2>1, <2>2 DEF Good
  <2> QED
    BY <1>3, <2>3, <2>4, <2>5, PutHas
<1>7. Good(y, Put(t, e, v))
  BY <1>2, <1>3, <1>4, <1>5, <1>6 DEF Good
<1> QED
  BY <1>1, <1>7

\* The same of a loop.
LEMMA WriteLoop ==
  ASSUME FieldGood(field), NEW e \in Entry, NEW v \in Value, Write(e, v),
         loop # None => LoopGood(loop, field)
  PROVE  loop' # None => LoopGood(loop', Put(field, e, v))
<1> SUFFICES ASSUME loop' # None PROVE LoopGood(loop', Put(field, e, v))
  OBVIOUS
<1>1. CASE loop = None
  BY <1>1 DEF Write
<1> DEFINE d == <<loop.table, loop.at>>
<1>2. CASE loop # None
  <2>1. loop \in LoopType /\ d \in Entry /\ (~loop.written => Has(field, d, loop.value))
    BY <1>2 DEF LoopGood
  <2>2. d \in Table \X Key
    BY <2>1, EntryPair
  <2>3. d # e /\ ~loop.written => Has(Put(field, e, v), d, loop.value)
    <3> HIDE DEF d
    <3> QED
      BY <2>1, <2>2, PutHas
  <2>4. CASE loop.table # e[1]
    BY <1>2, <2>1, <2>3, <2>4 DEF Write, LoopGood
  <2>5. CASE loop.table = e[1]
    <3>1. loop' = [loop EXCEPT !.written = @ \/ loop.at = e[2],
                               !.grown = @ \/ field[e[1]][e[2]] = Nil]
      BY <1>2, <2>5 DEF Write
    <3>2. /\ loop' \in LoopType /\ loop'.table = loop.table /\ loop'.at = loop.at
          /\ loop'.value = loop.value /\ (loop'.written <=> loop.written \/ loop.at = e[2])
      BY <2>1, <3>1 DEF LoopType
    <3>3. ~loop'.written => d # e
      BY <3>2
    <3> QED
      BY <2>1, <2>3, <3>2, <3>3 DEF LoopGood
  <2> QED
    BY <2>4, <2>5
<1> QED
  BY <1>1, <1>2

\* A written entry makes every object stale that went through it (table.hpp:128-135).
LEMMA WriteInv ==
  ASSUME Inv, NEW e \in Entry, NEW v \in Value, Write(e, v), UNCHANGED <<held, fault>>
  PROVE  Inv'
<1>1. field' = Put(field, e, v)
  BY DEF Write, Put
<1>2. FieldGood(field')
  BY <1>1, PutHas DEF Inv
<1>3. ref' = [r \in Ref |-> After(ref[r], e)]
  BY DEF Write
<1>4. ASSUME NEW r \in Ref, InScope(r)' PROVE Good(ref'[r], field')
  <2>1. ref'[r] = After(ref[r], e)
    BY <1>3
  <2>2. ref[r] # None
    BY <1>4, <2>1 DEF InScope, After
  <2> QED
    BY <1>1, <2>1, <2>2, AfterGood DEF Inv, InScope
<1>5. loop' # None => LoopGood(loop', field')
  BY <1>1, WriteLoop DEF Inv
<1> QED
  BY <1>2, <1>3, <1>4, <1>5 DEF Inv

-----------------------------------------------------------------------------
(* Table references come and go.                                           *)

\* One object is made, changed or destroyed.
LEMMA RefInv ==
  ASSUME Inv, NEW r \in Ref, NEW x, ref' = [ref EXCEPT ![r] = x],
         x # None => Good(x, field), UNCHANGED <<field, held, loop, fault>>
  PROVE  Inv'
<1>1. DOMAIN ref' = Ref /\ ref' = [q \in Ref |-> ref'[q]]
  BY DEF Inv
<1>2. ASSUME NEW q \in Ref, InScope(q)' PROVE Good(ref'[q], field')
  <2>1. ref'[q] = IF q = r THEN x ELSE ref[q]
    BY DEF Inv
  <2> QED
    BY <1>2, <2>1 DEF Inv, InScope
<1> QED
  BY <1>1, <1>2 DEF Inv

\* What a subscript makes, after a path that leads to the table t.
LEMMA SubscriptedGood ==
  ASSUME FieldGood(field), NEW via \in Seq(Entry), Len(via) < MaxVia,
         NEW t \in Table, NEW k \in Key, <<t, k>> \in Entry, NEW stale \in SUBSET {"value", "path"},
         "value" \notin stale,
         "path" \notin stale => \A i \in 1..(Len(via) - 1) : Has(field, via[i], via[i + 1][1]),
         "path" \notin stale /\ Len(via) # 0 => Has(field, via[Len(via)], t)
  PROVE  Good(Subscripted(via, t, k, stale), field)
<1> DEFINE w == Append(via, <<t, k>>)
           x == Subscripted(via, t, k, stale)
<1>1. /\ w \in Seq(Entry) /\ Len(w) = Len(via) + 1 /\ Len(via) \in Nat
      /\ \A i \in 1..Len(via) : w[i] = via[i]
      /\ w[Len(w)] = <<t, k>>
  OBVIOUS
<1>2. field[t][k] \in Value
  BY DEF FieldGood
<1>3. /\ x.value = field[t][k] /\ x.origin = t /\ x.at = k /\ x.via = w /\ x.stale = stale
      /\ x \in RefType
  BY <1>1, <1>2 DEF Subscripted, RefType
<1> HIDE DEF w, x
<1>4. Len(x.via) \in 1..MaxVia
  BY <1>1, <1>3, TableReferencesAssumption
<1>5. Named(x) = <<x.origin, x.at>>
  BY <1>1, <1>3 DEF Named
<1>6. Has(field, <<x.origin, x.at>>, x.value)
  BY <1>3 DEF Has
<1>7. ASSUME "path" \notin x.stale, NEW i \in 1..(Len(x.via) - 1)
      PROVE  Has(field, x.via[i], x.via[i + 1][1])
  <2>1. i \in 1..Len(via) /\ w[i] = via[i] /\ Len(via) # 0
    BY <1>1, <1>3
  <2>2. CASE i = Len(via)
    BY <1>1, <1>3, <1>7, <2>1, <2>2 DEF Has
  <2>3. CASE i # Len(via)
    <3>1. i \in 1..(Len(via) - 1) /\ w[i + 1] = via[i + 1]
      BY <1>1, <2>1, <2>3
    <3> QED
      BY <1>3, <1>7, <2>1, <3>1 DEF Has
  <2> QED
    BY <2>2, <2>3
<1>8. Good(x, field)
  BY <1>3, <1>4, <1>5, <1>6, <1>7 DEF Good
<1> QED
  BY <1>8 DEF x

\* The same of the first subscript of a chain.
LEMMA FirstGood ==
  ASSUME FieldGood(field), NEW t \in Table, NEW k \in Key, <<t, k>> \in Entry
  PROVE  Good(Subscripted(<<>>, t, k, {}), field)
<1> DEFINE e == <<>>
<1>1. e \in Seq(Entry) /\ Len(e) = 0 /\ Len(e) < MaxVia /\ 1..(Len(e) - 1) = {}
  BY TableReferencesAssumption
<1>2. {} \in SUBSET {"value", "path"}
  OBVIOUS
<1> HIDE DEF e
<1>3. Good(Subscripted(e, t, k, {}), field)
  BY <1>1, <1>2, SubscriptedGood
<1> QED
  BY <1>3 DEF e

\* A subscript of the globals names one entry (table.hpp:137-140).
LEMMA SubscriptGlobalsInv ==
  ASSUME Inv, NEW r \in Ref, NEW k \in Key, SubscriptGlobals(r, k)
  PROVE  Inv'
<1>1. Good(Subscripted(<<>>, Globals, k, {}), field)
  BY FirstGood, TableReferencesAssumption DEF SubscriptGlobals, Inv
<1> QED
  BY <1>1, RefInv DEF SubscriptGlobals

\* A subscript of a table object goes on with its path (table.hpp:211-214).
LEMMA SubscriptTableInv ==
  ASSUME Inv, NEW r \in Ref, NEW h \in Holder, NEW k \in Key, SubscriptTable(r, h, k)
  PROVE  Inv'
<1>1. CASE held[h] \in Table
  <2>1. Good(Subscripted(<<>>, held[h], k, {}), field)
    BY <1>1, FirstGood DEF SubscriptTable, Inv
  <2> QED
    BY <1>1, <2>1, RefInv DEF SubscriptTable
<1>2. CASE held[h] \notin Table
  BY <1>2 DEF SubscriptTable, Inv, InScope
<1> QED
  BY <1>1, <1>2

\* A subscript of a reference goes on with its path (table_reference.hpp:52-62).
LEMMA SubscriptInv ==
  ASSUME Inv, NEW r \in Ref, NEW s \in Ref, NEW k \in Key, Subscript(r, s, k)
  PROVE  Inv'
<1> DEFINE p == IF ref[s].stale = {} THEN {} ELSE {"path"}
<1>1. /\ Good(ref[s], field) /\ ref[s].value \in Table /\ <<ref[s].value, k>> \in Entry
      /\ Len(ref[s].via) < MaxVia
  BY DEF Subscript, Inv
<1>2. /\ ref[s].via \in Seq(Entry) /\ Len(ref[s].via) \in 1..MaxVia
      /\ ref[s].via[Len(ref[s].via)] = <<ref[s].origin, ref[s].at>>
  BY <1>1 DEF Good, RefType, Named
<1>3. p \in SUBSET {"value", "path"} /\ "value" \notin p /\ ("path" \notin p => ref[s].stale = {})
  OBVIOUS
<1> HIDE DEF p
<1>4. "path" \notin p =>
        /\ \A i \in 1..(Len(ref[s].via) - 1) : Has(field, ref[s].via[i], ref[s].via[i + 1][1])
        /\ Has(field, ref[s].via[Len(ref[s].via)], ref[s].value)
  BY <1>1, <1>2, <1>3 DEF Good
<1>5. Good(Subscripted(ref[s].via, ref[s].value, k, p), field)
  BY <1>1, <1>2, <1>3, <1>4, SubscriptedGood DEF Inv
<1>6. Good(Chained(s, k), field)
  BY <1>5 DEF Chained, p
<1> QED
  BY <1>6, RefInv DEF Subscript

\* *it makes a reference to the entry that the loop is at (table.hpp:61-65).
LEMMA DereferenceInv ==
  ASSUME Inv, NEW r \in Ref, Dereference(r)
  PROVE  Inv'
<1> DEFINE e == <<loop.table, loop.at>>
           w == <<e>>
           x == [value |-> loop.value, origin |-> loop.table, at |-> loop.at,
                 via |-> w, stale |-> IF loop.written THEN {"value"} ELSE {}]
<1>1. LoopGood(loop, field) /\ FieldGood(field)
  BY DEF Dereference, Inv
<1>2. loop.value \in Value /\ loop.table \in Table /\ loop.at \in Key /\ e \in Entry
  BY <1>1 DEF LoopGood, LoopType
<1>3. w \in Seq(Entry) /\ Len(w) = 1 /\ w[1] = e
  BY <1>2
<1>4. x.stale \in SUBSET {"value", "path"} /\ ("value" \notin x.stale => ~loop.written)
  OBVIOUS
<1>5. x.value = loop.value /\ x.origin = loop.table /\ x.at = loop.at /\ x.via = w
  OBVIOUS
<1>6. x \in RefType
  BY <1>2, <1>3 DEF RefType
<1> HIDE DEF w, x
<1>7. Good(x, field)
  <2>1. Len(x.via) = 1 /\ Named(x) = e /\ e = <<x.origin, x.at>>
    BY <1>3, <1>5 DEF Named
  <2>2. "value" \notin x.stale => Has(field, <<x.origin, x.at>>, x.value)
    BY <1>1, <1>4, <1>5, <2>1 DEF LoopGood
  <2>3. 1..(Len(x.via) - 1) = {} /\ Len(x.via) \in 1..MaxVia
    BY <2>1, TableReferencesAssumption
  <2> HIDE DEF e
  <2> QED
    BY <1>6, <2>1, <2>2, <2>3 DEF Good
<1> QED
  BY <1>7, RefInv DEF Dereference, x, w

\* A reference ends.
LEMMA DestroyInv ==
  ASSUME Inv, NEW r \in Ref, Destroy(r)
  PROVE  Inv'
  BY RefInv DEF Destroy

-----------------------------------------------------------------------------
(* Assignments.                                                            *)

\* A script writes an entry.
LEMMA ScriptInv ==
  ASSUME Inv, NEW t \in Table, NEW k \in Key, NEW v \in Value, Script(t, k, v)
  PROVE  Inv'
<1>1. <<t, k>> \in Entry
  BY DEF Script, Write
<1> QED
  BY <1>1, WriteInv DEF Script

\* The program sets a global (table.hpp:123-135).
LEMMA SetGlobalInv ==
  ASSUME Inv, NEW k \in Key, NEW v \in Value, SetGlobal(k, v)
  PROVE  Inv'
<1>1. <<Globals, k>> \in Entry
  BY DEF SetGlobal, Write
<1> QED
  BY <1>1, WriteInv DEF SetGlobal

\* The program sets an entry of a table object (table.hpp:190-209).
LEMMA SetInInv ==
  ASSUME Inv, NEW h \in Holder, NEW k \in Key, NEW v \in Value, SetIn(h, k, v)
  PROVE  Inv'
<1>1. CASE held[h] \in Table
  <2>1. <<held[h], k>> \in Entry
    BY <1>1 DEF SetIn, Write
  <2> QED
    BY <1>1, <2>1, WriteInv DEF SetIn
<1>2. CASE held[h] \notin Table
  BY <1>2 DEF SetIn, Inv, InScope
<1> QED
  BY <1>1, <1>2

\* A value is assigned to a reference (table_reference.hpp:64-68).
LEMMA AssignInv ==
  ASSUME Inv, NEW r \in Ref, NEW v \in Value, Assign(r, v)
  PROVE  Inv'
<1>1. <<ref[r].origin, ref[r].at>> \in Entry
  BY DEF Assign, Write
<1> QED
  BY <1>1, WriteInv DEF Assign

\* A reference is assigned to one of the same type: the members are copied
\* (table_reference.hpp:64-68).
LEMMA AssignRefInv ==
  ASSUME Inv, NEW r \in Ref, NEW s \in Ref, AssignRef(r, s)
  PROVE  Inv'
<1>1. Good(ref[s], field)
  BY DEF AssignRef, Inv
<1>2. CASE SameType(r, s)
  BY <1>1, <1>2, RefInv DEF AssignRef, Copy
<1>3. CASE ~SameType(r, s)
  <2>1. <<ref[r].origin, ref[r].at>> \in Entry /\ ref[s].value \in Value
    BY <1>1, <1>3 DEF AssignRef, Write, Good, RefType
  <2> QED
    BY <1>3, <2>1, WriteInv DEF AssignRef
<1> QED
  BY <1>2, <1>3

-----------------------------------------------------------------------------
(* Tables, and loops over them.                                            *)

\* A new table was the empty one, which no object and no loop was made of.
LEMMA NewTableInv ==
  ASSUME Inv, NEW h \in Holder, NEW t \in Table, NewTable(h, t)
  PROVE  Inv'
<1>1. /\ Unused(t) /\ field' = [field EXCEPT ![t] = [k \in Key |-> Nil]]
      /\ held' = [held EXCEPT ![h] = t] /\ ref' = ref /\ loop' = loop /\ fault' = fault
  BY DEF NewTable
<1>2. field \in [Table -> [Key -> Value]] /\ FieldGood(field)
  BY DEF Inv, FieldGood
<1>3. Nil \in Value /\ t \in Value
  BY <1>1 DEF Value, Unused
<1>4. /\ field' \in [Table -> [Key -> Value]]
      /\ \A u \in Table, k \in Key : field'[u][k] = IF u = t THEN Nil ELSE field[u][k]
  BY <1>1, <1>2, <1>3
<1>5. FieldGood(field')
  BY <1>2, <1>4 DEF FieldGood
<1>6. \A d \in Table \X Key : \A w : d[1] # t /\ Has(field, d, w) => Has(field', d, w)
  BY <1>4 DEF Has
<1>7. ASSUME NEW r \in Ref, InScope(r)' PROVE Good(ref'[r], field')
  <2>1. /\ Good(ref[r], field) /\ ref[r].origin # t
        /\ \A i \in DOMAIN ref[r].via : ref[r].via[i][1] # t
    BY <1>1, <1>7 DEF Inv, InScope, Unused
  <2>2. ref[r] \in RefType /\ ref[r].via \in Seq(Entry) /\ Len(ref[r].via) \in 1..MaxVia
    BY <2>1 DEF Good, RefType
  <2>3. <<ref[r].origin, ref[r].at>> \in Table \X Key
    BY <2>2 DEF RefType
  <2>4. \A i \in 1..(Len(ref[r].via) - 1) : i \in DOMAIN ref[r].via /\ ref[r].via[i] \in Table \X Key
    BY <2>2, EntryPair
  <2>5. "value" \notin ref[r].stale => Has(field', <<ref[r].origin, ref[r].at>>, ref[r].value)
    BY <1>6, <2>1, <2>3 DEF Good
  <2>6. "path" \notin ref[r].stale =>
          \A i \in 1..(Len(ref[r].via) - 1) : Has(field', ref[r].via[i], ref[r].via[i + 1][1])
    BY <1>6, <2>1, <2>4 DEF Good
  <2> QED
    BY <1>1, <2>1, <2>5, <2>6 DEF Good
<1>8. ASSUME loop' # None PROVE LoopGood(loop', field')
  <2>1. LoopGood(loop, field) /\ loop.table # t
    BY <1>1, <1>8 DEF Inv, Unused
  <2>2. <<loop.table, loop.at>> \in Table \X Key
    BY <2>1 DEF LoopGood, LoopType
  <2> QED
    BY <1>1, <1>6, <2>1, <2>2 DEF LoopGood
<1>9. held' \in [Holder -> Value \cup {None}]
  BY <1>1, <1>3 DEF Inv
<1> QED
  BY <1>1, <1>5, <1>7, <1>8, <1>9 DEF Inv

\* A table object ends.
LEMMA DropInv ==
  ASSUME Inv, NEW h \in Holder, Drop(h)
  PROVE  Inv'
  BY DEF Drop, Inv, InScope

\* A reference converts to what it has cached (table_reference.hpp:43-50).
LEMMA ConvertInv ==
  ASSUME Inv, NEW h \in Holder, NEW r \in Ref, Convert(r, h)
  PROVE  Inv'
<1>1. ref[r].value \in Value
  BY DEF Convert, Inv, Good, RefType
<1> QED
  BY <1>1 DEF Convert, Inv, InScope

\* A loop goes on or ends.
LEMMA LoopInv ==
  ASSUME Inv, UNCHANGED <<field, ref, held>>, fault' \in BOOLEAN,
         loop' # None => LoopGood(loop', field)
  PROVE  Inv'
  BY DEF Inv, InScope

\* A frame at an entry that is there is one that a loop may have.
LEMMA FrameGood ==
  ASSUME FieldGood(field), NEW t \in Table, NEW b \in BOOLEAN, NEW k \in Key, field[t][k] # Nil
  PROVE  LoopGood(Frame(t, k, b), field)
<1>1. field[t][k] \in Value /\ <<t, k>> \in Entry
  BY DEF FieldGood
<1> QED
  BY <1>1 DEF Frame, LoopGood, LoopType, Has

\* lua_next leaves a frame that a loop may have, or ends the loop.
LEMMA MoveGood ==
  ASSUME FieldGood(field), NEW t \in Table, NEW k, NEW b \in BOOLEAN, Move(t, k, b)
  PROVE  loop' # None => LoopGood(loop', field)
<1> SUFFICES ASSUME loop' # None PROVE LoopGood(loop', field)
  OBVIOUS
<1>1. PICK j \in KeysAfter(t, k) : loop' = Frame(t, j, b)
  BY DEF Move
<1>2. j \in Key /\ field[t][j] # Nil
  BY DEF KeysAfter
<1> QED
  BY <1>1, <1>2, FrameGood

\* A loop begins (table.hpp:40-48).
LEMMA BeginInv ==
  ASSUME Inv, NEW h \in Holder, Begin(h)
  PROVE  Inv'
<1>1. CASE held[h] \in Table
  <2>1. loop' # None => LoopGood(loop', field)
    BY <1>1, MoveGood DEF Begin, Inv
  <2> QED
    BY <1>1, <2>1, LoopInv DEF Begin, Inv
<1>2. CASE held[h] \notin Table
  BY <1>2, LoopInv DEF Begin, Inv
<1> QED
  BY <1>1, <1>2

\* What a loop has.
LEMMA LoopTyped ==
  ASSUME Inv, loop # None
  PROVE  loop.table \in Table /\ loop.at \in Key /\ loop.grown \in BOOLEAN /\ LoopGood(loop, field)
  BY DEF Inv, LoopGood, LoopType

\* A loop goes on to the next entry (table.hpp:67-79).
LEMMA AdvanceInv ==
  ASSUME Inv, Advance
  PROVE  Inv'
<1>1. loop' # None => LoopGood(loop', field)
  BY LoopTyped, MoveGood DEF Advance, Inv
<1> QED
  BY <1>1, LoopInv DEF Advance, Inv

\* A loop whose body made an entry goes on to any entry, ends or fails (table.hpp:67-79).
LEMMA AdvanceLostInv ==
  ASSUME Inv, AdvanceLost
  PROVE  Inv'
<1>1. UNCHANGED <<field, ref, held>> /\ loop # None
  BY DEF AdvanceLost
<1>2. CASE loop' = None /\ UNCHANGED fault
  BY <1>1, <1>2, LoopInv DEF Inv
<1>3. ASSUME NEW k \in KeysAfter(loop.table, 0), loop' = Frame(loop.table, k, TRUE), UNCHANGED fault
      PROVE  Inv'
  <2>1. k \in Key /\ field[loop.table][k] # Nil
    BY DEF KeysAfter
  <2>2. LoopGood(loop', field)
    BY <1>1, <1>3, <2>1, LoopTyped, FrameGood DEF Inv
  <2> QED
    BY <1>1, <1>3, <2>2, LoopInv DEF Inv
<1>4. CASE fault' = TRUE /\ UNCHANGED loop
  BY <1>1, <1>4, LoopTyped, LoopInv
<1> QED
  BY <1>2, <1>3, <1>4 DEF AdvanceLost

\* A loop is left (table.hpp:56-59).
LEMMA BreakInv ==
  ASSUME Inv, Break
  PROVE  Inv'
  BY LoopInv DEF Break, Inv

-----------------------------------------------------------------------------
\* The invariant is inductive.
LEMMA StepInv == Inv /\ [Next]_vars => Inv'
<1> SUFFICES ASSUME Inv, [Next]_vars PROVE Inv'
  OBVIOUS
<1>1. ASSUME NEW t \in Table, NEW k \in Key, NEW v \in Value, Script(t, k, v) PROVE Inv'
  BY <1>1, ScriptInv
<1>2. ASSUME NEW k \in Key, NEW v \in Value, SetGlobal(k, v) PROVE Inv'
  BY <1>2, SetGlobalInv
<1>3. ASSUME NEW r \in Ref, NEW k \in Key, SubscriptGlobals(r, k) PROVE Inv'
  BY <1>3, SubscriptGlobalsInv
<1>4. ASSUME NEW h \in Holder, NEW k \in Key, NEW r \in Ref, SubscriptTable(r, h, k) PROVE Inv'
  BY <1>4, SubscriptTableInv
<1>5. ASSUME NEW h \in Holder, NEW k \in Key, NEW v \in Value, SetIn(h, k, v) PROVE Inv'
  BY <1>5, SetInInv
<1>6. ASSUME NEW h \in Holder, NEW t \in Table, NewTable(h, t) PROVE Inv'
  BY <1>6, NewTableInv
<1>7. ASSUME NEW h \in Holder, NEW r \in Ref, Convert(r, h) PROVE Inv'
  BY <1>7, ConvertInv
<1>8. ASSUME NEW h \in Holder, Drop(h) \/ Begin(h) PROVE Inv'
  BY <1>8, DropInv, BeginInv
<1>9. ASSUME NEW r \in Ref, NEW s \in Ref, NEW k \in Key, Subscript(r, s, k) PROVE Inv'
  BY <1>9, SubscriptInv
<1>10. ASSUME NEW r \in Ref, NEW v \in Value, Assign(r, v) PROVE Inv'
  BY <1>10, AssignInv
<1>11. ASSUME NEW r \in Ref, NEW s \in Ref, AssignRef(r, s) PROVE Inv'
  BY <1>11, AssignRefInv
<1>12. ASSUME NEW r \in Ref, Dereference(r) \/ Destroy(r) PROVE Inv'
  BY <1>12, DereferenceInv, DestroyInv
<1>13. CASE Advance \/ AdvanceLost \/ Break
  BY <1>13, AdvanceInv, AdvanceLostInv, BreakInv
<1>14. CASE UNCHANGED vars
  BY <1>14 DEF vars, Inv, InScope
<1> QED
  BY <1>1, <1>2, <1>3, <1>4, <1>5, <1>6, <1>7, <1>8, <1>9, <1>10, <1>11, <1>12, <1>13, <1>14
  DEF Next, Step

\* Each table reference and each loop fits the tables, in every state.
THEOREM Invariant == Spec => []Inv
  BY InitInv, StepInv, PTL DEF Spec

\* Everything has the type that the declarations give it.
THEOREM TypeCorrect == Spec => []TypeOK
<1>1. Inv => TypeOK
  BY DEF Inv, TypeOK, FieldGood, Good, LoopGood
<1> QED
  BY <1>1, Invariant, PTL

\* A table reference converts to what Lua has under the entry that its expression named,
\* unless that entry was written since it was made.
THEOREM ReadsUntilWritten == Spec => []CachedUntilWritten
<1>1. Inv => CachedUntilWritten
  BY DEF Inv, CachedUntilWritten, Good, Has
<1> QED
  BY <1>1, Invariant, PTL

\* A write puts the value into the entry.
LEMMA WriteGets ==
  ASSUME Inv, NEW e \in Entry, NEW v \in Value, Write(e, v)
  PROVE  Gets(e, v)
<1>1. e[1] \in Table /\ e[2] \in Key
  BY EntryPair
<1>2. field' = [field EXCEPT ![e[1]][e[2]] = v]
  BY DEF Write
<1> QED
  BY <1>1, <1>2 DEF Inv, FieldGood, Gets

\* Where an assignment to a reference goes (table_reference.hpp:64-68).
LEMMA AssignGets ==
  ASSUME Inv, NEW r \in Ref, NEW v \in Value, Assign(r, v)
  PROVE  Gets(Named(ref[r]), v)
<1>1. Named(ref[r]) = <<ref[r].origin, ref[r].at>>
  BY DEF Assign, Inv, Good
<1>2. Write(Named(ref[r]), v) /\ Named(ref[r]) \in Entry
  BY <1>1 DEF Assign, Write
<1> QED
  BY <1>2, WriteGets

\* The same of another reference: of the same type it is copied and nothing is written.
LEMMA AssignRefGets ==
  ASSUME Inv, NEW r \in Ref, NEW s \in Ref, AssignRef(r, s)
  PROVE  \/ Gets(Named(ref[r]), ref[s].value) /\ Named(ref'[r]) = Named(ref[r])
         \/ /\ SameType(r, s)
            /\ field' = field /\ Named(ref'[r]) = Named(ref[s])
<1>1. CASE SameType(r, s)
  BY <1>1 DEF AssignRef, Copy, Inv
<1>2. CASE ~SameType(r, s)
  <2>1. /\ Named(ref[r]) = <<ref[r].origin, ref[r].at>> /\ ref[r] \in RefType
        /\ ref[s].value \in Value
    BY DEF AssignRef, Inv, Good, RefType
  <2>2. Write(Named(ref[r]), ref[s].value) /\ Named(ref[r]) \in Entry
    BY <1>2, <2>1 DEF AssignRef, Write
  <2>3. Gets(Named(ref[r]), ref[s].value)
    BY <2>1, <2>2, WriteGets
  <2>4. ref'[r] = After(ref[r], Named(ref[r]))
    BY <2>2 DEF Write
  <2>5. ref'[r].via = ref[r].via
    BY <2>1, <2>4 DEF After, RefType, AssignRef, InScope
  <2> QED
    BY <2>3, <2>5 DEF Named
<1> QED
  BY <1>1, <1>2

\* An assignment to a table reference writes the entry that its expression names in Lua,
\* unless another table took the place of one on the way; one of another reference of the
\* same type writes nothing and turns the object to the entry of that one.
THEOREM WritesWhatIsNamed == Spec => AssignsWhatIsNamed
<1>1. ASSUME Inv, NEW r \in Ref, InScope(r), "path" \notin ref[r].stale
      PROVE  Leads(ref[r])
  BY <1>1 DEF Inv, Good, Leads, Has
<1>2. Inv /\ [Next]_vars => [\A r \in Ref :
        LET x == ref[r]
        IN InScope(r) /\ "path" \notin x.stale =>
             /\ Leads(x)
             /\ \A v \in Value : Gets(Named(x), v) \/ ~Assign(r, v)
             /\ \A s \in Ref \ {r} : AssignRef(r, s) =>
                  \/ Gets(Named(x), ref[s].value) /\ Named(ref'[r]) = Named(x)
                  \/ /\ SameType(r, s)
                     /\ field' = field /\ Named(ref'[r]) = Named(ref[s])]_vars
  BY <1>1, AssignGets, AssignRefGets
<1> QED
  BY <1>2, Invariant, PTL DEF Spec, AssignsWhatIsNamed

=============================================================================
