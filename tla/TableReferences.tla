-------------------------- MODULE TableReferences --------------------------
(***************************************************************************)
(* Tables and what C++ expressions on them mean: lua["a"]["b"] = v, a      *)
(* range-based for whose body writes, objects of tlw::table                *)
(* (table_reference.hpp, table.hpp, detail/table_traits.hpp).              *)
(*                                                                         *)
(* A table_reference has the value that was read when it was made, the     *)
(* table it was read from and the key.  Converting it gives the value,     *)
(* assigning to it writes the table and leaves the value.  What it is made *)
(* of is read at different times: each subscript of a chain reads from the *)
(* value of the one before, and a loop delivers values that lua_next read  *)
(* before the body ran.                                                    *)
(*                                                                         *)
(* Tables have no metatables here, and the entry _G of the globals is not  *)
(* used.                                                                   *)
(***************************************************************************)
EXTENDS Integers, Sequences, FiniteSets

CONSTANTS
  Table,     \* Lua tables
  Globals,   \* the one with the globals
  NumKeys,   \* number of keys, in the order of lua_next
  Atom,      \* values that are no tables and cannot be indexed
  Nil,
  Ref,       \* table_reference objects
  Holder,    \* objects of tlw::table
  None,      \* an object that is not in scope
  MaxVia,    \* bound on the subscripts of one expression
  MaxScope,  \* bound on the objects and loops at once
  Entry      \* bound on the entries: the tables and keys that expressions use

ASSUME TableReferencesAssumption ==
  /\ Globals \in Table
  /\ NumKeys \in Nat /\ MaxVia \in Nat \ {0} /\ MaxScope \in Nat
  /\ Entry \subseteq Table \X (1..NumKeys)
  /\ Nil \notin Table \cup Atom /\ Table \cap Atom = {}

Key == 1..NumKeys
Value == (Table \ {Globals}) \cup Atom \cup {Nil}

VARIABLES
  field,   \* field[t][k] : the entry of table t for key k
  ref,     \* the members of each table_reference, and what its expression means
  held,    \* the value that each object of tlw::table refers to
  loop,    \* the frame of a range-based for on the stack, or None
  fault    \* Lua was given no table where it takes one, or raised an error outside of a pcall

vars == <<field, ref, held, loop, fault>>

\* The members are value, origin and at.  The expression that made the object went
\* through the entries via, one for each subscript.  Its value became stale when the last
\* of them was written, its path when an earlier one was.
RefType ==
  [value : Value, origin : Table, at : Key, via : Seq(Entry), stale : SUBSET {"value", "path"}]

\* lua_next delivered key at with this value.  written: the entry was assigned since;
\* grown: an entry that the table had not was assigned since the loop began.
LoopType == [table : Table, at : Key, value : Value, written : BOOLEAN, grown : BOOLEAN]

Init ==
  /\ field = [t \in Table |-> [k \in Key |-> Nil]]
  /\ ref = [r \in Ref |-> None]
  /\ held = [h \in Holder |-> None]
  /\ loop = None
  /\ fault = FALSE

Runs == ~fault

InScope(r) == ref[r] # None

\* The entry that an expression names.
Named(x) == x.via[Len(x.via)]

\* What became of x when entry e is written.
After(x, e) ==
  IF x = None THEN None
  ELSE [x EXCEPT !.stale = @ \cup {p \in {"value", "path"} :
         \E i \in DOMAIN x.via : x.via[i] = e /\ (p = "value" <=> i = Len(x.via))}]

\* _table::set: entry e is written.
Write(e, v) ==
  /\ e \in Entry
  /\ field' = [field EXCEPT ![e[1]][e[2]] = v]
  /\ ref' = [r \in Ref |-> After(ref[r], e)]
  /\ loop' = IF loop = None \/ loop.table # e[1] THEN loop
             ELSE [loop EXCEPT !.written = @ \/ loop.at = e[2],
                               !.grown = @ \/ field[e[1]][e[2]] = Nil]

\* No table, object or loop refers to t: it is new when it is next used.
Unused(t) ==
  /\ t # Globals
  /\ \A u \in Table, k \in Key : field[u][k] # t
  /\ \A r \in Ref : InScope(r) =>
       ref[r].value # t /\ ref[r].origin # t /\ \A i \in DOMAIN ref[r].via : ref[r].via[i][1] # t
  /\ \A h \in Holder : held[h] # t
  /\ loop # None => loop.table # t /\ loop.value # t

(***************************************************************************)
(* The script.                                                             *)
(***************************************************************************)
\* Lua code runs and assigns an entry of a table, old or new.
Script(t, k, v) ==
  /\ Runs
  /\ Write(<<t, k>>, v)
  /\ UNCHANGED <<held, fault>>

(***************************************************************************)
(* The globals, and objects of tlw::table.                                 *)
(***************************************************************************)
\* Table t is read under key k, at the end of the path via; the path may be stale.
Subscripted(via, t, k, stale) ==
  [value |-> field[t][k], origin |-> t, at |-> k, via |-> Append(via, <<t, k>>), stale |-> stale]

\* lua[k]
SubscriptGlobals(r, k) ==
  /\ Runs
  /\ <<Globals, k>> \in Entry
  /\ ref' = [ref EXCEPT ![r] = Subscripted(<<>>, Globals, k, {})]
  /\ UNCHANGED <<field, held, loop, fault>>

\* h[k], where the program may have made h from anything.
SubscriptTable(r, h, k) ==
  /\ Runs
  /\ held[h] # None
  /\ IF held[h] \in Table
     THEN /\ <<held[h], k>> \in Entry
          /\ ref' = [ref EXCEPT ![r] = Subscripted(<<>>, held[h], k, {})] /\ UNCHANGED fault
     ELSE fault' = TRUE /\ UNCHANGED ref
  /\ UNCHANGED <<field, held, loop>>

\* lua.set(k, v), h.set(k, v)
SetGlobal(k, v) ==
  /\ Runs
  /\ Write(<<Globals, k>>, v)
  /\ UNCHANGED <<held, fault>>

SetIn(h, k, v) ==
  /\ Runs
  /\ held[h] # None
  /\ IF held[h] \in Table
     THEN Write(<<held[h], k>>, v) /\ UNCHANGED fault
     ELSE fault' = TRUE /\ UNCHANGED <<field, ref, loop>>
  /\ UNCHANGED held

\* h = lua.table()
NewTable(h, t) ==
  /\ Runs
  /\ Unused(t)
  /\ field' = [field EXCEPT ![t] = [k \in Key |-> Nil]]
  /\ held' = [held EXCEPT ![h] = t]
  /\ UNCHANGED <<ref, loop, fault>>

\* An object of either kind leaves its scope.
Drop(h) ==
  /\ Runs
  /\ held[h] # None
  /\ held' = [held EXCEPT ![h] = None]
  /\ UNCHANGED <<field, ref, loop, fault>>

Destroy(r) ==
  /\ Runs
  /\ InScope(r)
  /\ ref' = [ref EXCEPT ![r] = None]
  /\ UNCHANGED <<field, held, loop, fault>>

(***************************************************************************)
(* Table references.                                                       *)
(***************************************************************************)
\* tlw::table h = r : the type is not looked at.
Convert(r, h) ==
  /\ Runs
  /\ InScope(r)
  /\ held' = [held EXCEPT ![h] = ref[r].value]
  /\ UNCHANGED <<field, ref, loop, fault>>

\* s[k] : the value of s is subscripted, which may no longer be what its entry has.
Chained(s, k) ==
  Subscripted(ref[s].via, ref[s].value, k, IF ref[s].stale = {} THEN {} ELSE {"path"})

\* If it is no table an exception is thrown and no object is made.  s is the object r
\* itself when the program keeps none for the part of the chain.
Subscript(r, s, k) ==
  /\ Runs
  /\ InScope(s)
  /\ Len(ref[s].via) < MaxVia
  /\ ref[s].value \in Table /\ <<ref[s].value, k>> \in Entry
  /\ ref' = [ref EXCEPT ![r] = Chained(s, k)]
  /\ UNCHANGED <<field, held, loop, fault>>

\* r = v
Assign(r, v) ==
  /\ Runs
  /\ InScope(r)
  /\ Write(<<ref[r].origin, ref[r].at>>, v)
  /\ UNCHANGED <<held, fault>>

\* Table references to globals and those to entries of tables are of different types.
SameType(r, s) == (ref[r].origin = Globals) <=> (ref[s].origin = Globals)

\* (Mistake: only the members of the base are assigned.)
CopyBase(r, s) ==
  [ref[s] EXCEPT !.origin = ref[r].origin, !.at = ref[r].at]

\* The implicit copy assignment.
Copy(r, s) == ref[s]

\* r = s : of the same type the object is copied and nothing is written to Lua.
AssignRef(r, s) ==
  /\ Runs
  /\ r # s
  /\ InScope(r) /\ InScope(s)
  /\ IF SameType(r, s)
     THEN ref' = [ref EXCEPT ![r] = Copy(r, s)] /\ UNCHANGED <<field, loop>>
     ELSE Write(<<ref[r].origin, ref[r].at>>, ref[s].value)
  /\ UNCHANGED <<held, fault>>

(***************************************************************************)
(* A range-based for.                                                      *)
(***************************************************************************)
\* (Mistake: the frame keeps the key that was asked with.)
FrameBefore(t, k, grown) ==
  [table |-> t, at |-> k - 1, value |-> field[t][k], written |-> FALSE, grown |-> grown]

\* (Mistake: the value of the key before is delivered.)
FrameLate(t, k, grown) ==
  [table |-> t, at |-> k, value |-> IF k = 1 THEN field[t][1] ELSE field[t][k - 1],
   written |-> FALSE, grown |-> grown]

\* The frame after lua_next went to key k.
Frame(t, k, grown) ==
  [table |-> t, at |-> k, value |-> field[t][k], written |-> FALSE, grown |-> grown]

\* The keys of t after k, in the order of lua_next.
KeysAfter(t, k) == {j \in Key : j > k /\ field[t][j] # Nil}

\* lua_next goes to the next key of t after k, or there is none.
Move(t, k, grown) ==
  \/ KeysAfter(t, k) = {} /\ loop' = None
  \/ \E j \in KeysAfter(t, k) :
       /\ \A i \in KeysAfter(t, k) : j <= i
       /\ loop' = Frame(t, j, grown)

\* begin(), on the table that the object of tlw::table refers to.
Begin(h) ==
  /\ Runs
  /\ loop = None
  /\ held[h] # None
  /\ IF held[h] \in Table
     THEN Move(held[h], 0, FALSE) /\ UNCHANGED fault
     ELSE fault' = TRUE /\ UNCHANGED loop
  /\ UNCHANGED <<field, ref, held>>

\* ++it
Advance ==
  /\ Runs
  /\ loop # None
  /\ Move(loop.table, loop.at, loop.grown)
  /\ UNCHANGED <<field, ref, held, fault>>

\* ++it after the body made an entry: lua_next may go to any key, end or fail, since its
\* place in the table may be lost.
AdvanceLost ==
  /\ Runs
  /\ loop # None
  /\ loop.grown
  /\ \/ loop' = None /\ UNCHANGED fault
     \/ \E k \in KeysAfter(loop.table, 0) : loop' = Frame(loop.table, k, TRUE) /\ UNCHANGED fault
     \/ fault' = TRUE /\ UNCHANGED loop
  /\ UNCHANGED <<field, ref, held>>

Break ==
  /\ Runs
  /\ loop # None
  /\ loop' = None
  /\ UNCHANGED <<field, ref, held, fault>>

\* *it : the second of the pair has the value of the frame, whatever the body wrote.
Dereference(r) ==
  /\ Runs
  /\ loop # None
  /\ ref' = [ref EXCEPT ![r] =
       [value |-> loop.value, origin |-> loop.table, at |-> loop.at,
        via |-> <<<<loop.table, loop.at>>>>, stale |-> IF loop.written THEN {"value"} ELSE {}]]
  /\ UNCHANGED <<field, held, loop, fault>>

\* The objects and loops in scope.
Scope ==
  Cardinality({r \in Ref : InScope(r)}) + Cardinality({h \in Holder : held[h] # None})
    + Cardinality({loop} \ {None})

Step ==
  \/ \E t \in Table, k \in Key, v \in Value : Script(t, k, v)
  \/ \E k \in Key, v \in Value : SetGlobal(k, v)
  \/ \E r \in Ref, k \in Key : SubscriptGlobals(r, k)
  \/ \E h \in Holder, k \in Key :
       \/ \E r \in Ref : SubscriptTable(r, h, k)
       \/ \E v \in Value : SetIn(h, k, v)
  \/ \E h \in Holder :
       \/ \E t \in Table : NewTable(h, t)
       \/ \E r \in Ref : Convert(r, h)
       \/ Drop(h)
       \/ Begin(h)
  \/ \E r \in Ref :
       \/ \E s \in Ref, k \in Key : Subscript(r, s, k)
       \/ \E v \in Value : Assign(r, v)
       \/ \E s \in Ref : AssignRef(r, s)
       \/ Dereference(r)
       \/ Destroy(r)
  \/ Advance
  \/ AdvanceLost
  \/ Break

Next == Step /\ Scope' <= MaxScope

Spec == Init /\ [][Next]_vars

-----------------------------------------------------------------------------
TypeOK ==
  /\ field \in [Table -> [Key -> Value]]
  /\ \A r \in Ref : InScope(r) =>
       /\ ref[r] \in RefType
       /\ Len(ref[r].via) \in 1..MaxVia
  /\ held \in [Holder -> Value \cup {None}]
  /\ loop # None => loop \in LoopType
  /\ fault \in BOOLEAN

\* What a table reference converts to is what Lua has under the entry that its expression
\* named, unless that entry was written since: by the script, through this object or
\* another, or by the body of the loop that delivered it.
CachedUntilWritten ==
  \A r \in Ref : InScope(r) /\ "value" \notin ref[r].stale =>
    field[Named(ref[r])[1]][Named(ref[r])[2]] = ref[r].value

\* The tables lead along the path of x to the entry that its expression names.
Leads(x) ==
  \A i \in 1..(Len(x.via) - 1) : field[x.via[i][1]][x.via[i][2]] = x.via[i + 1][1]

\* Value v gets to entry e.
Gets(e, v) == field'[e[1]][e[2]] = v

\* An assignment to a table reference writes its value to the entry that the expression
\* names in Lua at that moment, whatever was assigned through it before, unless another
\* table has meanwhile taken the place of one on the way.  The exception is the assignment
\* of another table reference of the same type: lua["a"] = lua["b"] writes nothing at all,
\* and the object assigned to means the entry of the other one from then on, which later
\* assignments to it write.
AssignsWhatIsNamed ==
  [][\A r \in Ref :
       LET x == ref[r]
       IN InScope(r) /\ "path" \notin x.stale =>
            /\ Leads(x)
            /\ \A v \in Value : Gets(Named(x), v) \/ ~Assign(r, v)
            /\ \A s \in Ref \ {r} : AssignRef(r, s) =>
                 \/ Gets(Named(x), ref[s].value) /\ Named(ref'[r]) = Named(x)
                 \/ /\ SameType(r, s)
                    /\ field' = field /\ Named(ref'[r]) = Named(ref[s])]_vars

=============================================================================
