----------------------------- MODULE MemberNames -----------------------------
(***************************************************************************)
(* The static tables that say which property of a class has which          *)
(* function, metatable<...>::getters and ::setters (metatable.hpp,         *)
(* user_def.hpp).                                                          *)
(*                                                                         *)
(* Their keys are of type std::string_view.  prop() enters string literals *)
(* of the program.  __index and __newindex look a name up with             *)
(* operator[], which enters a name that it does not find: a view of the    *)
(* string that the script has, with a null function.  The methods of a     *)
(* class are such names, since they are looked up as properties first.     *)
(* Lua collects the string, or the Lua state is closed, and the entry      *)
(* stays: what the table finds from then on depends on what comes to be in *)
(* that memory.                                                            *)
(*                                                                         *)
(* This is one table.  HashFirst says whether std::unordered_map compares  *)
(* the hash that it keeps with an entry before it compares the texts; in   *)
(* small tables libstdc++ does not.                                        *)
(***************************************************************************)
EXTENDS Integers, FiniteSets

CONSTANTS
  Member,      \* names of members
  Address,     \* memory that Lua may use for strings
  Junk,        \* bytes that spell no name
  NoFunction,  \* the null function; the getter of a property is named as the property
  None,
  MaxEntries,  \* bound on the entries
  HashFirst

ASSUME MemberNamesAssumption ==
  /\ Member \cap Address = {} /\ Junk \notin Member /\ NoFunction \notin Member /\ None \notin Member
  /\ MaxEntries \in Nat
  /\ HashFirst \in BOOLEAN

VARIABLES
  live,        \* where Lua has a string
  bytes,       \* what the memory at an address spells
  getters,     \* the entries of the table
  properties,  \* those that the program declared
  got          \* what the lookup that just ended gave, or None

members == <<live, bytes, getters, properties, got>>

\* key is the literal of a name or the address of a Lua string, name what it spelled when
\* the entry was made.  A key is loose once Lua freed its string.
EntryType == [key : Member \cup Address, name : Member, fn : Member \cup {NoFunction}, loose : BOOLEAN]

GotType == [asked : Member, declared : BOOLEAN, fn : Member \cup {NoFunction}]

MembersInit ==
  /\ live = {}
  /\ bytes = [a \in Address |-> Junk]
  /\ getters = {}
  /\ properties = {}
  /\ got = None

Spells(key) == IF key \in Address THEN bytes[key] ELSE key

\* The entries that operator[] may find for n.
Matching(n) == {e \in getters : Spells(e.key) = n /\ (HashFirst => e.name = n)}

\* getters[n] = f, where key is n's text.
Enter(key, n, f) ==
  \/ /\ Matching(n) = {}
     /\ Cardinality(getters) < MaxEntries
     /\ getters' = getters \cup {[key |-> key, name |-> n, fn |-> f, loose |-> FALSE]}
  \/ \E e \in Matching(n) : getters' = (getters \ {e}) \cup {[e EXCEPT !.fn = f]}

(***************************************************************************)
(* The program.                                                            *)
(***************************************************************************)
\* prop(n, ...)
Declare(n) ==
  /\ Enter(n, n, n)
  /\ properties' = properties \cup {n}
  /\ got' = None
  /\ UNCHANGED <<live, bytes>>

\* (Mistake: the entries stay.)
ResetDeclared ==
  /\ properties' = {}
  /\ got' = None
  /\ UNCHANGED <<live, bytes, getters>>

\* metatable::reset, when the class is defined with another name.
ResetMembers ==
  /\ getters' = {}
  /\ properties' = {}
  /\ got' = None
  /\ UNCHANGED <<live, bytes>>

(***************************************************************************)
(* Scripts.                                                                *)
(***************************************************************************)
Got(n, f) == got' = [asked |-> n, declared |-> n \in properties, fn |-> f]

\* A script has n as a string, which Lua puts at a: there is at most one of a text.
Intern(n, a) ==
  /\ \A b \in live : bytes[b] # n
  /\ a \notin live
  /\ live' = live \cup {a}
  /\ bytes' = [bytes EXCEPT ![a] = n]
  /\ got' = None
  /\ UNCHANGED <<getters, properties>>

\* (Mistake: the name is entered before it is looked for.)
FindEntered(n, a) ==
  /\ a \in live /\ bytes[a] = n
  /\ Cardinality(getters) < MaxEntries
  /\ getters' = getters \cup {[key |-> a, name |-> n, fn |-> NoFunction, loose |-> FALSE]}
  /\ Got(n, NoFunction)
  /\ UNCHANGED <<live, bytes, properties>>

\* object.n, or object.n = v : mt::getters[n] and mt::setters[n].  A null function makes
\* the name that of a method, or an error.
Find(n, a) ==
  /\ a \in live /\ bytes[a] = n
  /\ \/ \E e \in Matching(n) : Got(n, e.fn) /\ UNCHANGED getters
     \/ /\ Matching(n) = {}
        /\ Enter(a, n, NoFunction)
        /\ Got(n, NoFunction)
  /\ UNCHANGED <<live, bytes, properties>>

\* Lua collects the string at a, or closes, and the memory comes to spell x.
CollectString(a, x) ==
  /\ live' = live \ {a}
  /\ bytes' = [bytes EXCEPT ![a] = x]
  /\ getters' = {[e EXCEPT !.loose = @ \/ e.key = a] : e \in getters}
  /\ got' = None
  /\ UNCHANGED properties

MembersNext ==
  \/ ResetMembers
  \/ \E n \in Member : Declare(n)
  \/ \E n \in Member, a \in Address : Intern(n, a) \/ Find(n, a)
  \/ \E a \in Address, x \in Member \cup {Junk} : CollectString(a, x)

MembersSpec == MembersInit /\ [][MembersNext]_members

-----------------------------------------------------------------------------
MembersTypeOK ==
  /\ live \subseteq Address
  /\ bytes \in [Address -> Member \cup {Junk}]
  /\ getters \subseteq EntryType
  /\ properties \subseteq Member
  /\ got \in GotType \cup {None}

Right == got.fn = IF got.declared THEN got.asked ELSE NoFunction

\* A lookup gives something else than the getter of the property, or the null function for
\* another name, only when Lua freed the key of an entry; and if hashes are compared first,
\* that of an entry of this very name, which a script looked up before it was declared.
WrongHasCause ==
  got # None /\ ~Right => \E e \in getters : e.loose /\ (HashFirst => e.name = got.asked)

\* If hashes are compared first, no name ever finds the getter of another property.
GetterIsOwn == got # None /\ HashFirst => got.fn \in {NoFunction, got.asked}

\* Apart from entries whose key was freed, the table has one entry of a name, however often
\* scripts look it up and in whichever order it is declared.
OneEntryPerName ==
  \A d, e \in getters : ~d.loose /\ ~e.loose /\ d.name = e.name => d = e
=============================================================================
