----------------------------- MODULE References -----------------------------
(***************************************************************************)
(* tlw::reference (include/tlw/reference.hpp), the base of table and       *)
(* function: a C++ value that keeps a Lua value alive by a slot of the     *)
(* Lua registry.  A reference holds a handle of class state next to the    *)
(* slot number; what that handle promises is SharedOwnership (StateHandles *)
(* implements it), so the handle's part of a step is an action of that     *)
(* module.  The handle owns its Lua state when the reference was made from *)
(* an owning one, and only borrows it when the reference was read from the *)
(* Lua stack (reference_traits::get wraps the raw lua_State* ).            *)
(***************************************************************************)
EXTENDS FiniteSets

CONSTANTS
  Refs,        \* C++ objects of class reference
  Hosts,       \* handles of class state held by the program itself
  LuaStates,   \* addresses of Lua states
  Slots,       \* keys luaL_ref hands out
  Values,      \* Lua values other than nil
  LuaNil,      \* the Lua value nil
  Free,        \* content of a registry slot on luaL_ref's free list
  NullLua,     \* the null lua_State* of a default reference
  Moved,       \* a handle without a holder: moved-from
  NOREF,       \* LUA_NOREF
  REFNIL       \* LUA_REFNIL

ASSUME RefsAssumption ==
  /\ Refs \cap Hosts = {}
  /\ NullLua \notin LuaStates /\ Moved \notin LuaStates /\ NullLua # Moved
  /\ NOREF \notin Slots /\ REFNIL \notin Slots /\ NOREF # REFNIL
  /\ LuaNil \notin Values /\ Free \notin Values \cup {LuaNil}

VARIABLES
  alive,       \* references constructed and not yet destroyed
  at,          \* at[r] : the lua_State* behind member L
  idx,         \* idx[r] : member r_idx
  registry,    \* registry[L][s] : what luaL_ref stored under s
  owners, lua, \* the handles that own each Lua state, and its life cycle
  threw,       \* the last operation left by an exception
  crashed      \* a Lua function was called on a null or closed state

vars == <<alive, at, idx, registry, owners, lua, threw, crashed>>

Own == INSTANCE SharedOwnership
         WITH Handles <- Refs \cup Hosts, Foreign <- {}, Nobody <- Moved

AllFree == [s \in Slots |-> Free]

Init ==
  /\ alive = {}
  /\ at = [r \in Refs |-> Moved]
  /\ idx = [r \in Refs |-> NOREF]
  /\ registry = [L \in LuaStates |-> AllFree]
  /\ Own!Init
  /\ threw = FALSE
  /\ crashed = FALSE

\* operator bool
Valid(r) == idx[r] # NOREF /\ idx[r] # REFNIL

Usable(L) == L \in LuaStates /\ lua[L] = "open"

\* A valid reference whose Lua state is gone.
Dangling(r) == r \in alive /\ Valid(r) /\ ~Usable(at[r])

\* What a copy of the handle of o would own.
OwnedBy(o) == IF at[o] \in LuaStates /\ o \in owners[at[o]] THEN at[o] ELSE Moved

(***************************************************************************)
(* The registry.  luaL_ref may return any free slot; nil gets no slot.     *)
(***************************************************************************)
FreeSlots(L) == {s \in Slots : registry[L][s] = Free}

Stored(reg, L, s, v) == IF s \in Slots THEN [reg EXCEPT ![L][s] = v] ELSE reg

\* luaL_ref with v on the top of the stack of L may return s.
MayRef(L, v, s) == IF v = LuaNil THEN s = REFNIL ELSE s \in FreeSlots(L)

\* (Mistake: the slot is never given back.)
UnreferencedLeak(reg, r) == reg

\* luaL_unref(L, LUA_REGISTRYINDEX, idx[r]), the body of the destructor.
Unreferenced(reg, r) == IF Valid(r) THEN [reg EXCEPT ![at[r]][idx[r]] = Free] ELSE reg

\* lua_close frees the registry with everything else.
Surviving(reg) == [L \in LuaStates |-> IF lua'[L] = "closed" THEN AllFree ELSE reg[L]]

Crash == crashed' = TRUE /\ UNCHANGED <<alive, at, idx, registry, owners, lua, threw>>

(***************************************************************************)
(* The program's own handles.                                              *)
(***************************************************************************)
OpenHost(h, L) ==
  /\ Own!Open(h, L)
  /\ threw' = FALSE
  /\ UNCHANGED <<alive, at, idx, registry, crashed>>

CloseHost(h) ==
  /\ \E L \in LuaStates : h \in owners[L]
  /\ Own!Rebind(h, Moved)
  /\ registry' = Surviving(registry)
  /\ threw' = FALSE
  /\ UNCHANGED <<alive, at, idx, crashed>>

(***************************************************************************)
(* Constructors and destructor.                                            *)
(***************************************************************************)
Construct(r, L, s) ==
  /\ alive' = alive \cup {r}
  /\ at' = [at EXCEPT ![r] = L]
  /\ idx' = [idx EXCEPT ![r] = s]
  /\ threw' = FALSE
  /\ UNCHANGED crashed

\* reference()
Default(r) ==
  /\ r \notin alive
  /\ Construct(r, NullLua, NOREF)
  /\ UNCHANGED <<registry, owners, lua>>

\* reference(const state &) and reference(const state &, int): v is the value at
\* the top of the stack, or at the index; own tells the handle passed in.
FromStack(r, L, own, v, s) ==
  /\ r \notin alive
  /\ Usable(L)
  /\ MayRef(L, v, s)
  /\ Construct(r, L, s)
  /\ Own!Rebind(r, IF own THEN L ELSE Moved)
  /\ registry' = Stored(registry, L, s, v)

\* (Mistake: the copy shares the slot of o.)
CopyCtorSharesSlot(r, o) ==
  /\ r \notin alive /\ o \in alive
  /\ Construct(r, at[o], idx[o])
  /\ Own!Rebind(r, OwnedBy(o))
  /\ UNCHANGED registry

\* reference(const reference &o)
CopyCtor(r, o) ==
  /\ r \notin alive /\ o \in alive
  /\ IF Dangling(o) THEN Crash
     ELSE \E s \in IF Valid(o) THEN FreeSlots(at[o]) ELSE {NOREF} :
            /\ Construct(r, at[o], s)
            /\ Own!Rebind(r, OwnedBy(o))
            /\ registry' = IF Valid(o)
                           THEN Stored(registry, at[o], s, registry[at[o]][idx[o]])
                           ELSE registry

\* (Mistake: o keeps its slot number.)
MoveCtorKeepsSlot(r, o) ==
  /\ r \notin alive /\ o \in alive
  /\ alive' = alive \cup {r}
  /\ at' = [at EXCEPT ![r] = at[o], ![o] = Moved]
  /\ idx' = [idx EXCEPT ![r] = idx[o]]
  /\ Own!Transfer(o, r)
  /\ threw' = FALSE
  /\ UNCHANGED <<registry, crashed>>

\* reference(reference &&o)
MoveCtor(r, o) ==
  /\ r \notin alive /\ o \in alive
  /\ alive' = alive \cup {r}
  /\ at' = [at EXCEPT ![r] = at[o], ![o] = Moved]
  /\ idx' = [idx EXCEPT ![r] = idx[o], ![o] = NOREF]
  /\ Own!Transfer(o, r)
  /\ threw' = FALSE
  /\ UNCHANGED <<registry, crashed>>

\* ~reference()
Destroy(r) ==
  /\ r \in alive
  /\ IF Dangling(r) THEN Crash
     ELSE /\ alive' = alive \ {r}
          /\ at' = [at EXCEPT ![r] = Moved]
          /\ idx' = [idx EXCEPT ![r] = NOREF]
          /\ Own!Rebind(r, Moved)
          /\ registry' = Surviving(Unreferenced(registry, r))
          /\ threw' = FALSE
          /\ UNCHANGED crashed

(***************************************************************************)
(* Assignments.  Both first move *this into a local, old, whose destructor *)
(* runs last, on the way out of an exception too.                          *)
(***************************************************************************)
\* (Mistake: the handle of *this is not moved away with the slot.)
LostKeepsHandle(r, thrown) ==
  /\ at' = [at EXCEPT ![r] = Moved]
  /\ idx' = [idx EXCEPT ![r] = NOREF]
  /\ registry' = Unreferenced(registry, r)
  /\ threw' = thrown
  /\ UNCHANGED <<alive, owners, lua, crashed>>

\* (Mistake: the slot of *this is freed but its number is kept.)
LostKeepsSlot(r, thrown) ==
  /\ at' = [at EXCEPT ![r] = Moved]
  /\ Own!Rebind(r, Moved)
  /\ registry' = Surviving(Unreferenced(registry, r))
  /\ threw' = thrown
  /\ UNCHANGED <<alive, idx, crashed>>

\* *this is left without a state and without a slot.
Lost(r, thrown) ==
  /\ at' = [at EXCEPT ![r] = Moved]
  /\ idx' = [idx EXCEPT ![r] = NOREF]
  /\ Own!Rebind(r, Moved)
  /\ registry' = Surviving(Unreferenced(registry, r))
  /\ threw' = thrown
  /\ UNCHANGED <<alive, crashed>>

\* lua_rawgeti(L, LUA_REGISTRYINDEX, idx[o]): no slot has a negative number.
Fetched(o) == IF Valid(o) THEN registry[at[o]][idx[o]] ELSE LuaNil

\* operator=(const reference &o) reads o after it moved *this away, and does not
\* ask whether o is valid.
CopyAssign(r, o) ==
  /\ r \in alive /\ o \in alive
  /\ CASE Dangling(r) -> Crash
       [] ~Dangling(r) /\ (o = r \/ at[o] = Moved) -> Lost(r, TRUE)
       [] ~Dangling(r) /\ o # r /\ at[o] # Moved /\ ~Usable(at[o]) -> Crash
       [] OTHER ->
            \E s \in FreeSlots(at[o]) \cup {REFNIL} :
              /\ MayRef(at[o], Fetched(o), s)
              /\ at' = [at EXCEPT ![r] = at[o]]
              /\ idx' = [idx EXCEPT ![r] = s]
              /\ Own!Rebind(r, OwnedBy(o))
              /\ registry' =
                   Surviving(Unreferenced(Stored(registry, at[o], s, Fetched(o)), r))
              /\ threw' = FALSE
              /\ UNCHANGED <<alive, crashed>>

\* operator=(reference &&o)
MoveAssign(r, o) ==
  /\ r \in alive /\ o \in alive
  /\ CASE Dangling(r) -> Crash
       [] ~Dangling(r) /\ o = r -> Lost(r, FALSE)
       [] OTHER ->
            /\ at' = [at EXCEPT ![r] = at[o], ![o] = Moved]
            /\ idx' = [idx EXCEPT ![r] = idx[o], ![o] = NOREF]
            /\ Own!Transfer(o, r)
            /\ registry' = Surviving(Unreferenced(registry, r))
            /\ threw' = FALSE
            /\ UNCHANGED <<alive, crashed>>

Step ==
  \/ \E h \in Hosts, L \in LuaStates : OpenHost(h, L)
  \/ \E h \in Hosts : CloseHost(h)
  \/ \E r \in Refs : Default(r) \/ Destroy(r)
  \/ \E r \in Refs, L \in LuaStates, own \in BOOLEAN, v \in Values \cup {LuaNil},
        s \in Slots \cup {REFNIL} : FromStack(r, L, own, v, s)
  \/ \E r, o \in Refs : CopyCtor(r, o) \/ MoveCtor(r, o)
  \/ \E r, o \in Refs : CopyAssign(r, o) \/ MoveAssign(r, o)

Halted == crashed /\ UNCHANGED vars

Next == (~crashed /\ Step) \/ Halted

Spec == Init /\ [][Next]_vars
(***************************************************************************)
(* Properties.                                                             *)
(***************************************************************************)
\* The members keep their C++ types and the registry its shape
\* (reference.hpp:28-32).
TypeOK ==
  /\ alive \subseteq Refs
  /\ at \in [Refs -> LuaStates \cup {NullLua, Moved}]
  /\ idx \in [Refs -> Slots \cup {NOREF, REFNIL}]
  /\ registry \in [LuaStates -> [Slots -> Values \cup {LuaNil, Free}]]
  /\ owners \in [LuaStates -> SUBSET (Refs \cup Hosts)]
  /\ lua \in [LuaStates -> {"unused", "open", "closed"}]
  /\ threw \in BOOLEAN
  /\ crashed \in BOOLEAN

\* In an open Lua state the occupied registry slots are the slots of the living
\* references, one each: copies, moves, assignments to oneself and exceptions
\* neither leak a slot, nor free one twice, nor share one (reference.hpp:34-73).
OneSlotEach ==
  \A L \in LuaStates : lua[L] = "open" =>
    \A s \in Slots :
      /\ registry[L][s] # Free <=> \E r \in alive : at[r] = L /\ idx[r] = s
      /\ \A r, o \in alive : at[r] = L /\ at[o] = L /\ idx[r] = s /\ idx[o] = s => r = o

\* A Lua state is open as long as a living reference or a handle of the program
\* owns it, and a reference owns no other state than the one its slot is in
\* (reference.hpp:31, 52, 62, 70).
OwnersKeepOpen ==
  \A L \in LuaStates :
    /\ lua[L] = "open" <=> owners[L] # {}
    /\ \A r \in owners[L] \cap Refs : r \in alive /\ at[r] = L

\* Lua is called on a null or closed state only in a program with a reference
\* that does not own its state: a default one, or one that was read from the
\* stack (reference.hpp:34, 54-66; type_traits.hpp:55-58).
OnlyBorrowersCrash ==
  [][crashed' # crashed => \E r \in alive : at[r] # Moved /\ OwnedBy(r) = Moved]_vars

\* An assignment that throws empties its target, keeps every other reference as
\* it was and takes no slot (reference.hpp:60-66).
ThrowLosesTargetOnly ==
  [][threw' => \E r \in alive :
       /\ idx'[r] = NOREF
       /\ \A o \in Refs \ {r} : idx'[o] = idx[o] /\ at'[o] = at[o]
       /\ \A L \in LuaStates : FreeSlots(L) \subseteq FreeSlots(L)']_vars

\* The value a reference holds, and the references that hold theirs on trust.
HeldBy(r) == IF r \in alive /\ Valid(r) /\ Usable(at[r]) THEN registry[at[r]][idx[r]] ELSE LuaNil

Promise == INSTANCE RootedValues
             WITH held <- [r \in Refs |-> HeldBy(r)],
                  borrowing <- {r \in Refs : OwnedBy(r) = Moved},
                  Nothing <- LuaNil

\* A reference holds the value it was given, copied or moved until it is itself
\* assigned, moved from or destroyed; a slot freed by one reference and handed
\* out again never changes what another one holds (reference.hpp:34-73).
ImplementsRootedValues == Promise!Spec
=============================================================================
