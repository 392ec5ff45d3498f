-------------------------- MODULE ReferencesProofs --------------------------
(***************************************************************************)
(* References for any number of references, Lua states and slots: one slot *)
(* for each living reference, Lua states that outlive their owners, and    *)
(* the only two ways into a crash.                                         *)
(***************************************************************************)
EXTENDS References, TLAPS

\* A handle without a usable Lua state holds no slot.
EmptyHasNoSlot ==
  /\ \A r \in Refs \ alive : at[r] = Moved
  /\ \A r \in Refs : at[r] \in {Moved, NullLua} => idx[r] = NOREF

\* Nothing refers to a Lua state before it is opened.
UnusedIsBlank ==
  \A L \in LuaStates : lua[L] = "unused" =>
    /\ \A s \in Slots : registry[L][s] = Free
    /\ \A r \in Refs : at[r] # L

Inv == TypeOK /\ EmptyHasNoSlot /\ UnusedIsBlank /\ OneSlotEach /\ OwnersKeepOpen

-----------------------------------------------------------------------------
(* What the handles inside the references promise.                         *)

LuaSteps ==
  /\ owners' \in [LuaStates -> SUBSET (Refs \cup Hosts)]
  /\ lua' \in [LuaStates -> {"unused", "open", "closed"}]
  /\ \A L \in LuaStates :
       /\ lua'[L] = "open" <=> owners'[L] # {}
       /\ lua'[L] = "open" => lua[L] = "open"
       /\ lua'[L] = "unused" <=> lua[L] = "unused"

\* A handle that lets go of one state and joins the owners of another closes the
\* first one if it was its last owner, and opens none (state.hpp:50-87).
LEMMA RebindSteps ==
  ASSUME TypeOK, OwnersKeepOpen, NEW h \in Refs \cup Hosts,
         NEW target \in LuaStates \cup {Moved}, Own!Rebind(h, target)
  PROVE  LuaSteps
<1>1. \A L \in LuaStates : owners'[L] = IF L = target THEN owners[L] \cup {h} ELSE owners[L] \ {h}
  BY DEF Own!Rebind
<1>2. \A L \in LuaStates : lua'[L] = IF owners[L] # {} /\ owners'[L] = {} THEN "closed" ELSE lua[L]
  BY DEF Own!Rebind, Own!Closing
<1>3. owners' \in [LuaStates -> SUBSET (Refs \cup Hosts)]
  BY DEF Own!Rebind, TypeOK
<1>4. lua' \in [LuaStates -> {"unused", "open", "closed"}]
  BY DEF Own!Rebind, Own!Closing, TypeOK
<1>5. \A L \in LuaStates : owners[L] = {} => owners'[L] = {}
  BY <1>1, RefsAssumption DEF Own!Rebind
<1> QED
  BY <1>2, <1>3, <1>4, <1>5 DEF LuaSteps, TypeOK, OwnersKeepOpen

\* So does a handle that takes over the state of another one (state.hpp:62-94).
LEMMA TransferSteps ==
  ASSUME TypeOK, OwnersKeepOpen, NEW h \in Refs \cup Hosts, NEW o \in Refs \cup Hosts,
         Own!Transfer(o, h)
  PROVE  LuaSteps
<1>1. \A L \in LuaStates :
        owners'[L] = IF o \in owners[L] THEN (owners[L] \ {o}) \cup {h} ELSE owners[L] \ {h}
  BY DEF Own!Transfer
<1>2. \A L \in LuaStates : lua'[L] = IF owners[L] # {} /\ owners'[L] = {} THEN "closed" ELSE lua[L]
  BY DEF Own!Transfer, Own!Closing
<1>3. owners' \in [LuaStates -> SUBSET (Refs \cup Hosts)]
  BY DEF Own!Transfer, TypeOK
<1>4. lua' \in [LuaStates -> {"unused", "open", "closed"}]
  BY DEF Own!Transfer, Own!Closing, TypeOK
<1>5. \A L \in LuaStates : owners[L] = {} => owners'[L] = {}
  BY <1>1
<1> QED
  BY <1>2, <1>3, <1>4, <1>5 DEF LuaSteps, TypeOK, OwnersKeepOpen

Registries == [LuaStates -> [Slots -> Values \cup {LuaNil, Free}]]

\* lua_close leaves no slot of a closed state behind and touches no other state.
LEMMA SurvivingType ==
  ASSUME NEW reg \in Registries
  PROVE  /\ Surviving(reg) \in Registries
         /\ \A L \in LuaStates : lua'[L] # "closed" => Surviving(reg)[L] = reg[L]
BY DEF Surviving, AllFree, Registries

\* luaL_ref writes one slot of one registry, if any.
LEMMA StoredOp ==
  ASSUME NEW reg \in Registries, NEW L \in LuaStates, NEW s, NEW v \in Values \cup {LuaNil}
  PROVE  /\ Stored(reg, L, s, v) \in Registries
         /\ \A M \in LuaStates, t \in Slots :
              Stored(reg, L, s, v)[M][t] = IF M = L /\ t = s THEN v ELSE reg[M][t]
BY DEF Stored, Registries

\* luaL_unref frees the slot of the reference and no other.
LEMMA UnreferencedOp ==
  ASSUME TypeOK, EmptyHasNoSlot, NEW reg \in Registries, NEW r \in Refs
  PROVE  /\ Unreferenced(reg, r) \in Registries
         /\ \A M \in LuaStates, t \in Slots :
              Unreferenced(reg, r)[M][t] = IF M = at[r] /\ t = idx[r] THEN Free ELSE reg[M][t]
<1>1. Valid(r) => at[r] \in LuaStates /\ idx[r] \in Slots
  BY DEF Valid, TypeOK, EmptyHasNoSlot
<1>2. ~Valid(r) => idx[r] \notin Slots
  BY RefsAssumption DEF Valid
<1> QED
  BY <1>1, <1>2 DEF Unreferenced, Registries

-----------------------------------------------------------------------------
(* The invariant is inductive.                                             *)

\* Before the first constructor every registry is empty.
LEMMA InitInv == Init => Inv
<1> SUFFICES ASSUME Init PROVE Inv
  OBVIOUS
<1> USE DEF Init, Own!Init, AllFree
<1>1. /\ at \in [Refs -> LuaStates \cup {NullLua, Moved}]
      /\ idx \in [Refs -> Slots \cup {NOREF, REFNIL}]
      /\ owners \in [LuaStates -> SUBSET (Refs \cup Hosts)]
  OBVIOUS
<1>2. /\ lua \in [LuaStates -> {"unused", "open", "closed"}]
      /\ \A L \in LuaStates : lua[L] = "unused" /\ owners[L] = {}
  OBVIOUS
<1>3. /\ registry \in [LuaStates -> [Slots -> Values \cup {LuaNil, Free}]]
      /\ \A L \in LuaStates, s \in Slots : registry[L][s] = Free
  OBVIOUS
<1>4. TypeOK
  BY <1>1, <1>2, <1>3 DEF TypeOK
<1>5. EmptyHasNoSlot /\ UnusedIsBlank
  BY <1>2, <1>3, RefsAssumption DEF EmptyHasNoSlot, UnusedIsBlank
<1>6. OneSlotEach /\ OwnersKeepOpen
  BY <1>2 DEF OneSlotEach, OwnersKeepOpen
<1> QED
  BY <1>4, <1>5, <1>6 DEF Inv

\* A call into a closed state stops the program and changes nothing before that.
LEMMA CrashInv == Inv /\ Crash => Inv'
BY DEF Inv, Crash, TypeOK, EmptyHasNoSlot, UnusedIsBlank, OneSlotEach, OwnersKeepOpen, FreeSlots

\* The program opens a Lua state, whose registry is empty (state.hpp:44).
LEMMA OpenHostInv ==
  ASSUME Inv, NEW h \in Hosts, NEW L \in LuaStates, OpenHost(h, L)
  PROVE  Inv'
<1> USE DEF Inv, OpenHost, Own!Open
<1>1. TypeOK'
  BY DEF TypeOK
<1>2. EmptyHasNoSlot' /\ UnusedIsBlank' /\ OneSlotEach'
  BY DEF TypeOK, EmptyHasNoSlot, UnusedIsBlank, OneSlotEach
<1>3. OwnersKeepOpen'
  BY RefsAssumption DEF TypeOK, OwnersKeepOpen
<1> QED
  BY <1>1, <1>2, <1>3

\* The program lets go of a Lua state (state.hpp:71).
LEMMA CloseHostInv ==
  ASSUME Inv, NEW h \in Hosts, CloseHost(h)
  PROVE  Inv'
<1> USE DEF Inv, CloseHost
<1>1. LuaSteps
  BY RebindSteps
<1>2. /\ registry' \in Registries
      /\ \A L \in LuaStates : lua'[L] # "closed" => registry'[L] = registry[L]
  BY SurvivingType DEF TypeOK, Registries
<1>3. TypeOK'
  BY <1>1, <1>2 DEF TypeOK, LuaSteps, Registries
<1>4. EmptyHasNoSlot' /\ UnusedIsBlank' /\ OneSlotEach'
  BY <1>1, <1>2 DEF TypeOK, EmptyHasNoSlot, UnusedIsBlank, OneSlotEach, LuaSteps
<1>5. OwnersKeepOpen'
  BY <1>1, RefsAssumption DEF TypeOK, OwnersKeepOpen, LuaSteps, Own!Rebind
<1> QED
  BY <1>3, <1>4, <1>5

\* A default reference has a null state and no slot (reference.hpp:34).
LEMMA DefaultInv ==
  ASSUME Inv, NEW r \in Refs, Default(r)
  PROVE  Inv'
<1> USE DEF Inv, Default, Construct
<1>1. TypeOK'
  BY DEF TypeOK
<1>2. EmptyHasNoSlot' /\ UnusedIsBlank' /\ OneSlotEach'
  BY RefsAssumption DEF TypeOK, EmptyHasNoSlot, UnusedIsBlank, OneSlotEach
<1>3. OwnersKeepOpen'
  BY DEF TypeOK, OwnersKeepOpen
<1> QED
  BY <1>1, <1>2, <1>3

\* luaL_ref gives a new reference a slot that no other one has
\* (reference.hpp:36-41).
LEMMA FromStackInv ==
  ASSUME Inv, NEW r \in Refs, NEW L \in LuaStates, NEW own \in BOOLEAN,
         NEW v \in Values \cup {LuaNil}, NEW s \in Slots \cup {REFNIL}, FromStack(r, L, own, v, s)
  PROVE  Inv'
<1> USE DEF Inv, FromStack, Construct
<1>1. LuaSteps
  BY RebindSteps
<1>2. /\ registry' \in Registries
      /\ \A M \in LuaStates, t \in Slots :
           registry'[M][t] = IF M = L /\ t = s THEN v ELSE registry[M][t]
  <2>1. registry \in Registries
    BY DEF TypeOK, Registries
  <2> QED
    BY <2>1, StoredOp
<1>3. v # Free /\ (s \in Slots => registry[L][s] = Free)
  BY RefsAssumption DEF MayRef, FreeSlots
<1>4. TypeOK'
  BY <1>1, <1>2 DEF TypeOK, LuaSteps, Registries
<1>5. EmptyHasNoSlot' /\ UnusedIsBlank'
  BY <1>1, <1>2, RefsAssumption DEF TypeOK, EmptyHasNoSlot, UnusedIsBlank, LuaSteps, Usable
<1>6. OneSlotEach'
  BY <1>1, <1>2, <1>3, RefsAssumption DEF TypeOK, EmptyHasNoSlot, OneSlotEach, LuaSteps
<1>7. OwnersKeepOpen'
  BY <1>1, RefsAssumption DEF TypeOK, OwnersKeepOpen, LuaSteps, Own!Rebind
<1> QED
  BY <1>4, <1>5, <1>6, <1>7
\* A valid reference that does not dangle refers to a slot of an open state.
LEMMA NotDangling ==
  ASSUME Inv, NEW r \in alive, ~Dangling(r), Valid(r)
  PROVE  /\ at[r] \in LuaStates /\ lua[at[r]] = "open" /\ idx[r] \in Slots
         /\ registry[at[r]][idx[r]] \in Values \cup {LuaNil}
         /\ registry[at[r]][idx[r]] # Free
<1>1. at[r] \in LuaStates /\ lua[at[r]] = "open" /\ idx[r] \in Slots
  BY DEF Inv, TypeOK, Dangling, Valid, Usable
<1> QED
  BY <1>1 DEF Inv, TypeOK, OneSlotEach

\* A copy of a handle joins the owners of a state that is owned already.
LEMMA OwnedByType ==
  ASSUME Inv, NEW o \in Refs
  PROVE  OwnedBy(o) \in {at[o], Moved} /\ OwnedBy(o) \in LuaStates \cup {Moved}
BY DEF OwnedBy

\* A copy gets a slot of its own with the same value (reference.hpp:43-50).
LEMMA CopyCtorInv ==
  ASSUME Inv, NEW r \in Refs, NEW o \in Refs, CopyCtor(r, o)
  PROVE  Inv'
<1>1. CASE Dangling(o)
  BY <1>1, CrashInv DEF CopyCtor
<1>2. CASE ~Dangling(o)
  <2> USE <1>2 DEF Inv, CopyCtor, Construct
  <2>1. PICK s \in IF Valid(o) THEN FreeSlots(at[o]) ELSE {NOREF} :
          /\ Construct(r, at[o], s)
          /\ Own!Rebind(r, OwnedBy(o))
          /\ registry' = IF Valid(o)
                         THEN Stored(registry, at[o], s, registry[at[o]][idx[o]])
                         ELSE registry
    OBVIOUS
  <2>2. r \notin alive /\ o \in alive /\ s \in Slots \cup {NOREF}
    BY DEF FreeSlots
  <2>3. LuaSteps
    BY <2>1, OwnedByType, RebindSteps
  <2>4. /\ registry' \in Registries
        /\ \A M \in LuaStates, t \in Slots :
             registry'[M][t] = IF M = at[o] /\ t = s THEN registry[at[o]][idx[o]]
                               ELSE registry[M][t]
    <3>1. registry \in Registries
      BY DEF TypeOK, Registries
    <3>2. CASE Valid(o)
      BY <2>1, <2>2, <3>1, <3>2, NotDangling, StoredOp
    <3>3. CASE ~Valid(o)
      BY <2>1, <3>1, <3>3, RefsAssumption
    <3> QED
      BY <3>2, <3>3
  <2>5. s \in Slots => /\ at[o] \in LuaStates /\ lua[at[o]] = "open"
                       /\ registry[at[o]][s] = Free
                       /\ registry[at[o]][idx[o]] # Free
    BY <2>1, <2>2, NotDangling, RefsAssumption DEF FreeSlots
  <2>6. at[o] \in {Moved, NullLua} => s = NOREF
    BY <2>1, RefsAssumption DEF Valid, EmptyHasNoSlot
  <2>7. TypeOK'
    BY <2>1, <2>2, <2>3, <2>4 DEF TypeOK, LuaSteps, Registries
  <2>8. EmptyHasNoSlot' /\ UnusedIsBlank'
    BY <2>1, <2>2, <2>3, <2>4, <2>5, <2>6 DEF TypeOK, EmptyHasNoSlot, UnusedIsBlank, LuaSteps
  <2>9. OneSlotEach'
    BY <2>1, <2>2, <2>3, <2>4, <2>5, RefsAssumption
       DEF TypeOK, EmptyHasNoSlot, OneSlotEach, LuaSteps
  <2>10. OwnersKeepOpen'
    BY <2>1, <2>2, <2>3, OwnedByType, RefsAssumption DEF TypeOK, OwnersKeepOpen, LuaSteps, Own!Rebind
  <2> QED
    BY <2>7, <2>8, <2>9, <2>10
<1> QED
  BY <1>1, <1>2

\* A move hands the slot over (reference.hpp:52).
LEMMA MoveCtorInv ==
  ASSUME Inv, NEW r \in Refs, NEW o \in Refs, MoveCtor(r, o)
  PROVE  Inv'
<1> USE DEF Inv, MoveCtor
<1>1. LuaSteps
  BY TransferSteps
<1>2. TypeOK'
  BY <1>1 DEF TypeOK, LuaSteps
<1>3. EmptyHasNoSlot' /\ UnusedIsBlank'
  BY <1>1, RefsAssumption DEF TypeOK, EmptyHasNoSlot, UnusedIsBlank, LuaSteps
<1>4. OneSlotEach'
  BY <1>1, RefsAssumption DEF TypeOK, EmptyHasNoSlot, OneSlotEach, LuaSteps
<1>5. OwnersKeepOpen'
  BY <1>1, RefsAssumption DEF TypeOK, OwnersKeepOpen, LuaSteps, Own!Transfer
<1> QED
  BY <1>2, <1>3, <1>4, <1>5

\* What the destructor leaves in the registries that stay.
LEMMA UnrefSurviving ==
  ASSUME Inv, NEW r \in Refs, NEW reg \in Registries
  PROVE  /\ Surviving(Unreferenced(reg, r)) \in Registries
         /\ \A M \in LuaStates, t \in Slots : lua'[M] # "closed" =>
              Surviving(Unreferenced(reg, r))[M][t] =
                IF M = at[r] /\ t = idx[r] THEN Free ELSE reg[M][t]
BY UnreferencedOp, SurvivingType DEF Inv

\* The destructor frees the slot (reference.hpp:54-58).
LEMMA DestroyInv ==
  ASSUME Inv, NEW r \in Refs, Destroy(r)
  PROVE  Inv'
<1>1. CASE Dangling(r)
  BY <1>1, CrashInv DEF Destroy
<1>2. CASE ~Dangling(r)
  <2> USE <1>2 DEF Inv, Destroy
  <2>1. LuaSteps
    BY RebindSteps
  <2>2. /\ registry' \in Registries
        /\ \A M \in LuaStates, t \in Slots : lua'[M] # "closed" =>
             registry'[M][t] = IF M = at[r] /\ t = idx[r] THEN Free ELSE registry[M][t]
    BY UnrefSurviving DEF TypeOK, Registries
  <2>3. TypeOK'
    BY <2>1, <2>2 DEF TypeOK, LuaSteps, Registries
  <2>4. EmptyHasNoSlot' /\ UnusedIsBlank'
    BY <2>1, <2>2, RefsAssumption DEF TypeOK, EmptyHasNoSlot, UnusedIsBlank, LuaSteps
  <2>5. OneSlotEach'
    <3>1. \A q \in alive' : q \in alive /\ q # r /\ at'[q] = at[q] /\ idx'[q] = idx[q]
      BY DEF TypeOK
    <3>2. \A L \in LuaStates : lua'[L] = "open" => lua[L] = "open"
      BY <2>1 DEF LuaSteps
    <3> QED
      BY <2>2, <3>1, <3>2 DEF OneSlotEach
  <2>6. OwnersKeepOpen'
    BY <2>1, RefsAssumption DEF TypeOK, OwnersKeepOpen, LuaSteps, Own!Rebind
  <2> QED
    BY <2>3, <2>4, <2>5, <2>6
<1> QED
  BY <1>1, <1>2

\* A lost reference frees its slot (reference.hpp:61-63, 69-71).
LEMMA LostInv ==
  ASSUME Inv, NEW r \in alive, NEW t \in BOOLEAN, Lost(r, t)
  PROVE  Inv'
<1> USE DEF Inv, Lost
<1>0. r \in Refs
  BY DEF TypeOK
<1>1. LuaSteps
  BY <1>0, RebindSteps
<1>2. /\ registry' \in Registries
      /\ \A M \in LuaStates, s \in Slots : lua'[M] # "closed" =>
           registry'[M][s] = IF M = at[r] /\ s = idx[r] THEN Free ELSE registry[M][s]
  BY <1>0, UnrefSurviving DEF TypeOK, Registries
<1>3. TypeOK'
  BY <1>0, <1>1, <1>2 DEF TypeOK, LuaSteps, Registries
<1>4. EmptyHasNoSlot' /\ UnusedIsBlank'
  BY <1>0, <1>1, <1>2, RefsAssumption DEF TypeOK, EmptyHasNoSlot, UnusedIsBlank, LuaSteps
<1>5. OneSlotEach'
  BY <1>0, <1>1, <1>2, RefsAssumption DEF TypeOK, EmptyHasNoSlot, OneSlotEach, LuaSteps
<1>6. OwnersKeepOpen'
  BY <1>0, <1>1, RefsAssumption DEF TypeOK, OwnersKeepOpen, LuaSteps, Own!Rebind
<1> QED
  BY <1>3, <1>4, <1>5, <1>6
\* An assigned reference has a slot of its own, and its old slot is free
\* (reference.hpp:60-66).
LEMMA CopyAssignInv ==
  ASSUME Inv, NEW r \in Refs, NEW o \in Refs, CopyAssign(r, o)
  PROVE  Inv'
<1>0. r \in alive /\ o \in alive
  BY DEF CopyAssign
<1>1. CASE Crash
  BY <1>1, CrashInv
<1>2. CASE Lost(r, TRUE)
  BY <1>0, <1>2, LostInv
<1>3. CASE ~Crash /\ ~Lost(r, TRUE)
  <2>1. ~Dangling(r) /\ o # r /\ at[o] # Moved /\ Usable(at[o])
    BY <1>3 DEF CopyAssign
  <2>2. PICK s \in FreeSlots(at[o]) \cup {REFNIL} :
          /\ MayRef(at[o], Fetched(o), s)
          /\ at' = [at EXCEPT ![r] = at[o]]
          /\ idx' = [idx EXCEPT ![r] = s]
          /\ Own!Rebind(r, OwnedBy(o))
          /\ registry' = Surviving(Unreferenced(Stored(registry, at[o], s, Fetched(o)), r))
          /\ UNCHANGED <<alive, crashed>>
          /\ threw' = FALSE
    BY <2>1 DEF CopyAssign
  <2>3. /\ at[o] \in LuaStates /\ lua[at[o]] = "open" /\ s \in Slots \cup {REFNIL}
        /\ s \in Slots => registry[at[o]][s] = Free
    BY <2>1, RefsAssumption DEF Usable, FreeSlots
  <2>4. Fetched(o) \in Values \cup {LuaNil} /\ Fetched(o) # Free
    BY <1>0, <2>1, NotDangling, RefsAssumption DEF Fetched, Dangling
  <2>5. LuaSteps
    BY <2>2, OwnedByType, RebindSteps DEF Inv
  <2>6. /\ registry' \in Registries
        /\ \A M \in LuaStates, t \in Slots : lua'[M] # "closed" =>
             registry'[M][t] = IF M = at[r] /\ t = idx[r] THEN Free
                               ELSE IF M = at[o] /\ t = s THEN Fetched(o)
                               ELSE registry[M][t]
    <3> DEFINE reg == Stored(registry, at[o], s, Fetched(o))
    <3>1. /\ reg \in Registries
          /\ \A M \in LuaStates, t \in Slots :
               reg[M][t] = IF M = at[o] /\ t = s THEN Fetched(o) ELSE registry[M][t]
      <4>1. registry \in Registries
        BY DEF Inv, TypeOK, Registries
      <4> QED
        BY <2>3, <2>4, <4>1, StoredOp
    <3> HIDE DEF reg
    <3>2. /\ Surviving(Unreferenced(reg, r)) \in Registries
          /\ \A M \in LuaStates, t \in Slots : lua'[M] # "closed" =>
               Surviving(Unreferenced(reg, r))[M][t] =
                 IF M = at[r] /\ t = idx[r] THEN Free ELSE reg[M][t]
      BY <3>1, UnrefSurviving
    <3>3. registry' = Surviving(Unreferenced(reg, r))
      BY <2>2 DEF reg
    <3> QED
      BY <3>1, <3>2, <3>3
  <2>7. idx[r] \in Slots => /\ at[r] \in LuaStates
                            /\ registry[at[r]][idx[r]] # Free
    BY <1>0, <2>1, NotDangling, RefsAssumption DEF Valid
  <2>8. TypeOK'
    BY <2>2, <2>3, <2>5, <2>6 DEF Inv, TypeOK, LuaSteps, Registries
  <2>9. EmptyHasNoSlot'
    BY <1>0, <2>2, <2>3, RefsAssumption DEF Inv, TypeOK, EmptyHasNoSlot
  <2>10. UnusedIsBlank'
    BY <2>2, <2>3, <2>5, <2>6 DEF Inv, TypeOK, UnusedIsBlank, LuaSteps
  <2>11. OneSlotEach'
    <3> SUFFICES ASSUME NEW M \in LuaStates, lua'[M] = "open", NEW t \in Slots
                 PROVE  /\ registry'[M][t] # Free <=> \E q \in alive' : at'[q] = M /\ idx'[q] = t
                        /\ \A q, p \in alive' :
                             at'[q] = M /\ at'[p] = M /\ idx'[q] = t /\ idx'[p] = t => q = p
      BY DEF OneSlotEach
    <3>1. lua[M] = "open" /\ alive' = alive
      BY <2>2, <2>5 DEF LuaSteps
    <3>2. /\ at'[r] = at[o] /\ idx'[r] = s
          /\ \A q \in alive \ {r} : at'[q] = at[q] /\ idx'[q] = idx[q]
      BY <2>2 DEF Inv, TypeOK
    <3>3. CASE M = at[o] /\ t = s
      BY <1>0, <2>3, <2>4, <2>6, <2>7, <3>1, <3>2, <3>3 DEF Inv, OneSlotEach
    <3>4. CASE M # at[o] \/ t # s
      BY <1>0, <2>6, <3>1, <3>2, <3>4 DEF Inv, OneSlotEach
    <3> QED
      BY <3>3, <3>4
  <2>12. OwnersKeepOpen'
    BY <1>0, <2>2, <2>5, OwnedByType, RefsAssumption
       DEF Inv, TypeOK, OwnersKeepOpen, LuaSteps, Own!Rebind
  <2> QED
    BY <2>8, <2>9, <2>10, <2>11, <2>12 DEF Inv
<1> QED
  BY <1>1, <1>2, <1>3

\* A move assignment hands the slot over and frees the old one
\* (reference.hpp:68-73).
LEMMA MoveAssignInv ==
  ASSUME Inv, NEW r \in Refs, NEW o \in Refs, MoveAssign(r, o)
  PROVE  Inv'
<1>0. r \in alive /\ o \in alive
  BY DEF MoveAssign
<1>1. CASE Crash
  BY <1>1, CrashInv
<1>2. CASE Lost(r, FALSE)
  BY <1>0, <1>2, LostInv
<1>3. CASE ~Crash /\ ~Lost(r, FALSE)
  <2>1. /\ ~Dangling(r) /\ o # r
        /\ at' = [at EXCEPT ![r] = at[o], ![o] = Moved]
        /\ idx' = [idx EXCEPT ![r] = idx[o], ![o] = NOREF]
        /\ Own!Transfer(o, r)
        /\ registry' = Surviving(Unreferenced(registry, r))
        /\ threw' = FALSE
        /\ UNCHANGED <<alive, crashed>>
    BY <1>3 DEF MoveAssign
  <2>2. LuaSteps
    BY <2>1, TransferSteps DEF Inv
  <2>3. /\ registry' \in Registries
        /\ \A M \in LuaStates, t \in Slots : lua'[M] # "closed" =>
             registry'[M][t] = IF M = at[r] /\ t = idx[r] THEN Free ELSE registry[M][t]
    BY <2>1, UnrefSurviving DEF Inv, TypeOK, Registries
  <2>4. TypeOK'
    BY <2>1, <2>2, <2>3 DEF Inv, TypeOK, LuaSteps, Registries
  <2>5. EmptyHasNoSlot'
    BY <1>0, <2>1, RefsAssumption DEF Inv, TypeOK, EmptyHasNoSlot
  <2>6. UnusedIsBlank'
    BY <2>1, <2>2, <2>3, RefsAssumption DEF Inv, TypeOK, UnusedIsBlank, LuaSteps
  <2>7. OneSlotEach'
    <3>1. /\ at'[r] = at[o] /\ idx'[r] = idx[o] /\ at'[o] = Moved /\ alive' = alive
          /\ \A q \in alive \ {r, o} : at'[q] = at[q] /\ idx'[q] = idx[q]
      BY <1>0, <2>1 DEF Inv, TypeOK
    <3>2. \A L \in LuaStates : lua'[L] = "open" => lua[L] = "open"
      BY <2>2 DEF LuaSteps
    <3>0. o # r
      BY <2>1
    <3> SUFFICES ASSUME NEW M \in LuaStates, lua'[M] = "open", NEW t \in Slots
                 PROVE  /\ registry'[M][t] # Free <=> \E q \in alive' : at'[q] = M /\ idx'[q] = t
                        /\ \A q, p \in alive' :
                             at'[q] = M /\ at'[p] = M /\ idx'[q] = t /\ idx'[p] = t => q = p
      BY DEF OneSlotEach
    <3>3. /\ registry[M][t] # Free <=> \E q \in alive : at[q] = M /\ idx[q] = t
          /\ \A q, p \in alive : at[q] = M /\ at[p] = M /\ idx[q] = t /\ idx[p] = t => q = p
      BY <3>2 DEF Inv, OneSlotEach
    <3>4. registry'[M][t] = IF M = at[r] /\ t = idx[r] THEN Free ELSE registry[M][t]
      BY <2>3
    <3>5. M # Moved /\ t # NOREF
      BY RefsAssumption
    <3>6. CASE M = at[o] /\ t = idx[o]
      <4>1. ~(M = at[r] /\ t = idx[r])
        BY <1>0, <3>0, <3>3, <3>6
      <4> QED
        BY <1>0, <3>0, <3>1, <3>3, <3>4, <3>5, <3>6, <4>1
    <3>7. CASE M = at[r] /\ t = idx[r]
      <4>1. ~(M = at[o] /\ t = idx[o])
        BY <1>0, <3>0, <3>3, <3>7
      <4> QED
        BY <1>0, <3>0, <3>1, <3>3, <3>4, <3>5, <3>7, <4>1
    <3>8. CASE ~(M = at[o] /\ t = idx[o]) /\ ~(M = at[r] /\ t = idx[r])
      BY <1>0, <3>0, <3>1, <3>3, <3>4, <3>5, <3>8
    <3> QED
      BY <3>6, <3>7, <3>8
  <2>8. OwnersKeepOpen'
    BY <1>0, <2>1, <2>2, RefsAssumption DEF Inv, TypeOK, OwnersKeepOpen, LuaSteps, Own!Transfer
  <2> QED
    BY <2>4, <2>5, <2>6, <2>7, <2>8 DEF Inv
<1> QED
  BY <1>1, <1>2, <1>3

\* Every operation of reference preserves the invariant.
LEMMA StepInv == Inv /\ [Next]_vars => Inv'
<1> SUFFICES ASSUME Inv, [Next]_vars PROVE Inv'
  OBVIOUS
<1>1. CASE UNCHANGED vars
  BY <1>1 DEF vars, Inv, TypeOK, EmptyHasNoSlot, UnusedIsBlank, OneSlotEach, OwnersKeepOpen
<1>2. CASE Step
  BY <1>2, OpenHostInv, CloseHostInv, DefaultInv, DestroyInv, FromStackInv, CopyCtorInv,
     MoveCtorInv, CopyAssignInv, MoveAssignInv DEF Step
<1> QED
  BY <1>1, <1>2 DEF Next, Halted

-----------------------------------------------------------------------------
(* Theorems.                                                               *)

\* Every reachable state satisfies the invariant the other theorems follow from.
THEOREM Invariant == Spec => []Inv
<1> QED
  BY InitInv, StepInv, PTL DEF Spec

\* References, registries and owners keep their types (reference.hpp:28-32).
THEOREM TypeCorrect == Spec => []TypeOK
<1>1. Inv => TypeOK
  BY DEF Inv
<1> QED
  BY <1>1, Invariant, PTL

\* In every open Lua state luaL_ref's slots and the living references correspond
\* one to one, whatever is copied, moved, assigned or thrown: nothing leaks, is
\* freed twice or is shared (reference.hpp:34-73).
THEOREM SlotsCorrespond == Spec => []OneSlotEach
<1>1. Inv => OneSlotEach
  BY DEF Inv
<1> QED
  BY <1>1, Invariant, PTL

\* A Lua state stays open while a reference or a handle owns it, and not longer
\* (reference.hpp:31; state.hpp:112-127).
THEOREM OwnersKeepStatesOpen == Spec => []OwnersKeepOpen
<1>1. Inv => OwnersKeepOpen
  BY DEF Inv
<1> QED
  BY <1>1, Invariant, PTL

\* In a program whose references all own their Lua state no reference ever makes
\* Lua read a null or closed state (reference.hpp:43-73).
THEOREM CrashNeedsBorrower == Spec => OnlyBorrowersCrash
<1> DEFINE Cause == \E r \in alive : at[r] # Moved /\ OwnedBy(r) = Moved
<1>1. Inv /\ [Next]_vars => [crashed' # crashed => Cause]_vars
  <2> SUFFICES ASSUME Inv, Next, crashed' # crashed
               PROVE  Cause
    OBVIOUS
  <2>1. ASSUME NEW q \in alive, at[q] # Moved, ~Usable(at[q])
        PROVE  Cause
    BY <2>1 DEF Inv, TypeOK, OwnersKeepOpen, OwnedBy, Usable
  <2>2. \A q \in alive : Dangling(q) => at[q] # Moved /\ ~Usable(at[q])
    BY DEF Dangling, Valid, Inv, TypeOK, EmptyHasNoSlot
  <2>3. Step
    BY DEF Next, Halted, vars
  <2>4. \E r, o \in Refs :
          \/ Destroy(r) /\ Dangling(r)
          \/ CopyCtor(r, o) /\ Dangling(o)
          \/ CopyAssign(r, o) /\ (Dangling(r) \/ (at[o] # Moved /\ ~Usable(at[o])))
          \/ MoveAssign(r, o) /\ Dangling(r)
    <3>1. \A r, o \in Refs : ~Default(r) /\ ~MoveCtor(r, o)
      BY DEF Default, MoveCtor, Construct
    <3>2. \A h \in Hosts, L \in LuaStates : ~OpenHost(h, L)
      BY DEF OpenHost
    <3>8. \A h \in Hosts : ~CloseHost(h)
      BY DEF CloseHost
    <3>3. \A r \in Refs : \A L, own, v, s : ~FromStack(r, L, own, v, s)
      BY DEF FromStack, Construct
    <3>4. \A r \in Refs : Destroy(r) => Dangling(r)
      BY DEF Destroy
    <3>5. \A r, o \in Refs : CopyCtor(r, o) => Dangling(o)
      BY DEF CopyCtor, Construct
    <3>6. \A r, o \in Refs : MoveAssign(r, o) => Dangling(r)
      BY DEF MoveAssign, Lost
    <3>7. ASSUME NEW r \in Refs, NEW o \in Refs, CopyAssign(r, o), ~Dangling(r),
                 ~(at[o] # Moved /\ ~Usable(at[o]))
          PROVE  FALSE
      <4>1. ~Lost(r, TRUE)
        BY DEF Lost
      <4>2. o # r /\ at[o] # Moved /\ Usable(at[o])
        BY <3>7, <4>1 DEF CopyAssign
      <4> QED
        BY <3>7, <4>2 DEF CopyAssign
    <3>9. PICK r \in Refs, o \in Refs : Destroy(r) \/ CopyCtor(r, o) \/ CopyAssign(r, o) \/ MoveAssign(r, o)
      BY <2>3, <3>1, <3>2, <3>3, <3>8 DEF Step
    <3>10. CopyAssign(r, o) => Dangling(r) \/ (at[o] # Moved /\ ~Usable(at[o]))
      BY <3>7
    <3> QED
      BY <3>4, <3>5, <3>6, <3>9, <3>10
  <2>5. \E q \in alive : Dangling(q) \/ (at[q] # Moved /\ ~Usable(at[q]))
    BY <2>4 DEF Dangling, CopyAssign
  <2> QED
    BY <2>1, <2>2, <2>5
<1> QED
  BY <1>1, Invariant, PTL DEF Spec, OnlyBorrowersCrash

\* A reference that the last exception left without a slot.
ThrownAt == threw => \E r \in alive : idx[r] = NOREF

\* An assignment that throws leaves its target empty and other references alone.
LEMMA LostTarget ==
  ASSUME Inv, NEW r \in alive, Lost(r, TRUE)
  PROVE  /\ r \in alive' /\ idx'[r] = NOREF
         /\ \A o \in Refs \ {r} : idx'[o] = idx[o] /\ at'[o] = at[o]
         /\ \A L \in LuaStates : FreeSlots(L) \subseteq FreeSlots(L)'
<1>1. r \in Refs /\ registry \in Registries /\ idx \in [Refs -> Slots \cup {NOREF, REFNIL}]
      /\ at \in [Refs -> LuaStates \cup {NullLua, Moved}]
  BY DEF Inv, TypeOK, Registries
<1>2. /\ Unreferenced(registry, r) \in Registries
      /\ \A L \in LuaStates, s \in Slots :
           registry[L][s] = Free => Unreferenced(registry, r)[L][s] = Free
  BY <1>1, UnreferencedOp DEF Inv
<1>3. \A L \in LuaStates, s \in Slots : registry[L][s] = Free => registry'[L][s] = Free
  BY <1>2 DEF Lost, Surviving, AllFree, Registries
<1> QED
  BY <1>1, <1>3 DEF Lost, FreeSlots

\* A step that throws leaves one reference without a slot and changes no other.
LEMMA ThrownStep ==
  ASSUME Inv, ThrownAt, Step
  PROVE  /\ ThrownAt'
         /\ threw' => \E r \in alive :
              /\ idx'[r] = NOREF
              /\ \A o \in Refs \ {r} : idx'[o] = idx[o] /\ at'[o] = at[o]
              /\ \A L \in LuaStates : FreeSlots(L) \subseteq FreeSlots(L)'
<1>1. CASE Crash
  BY <1>1 DEF Crash, ThrownAt, FreeSlots
<1>2. ASSUME NEW r \in alive, Lost(r, TRUE)
      PROVE  /\ ThrownAt'
             /\ \E q \in alive :
                  /\ idx'[q] = NOREF
                  /\ \A o \in Refs \ {q} : idx'[o] = idx[o] /\ at'[o] = at[o]
                  /\ \A L \in LuaStates : FreeSlots(L) \subseteq FreeSlots(L)'
  BY <1>2, LostTarget DEF ThrownAt
<1>3. CASE ~threw'
  BY <1>3 DEF ThrownAt
<1>4. Crash \/ ~threw' \/ \E r \in alive : Lost(r, TRUE)
  <2>1. ASSUME NEW h \in Hosts, NEW L \in LuaStates, OpenHost(h, L) PROVE ~threw'
    BY <2>1 DEF OpenHost
  <2>2. ASSUME NEW h \in Hosts, CloseHost(h) PROVE ~threw'
    BY <2>2 DEF CloseHost
  <2>3. ASSUME NEW r \in Refs, Default(r) \/ Destroy(r) PROVE Crash \/ ~threw'
    BY <2>3 DEF Default, Destroy, Construct
  <2>4. ASSUME NEW r, NEW L, NEW own, NEW v, NEW s, FromStack(r, L, own, v, s) PROVE ~threw'
    BY <2>4 DEF FromStack, Construct
  <2>5. ASSUME NEW r \in Refs, NEW o \in Refs, CopyCtor(r, o) \/ MoveCtor(r, o)
        PROVE  Crash \/ ~threw'
    BY <2>5 DEF CopyCtor, MoveCtor, Construct
  <2>6. ASSUME NEW r \in Refs, NEW o \in Refs, CopyAssign(r, o)
        PROVE  Crash \/ ~threw' \/ \E q \in alive : Lost(q, TRUE)
    BY <2>6 DEF CopyAssign
  <2>7. ASSUME NEW r \in Refs, NEW o \in Refs, MoveAssign(r, o)
        PROVE  Crash \/ ~threw'
    BY <2>7 DEF MoveAssign, Lost
  <2> QED
    BY <2>1, <2>2, <2>3, <2>4, <2>5, <2>6, <2>7 DEF Step
<1> QED
  BY <1>1, <1>2, <1>3, <1>4

\* An assignment that throws empties its target and keeps every other reference and slot as
\* it was (reference.hpp:60-66).
THEOREM ThrowsKeepTheRest == Spec => ThrowLosesTargetOnly
<1> DEFINE Kept ==
      threw' => \E r \in alive :
        /\ idx'[r] = NOREF
        /\ \A o \in Refs \ {r} : idx'[o] = idx[o] /\ at'[o] = at[o]
        /\ \A L \in LuaStates : FreeSlots(L) \subseteq FreeSlots(L)'
<1>1. Init => ThrownAt
  BY DEF Init, ThrownAt
<1>2. Inv /\ ThrownAt /\ [Next]_vars => ThrownAt' /\ [Kept]_vars
  <2> SUFFICES ASSUME Inv, ThrownAt, [Next]_vars PROVE ThrownAt' /\ [Kept]_vars
    OBVIOUS
  <2>1. CASE UNCHANGED vars
    BY <2>1 DEF vars, ThrownAt
  <2>2. CASE Step
    BY <2>2, ThrownStep
  <2> QED
    BY <2>1, <2>2 DEF Next, Halted
<1>3. Spec => [][Kept]_vars
  BY <1>1, <1>2, Invariant, PTL DEF Spec
<1> QED
  BY <1>3 DEF ThrowLosesTargetOnly

-----------------------------------------------------------------------------
(* Slots implement the values of RootedValues.                             *)

\* The references into a state that is closed.
Stranded == {q \in alive : at[q] \in LuaStates /\ lua[at[q]] = "closed"}

\* Such a reference owns nothing, and a state does not open again under it.
LEMMA StrandedBorrow == Inv => \A q \in Stranded : q \in Refs /\ OwnedBy(q) = Moved
  BY DEF Inv, TypeOK, OwnersKeepOpen, Stranded, OwnedBy

\* The same of the next state.
LEMMA StrandedBorrowNext == Inv' => (\A q \in Stranded : q \in Refs /\ OwnedBy(q) = Moved)'
  BY StrandedBorrow, PTL

\* A reference that is neither stranded nor empty holds what is in its slot.
LEMMA HeldDef ==
  Inv => \A q \in Refs :
    HeldBy(q) = IF q \in alive /\ idx[q] \in Slots /\ q \notin Stranded
                THEN registry[at[q]][idx[q]] ELSE LuaNil
<1> SUFFICES ASSUME Inv, NEW q \in Refs
             PROVE  HeldBy(q) = IF q \in alive /\ idx[q] \in Slots /\ q \notin Stranded
                                THEN registry[at[q]][idx[q]] ELSE LuaNil
  OBVIOUS
<1>1. Valid(q) <=> idx[q] \in Slots
  BY RefsAssumption DEF Inv, TypeOK, Valid
<1>2. Valid(q) => at[q] \in LuaStates /\ lua[at[q]] # "unused"
  BY <1>1, RefsAssumption DEF Inv, TypeOK, EmptyHasNoSlot, UnusedIsBlank
<1>3. q \in alive /\ Valid(q) => (Usable(at[q]) <=> q \notin Stranded)
  BY <1>2 DEF Usable, Stranded, Inv, TypeOK
<1> QED
  BY <1>1, <1>3 DEF HeldBy

\* The same of the next state.
LEMMA HeldDefNext ==
  Inv' => (\A q \in Refs :
    HeldBy(q) = IF q \in alive /\ idx[q] \in Slots /\ q \notin Stranded
                THEN registry[at[q]][idx[q]] ELSE LuaNil)'
  BY HeldDef, PTL

\* Apart from the references A, every step leaves members, slots and ownership alone, but
\* may close Lua states.
Spares(A) ==
  /\ \A q \in Refs \ A : (q \in alive' <=> q \in alive) /\ at'[q] = at[q] /\ idx'[q] = idx[q]
  /\ \A q \in Refs \ A, L \in LuaStates : q \in owners'[L] <=> q \in owners[L]
  /\ \A q \in Refs \ A : q \in alive /\ idx[q] \in Slots /\ q \notin Stranded' =>
       registry'[at[q]][idx[q]] = registry[at[q]][idx[q]]

\* What a step that spares the others does to them: those in a state that it closes
\* lose their values, the rest keep them.
LEMMA OthersHold ==
  ASSUME Inv, Inv', NEW A, Spares(A), \A L \in LuaStates : lua[L] = "closed" => lua'[L] = "closed"
  PROVE  \A q \in Refs \ A :
           /\ HeldBy(q)' = IF q \in Stranded' THEN LuaNil ELSE HeldBy(q)
           /\ OwnedBy(q)' = Moved <=> OwnedBy(q) = Moved
<1> SUFFICES ASSUME NEW q \in Refs \ A
             PROVE  /\ HeldBy(q)' = IF q \in Stranded' THEN LuaNil ELSE HeldBy(q)
                    /\ OwnedBy(q)' = Moved <=> OwnedBy(q) = Moved
  OBVIOUS
<1>1. q \in Stranded => q \in Stranded'
  BY DEF Stranded, Spares
<1>2. /\ (q \in alive' <=> q \in alive) /\ at'[q] = at[q] /\ idx'[q] = idx[q]
      /\ q \in alive /\ idx[q] \in Slots /\ q \notin Stranded' =>
           registry'[at[q]][idx[q]] = registry[at[q]][idx[q]]
  BY DEF Spares
<1>3. HeldBy(q)' = IF q \in Stranded' THEN LuaNil ELSE HeldBy(q)
  BY <1>1, <1>2, HeldDef, HeldDefNext
<1>4. OwnedBy(q)' = OwnedBy(q)
  BY <1>2 DEF OwnedBy, Spares
<1> QED
  BY <1>3, <1>4

\* The abstract step in which the references hold the values new and borrow as b says,
\* before those in closed states lose what they hold.
Becomes(new, b) ==
  /\ \A q \in Refs : HeldBy(q)' = IF q \in Stranded' THEN LuaNil ELSE new[q]
  /\ \A q \in Refs : OwnedBy(q)' = Moved <=> q \in b

HeldNow == [q \in Refs |-> HeldBy(q)]
Borrowing == {q \in Refs : OwnedBy(q) = Moved}

\* What references hold after a step is what they would in RootedValues.
LEMMA BecomesMaps ==
  ASSUME Inv', NEW new, NEW b \in SUBSET Refs, Becomes(new, b)
  PROVE  /\ Stranded' \in SUBSET Refs /\ Stranded' \subseteq b
         /\ Borrowing' = b
         /\ HeldNow' = Promise!Closing(new, Stranded')
<1>1. Stranded' \in SUBSET Refs /\ Stranded' \subseteq b
  BY StrandedBorrowNext DEF Becomes
<1>2. Borrowing' = b
  BY DEF Borrowing, Becomes
<1>3. HeldNow' = Promise!Closing(new, Stranded')
  BY DEF HeldNow, Becomes, Promise!Closing
<1> QED
  BY <1>1, <1>2, <1>3

\* A step that gives r a value is Bind.
LEMMA BindMaps ==
  ASSUME Inv', NEW r \in Refs, NEW v \in Values \cup {LuaNil}, NEW b \in BOOLEAN,
         Becomes([HeldNow EXCEPT ![r] = v], Promise!Owns(r, b))
  PROVE  Promise!Next
<1>1. Promise!Owns(r, b) \in SUBSET Refs
  BY DEF Promise!Owns
<1>2. Promise!Bind(r, v, b, Stranded') /\ Stranded' \in SUBSET Refs
  BY <1>1, BecomesMaps DEF Promise!Bind, HeldNow, Borrowing
<1> QED
  BY <1>2 DEF Promise!Next

\* A step that gives r the value of o is Copy.
LEMMA CopyMaps ==
  ASSUME Inv', NEW r \in Refs, NEW o \in Refs,
         Becomes([HeldNow EXCEPT ![r] = HeldBy(o)], Promise!Owns(r, OwnedBy(o) = Moved))
  PROVE  Promise!Next
<1>1. Promise!Owns(r, OwnedBy(o) = Moved) \in SUBSET Refs
  BY DEF Promise!Owns
<1>2. Promise!Owns(r, OwnedBy(o) = Moved) = Promise!Owns(r, o \in Borrowing)
  BY DEF Promise!Owns, Borrowing
<1>3. Promise!Copy(r, o, Stranded') /\ Stranded' \in SUBSET Refs
  BY <1>1, <1>2, BecomesMaps DEF Promise!Copy, HeldNow, Borrowing
<1> QED
  BY <1>3 DEF Promise!Next

\* A step that takes the value of o to r is Move.
LEMMA MoveMaps ==
  ASSUME Inv', NEW r \in Refs, NEW o \in Refs,
         Becomes([HeldNow EXCEPT ![r] = HeldBy(o), ![o] = LuaNil],
                 Promise!Owns(r, OwnedBy(o) = Moved) \cup {o})
  PROVE  Promise!Next
<1>1. Promise!Owns(r, OwnedBy(o) = Moved) \cup {o} \in SUBSET Refs
  BY DEF Promise!Owns
<1>2. Promise!Owns(r, OwnedBy(o) = Moved) = Promise!Owns(r, o \in Borrowing)
  BY DEF Promise!Owns, Borrowing
<1>3. Promise!Move(r, o, Stranded') /\ Stranded' \in SUBSET Refs
  BY <1>1, <1>2, BecomesMaps DEF Promise!Move, HeldNow, Borrowing
<1> QED
  BY <1>3 DEF Promise!Next

\* A step that empties r is Drop.
LEMMA DropMaps ==
  ASSUME Inv', NEW r \in Refs, Becomes([HeldNow EXCEPT ![r] = LuaNil], Promise!Owns(r, TRUE))
  PROVE  Promise!Next
<1>1. Promise!Owns(r, TRUE) \in SUBSET Refs
  BY DEF Promise!Owns
<1>2. Promise!Drop(r, Stranded') /\ Stranded' \in SUBSET Refs
  BY <1>1, BecomesMaps DEF Promise!Drop, HeldNow, Borrowing
<1> QED
  BY <1>2 DEF Promise!Next

\* A step that changes no value but closes states is Close.
LEMMA CloseMaps ==
  ASSUME Inv', Becomes(HeldNow, Borrowing)
  PROVE  Promise!Next
<1>1. Borrowing \in SUBSET Refs
  BY DEF Borrowing
<1>2. Promise!Close(Stranded') /\ Stranded' \in SUBSET Refs
  BY <1>1, BecomesMaps DEF Promise!Close, HeldNow, Borrowing
<1> QED
  BY <1>2 DEF Promise!Next

\* Lua states that are closed stay closed.
ClosedStay == \A L \in LuaStates : lua[L] = "closed" => lua'[L] = "closed"

\* A step that changes the reference r only.
LEMMA OneChanges ==
  ASSUME Inv, Inv', NEW r \in Refs, Spares({r}), ClosedStay,
         NEW v, NEW b \in BOOLEAN,
         HeldBy(r)' = IF r \in Stranded' THEN LuaNil ELSE v,
         OwnedBy(r)' = Moved <=> b
  PROVE  Becomes([HeldNow EXCEPT ![r] = v], Promise!Owns(r, b))
<1>1. \A q \in Refs \ {r} : /\ HeldBy(q)' = IF q \in Stranded' THEN LuaNil ELSE HeldBy(q)
                            /\ OwnedBy(q)' = Moved <=> OwnedBy(q) = Moved
  BY OthersHold DEF ClosedStay
<1>2. \A q \in Refs : [HeldNow EXCEPT ![r] = v][q] = IF q = r THEN v ELSE HeldBy(q)
  BY DEF HeldNow
<1>3. \A q \in Refs : q \in Promise!Owns(r, b) <=> IF q = r THEN b ELSE OwnedBy(q) = Moved
  BY DEF Promise!Owns, Borrowing
<1>4. ASSUME NEW q \in Refs
      PROVE  /\ HeldBy(q)' = IF q \in Stranded' THEN LuaNil ELSE [HeldNow EXCEPT ![r] = v][q]
             /\ OwnedBy(q)' = Moved <=> q \in Promise!Owns(r, b)
  <2>1. CASE q = r
    BY <1>2, <1>3, <2>1
  <2>2. CASE q # r
    BY <1>1, <1>2, <1>3, <2>2
  <2> QED
    BY <2>1, <2>2
<1> QED
  BY <1>4 DEF Becomes

\* A step that moves what the reference o holds into r.
LEMMA TwoChange ==
  ASSUME Inv, Inv', NEW r \in Refs, NEW o \in Refs, r # o, Spares({r, o}), ClosedStay,
         HeldBy(r)' = IF r \in Stranded' THEN LuaNil ELSE HeldBy(o),
         OwnedBy(r)' = Moved <=> OwnedBy(o) = Moved,
         HeldBy(o)' = LuaNil, OwnedBy(o)' = Moved
  PROVE  Becomes([HeldNow EXCEPT ![r] = HeldBy(o), ![o] = LuaNil],
                 Promise!Owns(r, OwnedBy(o) = Moved) \cup {o})
<1> DEFINE new == [HeldNow EXCEPT ![r] = HeldBy(o), ![o] = LuaNil]
           b == Promise!Owns(r, OwnedBy(o) = Moved) \cup {o}
<1>1. \A q \in Refs \ {r, o} : /\ HeldBy(q)' = IF q \in Stranded' THEN LuaNil ELSE HeldBy(q)
                               /\ OwnedBy(q)' = Moved <=> OwnedBy(q) = Moved
  BY OthersHold DEF ClosedStay
<1>2. \A q \in Refs : new[q] = IF q = o THEN LuaNil ELSE IF q = r THEN HeldBy(o) ELSE HeldBy(q)
  BY DEF HeldNow
<1>3. \A q \in Refs : q \in b <=> \/ q = o
                                  \/ q = r /\ OwnedBy(o) = Moved
                                  \/ q \notin {r, o} /\ OwnedBy(q) = Moved
  BY DEF Promise!Owns, Borrowing
<1> HIDE DEF new, b
<1>4. ASSUME NEW q \in Refs
      PROVE  /\ HeldBy(q)' = IF q \in Stranded' THEN LuaNil ELSE new[q]
             /\ OwnedBy(q)' = Moved <=> q \in b
  <2>1. CASE q = r
    BY <1>2, <1>3, <2>1
  <2>2. CASE q = o
    BY <1>2, <1>3, <2>2
  <2>3. CASE q \notin {r, o}
    BY <1>1, <1>2, <1>3, <2>3
  <2> QED
    BY <2>1, <2>2, <2>3
<1>5. Becomes(new, b)
  BY <1>4 DEF Becomes
<1> QED
  BY <1>5 DEF new, b

\* The members of r may change, its handle is rebound, and no slot of another reference
\* is written in a state that stays open.
Reseats(r, target) ==
  /\ Own!Rebind(r, target)
  /\ \A q \in Refs \ {r} : (q \in alive' <=> q \in alive) /\ at'[q] = at[q] /\ idx'[q] = idx[q]
  /\ \A q \in alive \ {r} : idx[q] \in Slots /\ at[q] \in LuaStates /\ lua'[at[q]] # "closed" =>
       registry'[at[q]][idx[q]] = registry[at[q]][idx[q]]

\* A reference with a slot has a Lua state.
LEMMA SlotHasState ==
  Inv => \A q \in Refs : idx[q] \in Slots => at[q] \in LuaStates
BY RefsAssumption DEF Inv, TypeOK, EmptyHasNoSlot

\* Moving the borrowed state of r on touches no other reference and opens nothing.
LEMMA ReseatsSpares ==
  ASSUME Inv, NEW r \in Refs, NEW target \in LuaStates \cup {Moved}, Reseats(r, target)
  PROVE  Spares({r}) /\ ClosedStay
<1>1. LuaSteps
  BY RebindSteps DEF Inv, Reseats
<1>2. ClosedStay
  BY <1>1 DEF LuaSteps, ClosedStay, Inv, TypeOK
<1>3. \A q \in Refs \ {r}, L \in LuaStates : q \in owners'[L] <=> q \in owners[L]
  BY DEF Reseats, Own!Rebind
<1>4. \A q \in Refs \ {r} : q \in alive /\ idx[q] \in Slots /\ q \notin Stranded' =>
        registry'[at[q]][idx[q]] = registry[at[q]][idx[q]]
  BY SlotHasState DEF Reseats, Stranded, Inv, TypeOK
<1> QED
  BY <1>2, <1>3, <1>4 DEF Spares, Reseats

\* After its handle is rebound, a reference owns the state it is bound to.
LEMMA RebindOwns ==
  ASSUME Inv, NEW r \in Refs, NEW target \in LuaStates \cup {Moved}, Own!Rebind(r, target),
         target \in {at'[r], Moved}
  PROVE  OwnedBy(r)' = Moved <=> target = Moved
BY RefsAssumption DEF OwnedBy, Own!Rebind, Inv, TypeOK

\* A slot of a living reference is no other's in a state that stays open.
LEMMA OwnSlot ==
  ASSUME Inv, NEW r \in alive, NEW q \in alive, q # r, at[q] \in LuaStates, idx[q] \in Slots,
         lua[at[q]] = "open"
  PROVE  registry[at[q]][idx[q]] # Free /\ ~(at[q] = at[r] /\ idx[q] = idx[r])
BY DEF Inv, OneSlotEach

\* A living reference with a slot is in a state that is or was open.
LEMMA SlotOpenOrStranded ==
  Inv => \A q \in alive : idx[q] \in Slots =>
    q \in Refs /\ at[q] \in LuaStates /\ lua[at[q]] \in {"open", "closed"}
BY SlotHasState DEF Inv, TypeOK, UnusedIsBlank

\* If the state is still open afterwards it was open before (state.hpp:112-127).
LEMMA StillOpen ==
  ASSUME Inv, ClosedStay, NEW q \in alive, idx[q] \in Slots, lua'[at[q]] # "closed"
  PROVE  at[q] \in LuaStates /\ lua[at[q]] = "open"
BY SlotOpenOrStranded DEF ClosedStay

\* The program's own handles do not touch what the references hold, unless the last owner
\* of a state goes (state.hpp:44, 71).
LEMMA OpenHostMaps ==
  ASSUME Inv, Inv', NEW h \in Hosts, NEW L \in LuaStates, OpenHost(h, L)
  PROVE  Promise!Next
<1>0. \A q \in Refs, M \in LuaStates : q \in owners'[M] <=> q \in owners[M]
  BY RefsAssumption DEF OpenHost, Own!Open, OwnersKeepOpen, Inv, TypeOK
<1>1. ClosedStay /\ Spares({})
  BY <1>0 DEF OpenHost, Own!Open, ClosedStay, Spares, Inv, TypeOK
<1>2. Becomes(HeldNow, Borrowing)
  BY <1>1, OthersHold DEF Becomes, HeldNow, Borrowing, ClosedStay
<1> QED
  BY <1>2, CloseMaps

\* A host that ends may close a state, and strands what borrows it (state.hpp:71-73).
LEMMA CloseHostMaps ==
  ASSUME Inv, Inv', NEW h \in Hosts, CloseHost(h)
  PROVE  Promise!Next
<1>1. LuaSteps
  BY RebindSteps DEF Inv, CloseHost
<1>2. ClosedStay
  BY <1>1 DEF LuaSteps, ClosedStay, Inv, TypeOK
<1>3. \A M \in LuaStates : lua'[M] # "closed" => registry'[M] = registry[M]
  BY SurvivingType DEF CloseHost, Inv, TypeOK, Registries
<1>4. Spares({})
  BY <1>3, SlotHasState, RefsAssumption DEF CloseHost, Own!Rebind, Spares, Stranded, Inv, TypeOK
<1>5. Becomes(HeldNow, Borrowing)
  BY <1>2, <1>4, OthersHold DEF Becomes, HeldNow, Borrowing, ClosedStay
<1> QED
  BY <1>5, CloseMaps

\* A default reference holds nothing and owns nothing (reference.hpp:34).
LEMMA DefaultMaps ==
  ASSUME Inv, Inv', NEW r \in Refs, Default(r)
  PROVE  Promise!Next
<1>1. Spares({r}) /\ ClosedStay
  BY DEF Default, Construct, Spares, ClosedStay, Inv, TypeOK
<1>2. idx'[r] = NOREF /\ at'[r] = NullLua
  BY DEF Default, Construct, Inv, TypeOK
<1>3. HeldBy(r)' = LuaNil
  BY <1>2, HeldDefNext, RefsAssumption
<1>4. OwnedBy(r)' = Moved
  BY <1>2, RefsAssumption DEF OwnedBy
<1>5. Becomes([HeldNow EXCEPT ![r] = LuaNil], Promise!Owns(r, TRUE))
  BY <1>1, <1>3, <1>4, OneChanges
<1> QED
  BY <1>5, DropMaps

\* A reference read from the stack holds the value it was given
\* (reference.hpp:36-41).
LEMMA FromStackMaps ==
  ASSUME Inv, Inv', NEW r \in Refs, NEW L \in LuaStates, NEW own \in BOOLEAN,
         NEW v \in Values \cup {LuaNil}, NEW s \in Slots \cup {REFNIL}, FromStack(r, L, own, v, s)
  PROVE  Promise!Next
<1> DEFINE target == IF own THEN L ELSE Moved
<1>1. \A M \in LuaStates, t \in Slots :
        registry'[M][t] = IF M = L /\ t = s THEN v ELSE registry[M][t]
  <2>1. registry \in Registries
    BY DEF Inv, TypeOK, Registries
  <2> QED
    BY <2>1, StoredOp DEF FromStack
<1>2. s \in Slots => registry[L][s] = Free
  BY RefsAssumption DEF FromStack, MayRef, FreeSlots
<1>3. alive' = alive \cup {r} /\ at' = [at EXCEPT ![r] = L] /\ idx' = [idx EXCEPT ![r] = s]
  BY DEF FromStack, Construct
<1>4. Own!Rebind(r, target) /\ lua[L] = "open" /\ v \in Values \cup {LuaNil}
  BY DEF FromStack, Usable
<1>5. LuaSteps
  BY <1>4, RebindSteps DEF Inv
<1>6. ClosedStay
  BY <1>5 DEF LuaSteps, ClosedStay, Inv, TypeOK
<1>7. ASSUME NEW q \in alive \ {r}, idx[q] \in Slots, at[q] \in LuaStates, lua'[at[q]] # "closed"
      PROVE  registry'[at[q]][idx[q]] = registry[at[q]][idx[q]]
  <2>1. lua[at[q]] = "open"
    BY <1>6, <1>7, StillOpen
  <2>2. registry[at[q]][idx[q]] # Free
    BY <1>7, <2>1 DEF Inv, OneSlotEach
  <2> QED
    BY <1>1, <1>2, <1>7, <2>2
<1>8. Reseats(r, target)
  BY <1>3, <1>4, <1>7 DEF Reseats, Inv, TypeOK
<1>9. at'[r] = L /\ idx'[r] = s /\ r \in alive'
  BY <1>3 DEF Inv, TypeOK
<1>10. HeldBy(r)' = IF r \in Stranded' THEN LuaNil ELSE v
  <2>1. s \notin Slots => v = LuaNil
    BY DEF FromStack, MayRef, FreeSlots
  <2>2. s \in Slots => registry'[L][s] = v
    BY <1>1
  <2> QED
    BY <1>9, <2>1, <2>2, HeldDefNext
<1>11. OwnedBy(r)' = Moved <=> ~own
  <2>1. target \in {at'[r], Moved} /\ target \in LuaStates \cup {Moved} /\ (target = Moved <=> ~own)
    BY <1>9, RefsAssumption
  <2> HIDE DEF target
  <2> QED
    BY <1>4, <2>1, RebindOwns
<1>12. Becomes([HeldNow EXCEPT ![r] = v], Promise!Owns(r, ~own))
  <2>1. target \in LuaStates \cup {Moved}
    OBVIOUS
  <2>2. Spares({r})
    BY <1>8, <2>1, ReseatsSpares
  <2> QED
    BY <1>6, <1>10, <1>11, <2>2, OneChanges
<1> QED
  BY <1>12, BindMaps

\* A call into a closed state changes nothing before it ends the program.
LEMMA CrashMaps ==
  ASSUME Inv, Crash
  PROVE  HeldNow' = HeldNow /\ Borrowing' = Borrowing
<1>1. \A q \in Refs : HeldBy(q)' = HeldBy(q) /\ OwnedBy(q)' = OwnedBy(q)
  BY DEF Crash, HeldBy, OwnedBy, Valid, Usable
<1> QED
  BY <1>1 DEF HeldNow, Borrowing

Maps == Promise!Next \/ (HeldNow' = HeldNow /\ Borrowing' = Borrowing)

\* A copy holds what the original holds (reference.hpp:43-50).
LEMMA CopyCtorMaps ==
  ASSUME Inv, Inv', NEW r \in Refs, NEW o \in Refs, CopyCtor(r, o)
  PROVE  Maps
<1>1. CASE Dangling(o)
  BY <1>1, CrashMaps DEF CopyCtor, Maps
<1>2. CASE ~Dangling(o)
  <2>1. PICK s \in IF Valid(o) THEN FreeSlots(at[o]) ELSE {NOREF} :
          /\ Construct(r, at[o], s)
          /\ Own!Rebind(r, OwnedBy(o))
          /\ registry' = IF Valid(o)
                         THEN Stored(registry, at[o], s, registry[at[o]][idx[o]])
                         ELSE registry
    BY <1>2 DEF CopyCtor
  <2>2. r \notin alive /\ o \in alive
    BY DEF CopyCtor
  <2>3. /\ alive' = alive \cup {r} /\ at' = [at EXCEPT ![r] = at[o]]
        /\ idx' = [idx EXCEPT ![r] = s]
        /\ at'[r] = at[o] /\ idx'[r] = s /\ r \in alive'
    BY <2>1 DEF Construct, Inv, TypeOK
  <2>4. \A M \in LuaStates, t \in Slots :
          registry'[M][t] = IF Valid(o) /\ M = at[o] /\ t = s THEN registry[at[o]][idx[o]]
                            ELSE registry[M][t]
    <3>1. registry \in Registries
      BY DEF Inv, TypeOK, Registries
    <3>2. CASE Valid(o)
      BY <1>2, <2>1, <2>2, <3>1, <3>2, NotDangling, StoredOp
    <3>3. CASE ~Valid(o)
      BY <2>1, <3>1, <3>3
    <3> QED
      BY <3>2, <3>3
  <2>5. IF Valid(o) THEN s \in Slots /\ registry[at[o]][s] = Free /\ at[o] \in LuaStates
                    ELSE s = NOREF
    BY <1>2, <2>1, <2>2, NotDangling DEF FreeSlots
  <2>6. LuaSteps
    BY <2>1, OwnedByType, RebindSteps DEF Inv
  <2>7. ClosedStay
    BY <2>6 DEF LuaSteps, ClosedStay, Inv, TypeOK
  <2>8. ASSUME NEW q \in alive \ {r}, idx[q] \in Slots, at[q] \in LuaStates, lua'[at[q]] # "closed"
        PROVE  registry'[at[q]][idx[q]] = registry[at[q]][idx[q]]
    <3>1. lua[at[q]] = "open"
      BY <2>7, <2>8, StillOpen
    <3>2. registry[at[q]][idx[q]] # Free
      BY <2>8, <3>1 DEF Inv, OneSlotEach
    <3> QED
      BY <2>4, <2>5, <2>8, <3>2
  <2>9. Reseats(r, OwnedBy(o))
    BY <2>1, <2>3, <2>8 DEF Reseats, Inv, TypeOK
  <2>10. Spares({r})
    BY <2>9, OwnedByType, ReseatsSpares
  <2>11. OwnedBy(r)' = Moved <=> OwnedBy(o) = Moved
    BY <2>1, <2>3, OwnedByType, RebindOwns
  <2>12. HeldBy(r)' = IF r \in Stranded' THEN LuaNil ELSE HeldBy(o)
    <3>1. CASE Valid(o)
      <4>1. HeldBy(o) = registry[at[o]][idx[o]]
        BY <1>2, <2>2, <3>1 DEF HeldBy, Dangling
      <4> QED
        BY <2>3, <2>4, <2>5, <3>1, <4>1, HeldDefNext
    <3>2. CASE ~Valid(o)
      <4>1. HeldBy(o) = LuaNil
        BY <3>2 DEF HeldBy
      <4> QED
        BY <2>3, <2>5, <3>2, <4>1, HeldDefNext, RefsAssumption
    <3> QED
      BY <3>1, <3>2
  <2>13. Becomes([HeldNow EXCEPT ![r] = HeldBy(o)], Promise!Owns(r, OwnedBy(o) = Moved))
    BY <2>7, <2>10, <2>11, <2>12, OneChanges
  <2> QED
    BY <2>13, CopyMaps DEF Maps
<1> QED
  BY <1>1, <1>2

\* The members of r and o and their handles change, in a step that takes the state of o
\* over into r.
Shifts(r, o) ==
  /\ Own!Transfer(o, r)
  /\ at' = [at EXCEPT ![r] = at[o], ![o] = Moved]
  /\ idx' = [idx EXCEPT ![r] = idx[o], ![o] = NOREF]
  /\ alive' = alive \cup {r}
  /\ o \in alive
  /\ \A q \in alive \ {r} : idx[q] \in Slots /\ at[q] \in LuaStates /\ lua'[at[q]] # "closed" =>
       registry'[at[q]][idx[q]] = registry[at[q]][idx[q]]

\* A step that takes the slot and the handle of o over moves its value
\* (reference.hpp:52, 68-73).
LEMMA ShiftsMaps ==
  ASSUME Inv, Inv', NEW r \in Refs, NEW o \in Refs, r # o, Shifts(r, o)
  PROVE  Promise!Next
<1>1. LuaSteps
  BY TransferSteps DEF Inv, Shifts
<1>2. ClosedStay
  BY <1>1 DEF LuaSteps, ClosedStay, Inv, TypeOK
<1>3. \A q \in Refs \ {r, o}, L \in LuaStates : q \in owners'[L] <=> q \in owners[L]
  BY DEF Shifts, Own!Transfer
<1>4. \A q \in Refs \ {r, o} : q \in alive /\ idx[q] \in Slots /\ q \notin Stranded' =>
        registry'[at[q]][idx[q]] = registry[at[q]][idx[q]]
  BY SlotHasState DEF Shifts, Stranded, Inv, TypeOK
<1>5. Spares({r, o})
  BY <1>3, <1>4 DEF Spares, Shifts, Inv, TypeOK
<1>6. /\ at'[r] = at[o] /\ idx'[r] = idx[o] /\ at'[o] = Moved /\ idx'[o] = NOREF
      /\ r \in alive' /\ o \in alive
  BY DEF Shifts, Inv, TypeOK
<1>7. HeldBy(o)' = LuaNil
  BY <1>6, HeldDefNext, RefsAssumption
<1>8. OwnedBy(o)' = Moved
  BY <1>6, RefsAssumption DEF OwnedBy
<1>9. OwnedBy(r)' = Moved <=> OwnedBy(o) = Moved
  BY <1>6, RefsAssumption DEF OwnedBy, Shifts, Own!Transfer, Inv, TypeOK, OwnersKeepOpen
<1>10. HeldBy(r)' = IF r \in Stranded' THEN LuaNil ELSE HeldBy(o)
  <2>1. ASSUME idx[o] \in Slots, r \notin Stranded'
        PROVE  registry'[at[o]][idx[o]] = registry[at[o]][idx[o]] /\ o \notin Stranded
    <3>1. at[o] \in LuaStates /\ lua'[at[o]] # "closed"
      BY <1>6, <2>1, SlotHasState DEF Stranded
    <3> QED
      BY <1>2, <1>6, <2>1, <3>1 DEF Shifts, Stranded, ClosedStay
  <2> QED
    BY <1>6, <2>1, HeldDef, HeldDefNext
<1>11. Becomes([HeldNow EXCEPT ![r] = HeldBy(o), ![o] = LuaNil],
               Promise!Owns(r, OwnedBy(o) = Moved) \cup {o})
  BY <1>2, <1>5, <1>7, <1>8, <1>9, <1>10, TwoChange
<1> QED
  BY <1>11, MoveMaps

\* A move takes the slot over (reference.hpp:52-52).
LEMMA MoveCtorMaps ==
  ASSUME Inv, Inv', NEW r \in Refs, NEW o \in Refs, MoveCtor(r, o)
  PROVE  Promise!Next
<1>1. r # o /\ Shifts(r, o)
  BY DEF MoveCtor, Shifts
<1> QED
  BY <1>1, ShiftsMaps

\* A reference that frees its slot and lets go of its handle holds nothing
\* (reference.hpp:54-58, 61-63, 69-71).
LEMMA ReleaseMaps ==
  ASSUME Inv, Inv', NEW r \in alive, Own!Rebind(r, Moved),
         \A q \in Refs \ {r} : q \in alive' <=> q \in alive,
         at' = [at EXCEPT ![r] = Moved], idx' = [idx EXCEPT ![r] = NOREF],
         registry' = Surviving(Unreferenced(registry, r))
  PROVE  Promise!Next
<1>0. r \in Refs /\ registry \in Registries
  BY DEF Inv, TypeOK, Registries
<1>1. LuaSteps
  BY <1>0, RebindSteps DEF Inv
<1>2. ClosedStay
  BY <1>1 DEF LuaSteps, ClosedStay, Inv, TypeOK
<1>3. \A M \in LuaStates, t \in Slots : lua'[M] # "closed" =>
        registry'[M][t] = IF M = at[r] /\ t = idx[r] THEN Free ELSE registry[M][t]
  BY <1>0, UnrefSurviving
<1>4. ASSUME NEW q \in alive \ {r}, idx[q] \in Slots, at[q] \in LuaStates, lua'[at[q]] # "closed"
      PROVE  registry'[at[q]][idx[q]] = registry[at[q]][idx[q]]
  <2>1. lua[at[q]] = "open"
    BY <1>2, <1>4, StillOpen
  <2>2. ~(at[q] = at[r] /\ idx[q] = idx[r])
    BY <1>4, <2>1, OwnSlot
  <2> QED
    BY <1>3, <1>4, <2>2
<1>5. Reseats(r, Moved)
  BY <1>0, <1>4 DEF Reseats, Inv, TypeOK
<1>6. Spares({r})
  BY <1>0, <1>5, ReseatsSpares
<1>7. at'[r] = Moved /\ idx'[r] = NOREF
  BY <1>0 DEF Inv, TypeOK
<1>8. HeldBy(r)' = LuaNil
  BY <1>0, <1>7, HeldDefNext, RefsAssumption
<1>9. OwnedBy(r)' = Moved
  BY <1>7, RefsAssumption DEF OwnedBy
<1>10. Becomes([HeldNow EXCEPT ![r] = LuaNil], Promise!Owns(r, TRUE))
  BY <1>0, <1>2, <1>6, <1>8, <1>9, OneChanges
<1> QED
  BY <1>0, <1>10, DropMaps

\* A reference that ends gives its slot back (reference.hpp:54-58).
LEMMA DestroyMaps ==
  ASSUME Inv, Inv', NEW r \in Refs, Destroy(r)
  PROVE  Maps
<1>1. CASE Dangling(r)
  BY <1>1, CrashMaps DEF Destroy, Maps
<1>2. CASE ~Dangling(r)
  <2>1. /\ r \in alive /\ Own!Rebind(r, Moved) /\ alive' = alive \ {r}
        /\ at' = [at EXCEPT ![r] = Moved] /\ idx' = [idx EXCEPT ![r] = NOREF]
        /\ registry' = Surviving(Unreferenced(registry, r))
    BY <1>2 DEF Destroy
  <2>2. \A q \in Refs \ {r} : q \in alive' <=> q \in alive
    BY <2>1
  <2> QED
    BY <2>1, <2>2, ReleaseMaps DEF Maps
<1> QED
  BY <1>1, <1>2

\* An assignment that throws has dropped the old value (reference.hpp:60-73).
LEMMA LostMaps ==
  ASSUME Inv, Inv', NEW r \in alive, NEW t, Lost(r, t)
  PROVE  Promise!Next
BY ReleaseMaps DEF Lost

\* An assigned reference holds what the other one holds; the slot it had is freed after
\* the new one is taken (reference.hpp:60-66).
LEMMA CopyAssignMaps ==
  ASSUME Inv, Inv', NEW r \in Refs, NEW o \in Refs, CopyAssign(r, o)
  PROVE  Maps
<1>0. r \in alive /\ o \in alive
  BY DEF CopyAssign
<1>1. CASE Crash
  BY <1>1, CrashMaps DEF Maps
<1>2. CASE Lost(r, TRUE)
  BY <1>0, <1>2, LostMaps DEF Maps
<1>3. CASE ~Crash /\ ~Lost(r, TRUE)
  <2>1. ~Dangling(r) /\ o # r /\ at[o] # Moved /\ Usable(at[o])
    BY <1>3 DEF CopyAssign
  <2>2. PICK s \in FreeSlots(at[o]) \cup {REFNIL} :
          /\ MayRef(at[o], Fetched(o), s)
          /\ at' = [at EXCEPT ![r] = at[o]]
          /\ idx' = [idx EXCEPT ![r] = s]
          /\ Own!Rebind(r, OwnedBy(o))
          /\ registry' = Surviving(Unreferenced(Stored(registry, at[o], s, Fetched(o)), r))
          /\ UNCHANGED <<alive>>
    BY <1>3, <2>1 DEF CopyAssign
  <2>3. HeldBy(o) = Fetched(o)
    BY <1>0, <2>1 DEF HeldBy, Fetched
  <2>4. Fetched(o) \in Values \cup {LuaNil}
    BY <1>0, <2>1, NotDangling DEF Fetched, Dangling
  <2>5. at[o] \in LuaStates /\ (s \in Slots <=> s # REFNIL)
        /\ (s \in Slots => registry[at[o]][s] = Free) /\ (s \notin Slots => Fetched(o) = LuaNil)
    BY <2>1, <2>2, RefsAssumption DEF Usable, FreeSlots, MayRef
  <2>6. LuaSteps
    BY <2>2, OwnedByType, RebindSteps DEF Inv
  <2>7. ClosedStay
    BY <2>6 DEF LuaSteps, ClosedStay, Inv, TypeOK
  <2>8. \A M \in LuaStates, t \in Slots : lua'[M] # "closed" =>
          registry'[M][t] = IF M = at[r] /\ t = idx[r] THEN Free
                            ELSE IF M = at[o] /\ t = s THEN Fetched(o) ELSE registry[M][t]
    <3>1. registry \in Registries
      BY DEF Inv, TypeOK, Registries
    <3> DEFINE reg == Stored(registry, at[o], s, Fetched(o))
    <3>2. reg \in Registries /\ \A M \in LuaStates, t \in Slots :
            reg[M][t] = IF M = at[o] /\ t = s THEN Fetched(o) ELSE registry[M][t]
      BY <2>4, <2>5, <3>1, StoredOp
    <3>3. registry' = Surviving(Unreferenced(reg, r))
      BY <2>2
    <3> HIDE DEF reg
    <3> QED
      BY <3>2, <3>3, UnrefSurviving
  <2>9. ASSUME NEW q \in alive \ {r}, idx[q] \in Slots, at[q] \in LuaStates, lua'[at[q]] # "closed"
        PROVE  registry'[at[q]][idx[q]] = registry[at[q]][idx[q]]
    <3>1. lua[at[q]] = "open"
      BY <2>7, <2>9, StillOpen
    <3>2. registry[at[q]][idx[q]] # Free /\ ~(at[q] = at[r] /\ idx[q] = idx[r])
      BY <1>0, <2>9, <3>1, OwnSlot
    <3> QED
      BY <2>5, <2>8, <2>9, <3>2
  <2>10. at'[r] = at[o] /\ idx'[r] = s /\ r \in alive'
    BY <1>0, <2>2 DEF Inv, TypeOK
  <2>11. Reseats(r, OwnedBy(o))
    BY <2>2, <2>9 DEF Reseats, Inv, TypeOK
  <2>12. Spares({r})
    BY <2>11, OwnedByType, ReseatsSpares
  <2>13. OwnedBy(r)' = Moved <=> OwnedBy(o) = Moved
    BY <2>2, <2>10, OwnedByType, RebindOwns
  <2>14. HeldBy(r)' = IF r \in Stranded' THEN LuaNil ELSE HeldBy(o)
    <3>1. ASSUME s \in Slots, r \notin Stranded'
          PROVE  registry'[at[o]][s] = Fetched(o)
      <4>1. lua'[at[o]] # "closed"
        BY <2>5, <2>10, <3>1 DEF Stranded
      <4>2. ~(at[o] = at[r] /\ s = idx[r])
        BY <1>0, <2>1, <2>5, <3>1 DEF Usable, Inv, OneSlotEach
      <4> QED
        BY <2>5, <2>8, <3>1, <4>1, <4>2
    <3> QED
      BY <2>3, <2>5, <2>10, <3>1, HeldDefNext
  <2>15. Becomes([HeldNow EXCEPT ![r] = HeldBy(o)], Promise!Owns(r, OwnedBy(o) = Moved))
    BY <2>7, <2>12, <2>13, <2>14, OneChanges
  <2> QED
    BY <2>15, CopyMaps DEF Maps
<1> QED
  BY <1>1, <1>2, <1>3

\* An assigned reference takes over what the other one holds (reference.hpp:68-73).
LEMMA MoveAssignMaps ==
  ASSUME Inv, Inv', NEW r \in Refs, NEW o \in Refs, MoveAssign(r, o)
  PROVE  Maps
<1>0. r \in alive /\ o \in alive
  BY DEF MoveAssign
<1>1. CASE Crash
  BY <1>1, CrashMaps DEF Maps
<1>2. CASE Lost(r, FALSE)
  BY <1>0, <1>2, LostMaps DEF Maps
<1>3. CASE ~Crash /\ ~Lost(r, FALSE)
  <2>1. o # r
    BY <1>3 DEF MoveAssign
  <2>2. /\ at' = [at EXCEPT ![r] = at[o], ![o] = Moved]
        /\ idx' = [idx EXCEPT ![r] = idx[o], ![o] = NOREF]
        /\ Own!Transfer(o, r)
        /\ registry' = Surviving(Unreferenced(registry, r))
        /\ UNCHANGED <<alive>>
    BY <1>3, <2>1 DEF MoveAssign
  <2>3. LuaSteps
    BY <2>2, TransferSteps DEF Inv
  <2>4. ClosedStay
    BY <2>3 DEF LuaSteps, ClosedStay, Inv, TypeOK
  <2>5. \A M \in LuaStates, t \in Slots : lua'[M] # "closed" =>
          registry'[M][t] = IF M = at[r] /\ t = idx[r] THEN Free ELSE registry[M][t]
    <3>1. registry \in Registries
      BY DEF Inv, TypeOK, Registries
    <3> QED
      BY <2>2, <3>1, UnrefSurviving
  <2>6. ASSUME NEW q \in alive \ {r}, idx[q] \in Slots, at[q] \in LuaStates, lua'[at[q]] # "closed"
        PROVE  registry'[at[q]][idx[q]] = registry[at[q]][idx[q]]
    <3>1. lua[at[q]] = "open"
      BY <2>4, <2>6, StillOpen
    <3>2. ~(at[q] = at[r] /\ idx[q] = idx[r])
      BY <1>0, <2>6, <3>1, OwnSlot
    <3> QED
      BY <2>5, <2>6, <3>2
  <2>7. Shifts(r, o)
    BY <1>0, <2>2, <2>6 DEF Shifts
  <2> QED
    BY <2>1, <2>7, ShiftsMaps DEF Maps
<1> QED
  BY <1>1, <1>2, <1>3

\* Every operation of reference is one of RootedValues, or changes nothing there.
LEMMA StepMaps == Inv /\ Inv' /\ [Next]_vars => [Promise!Next]_(Promise!vars)
<1> SUFFICES ASSUME Inv, Inv', [Next]_vars PROVE [Promise!Next]_(Promise!vars)
  OBVIOUS
<1>1. Maps
  <2>1. CASE UNCHANGED vars
    <3>1. \A q \in Refs : HeldBy(q)' = HeldBy(q) /\ OwnedBy(q)' = OwnedBy(q)
      BY <2>1 DEF vars, HeldBy, OwnedBy, Valid, Usable
    <3> QED
      BY <3>1 DEF Maps, HeldNow, Borrowing
  <2>2. CASE Step
    <3>1. \A h \in Hosts, L \in LuaStates : OpenHost(h, L) => Maps
      BY OpenHostMaps DEF Maps
    <3>2. \A h \in Hosts : CloseHost(h) => Maps
      BY CloseHostMaps DEF Maps
    <3>3. \A r \in Refs : Default(r) \/ Destroy(r) => Maps
      BY DefaultMaps, DestroyMaps DEF Maps
    <3>4. \A r \in Refs, L \in LuaStates, own \in BOOLEAN, v \in Values \cup {LuaNil},
             s \in Slots \cup {REFNIL} : FromStack(r, L, own, v, s) => Maps
      BY FromStackMaps DEF Maps
    <3>5. \A r, o \in Refs : CopyCtor(r, o) \/ MoveCtor(r, o) => Maps
      BY CopyCtorMaps, MoveCtorMaps DEF Maps
    <3>6. \A r, o \in Refs : CopyAssign(r, o) \/ MoveAssign(r, o) => Maps
      BY CopyAssignMaps, MoveAssignMaps
    <3> QED
      BY <2>2, <3>1, <3>2, <3>3, <3>4, <3>5, <3>6 DEF Step
  <2> QED
    BY <2>1, <2>2 DEF Next, Halted
<1>2. Promise!vars' = Promise!vars <=> HeldNow' = HeldNow /\ Borrowing' = Borrowing
  BY DEF Promise!vars, HeldNow, Borrowing
<1> QED
  BY <1>1, <1>2 DEF Maps

\* No reference holds anything at first (reference.hpp:28-32).
LEMMA InitMaps == Init => Promise!Init
<1> SUFFICES ASSUME Init PROVE Promise!Init
  OBVIOUS
<1>1. \A q \in Refs : HeldBy(q) = LuaNil /\ OwnedBy(q) = Moved
  BY RefsAssumption DEF Init, HeldBy, OwnedBy
<1> QED
  BY <1>1 DEF Promise!Init

\* References hold what they were given until they are themselves assigned, moved from or
\* destroyed, or, when they do not own their state, until its last owner closes it: no
\* freed slot ever changes what another reference holds (reference.hpp:34-73).
THEOREM ReferencesRootValues == Spec => ImplementsRootedValues
<1> QED
  BY InitMaps, StepMaps, Invariant, PTL DEF Spec, ImplementsRootedValues, Promise!Spec
=============================================================================
