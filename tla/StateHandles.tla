---------------------------- MODULE StateHandles ----------------------------
(***************************************************************************)
(* tlw::state (include/tlw/state.hpp): a hand-written shared pointer to a  *)
(* Lua state.  A handle points at a heap cell, the state_holder, that      *)
(* carries the lua_State* and a count whose SIGN is the kind of ownership: *)
(* it counts up from 1 when tlw opened the state (the last handle closes   *)
(* it) and down from -1 when the state is only borrowed from the host (the *)
(* last handle frees the cell and leaves the state alone).  A tlw::stack   *)
(* (include/tlw/stack.hpp) is a handle with copies of its own.             *)
(*                                                                         *)
(* One step is one constructor, assignment or destructor: the library has  *)
(* no threads, so nothing happens between the lines of one of them.        *)
(***************************************************************************)
EXTENDS Integers, FiniteSets

CONSTANTS
  Handles,     \* C++ objects of class state
  Stacks,      \* those of them that are the member of a stack
  Holders,     \* heap cells of class state_holder
  LuaStates,   \* addresses luaL_newstate may return or the host may hand in
  Foreign,     \* those of them that the host opened
  Nil          \* nullptr, as a holder and as a lua_State

ASSUME HandlesAssumption ==
  /\ IsFiniteSet(Handles)
  /\ Stacks \subseteq Handles
  /\ Foreign \subseteq LuaStates
  /\ Nil \notin Holders \cup LuaStates

VARIABLES
  live,        \* handles constructed and not yet destroyed
  holder,      \* holder[h] : member state::holder of handle h
  alloc,       \* holders allocated and not yet deleted
  lstate,      \* lstate[c] : member L of holder c
  ref_count,   \* ref_count[c] : member ref_count of holder c
  lua,         \* lua[L] : "unused", "open" or "closed"
  fault        \* freed memory has been read: the program has no meaning any more

vars == <<live, holder, alloc, lstate, ref_count, lua, fault>>

Init ==
  /\ live = {}
  /\ holder = [h \in Handles |-> Nil]
  /\ alloc = {}
  /\ lstate = [c \in Holders |-> Nil]
  /\ ref_count = [c \in Holders |-> 0]
  /\ lua = [L \in LuaStates |-> IF L \in Foreign THEN "open" ELSE "unused"]
  /\ fault = FALSE

Users(c) == {h \in live : holder[h] = c}

\* (Mistake: every copy counts up, a borrowed one too.)
RetainedUnsigned(n) == n + 1

\* A count is moved away from zero by a copy and towards zero by invalidate().
Retained(n) == IF n > 0 THEN n + 1 ELSE n - 1
Released(n) == IF n > 0 THEN n - 1 ELSE n + 1

(***************************************************************************)
(* invalidate(): the memory after handle h has let go of its holder.       *)
(***************************************************************************)
Dies(h) == holder[h] # Nil /\ Released(ref_count[holder[h]]) = 0

\* (Mistake: the holder is deleted with any of its handles.)
AllocAfterAnyUser(h) == alloc \ {holder[h]}

AllocAfter(h) == IF Dies(h) THEN alloc \ {holder[h]} ELSE alloc

CountAfter(h) ==
  IF holder[h] = Nil THEN ref_count
  ELSE [ref_count EXCEPT ![holder[h]] = Released(@)]

\* (Mistake: the state is never closed.)
LuaAfterLeak(h) == lua

LuaAfter(h) ==
  IF Dies(h) /\ ref_count[holder[h]] > 0
  THEN [lua EXCEPT ![lstate[holder[h]]] = "closed"]
  ELSE lua

\* (Mistake: a copy of the pointer is not counted.)
SharedUncounted(count, c) == count

\* The counts once a copy of the pointer c has been registered in it.
Shared(count, c) ==
  IF c = Nil THEN count ELSE [count EXCEPT ![c] = Retained(@)]

(***************************************************************************)
(* Constructors and destructor.                                            *)
(***************************************************************************)
Allocate(h, c, L, n) ==
  /\ h \notin live
  /\ c \notin alloc
  /\ live' = live \cup {h}
  /\ alloc' = alloc \cup {c}
  /\ holder' = [holder EXCEPT ![h] = c]
  /\ lstate' = [lstate EXCEPT ![c] = L]
  /\ ref_count' = [ref_count EXCEPT ![c] = n]
  /\ UNCHANGED fault

\* state(): luaL_newstate and a holder counting from 1.
New(h, c, L) ==
  /\ lua[L] = "unused"
  /\ Allocate(h, c, L, 1)
  /\ lua' = [lua EXCEPT ![L] = "open"]

\* state(lua_State*): somebody's open state, or the null of a default reference.
Wrap(h, c, L) ==
  /\ L # Nil => lua[L] = "open"
  /\ Allocate(h, c, L, -1)
  /\ UNCHANGED lua

\* state::invalid_state(): a handle without a holder.
Invalid(h) ==
  /\ h \notin live
  /\ live' = live \cup {h}
  /\ UNCHANGED <<holder, alloc, lstate, ref_count, lua, fault>>

\* state(const state &o)
CopyCtor(h, o) ==
  /\ h \notin live /\ o \in live
  /\ live' = live \cup {h}
  /\ holder' = [holder EXCEPT ![h] = holder[o]]
  /\ ref_count' = Shared(ref_count, holder[o])
  /\ UNCHANGED <<alloc, lstate, lua, fault>>

\* state(state &&o)
MoveCtor(h, o) ==
  /\ h \notin live /\ o \in live
  /\ live' = live \cup {h}
  /\ holder' = [holder EXCEPT ![h] = holder[o], ![o] = Nil]
  /\ UNCHANGED <<alloc, lstate, ref_count, lua, fault>>

\* ~state()
Destroy(h) ==
  /\ h \in live
  /\ live' = live \ {h}
  /\ holder' = [holder EXCEPT ![h] = Nil]
  /\ alloc' = AllocAfter(h)
  /\ ref_count' = CountAfter(h)
  /\ lua' = LuaAfter(h)
  /\ UNCHANGED <<lstate, fault>>

(***************************************************************************)
(* Assignments.  Both let go of the old holder BEFORE they look at other.  *)
(***************************************************************************)
\* The holder operator= is about to read was deleted by its own invalidate().
ReadsFreed(h, o) == holder[o] # Nil /\ holder[o] \notin AllocAfter(h)

\* operator=(state const &)
CopyAssign(h, o) ==
  /\ h \in live /\ o \in live
  /\ alloc' = AllocAfter(h)
  /\ lua' = LuaAfter(h)
  /\ holder' = [holder EXCEPT ![h] = holder[o]]
  /\ IF ReadsFreed(h, o)
     THEN ref_count' = CountAfter(h) /\ fault' = TRUE
     ELSE ref_count' = Shared(CountAfter(h), holder[o]) /\ fault' = fault
  /\ UNCHANGED <<live, lstate>>

\* operator=(state &&): on itself it just lets go.
MoveAssign(h, o) ==
  /\ h \in live /\ o \in live
  /\ alloc' = AllocAfter(h)
  /\ ref_count' = CountAfter(h)
  /\ lua' = LuaAfter(h)
  /\ holder' = [holder EXCEPT ![h] = holder[o], ![o] = Nil]
  /\ UNCHANGED <<live, lstate, fault>>

(***************************************************************************)
(* Stacks.  Their copies look at other first.                              *)
(***************************************************************************)
\* stack(const stack &o): its member starts as state() and gives that state back when it
\* is assigned.  The copy of an invalid stack keeps it.
StackCopy(h, o) ==
  /\ o \in live
  /\ IF holder[o] = Nil
     THEN \E c \in Holders, L \in LuaStates : New(h, c, L)
     ELSE CopyCtor(h, o)

\* operator=(const stack &o): an invalid stack is not assigned.
StackAssign(h, o) ==
  /\ h \in live /\ o \in live
  /\ IF holder[o] = Nil THEN UNCHANGED vars ELSE CopyAssign(h, o)

Step ==
  \/ \E h \in Handles, c \in Holders, L \in LuaStates : New(h, c, L)
  \/ \E h \in Handles, c \in Holders, L \in LuaStates \cup {Nil} : Wrap(h, c, L)
  \/ \E h \in Handles : Invalid(h) \/ Destroy(h)
  \/ \E h \in Handles, o \in Handles \ Stacks : CopyCtor(h, o) \/ MoveCtor(h, o)
  \/ \E h, o \in Handles \ Stacks : CopyAssign(h, o) \/ MoveAssign(h, o)
  \/ \E h, o \in Stacks : StackCopy(h, o) \/ StackAssign(h, o)

\* Nothing can be said of the program once it has read freed memory.
Halted == fault /\ UNCHANGED vars

Next == (~fault /\ Step) \/ Halted

Spec == Init /\ [][Next]_vars

(***************************************************************************)
(* Properties.                                                             *)
(***************************************************************************)
\* The variables keep the shape of the C++ members (state.hpp:28-37).
TypeOK ==
  /\ live \subseteq Handles
  /\ holder \in [Handles -> Holders \cup {Nil}]
  /\ alloc \subseteq Holders
  /\ lstate \in [Holders -> LuaStates \cup {Nil}]
  /\ ref_count \in [Holders -> Int]
  /\ lua \in [LuaStates -> {"unused", "open", "closed"}]
  /\ fault \in BOOLEAN

\* The signed count is, up to its sign, the number of handles that point at
\* the holder; no holder is leaked and no handle points at a deleted one, for
\* any sequence of copies, moves, self-assignments and destructions
\* (state.hpp:50-127), as long as no freed memory has been read.
CountIsExact ==
  ~fault => \A c \in Holders :
    /\ c \in alloc <=> Users(c) # {}
    /\ c \in alloc => \/ ref_count[c] = Cardinality(Users(c))
                      \/ ref_count[c] = - Cardinality(Users(c))

Owning(c) == c \in alloc /\ ref_count[c] > 0

\* A Lua state that tlw opened is open exactly while one holder owns it, and
\* never two: lua_close runs once, with the last owning handle and not before
\* (state.hpp:112-127).
OpenIffOwned ==
  \A L \in LuaStates \ Foreign :
    /\ lua[L] = "open" <=> \E c \in Holders : Owning(c) /\ lstate[c] = L
    /\ \A c, d \in Holders :
         Owning(c) /\ Owning(d) /\ lstate[c] = L /\ lstate[d] = L => c = d

\* However its handles are copied, moved and dropped, a state the host opened
\* is never closed by tlw: the count of a borrowed holder never crosses zero
\* (state.hpp:53-56, 79-82, 114-125).
ForeignNeverClosed == \A L \in Foreign : lua[L] = "open"

\* Some handle, alone on its holder, deletes that holder and keeps pointing at it.
LosesItsOwnHolder ==
  \E h \in live : /\ Users(holder[h]) = {h}
                 /\ alloc' = alloc \ {holder[h]}
                 /\ UNCHANGED <<live, holder>>

\* Freed memory is read in one situation only: a handle that is the only one
\* on its holder is copy-assigned to itself (state.hpp:75-79).
OnlySelfAssignFaults == [][fault' # fault => LosesItsOwnHolder]_vars

(***************************************************************************)
(* The abstract specification: owners instead of signed counts.            *)
(***************************************************************************)
OwnersOf(L) ==
  {h \in live : holder[h] # Nil /\ Owning(holder[h]) /\ lstate[holder[h]] = L}

Abstract == INSTANCE SharedOwnership
              WITH owners <- [L \in LuaStates |-> OwnersOf(L)], Nobody <- Nil

\* Every constructor, assignment and destructor of state does what shared
\* ownership allows: open, join, let go, hand over; a state is closed in the
\* very step in which its last owner lets go (state.hpp:44-127).
ImplementsSharedOwnership == Abstract!Spec
=============================================================================
