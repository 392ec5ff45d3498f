------------------------- MODULE StateHandlesProofs -------------------------
(***************************************************************************)
(* StateHandles for any number of handles, holders and Lua states: the     *)
(* types, the exact counts, and that a Lua state is open exactly while it  *)
(* is owned.                                                               *)
(*                                                                         *)
(* invalidate() and the registration of a copy are the two halves of every *)
(* operation, so the invariant is stated over a memory (alloc, ref_count,  *)
(* lua) and a family of users, and each half is shown to preserve it once. *)
(***************************************************************************)
EXTENDS StateHandles, FiniteSetTheorems, TLAPS

Exact(n, S) == n = Cardinality(S) \/ n = - Cardinality(S)

UsersNow == [c \in Holders |-> Users(c)]

\* The users of each holder once h has let go, and once h has taken c on.
Without(U, h) == [c \in Holders |-> U[c] \ {h}]
With(U, h, d) == [c \in Holders |-> IF c = d THEN U[c] \cup {h} ELSE U[c]]

\* The counts of the holders in al are those of the users U.
Fits(al, rc, U) ==
  /\ al \subseteq Holders
  /\ rc \in [Holders -> Int]
  /\ U \in [Holders -> SUBSET Handles]
  /\ \A c \in Holders : c \in al <=> U[c] # {}
  /\ \A c \in al : Exact(rc[c], U[c])

\* The Lua states tlw opened are open exactly while a holder owns them.
Owned(al, rc, ls, lu) ==
  /\ lu \in [LuaStates -> {"unused", "open", "closed"}]
  /\ \A c \in al : rc[c] > 0 => ls[c] \in LuaStates \ Foreign /\ lu[ls[c]] = "open"
  /\ \A L \in LuaStates \ Foreign :
       lu[L] = "open" => \E c \in al : rc[c] > 0 /\ ls[c] = L
  /\ \A c, d \in al : rc[c] > 0 /\ rc[d] > 0 /\ ls[c] = ls[d] => c = d
  /\ \A L \in Foreign : lu[L] = "open"

Inv ==
  /\ TypeOK
  /\ \A h \in Handles \ live : holder[h] = Nil
  /\ ~fault => Fits(alloc, ref_count, UsersNow)
  /\ Owned(alloc, ref_count, lstate, lua)

-----------------------------------------------------------------------------
(* Counting.                                                               *)

\* Every set of handles is finite and has a natural number of elements, which
\* is zero for the empty set only.
LEMMA UsersFinite ==
  ASSUME NEW S \in SUBSET Handles
  PROVE  /\ IsFiniteSet(S)
         /\ Cardinality(S) \in Nat
         /\ Cardinality(S) = 0 <=> S = {}
<1>1. IsFiniteSet(S)
  BY HandlesAssumption, FS_Subset
<1> QED
  BY <1>1, FS_CardinalityType, FS_EmptySet

\* A copy moves an exact count away from zero by one and keeps its sign
\* (state.hpp:53-56).
LEMMA RetainedExact ==
  ASSUME NEW S \in SUBSET Handles, S # {}, NEW h \in Handles, h \notin S,
         NEW n \in Int, Exact(n, S)
  PROVE  /\ Retained(n) \in Int
         /\ Exact(Retained(n), S \cup {h})
         /\ Retained(n) > 0 <=> n > 0
<1>1. Cardinality(S \cup {h}) = Cardinality(S) + 1
  BY UsersFinite, FS_AddElement
<1>2. Cardinality(S) \in Nat /\ Cardinality(S) > 0
  BY UsersFinite
<1> QED
  BY <1>1, <1>2 DEF Exact, Retained

\* invalidate() moves an exact count towards zero by one, reaches zero with the
\* last user only, and keeps the sign until then (state.hpp:114-121).
LEMMA ReleasedExact ==
  ASSUME NEW S \in SUBSET Handles, NEW h \in S, NEW n \in Int, Exact(n, S)
  PROVE  /\ Released(n) \in Int
         /\ Exact(Released(n), S \ {h})
         /\ Released(n) = 0 <=> S \ {h} = {}
         /\ Released(n) # 0 => (Released(n) > 0 <=> n > 0)
<1>1. Cardinality(S \ {h}) = Cardinality(S) - 1
  BY UsersFinite, FS_RemoveElement
<1>2. Cardinality(S) \in Nat /\ Cardinality(S) > 0
  BY UsersFinite
<1>3. Cardinality(S \ {h}) = 0 <=> S \ {h} = {}
  BY UsersFinite
<1> QED
  BY <1>1, <1>2, <1>3 DEF Exact, Released

-----------------------------------------------------------------------------
(* The two halves of an operation.                                         *)

\* invalidate() leaves a memory that fits the users without h.
LEMMA InvalidateFits ==
  ASSUME TypeOK, Fits(alloc, ref_count, UsersNow), NEW h \in live
  PROVE  Fits(AllocAfter(h), CountAfter(h), Without(UsersNow, h))
<1>1. \A c \in Holders : UsersNow[c] \in SUBSET Handles
  BY DEF TypeOK, UsersNow, Users
<1>2. CASE holder[h] = Nil
  <2>1. \A c \in Holders : UsersNow[c] \ {h} = UsersNow[c]
    BY <1>2, HandlesAssumption DEF UsersNow, Users
  <2> QED
    BY <1>2, <2>1 DEF Fits, Without, AllocAfter, Dies, CountAfter
<1>3. CASE holder[h] # Nil
  <2> DEFINE c == holder[h]
             S == UsersNow[c]
  <2>1. c \in Holders /\ h \in S /\ S \in SUBSET Handles
    BY <1>1, <1>3 DEF TypeOK, UsersNow, Users
  <2>2. c \in alloc /\ Exact(ref_count[c], S) /\ ref_count[c] \in Int
    BY <2>1 DEF Fits
  <2>3. /\ Released(ref_count[c]) \in Int
        /\ Exact(Released(ref_count[c]), S \ {h})
        /\ Released(ref_count[c]) = 0 <=> S \ {h} = {}
    <3> HIDE DEF c, S
    <3> QED
      BY <2>1, <2>2, ReleasedExact
  <2>4. \A d \in Holders \ {c} : UsersNow[d] \ {h} = UsersNow[d]
    BY DEF UsersNow, Users
  <2>5. CountAfter(h) = [ref_count EXCEPT ![c] = Released(@)]
    BY <1>3 DEF CountAfter
  <2>6. CountAfter(h) \in [Holders -> Int]
    BY <2>1, <2>3, <2>5 DEF Fits
  <2>7. AllocAfter(h) = IF S \ {h} = {} THEN alloc \ {c} ELSE alloc
    BY <1>3, <2>3 DEF AllocAfter, Dies
  <2>8. \A d \in Holders : d \in AllocAfter(h) <=> UsersNow[d] \ {h} # {}
    BY <2>1, <2>2, <2>4, <2>7 DEF Fits
  <2>9. \A d \in AllocAfter(h) : Exact(CountAfter(h)[d], UsersNow[d] \ {h})
    <3>1. \A d \in AllocAfter(h) : d \in alloc
      BY <2>7
    <3>2. \A d \in AllocAfter(h) \ {c} : Exact(CountAfter(h)[d], UsersNow[d] \ {h})
      BY <2>4, <2>5, <3>1 DEF Fits
    <3>3. CountAfter(h)[c] = Released(ref_count[c])
      BY <2>1, <2>5 DEF Fits
    <3> QED
      BY <2>3, <3>2, <3>3
  <2>10. Without(UsersNow, h) \in [Holders -> SUBSET Handles]
    BY <1>1 DEF Without
  <2> QED
    BY <2>6, <2>7, <2>8, <2>9, <2>10 DEF Fits, Without
<1> QED
  BY <1>2, <1>3

\* invalidate() closes a Lua state with its last owner and no other state.
LEMMA InvalidateOwned ==
  ASSUME TypeOK, Fits(alloc, ref_count, UsersNow),
         Owned(alloc, ref_count, lstate, lua), NEW h \in live
  PROVE  Owned(AllocAfter(h), CountAfter(h), lstate, LuaAfter(h))
<1>1. CASE holder[h] = Nil
  BY <1>1 DEF AllocAfter, CountAfter, LuaAfter, Dies
<1>2. CASE holder[h] # Nil
  <2> DEFINE c == holder[h]
             S == UsersNow[c]
  <2>1. c \in Holders /\ h \in S /\ S \in SUBSET Handles
    BY <1>2 DEF TypeOK, UsersNow, Users
  <2>2. c \in alloc /\ Exact(ref_count[c], S) /\ ref_count[c] \in Int
    BY <2>1 DEF Fits
  <2>3. Released(ref_count[c]) # 0 => (Released(ref_count[c]) > 0 <=> ref_count[c] > 0)
    BY <2>1, <2>2, ReleasedExact
  <2>4. /\ ref_count \in [Holders -> Int] /\ alloc \subseteq Holders
        /\ CountAfter(h) = [ref_count EXCEPT ![c] = Released(@)]
    BY <1>2 DEF CountAfter, Fits
  <2>5. CASE Dies(h)
    <3>1. AllocAfter(h) = alloc \ {c}
      BY <2>5 DEF AllocAfter
    <3>2. \A d \in AllocAfter(h) : CountAfter(h)[d] = ref_count[d]
      BY <2>4, <3>1
    <3>3. CASE ref_count[c] > 0
      <4>1. LuaAfter(h) = [lua EXCEPT ![lstate[c]] = "closed"]
        BY <2>5, <3>3 DEF LuaAfter
      <4>2. lstate[c] \in LuaStates \ Foreign
        BY <2>2, <3>3 DEF Owned
      <4> QED
        BY <2>2, <3>1, <3>2, <3>3, <4>1, <4>2, HandlesAssumption DEF Owned
    <3>4. CASE ~(ref_count[c] > 0)
      <4>1. LuaAfter(h) = lua
        BY <3>4 DEF LuaAfter
      <4> QED
        BY <2>2, <3>1, <3>2, <3>4, <4>1 DEF Owned
    <3> QED
      BY <3>3, <3>4
  <2>6. CASE ~Dies(h)
    <3>1. AllocAfter(h) = alloc /\ LuaAfter(h) = lua
      BY <2>6 DEF AllocAfter, LuaAfter
    <3>2. \A d \in alloc : CountAfter(h)[d] > 0 <=> ref_count[d] > 0
      BY <1>2, <2>1, <2>3, <2>4, <2>6 DEF Dies
    <3> QED
      BY <3>1, <3>2 DEF Owned
  <2> QED
    BY <2>5, <2>6
<1> QED
  BY <1>1, <1>2

\* Registering the copy h in the holder c keeps the counts exact and every
\* owner an owner (state.hpp:50-60, 77-85).
LEMMA SharedKeeps ==
  ASSUME NEW al, NEW rc, NEW U, Fits(al, rc, U), NEW ls, NEW lu, Owned(al, rc, ls, lu),
         NEW h \in Handles, NEW c \in al \cup {Nil}, \A d \in Holders : h \notin U[d]
  PROVE  Fits(al, Shared(rc, c), With(U, h, c)) /\ Owned(al, Shared(rc, c), ls, lu)
<1>1. CASE c = Nil
  <2>1. With(U, h, c) = U
    BY <1>1, HandlesAssumption DEF With, Fits
  <2> QED
    BY <1>1, <2>1 DEF Shared
<1>2. CASE c \in al
  <2>1. /\ c \in Holders /\ c # Nil
        /\ Shared(rc, c) = [rc EXCEPT ![c] = Retained(@)]
        /\ U[c] \in SUBSET Handles /\ U[c] # {} /\ rc[c] \in Int /\ Exact(rc[c], U[c])
    BY <1>2, HandlesAssumption DEF Fits, Shared
  <2>2. /\ Retained(rc[c]) \in Int
        /\ Exact(Retained(rc[c]), U[c] \cup {h})
        /\ Retained(rc[c]) > 0 <=> rc[c] > 0
    BY <2>1, RetainedExact
  <2>3. \A d \in al : Shared(rc, c)[d] > 0 <=> rc[d] > 0
    BY <2>1, <2>2 DEF Fits
  <2>4. Owned(al, Shared(rc, c), ls, lu)
    BY <2>3 DEF Owned
  <2>5. Shared(rc, c) \in [Holders -> Int]
    BY <2>1, <2>2 DEF Fits
  <2>6. With(U, h, c) \in [Holders -> SUBSET Handles]
    BY DEF With, Fits
  <2>7. \A d \in al : Exact(Shared(rc, c)[d], With(U, h, c)[d])
    BY <2>1, <2>2 DEF Fits, With
  <2>8. \A d \in Holders : d \in al <=> With(U, h, c)[d] # {}
    BY <2>1 DEF Fits, With
  <2> QED
    BY <2>4, <2>5, <2>6, <2>7, <2>8 DEF Fits
<1> QED
  BY <1>1, <1>2

\* Handing the holder c over from o to h leaves its count exact
\* (state.hpp:62-69, 91-92).
LEMMA HandOverKeeps ==
  ASSUME NEW al, NEW rc, NEW U, Fits(al, rc, U),
         NEW c \in Holders \cup {Nil}, NEW o \in Handles, NEW h \in Handles, o # h,
         \A d \in Holders : h \notin U[d] /\ (o \in U[d] <=> d = c)
  PROVE  Fits(al, rc, With(Without(U, o), h, c))
<1> DEFINE V == With(Without(U, o), h, c)
<1>1. \A d \in Holders \ {c} : V[d] = U[d]
  BY DEF With, Without, Fits
<1>2. V \in [Holders -> SUBSET Handles]
  BY DEF With, Without, Fits
<1>3. ASSUME c \in Holders
      PROVE  V[c] # {} /\ U[c] # {} /\ (Exact(rc[c], U[c]) => Exact(rc[c], V[c]))
  <2>1. V[c] = (U[c] \ {o}) \cup {h} /\ U[c] \in SUBSET Handles /\ o \in U[c]
    BY <1>3 DEF With, Without, Fits
  <2>2. Cardinality(U[c] \ {o}) = Cardinality(U[c]) - 1
    BY <2>1, UsersFinite, FS_RemoveElement
  <2>3. Cardinality(V[c]) = Cardinality(U[c] \ {o}) + 1
    <3>1. U[c] \ {o} \in SUBSET Handles /\ h \notin U[c] \ {o}
      BY <1>3, <2>1
    <3> QED
      BY <2>1, <3>1, UsersFinite, FS_AddElement
  <2>4. Cardinality(V[c]) = Cardinality(U[c])
    BY <2>1, <2>2, <2>3, UsersFinite
  <2> QED
    BY <2>1, <2>4 DEF Exact
<1>4. \A d \in Holders : d \in al <=> V[d] # {}
  BY <1>1, <1>3 DEF Fits
<1>5. \A d \in al : Exact(rc[d], V[d])
  BY <1>1, <1>3 DEF Fits
<1> QED
  BY <1>2, <1>4, <1>5 DEF Fits

-----------------------------------------------------------------------------
(* The invariant is inductive.                                             *)

\* Before the first constructor nothing is allocated and nothing is owned.
LEMMA InitInv == Init => Inv
<1> SUFFICES ASSUME Init PROVE Inv
  OBVIOUS
<1> USE HandlesAssumption DEF Init
<1>1. TypeOK
  <2>1. lua \in [LuaStates -> {"unused", "open", "closed"}]
    OBVIOUS
  <2>2. lstate \in [Holders -> LuaStates \cup {Nil}] /\ holder \in [Handles -> Holders \cup {Nil}]
    OBVIOUS
  <2>3. ref_count \in [Holders -> Int]
    OBVIOUS
  <2> QED
    BY <2>1, <2>2, <2>3 DEF TypeOK
<1>2. \A c \in Holders : UsersNow[c] = {}
  BY DEF UsersNow, Users
<1>3. Fits(alloc, ref_count, UsersNow)
  <2>1. UsersNow \in [Holders -> SUBSET Handles]
    BY DEF UsersNow, Users
  <2> QED
    BY <1>1, <1>2, <2>1 DEF Fits, TypeOK
<1>4. Owned(alloc, ref_count, lstate, lua)
  BY DEF Owned
<1> QED
  BY <1>1, <1>3, <1>4 DEF Inv

\* A handle is a user of its holder and of no other one.
LEMMA UsersDef ==
  ASSUME Inv, ~fault
  PROVE  /\ \A c \in Holders, h \in Handles :
              h \in UsersNow[c] <=> h \in live /\ holder[h] = c
         /\ \A h \in Handles : holder[h] \in alloc \cup {Nil}
         /\ \A h \in Handles \ live : holder[h] = Nil
<1>1. \A c \in Holders, h \in Handles :
        h \in UsersNow[c] <=> h \in live /\ holder[h] = c
  BY DEF Inv, TypeOK, UsersNow, Users
<1>2. \A h \in live : holder[h] # Nil => holder[h] \in alloc
  BY <1>1 DEF Inv, TypeOK, Fits
<1> QED
  BY <1>1, <1>2 DEF Inv

\* A constructor that allocates starts an exact count at 1 or at -1
\* (state.hpp:44-48).
LEMMA AllocateInv ==
  ASSUME Inv, ~fault, NEW h \in Handles, NEW c \in Holders,
         NEW L \in LuaStates \cup {Nil}, NEW n \in {1, -1},
         Allocate(h, c, L, n),
         \/ n = 1 /\ L # Nil /\ lua[L] = "unused" /\ lua' = [lua EXCEPT ![L] = "open"]
         \/ n = -1 /\ UNCHANGED lua
  PROVE  Inv'
<1> USE DEF Allocate
<1>1. TypeOK'
  BY DEF Inv, TypeOK
<1>2. (\A g \in Handles \ live : holder[g] = Nil)'
  BY DEF Inv, TypeOK
<1>3. UsersNow' = [UsersNow EXCEPT ![c] = {h}]
  <2>1. UsersNow'[c] = {h}
    BY UsersDef, HandlesAssumption DEF Inv, TypeOK, UsersNow, Users
  <2>2. \A d \in Holders \ {c} : UsersNow'[d] = UsersNow[d]
    BY UsersDef, HandlesAssumption DEF Inv, TypeOK, UsersNow, Users
  <2> QED
    BY <2>1, <2>2 DEF UsersNow
<1>4. Exact(n, {h})
  BY FS_Singleton DEF Exact
<1>5. Fits(alloc, ref_count, UsersNow)'
  BY <1>3, <1>4 DEF Inv, Fits
<1>6. Owned(alloc, ref_count, lstate, lua)'
  <2>1. Fits(alloc, ref_count, UsersNow) /\ Owned(alloc, ref_count, lstate, lua)
    BY DEF Inv
  <2>2. \A d \in alloc : d \in Holders /\ ref_count'[d] = ref_count[d] /\ lstate'[d] = lstate[d]
    BY <2>1 DEF Fits
  <2>3. ref_count'[c] = n /\ lstate'[c] = L
    BY DEF Inv, TypeOK
  <2> QED
    BY <2>1, <2>2, <2>3, HandlesAssumption DEF Owned
<1> QED
  BY <1>1, <1>2, <1>5, <1>6 DEF Inv
\* Copies, moves and destructions are an invalidate(), the registration of a
\* copy, or both, one after the other (state.hpp:50-94).
LEMMA StepInv == Inv /\ [Next]_vars => Inv'
<1> SUFFICES ASSUME Inv, [Next]_vars PROVE Inv'
  OBVIOUS
<1> USE DEF Inv
<1>0. CASE UNCHANGED vars
  BY <1>0 DEF vars, TypeOK, UsersNow, Users
<1>1. CASE Halted
  BY <1>1 DEF Halted, vars, TypeOK, UsersNow, Users
<1>2. CASE ~fault /\ Step
  <2> USE <1>2
  <2>0. /\ Fits(alloc, ref_count, UsersNow)
        /\ Owned(alloc, ref_count, lstate, lua)
        /\ alloc \subseteq Holders
    BY DEF TypeOK
  <2>1. ASSUME NEW h \in Handles, NEW c \in Holders, NEW L \in LuaStates, New(h, c, L)
        PROVE  Inv'
    BY <2>1, AllocateInv, HandlesAssumption DEF New
  <2>2. ASSUME NEW h \in Handles, NEW c \in Holders, NEW L \in LuaStates \cup {Nil},
               Wrap(h, c, L)
        PROVE  Inv'
    BY <2>2, AllocateInv DEF Wrap
  <2>3. ASSUME NEW h \in Handles, Invalid(h)
        PROVE  Inv'
    <3>1. UsersNow' = UsersNow
      BY <2>3, UsersDef, HandlesAssumption DEF Invalid, UsersNow, Users, TypeOK
    <3> QED
      BY <2>0, <2>3, <3>1 DEF Invalid, TypeOK
  <2>4. ASSUME NEW h \in Handles, Destroy(h)
        PROVE  Inv'
    <3> USE <2>4 DEF Destroy
    <3>1. UsersNow' = Without(UsersNow, h)
      BY HandlesAssumption DEF UsersNow, Users, Without, TypeOK
    <3>2. Fits(alloc, ref_count, UsersNow)'
      BY <2>0, <3>1, InvalidateFits
    <3>3. Owned(alloc, ref_count, lstate, lua)'
      BY <2>0, InvalidateOwned
    <3> QED
      BY <3>2, <3>3 DEF TypeOK, Fits, Owned
  <2>5. ASSUME NEW h \in Handles, NEW o \in Handles, CopyCtor(h, o)
        PROVE  Inv'
    <3> USE <2>5 DEF CopyCtor
    <3>1. UsersNow' = With(UsersNow, h, holder[o])
      BY UsersDef, HandlesAssumption DEF UsersNow, Users, With, TypeOK
    <3>2. Fits(alloc, ref_count, UsersNow)' /\ Owned(alloc, ref_count, lstate, lua)'
      BY <2>0, <3>1, UsersDef, SharedKeeps
    <3> QED
      BY <3>2, UsersDef DEF TypeOK, Fits, Owned
  <2>6. ASSUME NEW h \in Handles, NEW o \in Handles, MoveCtor(h, o)
        PROVE  Inv'
    <3> USE <2>6 DEF MoveCtor
    <3>1. UsersNow' = With(Without(UsersNow, o), h, holder[o])
      BY UsersDef, HandlesAssumption DEF UsersNow, Users, With, Without, TypeOK
    <3>2. /\ holder[o] \in Holders \cup {Nil} /\ o # h
          /\ \A d \in Holders : h \notin UsersNow[d] /\ (o \in UsersNow[d] <=> d = holder[o])
      BY UsersDef DEF TypeOK
    <3>3. Fits(alloc, ref_count, UsersNow)'
      BY <2>0, <3>1, <3>2, HandOverKeeps
    <3> QED
      BY <2>0, <3>3 DEF TypeOK
  <2>7. ASSUME NEW h \in Handles, NEW o \in Handles, CopyAssign(h, o)
        PROVE  Inv'
    <3> USE <2>7 DEF CopyAssign
    <3>1. Fits(AllocAfter(h), CountAfter(h), Without(UsersNow, h))
      BY <2>0, InvalidateFits
    <3>2. Owned(AllocAfter(h), CountAfter(h), lstate, LuaAfter(h))
      BY <2>0, InvalidateOwned
    <3>3. (\A g \in Handles \ live : holder[g] = Nil)'
      BY DEF TypeOK
    <3>4. CASE ReadsFreed(h, o)
      BY <3>1, <3>2, <3>3, <3>4 DEF TypeOK, Fits, Owned
    <3>5. CASE ~ReadsFreed(h, o)
      <4>1. UsersNow' = With(Without(UsersNow, h), h, holder[o])
        BY HandlesAssumption DEF UsersNow, Users, With, Without, TypeOK
      <4>2. holder[o] \in AllocAfter(h) \cup {Nil}
        BY <3>5 DEF ReadsFreed
      <4>3. \A d \in Holders : h \notin Without(UsersNow, h)[d]
        BY DEF Without
      <4>4. Fits(alloc, ref_count, UsersNow)' /\ Owned(alloc, ref_count, lstate, lua)'
        BY <3>1, <3>2, <3>5, <4>1, <4>2, <4>3, SharedKeeps
      <4> QED
        BY <3>3, <3>5, <4>4 DEF TypeOK, Fits, Owned
    <3> QED
      BY <3>4, <3>5
  <2>8. ASSUME NEW h \in Handles, NEW o \in Handles, MoveAssign(h, o)
        PROVE  Inv'
    <3> USE <2>8 DEF MoveAssign
    <3>1. Fits(AllocAfter(h), CountAfter(h), Without(UsersNow, h))
      BY <2>0, InvalidateFits
    <3>2. Owned(alloc, ref_count, lstate, lua)'
      BY <2>0, InvalidateOwned
    <3>3. CASE h = o
      <4>1. UsersNow' = Without(UsersNow, h)
        BY <3>3, HandlesAssumption DEF UsersNow, Users, Without, TypeOK
      <4> QED
        BY <3>1, <3>2, <3>3, <4>1 DEF TypeOK, Fits, Owned
    <3>4. CASE h # o
      <4> DEFINE U == Without(UsersNow, h)
      <4>1. UsersNow' = With(Without(U, o), h, holder[o])
        BY <3>4, HandlesAssumption DEF UsersNow, Users, With, Without, TypeOK
      <4>2. /\ holder[o] \in Holders \cup {Nil}
            /\ \A d \in Holders : h \notin U[d] /\ (o \in U[d] <=> d = holder[o])
        BY <3>4, UsersDef DEF TypeOK, Without
      <4>3. Fits(alloc, ref_count, UsersNow)'
        BY <3>1, <3>4, <4>1, <4>2, HandOverKeeps
      <4> QED
        BY <3>2, <4>3 DEF TypeOK, Fits, Owned
    <3> QED
      BY <3>3, <3>4
  <2>9. ASSUME NEW h \in Stacks, NEW o \in Stacks, StackCopy(h, o) \/ StackAssign(h, o)
        PROVE  Inv'
    <3>1. h \in Handles /\ o \in Handles
      BY HandlesAssumption
    <3>2. CASE StackCopy(h, o)
      BY <2>1, <2>5, <3>1, <3>2 DEF StackCopy
    <3>3. CASE StackAssign(h, o)
      BY <1>0, <2>7, <3>1, <3>3 DEF StackAssign
    <3> QED
      BY <2>9, <3>2, <3>3
  <2> QED
    BY <2>1, <2>2, <2>3, <2>4, <2>5, <2>6, <2>7, <2>8, <2>9 DEF Step
<1> QED
  BY <1>0, <1>1, <1>2 DEF Next

-----------------------------------------------------------------------------
(* Theorems.                                                               *)

\* Every reachable state satisfies the invariant the other theorems follow from.
THEOREM Invariant == Spec => []Inv
<1> QED
  BY InitInv, StepInv, PTL DEF Spec

\* The members of state and state_holder keep their types (state.hpp:28-37).
THEOREM TypeCorrect == Spec => []TypeOK
<1>1. Inv => TypeOK
  BY DEF Inv
<1> QED
  BY <1>1, Invariant, PTL

\* Whatever handles copy, move and drop, the signed count of every holder is the
\* number of its handles and a holder lives exactly while one points at it, until
\* freed memory is read (state.hpp:50-127).
THEOREM CountsExact == Spec => []CountIsExact
<1>1. Inv => CountIsExact
  BY DEF Inv, CountIsExact, Fits, Exact, UsersNow
<1> QED
  BY <1>1, Invariant, PTL

\* A Lua state tlw opened is open exactly while one, and only one, holder owns it
\* (state.hpp:44, 112-127).
THEOREM OpenExactlyWhileOwned == Spec => []OpenIffOwned
<1>1. Inv => OpenIffOwned
  BY DEF Inv, OpenIffOwned, Owned, Owning, TypeOK
<1> QED
  BY <1>1, Invariant, PTL

\* tlw never closes a Lua state that the host opened (state.hpp:47, 114-125).
THEOREM HostStatesUntouched == Spec => []ForeignNeverClosed
<1>1. Inv => ForeignNeverClosed
  BY DEF Inv, ForeignNeverClosed, Owned
<1> QED
  BY <1>1, Invariant, PTL
\* Freed memory is read only by the self-assignment of the single handle of a
\* holder (state.hpp:75-79).
THEOREM FaultHasOneCause == Spec => OnlySelfAssignFaults
<1>1. Inv /\ [Next]_vars => [fault' # fault => LosesItsOwnHolder]_vars
  <2> SUFFICES ASSUME Inv, Next, fault' # fault
               PROVE  LosesItsOwnHolder
    OBVIOUS
  <2>1. ~fault /\ Step
    BY DEF Next, Halted, vars
  <2>2. \E h, o \in Handles : CopyAssign(h, o) /\ ReadsFreed(h, o)
    BY <2>1, HandlesAssumption DEF Step, New, Wrap, Allocate, Invalid, Destroy, CopyCtor,
                MoveCtor, CopyAssign, MoveAssign, StackCopy, StackAssign, vars
  <2>3. PICK h \in Handles, o \in Handles : CopyAssign(h, o) /\ ReadsFreed(h, o)
    BY <2>2
  <2>4. h \in live /\ o \in live /\ holder[o] \in alloc \ AllocAfter(h)
    BY <2>1, <2>3, UsersDef DEF CopyAssign, ReadsFreed
  <2>5. holder[o] = holder[h] /\ Dies(h) /\ AllocAfter(h) = alloc \ {holder[h]}
    BY <2>4 DEF AllocAfter, Dies
  <2>6. Fits(AllocAfter(h), CountAfter(h), Without(UsersNow, h))
    BY <2>1, <2>4, InvalidateFits DEF Inv
  <2>7. UsersNow[holder[h]] \ {h} = {} /\ holder[h] \in Holders
    BY <2>4, <2>5, <2>6 DEF Fits, Without, Inv, TypeOK
  <2>8. Users(holder[h]) = {h} /\ o = h
    BY <2>4, <2>5, <2>7 DEF UsersNow, Users
  <2>9. UNCHANGED <<live, holder>> /\ alloc' = alloc \ {holder[h]}
    BY <2>3, <2>5, <2>8 DEF CopyAssign, Inv, TypeOK
  <2> QED
    BY <2>4, <2>8, <2>9 DEF LosesItsOwnHolder
<1> QED
  BY <1>1, Invariant, PTL DEF Spec, OnlySelfAssignFaults

-----------------------------------------------------------------------------
(* The counts implement the owners of SharedOwnership.                     *)

\* The holder c makes its handles owners of L.
Grants(c, L) == c \in alloc /\ ref_count[c] > 0 /\ lstate[c] = L

OwnersAre ==
  \A L \in LuaStates, g \in Handles : g \in OwnersOf(L) <=> g \in live /\ Grants(holder[g], L)

\* The abstract owners of a state are the handles that its holder makes owners.
LEMMA OwnersDef == Inv => OwnersAre
<1> SUFFICES ASSUME Inv PROVE OwnersAre
  OBVIOUS
<1>1. live \subseteq Handles /\ alloc \subseteq Holders /\ Nil \notin alloc
  BY HandlesAssumption DEF Inv, TypeOK
<1> QED
  BY <1>1 DEF OwnersAre, OwnersOf, Owning, Grants

\* The same of the next state.
LEMMA OwnersDefNext == Inv' => OwnersAre'
  BY OwnersDef, PTL

\* Registering a copy takes no ownership away and gives none.
LEMMA SharedSigns ==
  ASSUME NEW al \in SUBSET Holders, NEW rc \in [Holders -> Int], NEW c \in al \cup {Nil}
  PROVE  \A d \in al : Shared(rc, c)[d] > 0 <=> rc[d] > 0
  BY DEF Shared, Retained

\* What holders grant after h has let go, and perhaps taken on another one.
LEMMA LetGo ==
  ASSUME Inv, ~fault, NEW h \in live, alloc' = AllocAfter(h), lstate' = lstate,
         NEW d \in alloc' \cup {Nil}, ref_count' = Shared(CountAfter(h), d)
  PROVE  \A c, L : Grants(c, L)' <=> Grants(c, L) /\ Users(c) # {h}
<1>1. /\ Fits(alloc, ref_count, UsersNow) /\ h \in Handles
      /\ alloc \subseteq Holders /\ ref_count \in [Holders -> Int]
      /\ holder[h] \in Holders \cup {Nil}
  BY DEF Inv, TypeOK
<1>2. Fits(AllocAfter(h), CountAfter(h), Without(UsersNow, h))
  BY <1>1, InvalidateFits DEF Inv
<1>3. \A c \in Holders : c \in AllocAfter(h) <=> Users(c) \ {h} # {}
  BY <1>2 DEF Fits, Without, UsersNow
<1>4. \A c \in Holders : c \in alloc <=> Users(c) # {}
  BY <1>1 DEF Fits, UsersNow
<1>5. \A c \in Holders : c \in AllocAfter(h) <=> c \in alloc /\ Users(c) # {h}
  BY <1>3, <1>4
<1>6. ASSUME NEW c \in AllocAfter(h) PROVE CountAfter(h)[c] > 0 <=> ref_count[c] > 0
  <2>1. c \in Holders /\ c \in alloc
    BY <1>1, <1>5 DEF AllocAfter
  <2>2. CASE c # holder[h] \/ holder[h] = Nil
    BY <1>1, <2>1, <2>2 DEF CountAfter
  <2>3. CASE c = holder[h] /\ holder[h] # Nil
    <3>1. h \in UsersNow[c] /\ UsersNow[c] \in SUBSET Handles /\ Exact(ref_count[c], UsersNow[c])
      BY <1>1, <2>1, <2>3 DEF UsersNow, Users, Fits
    <3>2. /\ Released(ref_count[c]) = 0 <=> UsersNow[c] \ {h} = {}
          /\ Released(ref_count[c]) # 0 => (Released(ref_count[c]) > 0 <=> ref_count[c] > 0)
      <4> DEFINE n == ref_count[c]
                 S == UsersNow[c]
      <4>1. n \in Int /\ S \in SUBSET Handles /\ h \in S /\ Exact(n, S)
        BY <1>1, <2>1, <3>1
      <4> HIDE DEF n, S
      <4>2. /\ Released(n) = 0 <=> S \ {h} = {}
            /\ Released(n) # 0 => (Released(n) > 0 <=> n > 0)
        BY <4>1, ReleasedExact
      <4> QED
        BY <4>2 DEF n, S
    <3>3. UsersNow[c] \ {h} # {}
      BY <1>3, <2>1 DEF UsersNow
    <3> QED
      BY <1>1, <2>1, <2>3, <3>2, <3>3 DEF CountAfter
  <2> QED
    BY <2>2, <2>3
<1>7. ASSUME NEW c \in AllocAfter(h) PROVE ref_count'[c] > 0 <=> ref_count[c] > 0
  <2>1. AllocAfter(h) \in SUBSET Holders /\ CountAfter(h) \in [Holders -> Int]
    BY <1>2 DEF Fits
  <2> QED
    BY <1>6, <1>7, <2>1, SharedSigns
<1> QED
  BY <1>1, <1>5, <1>7 DEF Grants, AllocAfter

\* invalidate() closes the state that h alone owns.
LEMMA LetGoCloses ==
  ASSUME Inv, ~fault, NEW h \in live
  PROVE  LuaAfter(h) = [L \in LuaStates |-> IF OwnersOf(L) = {h} THEN "closed" ELSE lua[L]]
<1>1. /\ Fits(alloc, ref_count, UsersNow) /\ h \in Handles /\ live \subseteq Handles
      /\ alloc \subseteq Holders /\ ref_count \in [Holders -> Int]
      /\ holder[h] \in Holders \cup {Nil} /\ lua \in [LuaStates -> {"unused", "open", "closed"}]
      /\ lstate \in [Holders -> LuaStates \cup {Nil}]
      /\ Owned(alloc, ref_count, lstate, lua)
  BY DEF Inv, TypeOK
<1> DEFINE c == holder[h]
<1>2. Dies(h) <=> c # Nil /\ Users(c) = {h}
  <2>1. CASE c = Nil
    BY <2>1 DEF Dies
  <2>2. CASE c # Nil
    <3>1. h \in UsersNow[c] /\ UsersNow[c] \in SUBSET Handles /\ c \in alloc
      BY <1>1, <2>2 DEF UsersNow, Users, Fits
    <3>2. Exact(ref_count[c], UsersNow[c]) /\ ref_count[c] \in Int
      BY <1>1, <3>1 DEF Fits
    <3>3. Released(ref_count[c]) = 0 <=> UsersNow[c] \ {h} = {}
      <4> HIDE DEF c
      <4> QED
        BY <3>1, <3>2, ReleasedExact
    <3> QED
      BY <1>1, <2>2, <3>1, <3>3 DEF Dies, UsersNow
  <2> QED
    BY <2>1, <2>2
<1>3. \A L \in LuaStates : OwnersOf(L) = {h} <=> Dies(h) /\ Grants(c, L)
  <2> SUFFICES ASSUME NEW L \in LuaStates PROVE OwnersOf(L) = {h} <=> Dies(h) /\ Grants(c, L)
    OBVIOUS
  <2>1. \A g \in Handles : g \in OwnersOf(L) <=> g \in live /\ Grants(holder[g], L)
    BY OwnersDef DEF OwnersAre
  <2>2. OwnersOf(L) \subseteq Handles
    BY <1>1 DEF OwnersOf
  <2>3. ASSUME OwnersOf(L) = {h} PROVE Dies(h) /\ Grants(c, L)
    <3>1. Grants(c, L)
      BY <1>1, <2>1, <2>3
    <3>2. c # Nil
      BY <1>1, <3>1, HandlesAssumption DEF Grants
    <3>3. \A g \in Users(c) : g \in OwnersOf(L)
      BY <1>1, <2>1, <3>1 DEF Users
    <3>4. Users(c) = {h}
      BY <2>3, <3>3 DEF Users
    <3> QED
      BY <1>2, <3>1, <3>2, <3>4
  <2>4. ASSUME Dies(h), Grants(c, L) PROVE OwnersOf(L) = {h}
    <3>1. ASSUME NEW g \in OwnersOf(L) PROVE g = h
      <4>1. g \in live /\ Grants(holder[g], L)
        BY <2>1, <2>2, <3>1
      <4>2. holder[g] = c
        BY <1>1, <2>4, <4>1 DEF Owned, Grants
      <4> QED
        BY <1>2, <2>4, <4>1, <4>2 DEF Users
    <3>2. h \in OwnersOf(L)
      BY <1>1, <2>1, <2>4
    <3> QED
      BY <3>1, <3>2
  <2> QED
    BY <2>3, <2>4
<1>4. CASE Dies(h) /\ ref_count[c] > 0
  <2>1. c \in alloc
    BY <1>1, <1>2, <1>4 DEF Fits, UsersNow
  <2>2. lstate[c] \in LuaStates /\ \A L \in LuaStates : Grants(c, L) <=> L = lstate[c]
    BY <1>1, <1>4, <2>1 DEF Owned, Grants
  <2>3. LuaAfter(h) = [lua EXCEPT ![lstate[c]] = "closed"]
    BY <1>4 DEF LuaAfter
  <2> QED
    BY <1>1, <1>3, <1>4, <2>2, <2>3
<1>5. CASE ~(Dies(h) /\ ref_count[c] > 0)
  <2>1. LuaAfter(h) = lua /\ \A L \in LuaStates : OwnersOf(L) # {h}
    BY <1>3, <1>5 DEF LuaAfter, Grants
  <2> QED
    BY <1>1, <2>1
<1> QED
  BY <1>4, <1>5
\* h gives up what it owned and joins the owners of target.
LEMMA Rebinds ==
  ASSUME NEW h \in Handles, NEW target \in LuaStates \cup {Nil},
         target # Nil => OwnersOf(target) # {} /\ OwnersOf(target) # {h},
         \A L \in LuaStates :
           OwnersOf(L)' = IF L = target THEN OwnersOf(L) \cup {h} ELSE OwnersOf(L) \ {h},
         lua' = [L \in LuaStates |-> IF OwnersOf(L) = {h} THEN "closed" ELSE lua[L]]
  PROVE  Abstract!Next
<1>1. target # Nil => target \in LuaStates
  OBVIOUS
<1>2. \A L \in LuaStates :
        OwnersOf(L) = {h} <=> OwnersOf(L) # {} /\ OwnersOf(L)' = {}
  BY HandlesAssumption
<1>3. Abstract!Rebind(h, target)
  BY <1>1, <1>2 DEF Abstract!Rebind, Abstract!Closing
<1> QED
  BY <1>3 DEF Abstract!Next

\* h gives up what it owned and takes over what o owned.
LEMMA Transfers ==
  ASSUME NEW h \in Handles, NEW o \in Handles, o # h,
         \A L \in LuaStates :
           OwnersOf(L)' = IF o \in OwnersOf(L) THEN (OwnersOf(L) \ {o}) \cup {h}
                          ELSE OwnersOf(L) \ {h},
         lua' = [L \in LuaStates |-> IF OwnersOf(L) = {h} THEN "closed" ELSE lua[L]]
  PROVE  Abstract!Next
<1>1. \A L \in LuaStates :
        OwnersOf(L) = {h} <=> OwnersOf(L) # {} /\ OwnersOf(L)' = {}
  OBVIOUS
<1>2. Abstract!Transfer(o, h)
  BY <1>1 DEF Abstract!Transfer, Abstract!Closing
<1> QED
  BY <1>2 DEF Abstract!Next

\* The state that a copy of the handle o would own.
TargetOf(o) == IF holder[o] \in alloc /\ ref_count[holder[o]] > 0 THEN lstate[holder[o]] ELSE Nil

\* The state that a copy would own is one that the other handle owns.
LEMMA TargetOwned ==
  ASSUME Inv, NEW o \in live
  PROVE  /\ TargetOf(o) \in LuaStates \cup {Nil}
         /\ \A L \in LuaStates : L = TargetOf(o) <=> Grants(holder[o], L)
         /\ TargetOf(o) # Nil => o \in OwnersOf(TargetOf(o))
<1>1. /\ alloc \subseteq Holders /\ lstate \in [Holders -> LuaStates \cup {Nil}] /\ o \in Handles
      /\ \A c \in alloc : ref_count[c] > 0 => lstate[c] \in LuaStates \ Foreign
  BY DEF Inv, TypeOK, Owned
<1>2. \A L \in LuaStates : L = TargetOf(o) <=> Grants(holder[o], L)
  BY <1>1, HandlesAssumption DEF TargetOf, Grants
<1>3. TargetOf(o) \in LuaStates \cup {Nil}
  BY <1>1 DEF TargetOf
<1> QED
  BY <1>1, <1>2, <1>3, OwnersDef DEF OwnersAre

\* If owners and states stay nothing happens in SharedOwnership.
LEMMA StutterOf ==
  ASSUME \A L \in LuaStates : OwnersOf(L)' = OwnersOf(L), lua' = lua
  PROVE  [Abstract!Next]_(Abstract!vars)
  BY DEF Abstract!vars

\* A new holder makes its handle an owner of an opened state, and of no wrapped one.
LEMMA AllocateOwners ==
  ASSUME Inv, Inv', ~fault, NEW h \in Handles, NEW c \in Holders, NEW L \in LuaStates \cup {Nil},
         NEW n \in {1, -1}, Allocate(h, c, L, n)
  PROVE  \A M \in LuaStates :
           OwnersOf(M)' = IF n = 1 /\ M = L THEN OwnersOf(M) \cup {h} ELSE OwnersOf(M)
<1> SUFFICES ASSUME NEW M \in LuaStates, NEW g \in Handles
             PROVE  g \in OwnersOf(M)' <=> g \in OwnersOf(M) \/ (n = 1 /\ M = L /\ g = h)
  BY DEF OwnersOf, Inv, TypeOK
<1>1. g \in OwnersOf(M) <=> g \in live /\ Grants(holder[g], M)
  BY OwnersDef DEF OwnersAre
<1>2. g \in OwnersOf(M)' <=> g \in live' /\ Grants(holder[g], M)'
  BY OwnersDefNext DEF OwnersAre
<1>3. /\ holder \in [Handles -> Holders \cup {Nil}] /\ lstate \in [Holders -> LuaStates \cup {Nil}]
      /\ ref_count \in [Holders -> Int] /\ alloc \subseteq Holders
      /\ holder[g] \in alloc \cup {Nil} /\ h \notin live /\ c \notin alloc /\ Nil \notin Holders
  BY UsersDef, HandlesAssumption DEF Inv, TypeOK, Allocate
<1>4. \A d \in alloc : Grants(d, M)' <=> Grants(d, M)
  BY <1>3 DEF Grants, Allocate
<1>5. Grants(c, M)' <=> n = 1 /\ M = L
  BY <1>3 DEF Grants, Allocate
<1>6. ~Grants(Nil, M)' /\ ~Grants(Nil, M)
  BY <1>3 DEF Grants, Allocate
<1>7. CASE g = h
  BY <1>1, <1>2, <1>3, <1>5, <1>7 DEF Allocate
<1>8. CASE g # h
  BY <1>1, <1>2, <1>3, <1>4, <1>6, <1>8 DEF Allocate
<1> QED
  BY <1>7, <1>8

\* state() opens an unused state, which nothing owned.
LEMMA NewMaps ==
  ASSUME Inv, Inv', ~fault, NEW h \in Handles, NEW c \in Holders, NEW L \in LuaStates, New(h, c, L)
  PROVE  Abstract!Next
<1>1. \A M \in LuaStates : OwnersOf(M)' = IF M = L THEN OwnersOf(M) \cup {h} ELSE OwnersOf(M)
  BY AllocateOwners DEF New
<1>2. OwnersOf(L) = {} /\ lua[L] = "unused"
  BY DEF New, OwnersOf, Owning, Inv, Owned
<1>3. \A M \in LuaStates : h \notin OwnersOf(M)
  BY DEF New, Allocate, OwnersOf
<1>4. lua' = [lua EXCEPT ![L] = "open"]
  BY DEF New
<1>5. Abstract!Open(h, L)
  BY <1>1, <1>2, <1>3, <1>4 DEF Abstract!Open
<1> QED
  BY <1>5 DEF Abstract!Next

\* A borrowed state gets no owner.
LEMMA WrapMaps ==
  ASSUME Inv, Inv', ~fault, NEW h \in Handles, NEW c \in Holders, NEW L \in LuaStates \cup {Nil},
         Wrap(h, c, L)
  PROVE  [Abstract!Next]_(Abstract!vars)
<1>1. \A M \in LuaStates : OwnersOf(M)' = OwnersOf(M)
  BY AllocateOwners DEF Wrap
<1> QED
  BY <1>1, StutterOf DEF Wrap

\* Until something is let go, holders grant what they did.
LEMMA CtorGrants ==
  ASSUME Inv, NEW o \in Handles,
         \/ ref_count' = ref_count
         \/ holder[o] \in alloc \cup {Nil} /\ ref_count' = Shared(ref_count, holder[o]),
         UNCHANGED <<alloc, lstate>>
  PROVE  \A c, L : Grants(c, L)' <=> Grants(c, L)
<1>1. alloc \in SUBSET Holders /\ ref_count \in [Holders -> Int]
  BY DEF Inv, TypeOK
<1>2. \A c \in alloc : ref_count'[c] > 0 <=> ref_count[c] > 0
  BY <1>1, SharedSigns
<1> QED
  BY <1>2 DEF Grants

\* A handle without a holder owns nothing (state.hpp:106-108).
LEMMA InvalidMaps ==
  ASSUME Inv, Inv', NEW h \in Handles, Invalid(h)
  PROVE  [Abstract!Next]_(Abstract!vars)
<1>1. holder[h] = Nil /\ Nil \notin alloc
  BY HandlesAssumption DEF Inv, TypeOK, Invalid
<1>2. \A c, L : Grants(c, L)' <=> Grants(c, L)
  BY DEF Grants, Invalid
<1>3. \A L \in LuaStates, g \in Handles : g \in OwnersOf(L)' <=> g \in OwnersOf(L)
  BY <1>1, <1>2, OwnersDef, OwnersDefNext DEF OwnersAre, Invalid, Grants
<1>4. \A L \in LuaStates : OwnersOf(L)' = OwnersOf(L)
  BY <1>3 DEF OwnersOf, Inv, TypeOK
<1> QED
  BY <1>4, StutterOf DEF Invalid

\* A handle that is not constructed owns nothing, so letting go closes nothing.
LEMMA NotYetOwner ==
  ASSUME Inv, NEW h \in Handles, h \notin live
  PROVE  lua = [L \in LuaStates |-> IF OwnersOf(L) = {h} THEN "closed" ELSE lua[L]]
<1>1. \A L \in LuaStates : h \notin OwnersOf(L)
  BY DEF OwnersOf
<1> QED
  BY <1>1 DEF Inv, TypeOK

\* A copy joins the owners of the state that the other handle owns (state.hpp:50-60).
LEMMA CopyCtorMaps ==
  ASSUME Inv, Inv', ~fault, NEW h \in Handles, NEW o \in Handles, CopyCtor(h, o)
  PROVE  Abstract!Next
<1>1. h \notin live /\ o \in live /\ lua' = lua /\ live' = live \cup {h}
      /\ holder' = [holder EXCEPT ![h] = holder[o]]
  BY DEF CopyCtor
<1>2. \A c, L : Grants(c, L)' <=> Grants(c, L)
  BY CtorGrants, UsersDef DEF CopyCtor
<1>3. /\ TargetOf(o) \in LuaStates \cup {Nil}
      /\ \A L \in LuaStates : L = TargetOf(o) <=> Grants(holder[o], L)
      /\ TargetOf(o) # Nil => o \in OwnersOf(TargetOf(o))
  BY <1>1, TargetOwned
<1>4. \A L \in LuaStates, g \in Handles :
        g \in OwnersOf(L)' <=> g \in OwnersOf(L) \/ (g = h /\ L = TargetOf(o))
  BY <1>1, <1>2, <1>3, OwnersDef, OwnersDefNext DEF OwnersAre, Inv, TypeOK
<1>5. \A L \in LuaStates : h \notin OwnersOf(L)
  BY <1>1 DEF OwnersOf
<1>6. \A L \in LuaStates : OwnersOf(L) \subseteq Handles /\ OwnersOf(L)' \subseteq Handles
  BY DEF OwnersOf, Inv, TypeOK
<1>7. \A L \in LuaStates :
        OwnersOf(L)' = IF L = TargetOf(o) THEN OwnersOf(L) \cup {h} ELSE OwnersOf(L) \ {h}
  BY <1>4, <1>5, <1>6
<1>8. lua' = [L \in LuaStates |-> IF OwnersOf(L) = {h} THEN "closed" ELSE lua[L]]
  BY <1>1, NotYetOwner
<1> QED
  BY <1>1, <1>3, <1>5, <1>7, <1>8, Rebinds

\* A moved handle hands over what it owned (state.hpp:62-69).
LEMMA MoveCtorMaps ==
  ASSUME Inv, Inv', ~fault, NEW h \in Handles, NEW o \in Handles, MoveCtor(h, o)
  PROVE  Abstract!Next
<1>1. /\ h \notin live /\ o \in live /\ lua' = lua /\ live' = live \cup {h} /\ o # h
      /\ holder' = [holder EXCEPT ![h] = holder[o], ![o] = Nil]
  BY DEF MoveCtor
<1>2. \A c, L : Grants(c, L)' <=> Grants(c, L)
  BY CtorGrants DEF MoveCtor
<1>3. \A L : ~Grants(Nil, L)
  BY HandlesAssumption DEF Grants, Inv, TypeOK
<1>4. \A L \in LuaStates, g \in Handles :
        g \in OwnersOf(L)' <=> (g \in OwnersOf(L) /\ g # o) \/ (g = h /\ o \in OwnersOf(L))
  BY <1>1, <1>2, <1>3, OwnersDef, OwnersDefNext DEF OwnersAre, Inv, TypeOK
<1>5. \A L \in LuaStates : h \notin OwnersOf(L)
  BY <1>1 DEF OwnersOf
<1>6. \A L \in LuaStates : OwnersOf(L) \subseteq Handles /\ OwnersOf(L)' \subseteq Handles
  BY DEF OwnersOf, Inv, TypeOK
<1>7. \A L \in LuaStates :
        OwnersOf(L)' = IF o \in OwnersOf(L) THEN (OwnersOf(L) \ {o}) \cup {h}
                       ELSE OwnersOf(L) \ {h}
  BY <1>4, <1>5, <1>6
<1>8. lua' = [L \in LuaStates |-> IF OwnersOf(L) = {h} THEN "closed" ELSE lua[L]]
  BY <1>1, NotYetOwner
<1> QED
  BY <1>1, <1>7, <1>8, Transfers

\* A handle that shares its holder with h is no less an owner when h has let go.
LEMMA OthersKeep ==
  ASSUME Inv, ~fault, NEW h \in live, NEW g \in live, g # h
  PROVE  Users(holder[g]) # {h}
  BY DEF Users

\* A handle that ends lets go of what it owned (state.hpp:71-73).
LEMMA DestroyMaps ==
  ASSUME Inv, Inv', ~fault, NEW h \in Handles, Destroy(h)
  PROVE  Abstract!Next
<1>1. /\ h \in live /\ live' = live \ {h} /\ holder' = [holder EXCEPT ![h] = Nil]
      /\ alloc' = AllocAfter(h) /\ ref_count' = Shared(CountAfter(h), Nil) /\ lstate' = lstate
      /\ lua' = LuaAfter(h)
  BY DEF Destroy, Shared
<1>2. \A c, L : Grants(c, L)' <=> Grants(c, L) /\ Users(c) # {h}
  BY <1>1, LetGo
<1>3. \A L \in LuaStates, g \in Handles : g \in OwnersOf(L)' <=> g \in OwnersOf(L) /\ g # h
  BY <1>1, <1>2, OwnersDef, OwnersDefNext, OthersKeep DEF OwnersAre, Inv, TypeOK
<1>4. \A L \in LuaStates : OwnersOf(L) \subseteq Handles /\ OwnersOf(L)' \subseteq Handles
  BY DEF OwnersOf, Inv, TypeOK
<1>5. \A L \in LuaStates : OwnersOf(L)' = OwnersOf(L) \ {h}
  BY <1>3, <1>4
<1>6. lua' = [L \in LuaStates |-> IF OwnersOf(L) = {h} THEN "closed" ELSE lua[L]]
  BY <1>1, LetGoCloses
<1>7. \A L \in LuaStates : L # Nil
  BY HandlesAssumption
<1> QED
  BY <1>5, <1>6, <1>7, Rebinds

\* An assigned handle lets go, and joins the owners that the other one is among
\* (state.hpp:75-87).
LEMMA CopyAssignMaps ==
  ASSUME Inv, Inv', ~fault, NEW h \in Handles, NEW o \in Handles, CopyAssign(h, o)
  PROVE  Abstract!Next
<1>1. /\ h \in live /\ o \in live /\ live' = live /\ holder' = [holder EXCEPT ![h] = holder[o]]
      /\ alloc' = AllocAfter(h) /\ lstate' = lstate /\ lua' = LuaAfter(h)
  BY DEF CopyAssign
<1>2. lua' = [L \in LuaStates |-> IF OwnersOf(L) = {h} THEN "closed" ELSE lua[L]]
  BY <1>1, LetGoCloses
<1>3. \A L \in LuaStates : OwnersOf(L) \subseteq Handles /\ OwnersOf(L)' \subseteq Handles
  BY DEF OwnersOf, Inv, TypeOK
<1>4. CASE ReadsFreed(h, o)
  <2>1. ref_count' = Shared(CountAfter(h), Nil)
    BY <1>4 DEF CopyAssign, Shared
  <2>2. \A c, L : Grants(c, L)' <=> Grants(c, L) /\ Users(c) # {h}
    BY <1>1, <2>1, LetGo
  <2>3. holder[o] \notin alloc'
    BY <1>1, <1>4 DEF ReadsFreed
  <2>4. \A L \in LuaStates, g \in Handles : g \in OwnersOf(L)' <=> g \in OwnersOf(L) /\ g # h
    <3>1. \A L : ~Grants(holder[o], L)'
      BY <1>1, <2>3 DEF Grants
    <3> QED
      BY <1>1, <2>2, <3>1, OwnersDef, OwnersDefNext, OthersKeep DEF OwnersAre, Inv, TypeOK
  <2>5. \A L \in LuaStates : OwnersOf(L)' = OwnersOf(L) \ {h}
    BY <1>3, <2>4
  <2>6. \A L \in LuaStates : L # Nil
    BY HandlesAssumption
  <2> QED
    BY <1>2, <2>5, <2>6, Rebinds
<1>5. CASE ~ReadsFreed(h, o)
  <2>1. holder[o] \in alloc' \cup {Nil} /\ ref_count' = Shared(CountAfter(h), holder[o])
    BY <1>1, <1>5 DEF CopyAssign, ReadsFreed
  <2>2. \A c, L : Grants(c, L)' <=> Grants(c, L) /\ Users(c) # {h}
    BY <1>1, <2>1, LetGo
  <2>3. /\ TargetOf(o) \in LuaStates \cup {Nil}
        /\ \A L \in LuaStates : L = TargetOf(o) <=> Grants(holder[o], L)
        /\ TargetOf(o) # Nil => o \in OwnersOf(TargetOf(o))
    BY <1>1, TargetOwned
  <2>4. \A L : Grants(holder[o], L)' <=> Grants(holder[o], L)
    <3>1. CASE holder[o] = Nil
      BY <1>1, <3>1, HandlesAssumption DEF Grants, Inv, TypeOK, AllocAfter
    <3>2. CASE holder[o] # Nil
      <4>1. holder[o] \in Holders /\ Fits(AllocAfter(h), CountAfter(h), Without(UsersNow, h))
        BY <1>1, <3>2, InvalidateFits DEF Inv, TypeOK
      <4>2. Users(holder[o]) # {h}
        BY <1>1, <2>1, <3>2, <4>1 DEF Fits, Without, UsersNow
      <4>3. holder'[o] = holder[o]
        BY <1>1 DEF Inv, TypeOK
      <4> QED
        BY <2>2, <4>2, <4>3
    <3> QED
      BY <3>1, <3>2
  <2>5. \A L \in LuaStates, g \in Handles :
          g \in OwnersOf(L)' <=> (g \in OwnersOf(L) /\ g # h) \/ (g = h /\ L = TargetOf(o))
    BY <1>1, <2>2, <2>3, <2>4, OwnersDef, OwnersDefNext, OthersKeep DEF OwnersAre, Inv, TypeOK
  <2>6. \A L \in LuaStates :
          OwnersOf(L)' = IF L = TargetOf(o) THEN OwnersOf(L) \cup {h} ELSE OwnersOf(L) \ {h}
    BY <1>3, <2>5
  <2>7. ASSUME TargetOf(o) # Nil PROVE OwnersOf(TargetOf(o)) # {h}
    <3>1. PICK L \in LuaStates : L = TargetOf(o)
      BY <2>3, <2>7
    <3>2. SUFFICES ASSUME OwnersOf(L) = {h} PROVE FALSE
      BY <3>1
    <3>3. lua'[L] = "closed"
      BY <1>2, <3>2
    <3>4. Grants(holder[o], L)'
      BY <2>3, <2>4, <3>1
    <3>5. lua'[L] = "open"
      BY <3>4 DEF Grants, Inv, Owned
    <3> QED
      BY <3>3, <3>5
  <2> QED
    BY <1>2, <2>3, <2>6, <2>7, Rebinds
<1> QED
  BY <1>4, <1>5

\* An assigned handle lets go, and the other one hands over what it owned (state.hpp:89-94).
LEMMA MoveAssignMaps ==
  ASSUME Inv, Inv', ~fault, NEW h \in Handles, NEW o \in Handles, MoveAssign(h, o)
  PROVE  Abstract!Next
<1>1. /\ h \in live /\ o \in live /\ live' = live
      /\ holder' = [holder EXCEPT ![h] = holder[o], ![o] = Nil]
      /\ alloc' = AllocAfter(h) /\ lstate' = lstate /\ lua' = LuaAfter(h)
      /\ ref_count' = Shared(CountAfter(h), Nil)
  BY DEF MoveAssign, Shared
<1>2. lua' = [L \in LuaStates |-> IF OwnersOf(L) = {h} THEN "closed" ELSE lua[L]]
  BY <1>1, LetGoCloses
<1>3. \A L \in LuaStates : OwnersOf(L) \subseteq Handles /\ OwnersOf(L)' \subseteq Handles
  BY DEF OwnersOf, Inv, TypeOK
<1>4. \A c, L : Grants(c, L)' <=> Grants(c, L) /\ Users(c) # {h}
  BY <1>1, LetGo
<1>5. \A L : ~Grants(Nil, L)
  BY HandlesAssumption DEF Grants, Inv, TypeOK
<1>6. CASE h = o
  <2>1. \A L \in LuaStates, g \in Handles : g \in OwnersOf(L)' <=> g \in OwnersOf(L) /\ g # h
    BY <1>1, <1>4, <1>5, <1>6, OwnersDef, OwnersDefNext, OthersKeep DEF OwnersAre, Inv, TypeOK
  <2>2. \A L \in LuaStates : OwnersOf(L)' = OwnersOf(L) \ {h}
    BY <1>3, <2>1
  <2>3. \A L \in LuaStates : L # Nil
    BY HandlesAssumption
  <2> QED
    BY <1>2, <2>2, <2>3, Rebinds
<1>7. CASE h # o
  <2>1. \A L \in LuaStates, g \in Handles :
          g \in OwnersOf(L)' <=>
            (g \in OwnersOf(L) /\ g # h /\ g # o) \/ (g = h /\ o \in OwnersOf(L))
    BY <1>1, <1>4, <1>5, <1>7, OwnersDef, OwnersDefNext, OthersKeep DEF OwnersAre, Inv, TypeOK
  <2>2. \A L \in LuaStates :
          OwnersOf(L)' = IF o \in OwnersOf(L) THEN (OwnersOf(L) \ {o}) \cup {h}
                         ELSE OwnersOf(L) \ {h}
    BY <1>3, <1>7, <2>1
  <2> QED
    BY <1>2, <1>7, <2>2, Transfers
<1> QED
  BY <1>6, <1>7

\* Every step of the handles is one of the owners, or none.
LEMMA StepMaps == Inv /\ Inv' /\ [Next]_vars => [Abstract!Next]_(Abstract!vars)
<1> SUFFICES ASSUME Inv, Inv', [Next]_vars PROVE [Abstract!Next]_(Abstract!vars)
  OBVIOUS
<1>1. CASE UNCHANGED vars
  <2>1. \A L \in LuaStates : OwnersOf(L)' = OwnersOf(L)
    BY <1>1 DEF vars, OwnersOf, Owning
  <2> QED
    BY <1>1, <2>1, StutterOf DEF vars
<1>2. CASE ~fault /\ Step
  <2>1. ASSUME NEW h \in Handles, NEW c \in Holders, NEW L \in LuaStates, New(h, c, L)
        PROVE  Abstract!Next
    BY <1>2, <2>1, NewMaps
  <2>2. ASSUME NEW h \in Handles, NEW c \in Holders, NEW L \in LuaStates \cup {Nil}, Wrap(h, c, L)
        PROVE  [Abstract!Next]_(Abstract!vars)
    BY <1>2, <2>2, WrapMaps
  <2>3. ASSUME NEW h \in Handles, Invalid(h) \/ Destroy(h)
        PROVE  [Abstract!Next]_(Abstract!vars)
    BY <1>2, <2>3, InvalidMaps, DestroyMaps
  <2>4. ASSUME NEW h \in Handles, NEW o \in Handles, CopyCtor(h, o) \/ MoveCtor(h, o)
        PROVE  Abstract!Next
    BY <1>2, <2>4, CopyCtorMaps, MoveCtorMaps
  <2>5. ASSUME NEW h \in Handles, NEW o \in Handles, CopyAssign(h, o) \/ MoveAssign(h, o)
        PROVE  Abstract!Next
    BY <1>2, <2>5, CopyAssignMaps, MoveAssignMaps
  <2>6. ASSUME NEW h \in Stacks, NEW o \in Stacks, StackCopy(h, o) \/ StackAssign(h, o)
        PROVE  [Abstract!Next]_(Abstract!vars)
    <3>1. h \in Handles /\ o \in Handles
      BY HandlesAssumption
    <3> QED
      BY <1>1, <2>1, <2>4, <2>5, <2>6, <3>1 DEF StackCopy, StackAssign
  <2> QED
    BY <1>2, <2>1, <2>2, <2>3, <2>4, <2>5, <2>6 DEF Step
<1> QED
  BY <1>1, <1>2 DEF Next, Halted

\* Handles with counts do what shared ownership allows: each of their operations opens a
\* state, joins its owners, lets go or hands over, and a state is closed in the very step in
\* which its last owner lets go (state.hpp:44-127).
THEOREM HandlesShareOwnership == Spec => ImplementsSharedOwnership
<1>1. Init => Abstract!Init
  BY DEF Init, Abstract!Init, OwnersOf
<1> QED
  BY <1>1, StepMaps, Invariant, PTL DEF Spec, ImplementsSharedOwnership, Abstract!Spec
=============================================================================
