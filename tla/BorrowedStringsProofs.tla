----------------------- MODULE BorrowedStringsProofs -----------------------
(***************************************************************************)
(* BorrowedStrings for any number of strings, places and pointers, and a   *)
(* stack of any bound.  The argument: what Lua holds is allocated, and so  *)
(* is everything that a pointer points to unless it is null or points to   *)
(* freed bytes, which only a pointer that is adrift does.  The collector takes nothing  *)
(* that is held, and leaves no pointer Fresh; what loses its place was     *)
(* held until then.                                                        *)
(***************************************************************************)
EXTENDS BorrowedStrings, SequenceTheorems, TLAPS

HeldAllocated == Held(stack) \subseteq heap

\* A pointer with text has allocated text, and one without has lost its place before.
ViewsAllocated ==
  \A v \in View : view[v] # None =>
    IF view[v].str \in {Freed, Nil} THEN view[v].at = Adrift ELSE view[v].str \in heap

Inv ==
  /\ TypeOK
  /\ HeldAllocated
  /\ ViewsAllocated
  /\ DanglingHasCause
  /\ FaultHasCause
  /\ CarefulIsSafe

-----------------------------------------------------------------------------
(***************************************************************************)
(* The pointers, for any stack st, places pl, heap hp and views vw.        *)
(***************************************************************************)
PointsWell(w, st, pl, hp) ==
  w # None =>
    /\ w \in ViewType
    /\ w.at \in Nat => w.at \in DOMAIN st /\ st[w.at] = w.str
    /\ w.at \in Place => pl[w.at] = w.str
    /\ IF w.str \in {Freed, Nil} THEN w.at = Adrift ELSE w.str \in hp

\* The parts of the invariant that speak of the pointers, in one formula for each.
LEMMA ViewsPointWell ==
  ASSUME TypeOK
  PROVE  ViewsAllocated /\ DanglingHasCause <=>
         \A v \in View : PointsWell(view[v], stack, place, heap)
  BY BorrowedStringsAssumption DEF TypeOK, ViewsAllocated, DanglingHasCause, PointsWell, ViewType

\* The same in the next state.
LEMMA ViewsPointWellNext ==
  ASSUME TypeOK'
  PROVE  ViewsAllocated' /\ DanglingHasCause' <=>
         \A v \in View : PointsWell(view'[v], stack', place', heap')
  BY BorrowedStringsAssumption DEF TypeOK, ViewsAllocated, DanglingHasCause, PointsWell, ViewType

\* A pointer stays well when the stack grows and Lua allocates without collecting.
LEMMA StaysWell ==
  ASSUME NEW w, NEW st, NEW st2, NEW pl, NEW hp, NEW hp2,
         PointsWell(w, st, pl, hp),
         \A i \in DOMAIN st : i \in DOMAIN st2 /\ st2[i] = st[i],
         hp \subseteq hp2
  PROVE  PointsWell(w, st2, pl, hp2)
  BY DEF PointsWell

\* What a step of the collector makes of a pointer.
Aged(w, dead) ==
  IF w = None THEN None
  ELSE [str |-> IF w.str \in dead THEN Freed ELSE w.str,
        at |-> IF w.at = Fresh THEN Adrift ELSE w.at]

\* The collector leaves all pointers well, none of them Fresh.
LEMMA AgedWell ==
  ASSUME NEW w, NEW st \in Seq(Value), place \in [Place -> Value], NEW dead \in SUBSET Str,
         dead \cap Held(st) = {},
         PointsWell(w, st, place, heap)
  PROVE  /\ PointsWell(Aged(w, dead), st, place, heap \ dead)
         /\ w # None => Aged(w, dead) # None /\ Aged(w, dead).at # Fresh
<1>1. CASE w = None
  BY <1>1 DEF Aged, PointsWell
<1>2. CASE w # None
  <2>1. /\ w \in ViewType /\ w.str \in Str \cup {Freed, Nil}
        /\ w.at \in Nat \cup Place \cup {Fresh, Adrift}
    BY <1>2 DEF PointsWell, ViewType
  <2> DEFINE x == Aged(w, dead)
  <2>2. /\ x = [str |-> IF w.str \in dead THEN Freed ELSE w.str,
                at |-> IF w.at = Fresh THEN Adrift ELSE w.at]
    BY <1>2 DEF Aged
  <2>3. /\ x \in ViewType /\ x # None /\ x.str = IF w.str \in dead THEN Freed ELSE w.str
        /\ x.at = IF w.at = Fresh THEN Adrift ELSE w.at
    BY <2>1, <2>2, BorrowedStringsAssumption DEF ViewType
  <2> HIDE DEF x
  <2>4. x.at # Fresh
    BY <2>3, BorrowedStringsAssumption
  <2>5. {Freed, Nil} \cap Str = {} /\ {Freed, Nil} \cap dead = {}
    BY BorrowedStringsAssumption
  <2>6. CASE w.at \in Nat
    <3>1. w.at \in DOMAIN st /\ st[w.at] = w.str
      BY <1>2, <2>6 DEF PointsWell
    <3>2. w.str \notin {Freed, Nil} /\ w.str \in heap
      BY <1>2, <2>6, BorrowedStringsAssumption DEF PointsWell
    <3>3. w.str \in Held(st)
      BY <2>1, <3>1, <3>2 DEF Held
    <3>4. x.str = w.str /\ x.at = w.at
      BY <2>3, <2>6, <3>3, BorrowedStringsAssumption
    <3>5. x.at \notin Place /\ x.str \notin {Freed, Nil} /\ x.str \in heap \ dead
      BY <2>3, <2>6, <3>2, <3>4, BorrowedStringsAssumption
    <3>6. PointsWell(x, st, place, heap \ dead)
      BY <2>3, <2>6, <3>1, <3>4, <3>5 DEF PointsWell
    <3> QED
      BY <2>3, <2>4, <3>6 DEF x
  <2>7. CASE w.at \in Place
    <3>1. place[w.at] = w.str
      BY <1>2, <2>7 DEF PointsWell
    <3>2. w.str \notin {Freed, Nil} /\ w.str \in heap
      BY <1>2, <2>7, BorrowedStringsAssumption DEF PointsWell
    <3>3. w.str \in Held(st)
      BY <2>1, <2>7, <3>1, <3>2 DEF Held
    <3>4. x.str = w.str /\ x.at = w.at
      BY <2>3, <2>7, <3>3, BorrowedStringsAssumption
    <3>5. x.at \notin Nat /\ x.str \notin {Freed, Nil} /\ x.str \in heap \ dead
      BY <2>3, <2>7, <3>2, <3>4, BorrowedStringsAssumption
    <3>6. PointsWell(x, st, place, heap \ dead)
      BY <2>3, <2>7, <3>1, <3>4, <3>5 DEF PointsWell
    <3> QED
      BY <2>3, <2>4, <3>6 DEF x
  <2>8. CASE w.at \in {Fresh, Adrift}
    <3>1. x.at = Adrift
      BY <2>3, <2>8
    <3>2. w.str \in {Freed, Nil} \/ w.str \in heap
      BY <1>2 DEF PointsWell
    <3>3. IF x.str \in {Freed, Nil} THEN x.at = Adrift ELSE x.str \in heap \ dead
      BY <2>1, <2>3, <2>5, <3>1, <3>2
    <3>4. x.at \notin Nat /\ x.at \notin Place
      BY <3>1, BorrowedStringsAssumption
    <3>5. PointsWell(x, st, place, heap \ dead)
      BY <2>3, <3>3, <3>4 DEF PointsWell
    <3> QED
      BY <2>3, <2>4, <3>5 DEF x
  <2> QED
    BY <2>1, <2>6, <2>7, <2>8
<1> QED
  BY <1>1, <1>2

\* After() ages every pointer.
LEMMA AfterAges ==
  ASSUME NEW vw \in [View -> ViewType \cup {None}], NEW dead
  PROVE  After(vw, dead) = [v \in View |-> Aged(vw[v], dead)]
  BY DEF After, Aged

\* All pointers after a step of the collector.
LEMMA AllAged ==
  ASSUME Inv, NEW dead \in Garbage(stack)
  PROVE  /\ After(view, dead) \in [View -> ViewType \cup {None}]
         /\ \A v \in View : /\ PointsWell(After(view, dead)[v], stack, place, heap \ dead)
                            /\ view[v] # None => After(view, dead)[v] # None
                            /\ After(view, dead)[v] # None => After(view, dead)[v].at # Fresh
         /\ \A v \in View : After(view, dead)[v] = Aged(view[v], dead)
<1>1. view \in [View -> ViewType \cup {None}] /\ stack \in Seq(Value) /\ place \in [Place -> Value]
      /\ heap \subseteq Str
  BY DEF Inv, TypeOK
<1>2. dead \in SUBSET Str /\ dead \cap Held(stack) = {}
  BY <1>1 DEF Garbage
<1>3. \A v \in View : PointsWell(view[v], stack, place, heap)
  BY ViewsPointWell DEF Inv
<1>4. \A v \in View : After(view, dead)[v] = Aged(view[v], dead)
  BY <1>1, AfterAges
<1>5. \A v \in View : /\ PointsWell(Aged(view[v], dead), stack, place, heap \ dead)
                      /\ view[v] # None =>
                           Aged(view[v], dead) # None /\ Aged(view[v], dead).at # Fresh
  BY <1>1, <1>2, <1>3, AgedWell
<1>6. \A v \in View : Aged(view[v], dead) \in ViewType \cup {None}
  BY <1>5 DEF PointsWell
<1>7. After(view, dead) \in [View -> ViewType \cup {None}]
  BY <1>1, <1>6, AfterAges
<1>8. \A v \in View : view[v] = None => Aged(view[v], dead) = None
  BY DEF Aged
<1> QED
  BY <1>4, <1>5, <1>7, <1>8

\* Pointers that lose what is in the places lost stay well.
LEMMA LosingWell ==
  ASSUME NEW vw \in [View -> ViewType \cup {None}], NEW hp, NEW lost \in SUBSET (Nat \cup Place),
         \A v \in View : PointsWell(vw[v], stack, place, hp),
         NEW st, NEW pl,
         \A i \in DOMAIN stack \ lost : i \in DOMAIN st /\ st[i] = stack[i],
         \A p \in Place \ lost : pl[p] = place[p]
  PROVE  /\ Losing(vw, lost) \in [View -> ViewType \cup {None}]
         /\ \A v \in View : PointsWell(Losing(vw, lost)[v], st, pl, hp)
<1>1. Losing(vw, lost) = [v \in View |-> IF vw[v] # None /\ vw[v].at \in lost
                                         THEN [vw[v] EXCEPT !.at = Fresh] ELSE vw[v]]
  BY DEF Losing
<1> SUFFICES ASSUME NEW v \in View
             PROVE  /\ Losing(vw, lost)[v] \in ViewType \cup {None}
                    /\ PointsWell(Losing(vw, lost)[v], st, pl, hp)
  BY <1>1
<1>2. CASE vw[v] # None /\ vw[v].at \in lost
  <2> DEFINE x == [vw[v] EXCEPT !.at = Fresh]
  <2>1. vw[v] \in ViewType
    BY <1>2
  <2>2. x \in ViewType /\ x.at = Fresh /\ x.str = vw[v].str
    BY <2>1 DEF ViewType
  <2>3. vw[v].str \notin {Freed, Nil} /\ vw[v].str \in hp
    BY <1>2, BorrowedStringsAssumption DEF PointsWell
  <2>4. Losing(vw, lost)[v] = x
    BY <1>1, <1>2
  <2> HIDE DEF x
  <2> QED
    BY <2>2, <2>3, <2>4, BorrowedStringsAssumption DEF PointsWell
<1>3. CASE ~(vw[v] # None /\ vw[v].at \in lost)
  <2>1. Losing(vw, lost)[v] = vw[v]
    BY <1>1, <1>3
  <2>2. PointsWell(vw[v], stack, place, hp)
    OBVIOUS
  <2> QED
    BY <1>3, <2>1, <2>2 DEF PointsWell
<1> QED
  BY <1>2, <1>3

\* The pointers as they are.
LEMMA ViewsWell ==
  ASSUME Inv
  PROVE  /\ view \in [View -> ViewType \cup {None}]
         /\ \A v \in View : PointsWell(view[v], stack, place, heap)
  BY ViewsPointWell DEF Inv, TypeOK

-----------------------------------------------------------------------------
(***************************************************************************)
(* The stack.                                                              *)
(***************************************************************************)
\* The stack up to slot n.
LEMMA BelowOp ==
  ASSUME NEW st \in Seq(Value), NEW n \in 0..Len(st)
  PROVE  /\ SubSeq(st, 1, n) \in Seq(Value) /\ Len(SubSeq(st, 1, n)) = n
         /\ \A j \in 1..n : SubSeq(st, 1, n)[j] = st[j]
<1>1. Len(st) \in Nat /\ \A j \in 1..n : st[j] \in Value
  BY ElementOfSeq, LenProperties
<1> QED
  BY <1>1, SubSeqProperties

\* The stack without its top.
LEMMA FrontOp ==
  ASSUME NEW st \in Seq(Value), st # <<>>
  PROVE  /\ Front(st) \in Seq(Value) /\ Len(Front(st)) = Len(st) - 1
         /\ \A j \in 1..(Len(st) - 1) : Front(st)[j] = st[j]
<1>1. Len(st) \in Nat \ {0}
  BY EmptySeq
<1>2. Len(st) - 1 \in 0..Len(st)
  BY <1>1
<1>3. Front(st) = SubSeq(st, 1, Len(st) - 1)
  BY DEF Front
<1> QED
  BY <1>2, <1>3, BelowOp

\* The stack without slot i.
LEMMA RemoveOp ==
  ASSUME NEW st \in Seq(Value), NEW i \in 1..Len(st)
  PROVE  /\ RemoveAt(st, i) \in Seq(Value) /\ Len(RemoveAt(st, i)) = Len(st) - 1
         /\ \A j \in 1..(Len(st) - 1) : RemoveAt(st, i)[j] = IF j < i THEN st[j] ELSE st[j + 1]
<1> DEFINE a == SubSeq(st, 1, i - 1)
           b == SubSeq(st, i + 1, Len(st))
<1>1. Len(st) \in Nat /\ i \in Nat /\ \A j \in 1..Len(st) : st[j] \in Value
  BY ElementOfSeq, LenProperties
<1>2. a \in Seq(Value) /\ Len(a) = i - 1 /\ \A j \in 1..(i - 1) : a[j] = st[j]
  BY <1>1, BelowOp
<1>3. \A j \in (i + 1)..Len(st) : st[j] \in Value
  BY <1>1
<1>4. b \in Seq(Value) /\ Len(b) = Len(st) - i
      /\ \A j \in 1..(Len(st) - i) : b[j] = st[j + i]
  <2>1. /\ b \in Seq(Value)
        /\ Len(b) = IF i + 1 <= Len(st) THEN Len(st) - (i + 1) + 1 ELSE 0
        /\ \A j \in 1..(Len(st) - (i + 1) + 1) : b[j] = st[(i + 1) + j - 1]
    BY <1>1, <1>3, SubSeqProperties
  <2>2. Len(b) = Len(st) - i
    BY <1>1, <2>1
  <2>3. ASSUME NEW j \in 1..(Len(st) - i) PROVE b[j] = st[j + i]
    <3>1. j \in 1..(Len(st) - (i + 1) + 1) /\ (i + 1) + j - 1 = j + i
      BY <1>1
    <3> QED
      BY <2>1, <3>1
  <2> QED
    BY <2>1, <2>2, <2>3
<1>5. RemoveAt(st, i) = a \o b
  BY DEF RemoveAt
<1> HIDE DEF a, b
<1>6. /\ a \o b \in Seq(Value) /\ Len(a \o b) = Len(a) + Len(b)
      /\ \A j \in 1..(Len(a) + Len(b)) : (a \o b)[j] = IF j <= Len(a) THEN a[j] ELSE b[j - Len(a)]
  BY <1>2, <1>4, ConcatProperties
<1>7. Len(a) + Len(b) = Len(st) - 1
  BY <1>1, <1>2, <1>4
<1>8. ASSUME NEW j \in 1..(Len(st) - 1)
      PROVE  (a \o b)[j] = IF j < i THEN st[j] ELSE st[j + 1]
  <2>1. CASE j < i
    <3>1. j <= Len(a) /\ j \in 1..(i - 1)
      BY <1>1, <1>2, <2>1
    <3> QED
      BY <1>2, <1>6, <1>7, <2>1, <3>1
  <2>2. CASE ~(j < i)
    <3>1. ~(j <= Len(a)) /\ j - Len(a) \in 1..(Len(st) - i) /\ (j - Len(a)) + i = j + 1
      BY <1>1, <1>2, <2>2
    <3>2. b[j - Len(a)] = st[(j - Len(a)) + i]
      BY <1>4, <3>1
    <3> QED
      BY <1>6, <1>7, <2>2, <3>1, <3>2
  <2> QED
    BY <2>1, <2>2
<1> QED
  BY <1>5, <1>6, <1>7, <1>8

\* The stack with x on top.
LEMMA AppendOp ==
  ASSUME NEW st \in Seq(Value), NEW x \in Value
  PROVE  /\ Append(st, x) \in Seq(Value) /\ Len(Append(st, x)) = Len(st) + 1
         /\ \A j \in 1..Len(st) : Append(st, x)[j] = st[j]
         /\ Append(st, x)[Len(st) + 1] = x
  BY DEF Value

-----------------------------------------------------------------------------
\* What an action has to respect.
LEMMA Assemble ==
  ASSUME TypeOK', HeldAllocated',
         \A v \in View : PointsWell(view'[v], stack', place', heap'),
         FaultHasCause', CarefulIsSafe',
         careful' = careful
  PROVE  Inv'
  BY ViewsPointWellNext DEF Inv

\* As long as nothing is read wrongly.
LEMMA AssembleRunning ==
  ASSUME TypeOK', HeldAllocated',
         \A v \in View : PointsWell(view'[v], stack', place', heap'),
         fault' = "none",
         careful' = careful
  PROVE  Inv'
  BY Assemble DEF FaultHasCause, CarefulIsSafe

\* A program starts without strings.
LEMMA InitInv == Init => Inv
<1> SUFFICES ASSUME Init PROVE Inv
  OBVIOUS
<1>1. TypeOK
  BY BorrowedStringsAssumption DEF Init, TypeOK, Value
<1>2. HeldAllocated
  BY BorrowedStringsAssumption DEF Init, HeldAllocated, Held
<1>3. ViewsAllocated /\ DanglingHasCause /\ FaultHasCause /\ CarefulIsSafe
  BY DEF Init, ViewsAllocated, DanglingHasCause, FaultHasCause, CarefulIsSafe
<1> QED
  BY <1>1, <1>2, <1>3 DEF Inv

-----------------------------------------------------------------------------
\* What Lua holds of a stack with x on top.
LEMMA HeldOfAppend ==
  ASSUME NEW st \in Seq(Value), NEW x \in Value
  PROVE  Held(Append(st, x)) \subseteq Held(st) \cup ({x} \cap Str)
  BY AppendOp, LenProperties DEF Held

\* Something is pushed after a step of the collector, and what is new is in new.
LEMMA PushedInv ==
  ASSUME Inv, NEW dead \in Garbage(stack), NEW x \in Value, NEW new \in SUBSET Str,
         Len(stack) < MaxSlots,
         {x} \cap Str \subseteq (heap \ dead) \cup new,
         heap' = (heap \ dead) \cup new,
         stack' = Append(stack, x), view' = After(view, dead),
         base' = base \/ base' = Len(stack),
         UNCHANGED <<place, fault>>, fault = "none",
         careful' = careful
  PROVE  Inv'
<1>1. stack \in Seq(Value) /\ Len(stack) \in Nat /\ DOMAIN stack = 1..Len(stack)
      /\ heap \subseteq Str /\ MaxSlots \in Nat /\ (base = None \/ base \in 0..Len(stack))
  BY LenProperties, BorrowedStringsAssumption DEF Inv, TypeOK
<1>2. /\ stack' \in Seq(Value) /\ Len(stack') = Len(stack) + 1 /\ DOMAIN stack' = 1..(Len(stack) + 1)
      /\ \A j \in 1..Len(stack) : stack'[j] = stack[j]
  BY <1>1, AppendOp, LenProperties
<1>3. base' = None \/ base' \in 0..Len(stack')
  BY <1>1, <1>2
<1>4. TypeOK'
  <2>1. view' \in [View -> ViewType \cup {None}]
    BY AllAged
  <2>2. heap' \subseteq Str /\ Len(stack') <= MaxSlots
    BY <1>1, <1>2
  <2> QED
    BY <1>2, <1>3, <2>1, <2>2 DEF Inv, TypeOK
<1>5. HeldAllocated'
  <2>1. Held(stack)' = Held(Append(stack, x))
    BY DEF Held
  <2>2. dead \cap Held(stack) = {} /\ Held(stack) \subseteq heap
    BY DEF Garbage, Inv, HeldAllocated
  <2> QED
    BY <1>1, <2>1, <2>2, HeldOfAppend DEF HeldAllocated
<1>6. \A v \in View : PointsWell(view'[v], stack', place', heap')
  <2> SUFFICES ASSUME NEW v \in View
               PROVE  PointsWell(After(view, dead)[v], stack', place, heap')
    OBVIOUS
  <2>1. PointsWell(After(view, dead)[v], stack, place, heap \ dead)
    BY AllAged
  <2>2. \A i \in DOMAIN stack : i \in DOMAIN stack' /\ stack'[i] = stack[i]
    BY <1>1, <1>2
  <2>3. heap \ dead \subseteq heap'
    OBVIOUS
  <2> QED
    BY <2>1, <2>2, <2>3, StaysWell
<1> QED
  BY <1>4, <1>5, <1>6, AssembleRunning

\* push() of text, of a number (detail/type_traits.hpp:107, 129) and the call of a C++
\* function (detail/function_traits.hpp:69).
LEMMA PushInv ==
  ASSUME Inv, NEW s \in Str, NEW dead \in Garbage(stack), Push(s, dead),
         careful' = careful
  PROVE  Inv'
<1>1. s \in Value /\ {s} \in SUBSET Str /\ {s} \cap Str \subseteq (heap \ dead) \cup {s}
  BY DEF Value
<1>2. /\ Len(stack) < MaxSlots /\ heap' = (heap \ dead) \cup {s} /\ stack' = Append(stack, s)
      /\ view' = After(view, dead) /\ base' = base /\ UNCHANGED <<place, fault>> /\ fault = "none"
  BY DEF Push, Runs
<1> QED
  BY <1>1, <1>2, PushedInv

\* The script calls a C++ function with an argument (detail/function_traits.hpp:59-71).
LEMMA EnterInv ==
  ASSUME Inv, NEW x \in Value, NEW dead \in Garbage(stack), Enter(x, dead),
         careful' = careful
  PROVE  Inv'
<1>1. {x} \cap Str \in SUBSET Str
  OBVIOUS
<1> QED
  BY <1>1, PushedInv DEF Enter, Runs

\* push() of what a pointer points to: only freed bytes are not there to be copied.
LEMMA PushViewInv ==
  ASSUME Inv, NEW v \in View, NEW dead \in Garbage(stack), PushView(v, dead),
         careful' = careful
  PROVE  Inv'
<1>1. /\ Len(stack) < MaxSlots /\ view[v] # None /\ heap' = heap \ dead
      /\ view' = After(view, dead) /\ UNCHANGED <<base, place>> /\ fault = "none"
      /\ (careful => view[v].at \notin {Fresh, Adrift})
  BY DEF PushView, Runs
<1>2. /\ view[v] \in ViewType /\ view[v].str \in Str \cup {Freed}
      /\ view[v].at \in Nat \cup Place \cup {Fresh, Adrift}
  BY <1>1 DEF PushView, Inv, TypeOK, ViewType
<1>3. CASE view[v].str \notin dead \cup {Freed}
  <2>1. stack' = Append(stack, view[v].str) /\ UNCHANGED fault
    BY <1>3 DEF PushView
  <2>2. view[v].str \in Value /\ {view[v].str} \cap Str \subseteq (heap \ dead) \cup {}
    BY <1>1, <1>2, <1>3, BorrowedStringsAssumption DEF Value, Inv, ViewsAllocated
  <2>3. heap' = (heap \ dead) \cup {}
    BY <1>1
  <2> QED
    BY <1>1, <2>1, <2>2, <2>3, PushedInv
<1>4. CASE view[v].str \in dead \cup {Freed}
  <2>1. fault' = "freed" /\ UNCHANGED stack
    BY <1>4 DEF PushView
  <2>2. TypeOK'
    BY <1>1, <2>1, AllAged DEF Inv, TypeOK
  <2>3. HeldAllocated'
    BY <1>1, <2>1 DEF Inv, HeldAllocated, Held, Garbage
  <2>4. \A w \in View : PointsWell(view'[w], stack', place', heap')
    BY <1>1, <2>1, AllAged
  <2>5. view'[v] = Aged(view[v], dead) /\ PointsWell(view'[v], stack, place, heap \ dead)
    BY <1>1, AllAged
  <2> DEFINE at == IF view[v].at = Fresh THEN Adrift ELSE view[v].at
  <2>6. view'[v] # None /\ view'[v].str = Freed
    <3>1. Aged(view[v], dead) = [str |-> Freed, at |-> at]
      BY <1>1, <1>4 DEF Aged
    <3>2. Aged(view[v], dead).str = Freed
      BY <3>1
    <3> QED
      BY <1>1, <2>5, <3>2, AllAged
  <2>7. view'[v].at = Adrift /\ view'[v] \in ViewType
    BY <2>5, <2>6 DEF PointsWell
  <2>8. view'[v] = [str |-> Freed, at |-> Adrift]
    BY <2>6, <2>7 DEF ViewType
  <2>9. FaultHasCause'
    BY <2>8 DEF FaultHasCause
  <2>10. ~careful
    <3>1. view[v].at = Adrift \/ view[v].at = Fresh
      <4>1. view[v].at \in {Fresh, Adrift} \/ view'[v].at = view[v].at
        BY <1>1, <1>2, <2>5 DEF Aged
      <4> QED
        BY <2>7, <4>1
    <3> QED
      BY <1>1, <3>1
  <2> QED
    BY <2>2, <2>3, <2>4, <2>9, <2>10, Assemble DEF CarefulIsSafe
<1> QED
  BY <1>3, <1>4

\* A number is pushed, or nil: nothing is allocated (detail/type_traits.hpp:107-109).
LEMMA PushOtherInv ==
  ASSUME Inv, NEW x \in {Number, Nil}, PushOther(x),
         careful' = careful
  PROVE  Inv'
<1>1. /\ Len(stack) < MaxSlots /\ stack' = Append(stack, x)
      /\ UNCHANGED <<heap, base, place, view, fault>> /\ fault = "none"
  BY DEF PushOther, Runs
<1>2. stack \in Seq(Value) /\ Len(stack) \in Nat /\ DOMAIN stack = 1..Len(stack)
      /\ MaxSlots \in Nat /\ (base = None \/ base \in 0..Len(stack)) /\ x \in Value /\ x \notin Str
  BY LenProperties, BorrowedStringsAssumption DEF Inv, TypeOK, Value
<1>3. /\ stack' \in Seq(Value) /\ Len(stack') = Len(stack) + 1 /\ DOMAIN stack' = 1..(Len(stack) + 1)
      /\ \A j \in 1..Len(stack) : stack'[j] = stack[j]
  BY <1>1, <1>2, AppendOp, LenProperties
<1>4. TypeOK'
  BY <1>1, <1>2, <1>3 DEF Inv, TypeOK
<1>5. HeldAllocated'
  <2>1. Held(stack)' = Held(Append(stack, x)) 
    BY <1>1 DEF Held
  <2> QED
    BY <1>1, <1>2, <2>1, HeldOfAppend DEF Inv, HeldAllocated
<1>6. \A v \in View : PointsWell(view'[v], stack', place', heap')
  <2>1. \A i \in DOMAIN stack : i \in DOMAIN stack' /\ stack'[i] = stack[i]
    BY <1>2, <1>3
  <2>2. \A v \in View : PointsWell(view[v], stack, place, heap)
    BY ViewsPointWell DEF Inv
  <2> QED
    BY <1>1, <2>1, <2>2, StaysWell
<1> QED
  BY <1>1, <1>4, <1>5, <1>6, AssembleRunning

\* A pointer to v is read without allocating.
LEMMA PointedInv ==
  ASSUME Inv, NEW v \in View, NEW x, PointsWell(x, stack, place, heap), x \in ViewType,
         view' = [view EXCEPT ![v] = x], UNCHANGED <<heap, stack, base, place, fault>>,
         fault = "none", careful' = careful
  PROVE  Inv'
<1>1. TypeOK' /\ HeldAllocated'
  BY DEF Inv, TypeOK, HeldAllocated, Held
<1>2. \A w \in View : PointsWell(view'[w], stack', place', heap')
  BY ViewsWell
<1> QED
  BY <1>1, <1>2, AssembleRunning

\* A null pointer.
LEMMA NullWell ==
  ASSUME NEW s, NEW at, NEW st, NEW pl, NEW hp
  PROVE  Pointer(Nil, s, at) \in ViewType /\ PointsWell(Pointer(Nil, s, at), st, pl, hp)
<1> DEFINE x == [str |-> Nil, at |-> Adrift]
<1>1. x \in ViewType /\ x.str = Nil /\ x.at = Adrift /\ Adrift \notin Nat \cup Place
  BY BorrowedStringsAssumption DEF ViewType
<1>2. Pointer(Nil, s, at) = x
  BY DEF Pointer
<1> HIDE DEF x
<1> QED
  BY <1>1, <1>2 DEF PointsWell

\* A pointer to the text of s.
LEMMA PointerIs ==
  ASSUME NEW x, x # Nil, NEW s \in Str, NEW at \in Nat \cup Place \cup {Fresh, Adrift}
  PROVE  /\ Pointer(x, s, at) \in ViewType /\ Pointer(x, s, at).str = s
         /\ Pointer(x, s, at).at = at /\ s \notin {Freed, Nil}
  BY BorrowedStringsAssumption DEF Pointer, ViewType

\* get<const char *>() of a slot (detail/type_traits.hpp:125).
LEMMA GetInv ==
  ASSUME Inv, NEW v \in View, NEW i \in 1..MaxSlots, NEW s \in Str, NEW dead \in Garbage(stack),
         Get(v, i, s, dead),
         careful' = careful
  PROVE  Inv'
<1> DEFINE y == IF i \in Slot THEN stack[i] ELSE Nil
           x == Pointer(y, s, i)
<1>1. /\ ReadsAs(y, s) /\ UNCHANGED <<base, place, fault>> /\ fault = "none"
      /\ IF y # Number
         THEN view' = [view EXCEPT ![v] = x] /\ UNCHANGED <<heap, stack>>
         ELSE /\ heap' = (heap \ dead) \cup {s}
              /\ stack' = [stack EXCEPT ![i] = s]
              /\ view' = [After(view, dead) EXCEPT ![v] = x]
  BY DEF Get, Runs
<1>2. /\ stack \in Seq(Value) /\ Len(stack) \in Nat /\ DOMAIN stack = 1..Len(stack)
      /\ heap \subseteq Str /\ view \in [View -> ViewType \cup {None}]
      /\ base = None \/ base \in 0..Len(stack)
  BY LenProperties DEF Inv, TypeOK
<1>3. Nil # Number /\ i \in Nat
  BY BorrowedStringsAssumption
<1>4. CASE y = Nil
  <2>1. x \in ViewType /\ PointsWell(x, stack, place, heap)
    BY <1>4, NullWell
  <2> HIDE DEF x, y
  <2> QED
    BY <1>1, <1>3, <1>4, <2>1, PointedInv
<1>5. ASSUME y # Nil
      PROVE  /\ i \in 1..Len(stack) /\ y = stack[i] /\ s \in Value /\ s \notin {Freed, Nil, Number}
             /\ x \in ViewType /\ x.str = s /\ x.at = i /\ i \notin Place
  <2>1. i \in Slot
    BY <1>5
  <2>2. i \in 1..Len(stack) /\ y = stack[i]
    BY <1>2, <2>1 DEF Slot, Bottom
  <2>3. s \in Value /\ s \notin {Freed, Nil, Number} /\ i \notin Place
    BY <1>3, BorrowedStringsAssumption DEF Value
  <2> HIDE DEF y
  <2>4. x \in ViewType /\ x.str = s /\ x.at = i
    BY <1>3, <1>5, PointerIs
  <2> QED
    BY <2>2, <2>3, <2>4
<1> HIDE DEF x, y
<1>6. CASE y # Nil /\ y # Number
  <2>1. y = s
    BY <1>1, <1>6 DEF ReadsAs
  <2>2. s \in heap
    BY <1>2, <1>5, <1>6, <2>1 DEF Inv, HeldAllocated, Held
  <2>3. PointsWell(x, stack, place, heap)
    BY <1>2, <1>5, <1>6, <2>1, <2>2 DEF PointsWell
  <2> QED
    BY <1>1, <1>5, <1>6, <2>3, PointedInv
<1>7. CASE y = Number
  <2>1. /\ heap' = (heap \ dead) \cup {s} /\ stack' = [stack EXCEPT ![i] = s]
        /\ view' = [After(view, dead) EXCEPT ![v] = x]
    BY <1>1, <1>7
  <2>2. /\ stack[i] = Number /\ i \in 1..Len(stack) /\ s \in Value
        /\ s \notin {Freed, Nil, Number} /\ x \in ViewType /\ x.str = s /\ x.at = i /\ i \notin Place
    BY <1>3, <1>5, <1>7
  <2>3. /\ stack' \in Seq(Value) /\ Len(stack') = Len(stack) /\ DOMAIN stack' = DOMAIN stack
        /\ \A j \in 1..Len(stack) : stack'[j] = IF j = i THEN s ELSE stack[j]
    BY <1>2, <2>1, <2>2, ExceptSeq, LenProperties
  <2>4. view' \in [View -> ViewType \cup {None}] /\ heap' \subseteq Str
    BY <1>2, <2>1, <2>2, AllAged
  <2>5. TypeOK'
    BY <1>1, <1>2, <2>3, <2>4 DEF Inv, TypeOK
  <2>6. HeldAllocated'
    <3>1. dead \cap Held(stack) = {} /\ Held(stack) \subseteq heap
      BY DEF Garbage, Inv, HeldAllocated
    <3>2. Held(stack)' \subseteq Held(stack) \cup {s}
      BY <1>1, <1>2, <2>3 DEF Held
    <3> QED
      BY <2>1, <3>1, <3>2 DEF HeldAllocated
  <2>7. PointsWell(x, stack', place, heap')
    BY <1>2, <2>1, <2>2, <2>3 DEF PointsWell
  <2>8. ASSUME NEW w \in View, w # v
        PROVE  PointsWell(After(view, dead)[w], stack', place, heap')
    <3> DEFINE z == After(view, dead)[w]
    <3>1. PointsWell(z, stack, place, heap \ dead)
      BY AllAged
    <3>2. z # None /\ z.at \in Nat => z.at # i
      BY <2>2, <3>1, BorrowedStringsAssumption DEF PointsWell, ViewType
    <3> HIDE DEF z
    <3>3. z # None /\ z.at \in Nat => z.at \in DOMAIN stack' /\ stack'[z.at] = z.str
      BY <1>2, <2>3, <3>1, <3>2 DEF PointsWell
    <3>4. PointsWell(z, stack', place, heap')
      BY <2>1, <3>1, <3>3 DEF PointsWell
    <3> QED
      BY <3>4 DEF z
  <2>9. \A w \in View : PointsWell(view'[w], stack', place', heap')
    BY <1>1, <2>1, <2>7, <2>8, AllAged
  <2> QED
    BY <1>1, <2>5, <2>6, <2>9, AssembleRunning
<1> QED
  BY <1>4, <1>6, <1>7

-----------------------------------------------------------------------------
\* pop() (detail/stack_traits.hpp:32-41).
LEMMA DropInv ==
  ASSUME Inv, Drop,
         careful' = careful
  PROVE  Inv'
<1>1. /\ Slot # {} /\ stack' = Front(stack) /\ view' = Losing(view, {Len(stack)})
      /\ UNCHANGED <<heap, base, place, fault>> /\ fault = "none"
  BY DEF Drop, Runs
<1>2. /\ stack \in Seq(Value) /\ Len(stack) \in Nat /\ DOMAIN stack = 1..Len(stack)
      /\ base = None \/ base \in 0..Len(stack)
  BY LenProperties DEF Inv, TypeOK
<1>3. Bottom < Len(stack) /\ Len(stack) > 0 /\ stack # <<>> /\ (base = None \/ base = Bottom)
  BY <1>1, <1>2 DEF Slot, Bottom
<1>4. /\ stack' \in Seq(Value) /\ Len(stack') = Len(stack) - 1
      /\ \A j \in 1..(Len(stack) - 1) : stack'[j] = stack[j]
  BY <1>1, <1>2, <1>3, FrontOp
<1>5. DOMAIN stack' = 1..(Len(stack) - 1)
  BY <1>4, LenProperties
<1>6. \A j \in DOMAIN stack \ {Len(stack)} : j \in DOMAIN stack' /\ stack'[j] = stack[j]
  BY <1>2, <1>4, <1>5
<1>7. {Len(stack)} \in SUBSET (Nat \cup Place)
  BY <1>2
<1>8. /\ view' \in [View -> ViewType \cup {None}]
      /\ \A v \in View : PointsWell(view'[v], stack', place, heap)
  BY <1>1, <1>6, <1>7, ViewsWell, LosingWell
<1>9. TypeOK'
  <2>1. base' = None \/ base' \in 0..Len(stack')
    BY <1>1, <1>2, <1>3, <1>4
  <2>2. Len(stack') <= MaxSlots
    BY <1>2, <1>4, BorrowedStringsAssumption DEF Inv, TypeOK
  <2> QED
    BY <1>1, <1>4, <1>8, <2>1, <2>2 DEF Inv, TypeOK
<1>10. HeldAllocated'
  BY <1>1, <1>2, <1>4, <1>5 DEF Inv, HeldAllocated, Held
<1> QED
  BY <1>1, <1>8, <1>9, <1>10, AssembleRunning

\* pick() (stack.hpp:86-91).
LEMMA PickInv ==
  ASSUME Inv, NEW i \in 1..MaxSlots, Pick(i),
         careful' = careful
  PROVE  Inv'
<1>1. /\ i \in Slot /\ stack' = RemoveAt(stack, i) /\ view' = Shifted(i)
      /\ UNCHANGED <<heap, base, place, fault>> /\ fault = "none"
  BY DEF Pick, Runs
<1>2. /\ stack \in Seq(Value) /\ Len(stack) \in Nat /\ DOMAIN stack = 1..Len(stack)
      /\ base = None \/ base \in 0..Len(stack)
      /\ view \in [View -> ViewType \cup {None}]
  BY LenProperties DEF Inv, TypeOK
<1>3. i \in 1..Len(stack) /\ Bottom < i /\ (base = None \/ base = Bottom)
  BY <1>1, <1>2 DEF Slot, Bottom
<1>4. /\ stack' \in Seq(Value) /\ Len(stack') = Len(stack) - 1
      /\ \A j \in 1..(Len(stack) - 1) : stack'[j] = IF j < i THEN stack[j] ELSE stack[j + 1]
  BY <1>1, <1>2, <1>3, RemoveOp
<1>5. DOMAIN stack' = 1..(Len(stack) - 1)
  BY <1>4, LenProperties
<1>6. ASSUME NEW v \in View
      PROVE  view'[v] \in ViewType \cup {None} /\ PointsWell(view'[v], stack', place, heap)
  <2>1. PointsWell(view[v], stack, place, heap)
    BY ViewsPointWell DEF Inv
  <2>2. CASE view[v] = None \/ view[v].at \notin i..Len(stack)
    <3>1. view'[v] = view[v]
      BY <1>1, <2>2 DEF Shifted
    <3>2. view[v] # None /\ view[v].at \in Nat =>
            view[v].at \in DOMAIN stack' /\ stack'[view[v].at] = stack[view[v].at]
      BY <1>2, <1>3, <1>4, <1>5, <2>1, <2>2 DEF PointsWell
    <3> QED
      BY <1>2, <2>1, <3>1, <3>2 DEF PointsWell
  <2>3. CASE view[v] # None /\ view[v].at \in i..Len(stack)
    <3> DEFINE n == IF view[v].at = i THEN Fresh ELSE view[v].at - 1
               x == [view[v] EXCEPT !.at = n]
    <3>1. view[v] \in ViewType /\ view[v].at \in Nat /\ i \in Nat
      BY <1>2, <1>3, <2>3
    <3>2. n \in Nat \cup {Fresh}
      BY <1>2, <1>3, <2>3, <3>1
    <3>3. view'[v] = x
      BY <1>1, <2>3 DEF Shifted
    <3>4. x = [view[v] EXCEPT !.at = n]
      OBVIOUS
    <3> HIDE DEF x
    <3>5. x \in ViewType /\ x.at = n /\ x.str = view[v].str
      BY <3>1, <3>2, <3>4 DEF ViewType
    <3>6. stack[view[v].at] = view[v].str /\ view[v].str \notin {Freed, Nil} /\ view[v].str \in heap
      BY <2>1, <2>3, <3>1, BorrowedStringsAssumption DEF PointsWell
    <3>7. n \in Nat => n \in DOMAIN stack' /\ stack'[n] = view[v].str
      <4>1. CASE view[v].at = i
        BY <4>1, BorrowedStringsAssumption
      <4>2. CASE view[v].at # i
        <5>1. /\ n = view[v].at - 1 /\ n \in 1..(Len(stack) - 1) /\ ~(n < i) /\ n + 1 = view[v].at
          BY <1>2, <1>3, <2>3, <3>1, <4>2
        <5> HIDE DEF n
        <5> QED
          BY <1>4, <1>5, <3>6, <5>1
      <4> QED
        BY <4>1, <4>2
    <3>8. n \notin Place
      BY <3>2, BorrowedStringsAssumption
    <3> HIDE DEF n
    <3> QED
      BY <3>3, <3>5, <3>6, <3>7, <3>8 DEF PointsWell
  <2> QED
    BY <2>2, <2>3
<1>7. view' \in [View -> ViewType \cup {None}]
  BY <1>1, <1>6 DEF Shifted
<1>8. TypeOK'
  <2>1. base' = None \/ base' \in 0..Len(stack')
    BY <1>1, <1>2, <1>3, <1>4
  <2>2. Len(stack') <= MaxSlots
    BY <1>2, <1>4, BorrowedStringsAssumption DEF Inv, TypeOK
  <2> QED
    BY <1>1, <1>4, <1>7, <2>1, <2>2 DEF Inv, TypeOK
<1>9. HeldAllocated'
  <2>1. \A j \in DOMAIN stack' : \E k \in DOMAIN stack : stack'[j] = stack[k]
    <3> SUFFICES ASSUME NEW j \in 1..(Len(stack) - 1)
                 PROVE  \E k \in 1..Len(stack) : stack'[j] = stack[k]
      BY <1>2, <1>5
    <3>1. j \in 1..Len(stack) /\ j + 1 \in 1..Len(stack)
      BY <1>2
    <3> QED
      BY <1>4, <3>1
  <2>2. Held(stack)' \subseteq Held(stack)
    BY <1>1, <2>1 DEF Held
  <2> QED
    BY <1>1, <2>2 DEF Inv, HeldAllocated
<1> QED
  BY <1>1, <1>6, <1>8, <1>9, AssembleRunning

-----------------------------------------------------------------------------
\* A pointer is got after a step of the collector, which left or made its text.
LEMMA GotInv ==
  ASSUME Inv, NEW v \in View, NEW dead \in Garbage(stack), NEW hp \in SUBSET Str, NEW x,
         heap \ dead \subseteq hp,
         x \in ViewType, PointsWell(x, stack, place, hp),
         heap' = hp, view' = [After(view, dead) EXCEPT ![v] = x],
         UNCHANGED <<stack, base, place, fault>>, fault = "none",
         careful' = careful
  PROVE  Inv'
<1>1. /\ view' \in [View -> ViewType \cup {None}]
      /\ \A w \in View : view'[w] = IF w = v THEN x ELSE After(view, dead)[w]
  BY AllAged
<1>2. TypeOK'
  BY <1>1 DEF Inv, TypeOK
<1>3. HeldAllocated'
  BY DEF Inv, HeldAllocated, Held, Garbage
<1>4. ASSUME NEW w \in View
      PROVE  PointsWell(After(view, dead)[w], stack', place', heap')
  <2>1. PointsWell(After(view, dead)[w], stack, place, heap \ dead)
    BY AllAged
  <2> QED
    BY <2>1, StaysWell
<1> QED
  BY <1>1, <1>2, <1>3, <1>4, AssembleRunning

\* Reading leaves the strings there are, with the one that it points to.
LEMMA MadeIs ==
  ASSUME NEW x, NEW s \in Str, NEW hp \in SUBSET Str
  PROVE  /\ Made(x, s, hp) \in SUBSET Str /\ hp \subseteq Made(x, s, hp)
         /\ x # Nil => s \in Made(x, s, hp)
  BY DEF Made

\* A pointer that no place keeps.
LEMMA FreshWell ==
  ASSUME NEW x, NEW s \in Str, NEW st, NEW pl, NEW hp \in SUBSET Str
  PROVE  /\ Pointer(x, s, Fresh) \in ViewType
         /\ PointsWell(Pointer(x, s, Fresh), st, pl, Made(x, s, hp))
<1>1. CASE x = Nil
  BY <1>1, NullWell
<1>2. CASE x # Nil
  <2> DEFINE y == Pointer(x, s, Fresh)
             new == Made(x, s, hp)
  <2>1. Fresh \in Nat \cup Place \cup {Fresh, Adrift} /\ Fresh \notin Nat \cup Place
    BY BorrowedStringsAssumption
  <2>2. y \in ViewType /\ y.str = s /\ y.at = Fresh /\ s \notin {Freed, Nil}
    <3> USE <1>2, <2>1
    <3>1. y \in ViewType
      BY PointerIs
    <3>2. y.str = s
      BY DEF Pointer
    <3>3. y.at = Fresh
      BY DEF Pointer
    <3>4. s \notin {Freed, Nil}
      BY BorrowedStringsAssumption
    <3> QED
      BY <3>1, <3>2, <3>3, <3>4
  <2>3. s \in new
    BY <1>2, MadeIs
  <2> HIDE DEF y, new
  <2>4. PointsWell(y, st, pl, new)
    BY <2>1, <2>2, <2>3 DEF PointsWell
  <2> QED
    BY <2>2, <2>4 DEF y, new
<1> QED
  BY <1>1, <1>2

\* A pointer that a place keeps.
LEMMA KeptWell ==
  ASSUME Inv, NEW p \in Place, NEW s \in Str, place[p] # Number, ReadsAs(place[p], s),
         NEW hp, heap \cap Held(stack) \subseteq hp
  PROVE  /\ Pointer(place[p], s, p) \in ViewType
         /\ PointsWell(Pointer(place[p], s, p), stack, place, hp)
<1>1. CASE place[p] = Nil
  BY <1>1, NullWell
<1>2. CASE place[p] # Nil
  <2>1. place[p] = s
    BY <1>2 DEF ReadsAs
  <2>2. s \in hp
    <3>1. s \in Held(stack)
      BY <2>1 DEF Held
    <3> QED
      BY <3>1 DEF Inv, HeldAllocated
  <2> DEFINE x == Pointer(place[p], s, p)
  <2>3. x \in ViewType /\ x.str = s /\ x.at = p /\ s \notin {Freed, Nil} /\ p \notin Nat
    <3>1. p \in Nat \cup Place \cup {Fresh, Adrift} /\ s \notin {Freed, Nil} /\ p \notin Nat
      BY BorrowedStringsAssumption
    <3>2. x \in ViewType
      BY <1>2, <3>1, PointerIs
    <3>3. x.str = s
      BY <1>2, <3>1, PointerIs
    <3>4. x.at = p
      BY <1>2, <3>1, PointerIs
    <3> QED
      BY <3>1, <3>2, <3>3, <3>4
  <2> HIDE DEF x
  <2>4. PointsWell(x, stack, place, hp)
    BY <2>1, <2>2, <2>3 DEF PointsWell
  <2> QED
    BY <2>3, <2>4 DEF x
<1> QED
  BY <1>1, <1>2

\* get<const char *>(key) (detail/table_traits.hpp:30-36).
LEMMA ReadInv ==
  ASSUME Inv, NEW v \in View, NEW p \in Place, NEW s \in Str, NEW dead \in Garbage(stack),
         Read(v, p, s, dead),
         careful' = careful
  PROVE  Inv'
<1> DEFINE x == Pointer(place[p], s, IF place[p] = Number THEN Fresh ELSE p)
           hp == Made(place[p], s, heap \ dead)
<1>1. /\ ReadsAs(place[p], s) /\ heap' = hp /\ view' = [After(view, dead) EXCEPT ![v] = x]
      /\ UNCHANGED <<stack, base, place, fault>> /\ fault = "none"
  BY DEF Read, Runs
<1>2. heap \ dead \in SUBSET Str
  BY DEF Inv, TypeOK
<1>3. hp \in SUBSET Str /\ heap \ dead \subseteq hp
  BY <1>2, MadeIs
<1>4. heap \cap Held(stack) \subseteq hp
  BY <1>3 DEF Garbage
<1>5. x \in ViewType /\ PointsWell(x, stack, place, hp)
  <2>1. CASE place[p] = Number
    BY <1>2, <2>1, FreshWell
  <2>2. CASE place[p] # Number
    <3> HIDE DEF hp
    <3> QED
      BY <1>1, <1>4, <2>2, KeptWell
  <2> QED
    BY <2>1, <2>2
<1> HIDE DEF x, hp
<1> QED
  BY <1>1, <1>3, <1>5, GotInv

\* A table_reference is converted (table_reference.hpp:43-50).
LEMMA ConvertInv ==
  ASSUME Inv, NEW v \in View, NEW p \in Place, NEW s \in Str, Convert(v, p, s),
         careful' = careful
  PROVE  Inv'
<1> DEFINE x == Pointer(place[p], s, p)
<1>1. /\ place[p] # Number /\ ReadsAs(place[p], s) /\ view' = [view EXCEPT ![v] = x]
      /\ UNCHANGED <<heap, stack, base, place, fault>> /\ fault = "none"
  BY DEF Convert, Runs
<1>2. x \in ViewType /\ PointsWell(x, stack, place, heap)
  BY <1>1, KeptWell
<1> HIDE DEF x
<1> QED
  BY <1>1, <1>2, PointedInv

\* A result as const char * (function.hpp:75-83).
LEMMA ResultInv ==
  ASSUME Inv, NEW v \in View, NEW x \in Value, NEW s \in Str, NEW dead \in Garbage(stack),
         Result(v, x, s, dead),
         careful' = careful
  PROVE  Inv'
<1> DEFINE y == Pointer(x, s, Fresh)
           hp == Made(x, s, heap \ dead)
<1>1. /\ heap' = hp /\ view' = [After(view, dead) EXCEPT ![v] = y]
      /\ UNCHANGED <<stack, base, place, fault>> /\ fault = "none"
  BY DEF Result, Runs
<1>2. heap \ dead \in SUBSET Str
  BY DEF Inv, TypeOK
<1>3. hp \in SUBSET Str /\ heap \ dead \subseteq hp
  BY <1>2, MadeIs
<1>4. y \in ViewType /\ PointsWell(y, stack, place, hp)
  BY <1>2, FreshWell
<1> HIDE DEF y, hp
<1> QED
  BY <1>1, <1>3, <1>4, GotInv

\* A call fails (function.hpp:29-33).
LEMMA FailsInv ==
  ASSUME Inv, NEW x \in Value, NEW s \in Str, NEW dead \in Garbage(stack), Fails(x, s, dead),
         careful' = careful
  PROVE  Inv'
<1>1. /\ view' = After(view, dead) /\ UNCHANGED <<stack, base, place>>
      /\ heap \ dead \subseteq heap' /\ heap' \subseteq (heap \ dead) \cup {s}
      /\ fault' \in {"none", "null"} /\ (careful => fault' = "none")
  BY DEF Fails, Made
<1>2. TypeOK'
  BY <1>1, AllAged DEF Inv, TypeOK
<1>3. HeldAllocated'
  BY <1>1 DEF Inv, HeldAllocated, Held, Garbage
<1>4. \A v \in View : PointsWell(view'[v], stack', place', heap')
  <2>1. \A v \in View : PointsWell(view'[v], stack, place, heap \ dead)
    BY <1>1, AllAged
  <2> QED
    BY <1>1, <2>1, StaysWell
<1>5. FaultHasCause' /\ CarefulIsSafe'
  BY <1>1 DEF FaultHasCause, CarefulIsSafe
<1> QED
  BY <1>2, <1>3, <1>4, <1>5, Assemble

-----------------------------------------------------------------------------
\* A place gets another value that Lua holds.
LEMMA ReplaceInv ==
  ASSUME Inv, NEW p \in Place, NEW x \in Value, x \in Str => x \in Held(stack),
         NEW dead \in Garbage(stack), Replace(p, x, dead), fault = "none",
         careful' = careful
  PROVE  Inv'
<1>1. place' = [place EXCEPT ![p] = x] /\ UNCHANGED <<stack, base, fault>>
  BY DEF Replace
<1>2. PICK vw \in {view, After(view, dead)} :
        /\ heap' = IF vw = view THEN heap' ELSE heap \ dead
        /\ view' = Losing(vw, {p})
        /\ vw \in [View -> ViewType \cup {None}]
        /\ \A v \in View : PointsWell(vw[v], stack, place, heap')
        /\ heap \ dead \subseteq heap' /\ heap' \subseteq heap
  <2>1. CASE heap' = heap \ dead /\ view' = Losing(After(view, dead), {p})
    BY <2>1, AllAged
  <2>2. CASE heap' = heap /\ view' = Losing(view, {p})
    BY <2>2, ViewsWell
  <2> QED
    BY <2>1, <2>2 DEF Replace
<1>3. /\ place' \in [Place -> Value]
      /\ \A q \in Place : place'[q] = IF q = p THEN x ELSE place[q]
  BY <1>1 DEF Inv, TypeOK
<1>4. {p} \in SUBSET (Nat \cup Place) /\ \A q \in Place \ {p} : place'[q] = place[q]
  BY <1>3
<1>5. \A j \in DOMAIN stack \ {p} : j \in DOMAIN stack /\ stack[j] = stack[j]
  OBVIOUS
<1>6. /\ view' \in [View -> ViewType \cup {None}]
      /\ \A v \in View : PointsWell(view'[v], stack, place', heap')
  <2> DEFINE hp == heap'
             pl == place'
  <2>1. /\ vw \in [View -> ViewType \cup {None}] /\ view' = Losing(vw, {p})
        /\ \A v \in View : PointsWell(vw[v], stack, place, hp)
        /\ \A q \in Place \ {p} : pl[q] = place[q]
    BY <1>2, <1>4
  <2> HIDE DEF hp, pl
  <2>2. /\ Losing(vw, {p}) \in [View -> ViewType \cup {None}]
        /\ \A v \in View : PointsWell(Losing(vw, {p})[v], stack, pl, hp)
    BY <1>4, <1>5, <2>1, LosingWell
  <2> QED
    BY <2>1, <2>2 DEF hp, pl
<1>7. TypeOK'
  BY <1>1, <1>2, <1>3, <1>6 DEF Inv, TypeOK
<1>8. HeldAllocated'
  <2>1. Held(stack)' \subseteq Held(stack)
    BY <1>1, <1>3 DEF Held
  <2>2. Held(stack) \subseteq heap \ dead
    BY DEF Inv, HeldAllocated, Garbage
  <2> QED
    BY <1>2, <2>1, <2>2 DEF HeldAllocated
<1> QED
  BY <1>1, <1>6, <1>7, <1>8, AssembleRunning

\* set(), a reference or the script give a place another value (detail/table_traits.hpp:38-46).
LEMMA StoreInv ==
  ASSUME Inv, NEW p \in Place, NEW dead \in Garbage(stack), Store(p, dead),
         careful' = careful
  PROVE  Inv'
<1>1. /\ stack \in Seq(Value) /\ Len(stack) \in Nat /\ DOMAIN stack = 1..Len(stack)
      /\ (base = None \/ base \in 0..Len(stack))
  BY LenProperties DEF Inv, TypeOK
<1>2. Len(stack) \in 1..Len(stack)
  BY <1>1 DEF Store, Slot, Bottom
<1>3. stack[Len(stack)] \in Value
  BY <1>1, <1>2, ElementOfSeq
<1>4. stack[Len(stack)] \in Str => stack[Len(stack)] \in Held(stack)
  BY <1>1, <1>2 DEF Held
<1> QED
  BY <1>3, <1>4, ReplaceInv DEF Store, Runs

\* An entry is emptied, or a reference destroyed (reference.hpp:54-58).
LEMMA ForgetInv ==
  ASSUME Inv, NEW p \in Place, NEW dead \in Garbage(stack), Forget(p, dead),
         careful' = careful
  PROVE  Inv'
<1>1. Nil \in Value /\ Nil \notin Str
  BY BorrowedStringsAssumption DEF Value
<1> QED
  BY <1>1, ReplaceInv DEF Forget, Runs

-----------------------------------------------------------------------------
\* The frame of a C++ function is emptied.
LEMMA BelowWell ==
  ASSUME Inv, base # None
  PROVE  /\ Below \in Seq(Value) /\ Len(Below) <= MaxSlots
         /\ Losing(view, Slot) \in [View -> ViewType \cup {None}]
         /\ \A v \in View : PointsWell(Losing(view, Slot)[v], Below, place, heap)
         /\ Held(Below) \subseteq heap
<1>1. /\ stack \in Seq(Value) /\ Len(stack) \in Nat /\ DOMAIN stack = 1..Len(stack)
      /\ base \in 0..Len(stack) /\ Len(stack) <= MaxSlots
  BY LenProperties DEF Inv, TypeOK
<1>2. Slot = (base + 1)..Len(stack)
  BY DEF Slot, Bottom
<1>3. /\ Below \in Seq(Value) /\ Len(Below) = base /\ \A j \in 1..base : Below[j] = stack[j]
  BY <1>1, BelowOp DEF Below
<1>4. DOMAIN Below = 1..base
  BY <1>3, LenProperties
<1>5. Len(Below) <= MaxSlots
  BY <1>1, <1>3, BorrowedStringsAssumption
<1>6. Slot \in SUBSET (Nat \cup Place)
  BY <1>1, <1>2
<1>7. \A j \in DOMAIN stack \ Slot : j \in DOMAIN Below /\ Below[j] = stack[j]
  BY <1>1, <1>2, <1>3, <1>4
<1>8. /\ Losing(view, Slot) \in [View -> ViewType \cup {None}]
      /\ \A v \in View : PointsWell(Losing(view, Slot)[v], Below, place, heap)
  BY <1>6, <1>7, ViewsWell, LosingWell
<1>9. \A j \in DOMAIN Below : j \in DOMAIN stack /\ Below[j] = stack[j]
  BY <1>1, <1>3, <1>4
<1>10. Held(Below) \subseteq heap
  BY <1>9 DEF Inv, HeldAllocated, Held
<1> QED
  BY <1>3, <1>5, <1>8, <1>10

\* A C++ function returns nothing (detail/function_traits.hpp:97-103).
LEMMA ReturnInv ==
  ASSUME Inv, Return,
         careful' = careful
  PROVE  Inv'
<1>1. /\ base # None /\ stack' = Below /\ view' = Losing(view, Slot) /\ base' = None
      /\ UNCHANGED <<heap, place, fault>> /\ fault = "none"
  BY DEF Return, Runs
<1>2. TypeOK'
  BY <1>1, BelowWell DEF Inv, TypeOK
<1>3. HeldAllocated'
  BY <1>1, BelowWell DEF HeldAllocated, Held
<1> QED
  BY <1>1, <1>2, <1>3, BelowWell, AssembleRunning

\* A C++ function returns a string (detail/function_traits.hpp:73-80): its frame is gone
\* when the collector works, so that only a place keeps the text.
LEMMA ReturnViewInv ==
  ASSUME Inv, NEW v \in View, NEW dead \in SUBSET heap, ReturnView(v, dead),
         careful' = careful
  PROVE  Inv'
<1> DEFINE lost == Losing(view, Slot)
<1>1. /\ base # None /\ view[v] # None /\ view[v].str # Nil /\ dead \in Garbage(Below)
      /\ fault' = IF view[v].str \in dead \cup {Freed} THEN "freed" ELSE "none"
      /\ heap' = heap \ dead /\ stack' = Below /\ view' = After(lost, dead)
      /\ base' = None /\ place' = place /\ (careful => view[v].at \in Place)
  BY DEF ReturnView
<1>2. /\ Below \in Seq(Value) /\ Len(Below) <= MaxSlots
      /\ lost \in [View -> ViewType \cup {None}]
      /\ \A w \in View : PointsWell(lost[w], Below, place, heap)
      /\ Held(Below) \subseteq heap
  BY <1>1, BelowWell
<1>3. /\ place \in [Place -> Value] /\ heap \subseteq Str
      /\ dead \in SUBSET Str /\ dead \cap Held(Below) = {}
  BY <1>1 DEF Inv, TypeOK, Garbage
<1>4. lost[v] # None /\ lost[v].str = view[v].str /\ (view[v].at \in Place => lost[v] = view[v])
  <2>1. view[v] \in ViewType
    BY <1>1 DEF Inv, TypeOK
  <2>2. \A n \in Slot : n \notin Place
    <3>1. Slot \subseteq Nat
      BY <1>1, LenProperties DEF Slot, Bottom, Inv, TypeOK
    <3> QED
      BY <3>1, BorrowedStringsAssumption
  <2>3. lost[v] = IF view[v].at \in Slot THEN [view[v] EXCEPT !.at = Fresh] ELSE view[v]
    BY <1>1 DEF Losing
  <2>4. [view[v] EXCEPT !.at = Fresh] \in ViewType /\ [view[v] EXCEPT !.at = Fresh].str = view[v].str
    BY <2>1 DEF ViewType
  <2>5. lost[v] # None /\ lost[v].str = view[v].str
    BY <1>1, <2>3, <2>4, BorrowedStringsAssumption
  <2>6. view[v].at \in Place => lost[v] = view[v]
    BY <2>2, <2>3
  <2> QED
    BY <2>5, <2>6
<1> HIDE DEF lost
<1>5. view' = [w \in View |-> Aged(lost[w], dead)]
  BY <1>1, <1>2, AfterAges
<1>6. \A w \in View : PointsWell(Aged(lost[w], dead), Below, place, heap \ dead)
  BY <1>2, <1>3, AgedWell
<1>7. \A w \in View : PointsWell(view'[w], stack', place', heap')
  BY <1>1, <1>5, <1>6
<1>8. view' \in [View -> ViewType \cup {None}]
  BY <1>5, <1>6 DEF PointsWell
<1>9. TypeOK'
  BY <1>1, <1>2, <1>3, <1>8 DEF Inv, TypeOK
<1>10. HeldAllocated'
  <2>1. Held(stack)' = Held(Below)
    BY <1>1 DEF Held
  <2> QED
    BY <1>1, <1>2, <1>3, <2>1 DEF HeldAllocated
<1>11. FaultHasCause'
  <2> SUFFICES ASSUME view[v].str \in dead \cup {Freed}
               PROVE  \E w \in View : view'[w] = [str |-> Freed, at |-> Adrift]
    BY <1>1 DEF FaultHasCause
  <2> DEFINE at == IF lost[v].at = Fresh THEN Adrift ELSE lost[v].at
  <2>1. view'[v] = [str |-> Freed, at |-> at]
    BY <1>4, <1>5 DEF Aged
  <2> HIDE DEF at
  <2>2. view'[v] # None /\ view'[v].str = Freed /\ view'[v].at = at
    <3>1. view'[v] # None
      BY <1>2, <1>3, <1>4, <1>5, AgedWell
    <3> QED
      BY <2>1, <3>1
  <2>3. at = Adrift
    BY <1>7, <2>2 DEF PointsWell
  <2> QED
    BY <2>1, <2>3
<1>12. CarefulIsSafe'
  <2> SUFFICES ASSUME careful PROVE view[v].str \notin dead \cup {Freed}
    BY <1>1 DEF CarefulIsSafe
  <2>1. PointsWell(view[v], Below, place, heap) /\ view[v].at \in Place
    BY <1>1, <1>2, <1>4
  <2>2. view[v].str # Freed /\ place[view[v].at] = view[v].str /\ view[v].str \in Str
    BY <1>1, <2>1, BorrowedStringsAssumption DEF PointsWell, ViewType
  <2>3. view[v].str \in Held(Below)
    BY <2>1, <2>2 DEF Held
  <2> QED
    BY <1>3, <2>2, <2>3
<1> QED
  BY <1>7, <1>9, <1>10, <1>11, <1>12, Assemble

\* The program reads the text.
LEMMA UseInv ==
  ASSUME Inv, NEW v \in View, Use(v),
         careful' = careful
  PROVE  Inv'
<1>1. /\ view[v] # None /\ UNCHANGED <<heap, stack, base, place, view>>
      /\ fault' = IF view[v].str = Freed THEN "freed"
                  ELSE IF view[v].str = Nil THEN "null" ELSE "none"
      /\ (careful => view[v].at # Adrift /\ view[v].str # Nil)
  BY DEF Use, Good
<1>2. view[v] \in ViewType /\ (view[v].str = Freed => view[v].at = Adrift)
  BY <1>1 DEF Inv, TypeOK, ViewsAllocated
<1>3. view[v].str = Freed => view[v] = [str |-> Freed, at |-> Adrift]
  BY <1>2 DEF ViewType
<1>4. FaultHasCause' /\ CarefulIsSafe'
  BY <1>1, <1>2, <1>3 DEF FaultHasCause, CarefulIsSafe
<1>5. TypeOK' /\ HeldAllocated' /\ ViewsAllocated' /\ DanglingHasCause'
  BY <1>1 DEF Inv, TypeOK, HeldAllocated, Held, ViewsAllocated, DanglingHasCause
<1> QED
  BY <1>4, <1>5 DEF Inv

-----------------------------------------------------------------------------
\* The invariant is inductive.
LEMMA StepInv == Inv /\ [Next]_vars => Inv'
<1> SUFFICES ASSUME Inv, [Next]_vars PROVE Inv'
  OBVIOUS
<1>0. careful' = careful
  BY DEF Next, vars
<1>1. CASE UNCHANGED vars
  BY <1>0, <1>1 DEF vars, Inv, TypeOK, HeldAllocated, Held, ViewsAllocated, DanglingHasCause,
              FaultHasCause, CarefulIsSafe
<1>2. CASE Next
  <2>1. CASE Drop \/ Return \/ \E x \in {Number, Nil} : PushOther(x)
    BY <1>0, <2>1, PushOtherInv, DropInv, ReturnInv
  <2>2. CASE \E i \in 1..MaxSlots : Pick(i)
    BY <1>0, <2>2, PickInv
  <2>3. CASE \E dead \in Garbage(stack) : \E p \in Place : Store(p, dead) \/ Forget(p, dead)
    BY <1>0, <2>3, StoreInv, ForgetInv
  <2>4. CASE \E v \in View : Use(v)
    BY <1>0, <2>4, UseInv
  <2>5. CASE \E v \in View : \E dead \in SUBSET heap : ReturnView(v, dead)
    BY <1>0, <2>5, ReturnViewInv
  <2>6. CASE \E dead \in Garbage(stack) : \E x \in Value : Enter(x, dead)
    BY <1>0, <2>6, EnterInv
  <2>7. CASE \E dead \in Garbage(stack) : \E v \in View : PushView(v, dead)
    BY <1>0, <2>7, PushViewInv
  <2>8. CASE \E dead \in Garbage(stack) : \E s \in Str :
               Push(s, dead) \/ \E x \in Value : Fails(x, s, dead)
    BY <1>0, <2>8, PushInv, FailsInv
  <2>9. CASE \E dead \in Garbage(stack) : \E s \in Str : \E v \in View :
               \/ \E i \in 1..MaxSlots : Get(v, i, s, dead)
               \/ \E p \in Place : Read(v, p, s, dead)
               \/ \E x \in Value : Result(v, x, s, dead)
    BY <1>0, <2>9, GetInv, ReadInv, ResultInv
  <2>10. CASE \E v \in View, p \in Place, s \in Str : Convert(v, p, s)
    BY <1>0, <2>10, ConvertInv
  <2> QED
    BY <1>0, <1>2, <2>1, <2>2, <2>3, <2>4, <2>5, <2>6, <2>7, <2>8, <2>9, <2>10 DEF Next
<1> QED
  BY <1>0, <1>1, <1>2

\* Every reachable state satisfies the invariant.
THEOREM Invariant == Spec => []Inv
<1> QED
  BY InitInv, StepInv, PTL DEF Spec

\* The stack, the places and the pointers keep their types.
THEOREM TypeCorrect == Spec => []TypeOK
<1>1. Inv => TypeOK
  BY DEF Inv
<1> QED
  BY Invariant, <1>1, PTL

\* A pointer is good while its place keeps the string, and until Lua allocates after that.
THEOREM DanglingIsExplained == Spec => []DanglingHasCause
<1>1. Inv => DanglingHasCause
  BY DEF Inv
<1> QED
  BY Invariant, <1>1, PTL

\* Freed memory is read only through a pointer of the program that is adrift.
THEOREM FaultIsExplained == Spec => []FaultHasCause
<1>1. Inv => FaultHasCause
  BY DEF Inv
<1> QED
  BY Invariant, <1>1, PTL

\* The four rules suffice: neither freed memory nor a null pointer is read, as an error
\* message or as the text of what is no string.
THEOREM CarefulSafe == Spec => []CarefulIsSafe
<1>1. Inv => CarefulIsSafe
  BY DEF Inv
<1> QED
  BY Invariant, <1>1, PTL
=============================================================================
