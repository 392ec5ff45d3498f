--------------------------- MODULE HostStackProofs ---------------------------
(***************************************************************************)
(* HostStack for any values, any number of keys and nested loops and a     *)
(* stack of any size.                                                      *)
(***************************************************************************)
EXTENDS HostStack, WellFoundedInduction, FiniteSetTheorems, SequenceTheorems, TLAPS

Frames == DOMAIN loops

\* Loops are nested: an inner one found at least the program's values of the outer one,
\* and only the innermost can be at its end.
Nested ==
  /\ \A i \in Frames : loops[i].base <= Len(own) /\ (loops[i].ended => i = Depth)
  /\ \A i, j \in Frames : i <= j => loops[i].base <= loops[j].base

\* Unless the stack was disturbed outside of loops it reaches to the frames, and the frames
\* of loops up to the disturbed one are where the program's values and three slots for each
\* outer loop put them.
Stacked ==
  damage # 0 =>
    /\ \A i \in Frames : loops[i].top <= Len(stack)
    /\ \A i, j \in Frames : i <= j => loops[i].top <= loops[j].top
    /\ \A i \in Frames : i <= damage => loops[i].top = loops[i].base + 3 * (i - 1)

\* The slots of a stack that no loop disturbed.
Size == Len(own) + 3 * Depth - (IF loops # <<>> /\ Last(loops).ended THEN 1 ELSE 0)

Counted ==
  /\ damage \in 0..Depth \cup {NoDamage}
  /\ damage = NoDamage => Len(stack) = Size

\* The j-th of the program's values was pushed in d loops.
PushedIn(j, d) ==
  /\ d > 0 => loops[d].base < j
  /\ d < Depth => j <= loops[d + 1].base

ValuesStand ==
  \A j \in DOMAIN own : \A d \in 0..Depth :
    PushedIn(j, d) /\ d < damage =>
      j + 3 * d \in DOMAIN stack /\ stack[j + 3 * d] = Own(own[j])

Inv == TypeOK /\ Nested /\ Counted /\ Stacked /\ ValuesStand /\ LoopsVisitAll
-----------------------------------------------------------------------------
(* Sequences.                                                              *)

\* A non-empty set of natural numbers has a least one.
LEMMA LeastNumber ==
  ASSUME NEW I, I \subseteq Nat, I # {}
  PROVE  Min(I) \in I /\ \A i \in I : Min(I) <= i
<1> DEFINE R == OpToRel(<, Nat)
<1>1. IsWellFoundedOn(R, Nat)
  BY NatLessThanWellFounded
<1>2. \A x, y \in Nat : y < x => <<y, x>> \in R
  BY DEF OpToRel
<1> HIDE DEF R
<1>3. PICK x \in I : \A y \in I : <<y, x>> \notin R
  BY <1>1, WFMin
<1>4. ASSUME NEW y \in I PROVE x <= y
  <2>1. x \in Nat /\ y \in Nat
    OBVIOUS
  <2>2. ~(y < x)
    BY <1>2, <1>3, <2>1
  <2> QED
    BY <2>1, <2>2
<1> QED
  BY <1>4 DEF Min

\* What is left of a sequence when its end is taken off.
LEMMA PrefixOp ==
  ASSUME NEW S, NEW s \in Seq(S), NEW n \in Int, n <= Len(s)
  PROVE  /\ SubSeq(s, 1, n) \in Seq(S)
         /\ Len(SubSeq(s, 1, n)) = IF n > 0 THEN n ELSE 0
         /\ \A i \in 1..n : SubSeq(s, 1, n)[i] = s[i]
  OBVIOUS

\* lua_pop(L, n) takes the n topmost slots off.
LEMMA PoppedOp ==
  ASSUME NEW S, NEW s \in Seq(S), NEW n \in Nat
  PROVE  /\ Popped(s, n) \in Seq(S)
         /\ Len(Popped(s, n)) = IF n <= Len(s) THEN Len(s) - n ELSE 0
         /\ \A i \in 1..(Len(s) - n) : Popped(s, n)[i] = s[i]
<1>1. Len(s) \in Nat
  BY LenProperties
<1> QED
  BY <1>1, PrefixOp DEF Popped

\* What a sequence and another behind it make.
LEMMA ConcatOp ==
  ASSUME NEW S, NEW a \in Seq(S), NEW b \in Seq(S)
  PROVE  /\ a \o b \in Seq(S) /\ Len(a \o b) = Len(a) + Len(b)
         /\ \A i \in 1..Len(a) : (a \o b)[i] = a[i]
         /\ \A i \in 1..Len(b) : (a \o b)[Len(a) + i] = b[i]
<1>1. Len(a) \in Nat /\ Len(b) \in Nat
  BY LenProperties
<1>2. \A i \in 1..(Len(a) + Len(b)) : (a \o b)[i] = IF i <= Len(a) THEN a[i] ELSE b[i - Len(a)]
  OBVIOUS
<1>3. ASSUME NEW i \in 1..Len(b) PROVE (a \o b)[Len(a) + i] = b[i]
  <2>1. Len(a) + i \in 1..(Len(a) + Len(b)) /\ ~(Len(a) + i <= Len(a)) /\ (Len(a) + i) - Len(a) = i
    BY <1>1
  <2> QED
    BY <1>2, <2>1
<1> QED
  BY <1>1, <1>2, <1>3

\* One more at the end.
LEMMA AppendOp ==
  ASSUME NEW S, NEW a \in Seq(S), NEW x \in S
  PROVE  /\ Append(a, x) \in Seq(S) /\ Len(Append(a, x)) = Len(a) + 1
         /\ DOMAIN Append(a, x) = 1..(Len(a) + 1)
         /\ Append(a, x)[Len(a) + 1] = x
         /\ \A i \in 1..Len(a) : Append(a, x)[i] = a[i]
         /\ Append(a, x) # <<>> /\ Last(Append(a, x)) = x
BY DEF Last

\* One taken out in the middle.
LEMMA RemoveAtOp ==
  ASSUME NEW S, NEW s \in Seq(S), NEW k \in 1..Len(s)
  PROVE  /\ RemoveAt(s, k) \in Seq(S)
         /\ Len(RemoveAt(s, k)) = Len(s) - 1
         /\ \A i \in 1..(Len(s) - 1) : RemoveAt(s, k)[i] = IF i < k THEN s[i] ELSE s[i + 1]
<1>1. /\ SubSeq(s, 1, k - 1) \in Seq(S) /\ Len(SubSeq(s, 1, k - 1)) = k - 1
      /\ \A i \in 1..(k - 1) : SubSeq(s, 1, k - 1)[i] = s[i]
  OBVIOUS
<1>2. /\ SubSeq(s, k + 1, Len(s)) \in Seq(S) /\ Len(SubSeq(s, k + 1, Len(s))) = Len(s) - k
      /\ \A i \in 1..(Len(s) - k) : SubSeq(s, k + 1, Len(s))[i] = s[i + k]
  OBVIOUS
<1> DEFINE a == SubSeq(s, 1, k - 1)
           b == SubSeq(s, k + 1, Len(s))
<1>3. RemoveAt(s, k) = a \o b
  BY DEF RemoveAt
<1> HIDE DEF a, b
<1>4. a \in Seq(S) /\ b \in Seq(S) /\ Len(a) = k - 1 /\ Len(b) = Len(s) - k
  BY <1>1, <1>2 DEF a, b
<1>5. /\ a \o b \in Seq(S) /\ Len(a \o b) = Len(s) - 1
      /\ \A i \in 1..(Len(s) - 1) : (a \o b)[i] = IF i < k THEN a[i] ELSE b[i - (k - 1)]
  BY <1>4
<1>6. \A i \in 1..(Len(s) - 1) : (i < k => a[i] = s[i]) /\ (i >= k => b[i - (k - 1)] = s[i + 1])
  <2> SUFFICES ASSUME NEW i \in 1..(Len(s) - 1)
               PROVE  (i < k => a[i] = s[i]) /\ (i >= k => b[i - (k - 1)] = s[i + 1])
    OBVIOUS
  <2>1. i < k => a[i] = s[i]
    BY <1>1 DEF a
  <2>2. ASSUME i >= k PROVE b[i - (k - 1)] = s[i + 1]
    <3>1. i - (k - 1) \in 1..(Len(s) - k) /\ (i - (k - 1)) + k = i + 1
      BY <2>2
    <3> QED
      BY <1>2, <3>1 DEF b
  <2> QED
    BY <2>1, <2>2
<1> QED
  BY <1>3, <1>5, <1>6

\* lua_settop shortens the stack, or fills it up with nil.
LEMMA SettopOp ==
  ASSUME NEW s \in Seq(Slot), NEW n \in Nat
  PROVE  /\ Settop(s, n) \in Seq(Slot) /\ Len(Settop(s, n)) = n
         /\ \A i \in 1..n : i <= Len(s) => Settop(s, n)[i] = s[i]
<1>1. \A i \in 1..n : Settop(s, n)[i] \in Slot
  BY DEF Settop, NilSlot, Slot
<1> QED
  BY <1>1 DEF Settop

-----------------------------------------------------------------------------
(* What steps keep.                                                        *)

\* Facts about the types that many steps need.
LEMMA Typed ==
  ASSUME Inv
  PROVE  /\ Len(stack) \in Nat /\ Len(own) \in Nat /\ Depth \in Nat
         /\ Depth <= MaxLoops /\ MaxLoops \in Nat /\ MaxSlots \in Nat /\ MaxOwn \in Nat
         /\ Frames = 1..Depth
         /\ \A i \in Frames : /\ loops[i] \in Iterator
                             /\ loops[i].top \in Nat /\ loops[i].base \in Nat
                              /\ loops[i].top <= MaxSlots /\ loops[i].base <= MaxOwn
         /\ damage \in Nat /\ NoDamage \in Nat /\ NoDamage > Depth /\ NoDamage # 0
         /\ loops # <<>> <=> Depth > 0
         /\ loops # <<>> => Last(loops) = loops[Depth]
<1>1. /\ Len(stack) \in Nat /\ Len(own) \in Nat /\ Depth \in Nat /\ Depth <= MaxLoops
      /\ MaxLoops \in Nat /\ MaxSlots \in Nat /\ MaxOwn \in Nat /\ Frames = 1..Depth
  BY HostStackAssumption DEF Inv, TypeOK, Depth, Frames
<1>2. \A i \in Frames : loops[i] \in Iterator
  BY DEF Inv, TypeOK, Frames
<1>3. \A i \in Frames : /\ loops[i].top \in Nat /\ loops[i].base \in Nat
                        /\ loops[i].top <= MaxSlots /\ loops[i].base <= MaxOwn
  BY <1>1, <1>2 DEF Iterator
<1>4. NoDamage \in Nat /\ NoDamage > Depth /\ NoDamage # 0 /\ damage \in Nat
  BY <1>1 DEF NoDamage, Inv, TypeOK
<1>5. loops # <<>> <=> Depth > 0
  BY <1>1 DEF Depth, Inv, TypeOK
<1>6. loops # <<>> => Last(loops) = loops[Depth]
  BY DEF Last, Depth
<1> QED
  BY <1>1, <1>2, <1>3, <1>4, <1>5, <1>6

\* Nothing is claimed of a stack that was disturbed outside of loops.
LEMMA LostInv ==
  ASSUME TypeOK', Nested', damage' = 0
  PROVE  Inv'
<1>1. Len(loops') \in Nat /\ NoDamage # 0
  BY HostStackAssumption DEF TypeOK, NoDamage
<1>2. Counted'
  BY <1>1 DEF Counted, Depth
<1>3. Stacked' /\ ValuesStand'
  BY <1>1 DEF Stacked, ValuesStand, Depth
<1>4. LoopsVisitAll'
  <2>1. \A i \in DOMAIN loops' : i \in Nat /\ ~(i < 0)
    BY DEF TypeOK
  <2> QED
    BY <2>1 DEF LoopsVisitAll
<1> QED
  BY <1>2, <1>3, <1>4 DEF Inv

\* The step leaves all that is outside of the disturbed loop as it was.
KeepsOuter ==
  /\ damage' \in 1..Len(loops') /\ damage' <= damage
  /\ Len(loops') <= Depth
  /\ \A i \in 1..Len(loops') :
       /\ loops'[i].top = loops[i].top /\ loops'[i].base = loops[i].base
       /\ loops[i].top <= Len(stack')
       /\ i < damage' => loops'[i] = loops[i]
  /\ \A p \in 1..loops[damage'].top : stack'[p] = stack[p]
  /\ \A j \in 1..loops[damage'].base : own'[j] = own[j]

\* A step that keeps what is outside of the disturbed loop keeps the invariant.
LEMMA KeepsOuterInv ==
  ASSUME Inv, TypeOK', Nested', KeepsOuter
  PROVE  Inv'
<1> DEFINE h == damage'
           k == Len(loops')
<1>1. k \in Nat /\ h \in 1..k /\ k <= Depth /\ k <= MaxLoops /\ h <= damage
  BY DEF KeepsOuter, TypeOK
<1>2. /\ \A i \in 1..k : /\ loops'[i].top = loops[i].top /\ loops'[i].base = loops[i].base
                         /\ loops[i].top <= Len(stack')
                         /\ i < h => loops'[i] = loops[i]
      /\ \A p \in 1..loops[h].top : stack'[p] = stack[p]
      /\ \A j \in 1..loops[h].base : own'[j] = own[j]
  BY DEF KeepsOuter
<1>3. Frames = 1..Depth /\ damage \in Nat /\ DOMAIN loops' = 1..k /\ DOMAIN stack' = 1..Len(stack')
      /\ Len(stack') \in Nat /\ DOMAIN own' = 1..Len(own') /\ Len(own') \in Nat
  BY Typed DEF TypeOK
<1> HIDE DEF h, k
<1>4. /\ \A i \in 1..k : i \in Frames /\ loops[i].top \in Nat /\ loops[i].base \in Nat
      /\ \A i \in 1..h : i \in 1..k /\ loops[i].top = loops[i].base + 3 * (i - 1)
      /\ \A i, j \in 1..k : i <= j => loops[i].top <= loops[j].top /\ loops[i].base <= loops[j].base
  <2>1. \A i \in 1..k : i \in Frames /\ loops[i].top \in Nat /\ loops[i].base \in Nat
    BY <1>1, <1>3, Typed
  <2>2. ASSUME NEW i \in 1..h PROVE i \in 1..k /\ i <= damage /\ i \in Frames
    <3>1. i \in Nat /\ h \in Nat /\ 1 <= i /\ i <= h /\ h <= k /\ k <= Depth /\ Depth \in Nat
      BY <1>1, Typed
    <3> QED
      BY <1>1, <1>3, <3>1
  <2>3. damage # 0
    BY <1>1, <1>3
  <2> QED
    BY <2>1, <2>2, <2>3 DEF Inv, Stacked, Nested
<1>5. Counted'
  <2>1. h # NoDamage
    BY <1>1, HostStackAssumption DEF NoDamage
  <2> QED
    BY <1>1, <2>1 DEF Counted, Depth, h, k
<1>6. Stacked'
  <2>1. \A i \in 1..k : i <= h => loops'[i].top = loops'[i].base + 3 * (i - 1)
    BY <1>1, <1>2, <1>4
  <2> QED
    BY <1>2, <1>3, <1>4, <2>1 DEF Stacked, Frames, h
<1>7. ValuesStand'
  <2> SUFFICES ASSUME NEW j \in DOMAIN own', NEW d \in 0..k, PushedIn(j, d)', d < h
               PROVE  j + 3 * d \in DOMAIN stack' /\ stack'[j + 3 * d] = Own(own'[j])
    BY DEF ValuesStand, Depth, h, k, Own
  <2>1. d < k /\ d + 1 \in 1..h /\ d + 1 \in 1..k /\ h \in 1..k /\ j \in 1..Len(own')
    BY <1>1, <1>3
  <2>2. j <= loops[d + 1].base /\ (d > 0 => loops[d].base < j)
    BY <1>2, <1>3, <2>1 DEF PushedIn, Depth, k
  <2>3. loops[d + 1].base <= loops[h].base /\ loops[d + 1].top <= loops[h].top
        /\ loops[d + 1].top = loops[d + 1].base + 3 * d
    BY <1>4, <2>1
  <2>4. loops[h].base <= Len(own) /\ loops[h].top <= Len(stack') /\ Len(own) \in Nat
        /\ loops[h].base \in Nat /\ loops[h].top \in Nat
    BY <1>1, <1>2, <1>4, Typed DEF Inv, Nested
  <2>5. /\ j \in Nat /\ j >= 1 /\ d \in Nat
        /\ loops[d + 1].base \in Nat /\ loops[d + 1].top \in Nat
    BY <1>1, <1>4, <2>1
  <2>6. j \in DOMAIN own /\ j \in 1..loops[h].base
    <3>1. DOMAIN own = 1..Len(own)
      BY DEF Inv, TypeOK
    <3> QED
      BY <2>2, <2>3, <2>4, <2>5, <3>1
  <2>7. PushedIn(j, d) /\ d \in 0..Depth /\ d < damage
    BY <1>1, <1>3, <2>1, <2>2, Typed DEF PushedIn
  <2>8. stack[j + 3 * d] = Own(own[j])
    BY <2>6, <2>7 DEF Inv, ValuesStand
  <2>9. j + 3 * d \in 1..loops[h].top
    BY <2>2, <2>3, <2>4, <2>5
  <2> QED
    BY <1>2, <1>3, <2>4, <2>6, <2>8, <2>9
<1>8. LoopsVisitAll'
  <2> SUFFICES ASSUME NEW i \in 1..k, i < h
               PROVE  LET it == loops'[i] IN
                        /\ stack'[it.top + 1] = TableSlot
                        /\ ~it.ended =>
                             /\ it.seen # <<>>
                             /\ stack'[it.top + 2] = [is |-> "key", x |-> Last(it.seen)]
                             /\ stack'[it.top + 3] = [is |-> "value", x |-> Last(it.seen)]
                        /\ \A a, b \in DOMAIN it.seen : a < b => it.seen[a] < it.seen[b]
                        /\ ToSet(it.seen) = {c \in StringKeys : ~it.ended => c <= Last(it.seen)}
    BY <1>3 DEF LoopsVisitAll, TableSlot, h
  <2>1. loops'[i] = loops[i] /\ i \in Frames /\ i < damage
    BY <1>1, <1>2, <1>3, <1>4
  <2>2. loops[i].top + 3 <= loops[h].top /\ loops[i].top \in Nat /\ loops[h].top \in Nat
    <3>1. i \in 1..h /\ h \in 1..h /\ i + 1 <= h /\ h \in Nat
      BY <1>1
    <3>2. /\ loops[i].top = loops[i].base + 3 * (i - 1)
          /\ loops[h].top = loops[h].base + 3 * (h - 1)
          /\ loops[i].base <= loops[h].base
          /\ {loops[i].base, loops[h].base, loops[i].top, loops[h].top} \subseteq Nat
      BY <1>1, <1>4, <3>1
    <3> QED
      BY <3>1, <3>2
  <2>3. /\ stack'[loops[i].top + 1] = stack[loops[i].top + 1]
        /\ stack'[loops[i].top + 2] = stack[loops[i].top + 2]
        /\ stack'[loops[i].top + 3] = stack[loops[i].top + 3]
    <3>1. \A p \in 1..loops[h].top : stack'[p] = stack[p]
      BY <1>2
    <3>2. /\ loops[i].top + 1 \in 1..loops[h].top /\ loops[i].top + 2 \in 1..loops[h].top
          /\ loops[i].top + 3 \in 1..loops[h].top
      BY <2>2
    <3> QED
      BY <3>1, <3>2
  <2> QED
    BY <2>1, <2>3 DEF Inv, LoopsVisitAll, Frames
<1> QED
  BY <1>5, <1>6, <1>7, <1>8 DEF Inv

\* The program's values outside of the first k loops.
BaseAt(k) == IF k = 0 THEN 0 ELSE loops[k].base

\* The step leaves the stack in order and the loops that stay as they were.
KeepsOrder ==
  /\ damage' = NoDamage
  /\ Len(loops') < damage /\ Len(loops') <= Depth
  /\ \A i \in 1..Len(loops') : loops'[i] = loops[i] /\ ~loops[i].ended
  /\ Len(stack') = Len(own') + 3 * Len(loops')
  /\ \A p \in 1..(BaseAt(Len(loops')) + 3 * Len(loops')) : stack'[p] = stack[p]
  /\ \A j \in 1..BaseAt(Len(loops')) : own'[j] = own[j]
  /\ \A j \in (BaseAt(Len(loops')) + 1)..Len(own') : stack'[j + 3 * Len(loops')] = Own(own'[j])

\* A step that leaves everything in order keeps the invariant.
LEMMA KeepsOrderInv ==
  ASSUME Inv, TypeOK', Nested', KeepsOrder
  PROVE  Inv'
<1> DEFINE k == Len(loops')
           B == BaseAt(k)
<1>1. k \in Nat /\ k <= Depth /\ k < damage /\ damage # 0 /\ damage \in Nat /\ Depth \in Nat
  BY Typed DEF KeepsOrder, TypeOK
<1>2. /\ \A i \in 1..k : loops'[i] = loops[i] /\ ~loops[i].ended
      /\ Len(stack') = Len(own') + 3 * k
      /\ \A p \in 1..(B + 3 * k) : stack'[p] = stack[p]
      /\ \A j \in 1..B : own'[j] = own[j]
      /\ \A j \in (B + 1)..Len(own') : stack'[j + 3 * k] = Own(own'[j])
  BY DEF KeepsOrder
<1>3. /\ Frames = 1..Depth /\ DOMAIN loops' = 1..k /\ DOMAIN stack' = 1..Len(stack')
      /\ Len(stack') \in Nat /\ DOMAIN own' = 1..Len(own') /\ Len(own') \in Nat
      /\ DOMAIN own = 1..Len(own) /\ Len(own) \in Nat
  BY Typed DEF TypeOK, Inv
<1>4. loops' # <<>> => Last(loops') = loops'[k] /\ k > 0
  BY DEF Last, TypeOK
<1> HIDE DEF k
<1>5. \A i \in 1..k : /\ i \in Frames /\ loops[i].top \in Nat /\ loops[i].base \in Nat
                      /\ loops[i].top = loops[i].base + 3 * (i - 1)
                      /\ loops[i].base <= B /\ loops[i].base <= Len(own')
  <2> SUFFICES ASSUME NEW i \in 1..k
               PROVE  /\ i \in Frames /\ loops[i].top \in Nat /\ loops[i].base \in Nat
                      /\ loops[i].top = loops[i].base + 3 * (i - 1)
                      /\ loops[i].base <= B /\ loops[i].base <= Len(own')
    OBVIOUS
  <2>1. i \in Frames /\ k \in Frames /\ k # 0 /\ i <= k /\ i <= damage
    BY <1>1, <1>3
  <2>2. loops[i].top \in Nat /\ loops[i].base \in Nat
    BY <2>1, Typed
  <2>3. loops[i].top = loops[i].base + 3 * (i - 1)
    BY <1>1, <2>1 DEF Inv, Stacked
  <2>4. loops[i].base <= B
    BY <2>1 DEF Inv, Nested, BaseAt
  <2>5. loops[i].base <= Len(own')
    BY <1>2, <1>3 DEF Nested, Frames
  <2> QED
    BY <2>1, <2>2, <2>3, <2>4, <2>5
<1>6. B \in Nat /\ B <= Len(own') /\ \A i, j \in 1..k : i <= j => loops[i].base <= loops[j].base
  <2>1. k # 0 => k \in 1..k
    BY <1>1
  <2>2. B \in Nat /\ B <= Len(own')
    BY <1>3, <1>5, <2>1 DEF BaseAt
  <2> QED
    BY <1>5, <2>2 DEF Inv, Nested
<1> HIDE DEF B
<1>7. Counted'
  <2>1. damage' = NoDamage
    BY DEF KeepsOrder
  <2>2. ~(loops' # <<>> /\ Last(loops').ended)
    BY <1>1, <1>2, <1>4
  <2>3. Size' = Len(own') + 3 * k
    BY <1>1, <1>3, <2>2 DEF Size, Depth, k
  <2> QED
    BY <1>2, <2>1, <2>3 DEF Counted, NoDamage
<1>8. Stacked'
  <2>1. \A i \in 1..k : loops[i].top <= Len(stack')
    BY <1>1, <1>2, <1>3, <1>5
  <2>2. \A i, j \in 1..k : i <= j => loops[i].top <= loops[j].top
    BY <1>1, <1>5, <1>6
  <2> QED
    BY <1>2, <1>3, <1>5, <2>1, <2>2 DEF Stacked, Frames
<1>9. ValuesStand'
  <2> SUFFICES ASSUME NEW j \in DOMAIN own', NEW d \in 0..k, PushedIn(j, d)'
               PROVE  j + 3 * d \in DOMAIN stack' /\ stack'[j + 3 * d] = Own(own'[j])
    BY DEF ValuesStand, Depth, k, Own
  <2>1. j \in Nat /\ j >= 1 /\ j <= Len(own') /\ d \in Nat /\ d <= k /\ (d > 0 => d \in 1..k)
    BY <1>1, <1>3
  <2>2. j + 3 * d \in DOMAIN stack'
    BY <1>1, <1>2, <1>3, <2>1
  <2>3. CASE d = k
    <3>1. j > B
      BY <1>2, <2>1, <2>3 DEF B, BaseAt, PushedIn
    <3> QED
      BY <1>2, <1>3, <1>6, <2>1, <2>2, <2>3, <3>1
  <2>4. CASE d # k
    <3>1. d < k /\ d + 1 \in 1..k
      BY <1>1, <2>1, <2>4
    <3>2. j <= loops[d + 1].base /\ (d > 0 => loops[d].base < j)
      BY <1>2, <2>1, <3>1 DEF PushedIn, Depth, k
    <3>3. loops[d + 1].base <= B /\ loops[d + 1].base \in Nat
      BY <1>5, <3>1
    <3>4. loops[d + 1].base <= Len(own)
      BY <1>5, <3>1 DEF Inv, Nested
    <3>5. j \in DOMAIN own /\ j \in 1..B
      BY <1>3, <1>6, <2>1, <3>2, <3>3, <3>4
    <3>6. PushedIn(j, d) /\ d \in 0..Depth /\ d < damage
      BY <1>1, <2>1, <3>1, <3>2 DEF PushedIn
    <3>7. stack[j + 3 * d] = Own(own[j])
      BY <3>5, <3>6 DEF Inv, ValuesStand
    <3>8. j + 3 * d \in 1..(B + 3 * k)
      BY <1>1, <1>6, <2>1, <3>1, <3>2, <3>3
    <3> QED
      BY <1>2, <2>2, <3>5, <3>7, <3>8
  <2> QED
    BY <2>3, <2>4
<1>10. LoopsVisitAll'
  <2> SUFFICES ASSUME NEW i \in 1..k
               PROVE  LET it == loops'[i] IN
                        /\ stack'[it.top + 1] = TableSlot
                        /\ ~it.ended =>
                             /\ it.seen # <<>>
                             /\ stack'[it.top + 2] = [is |-> "key", x |-> Last(it.seen)]
                             /\ stack'[it.top + 3] = [is |-> "value", x |-> Last(it.seen)]
                        /\ \A a, b \in DOMAIN it.seen : a < b => it.seen[a] < it.seen[b]
                        /\ ToSet(it.seen) = {c \in StringKeys : ~it.ended => c <= Last(it.seen)}
    BY <1>3 DEF LoopsVisitAll, TableSlot
  <2>1. loops'[i] = loops[i] /\ i \in Frames /\ i < damage
    BY <1>1, <1>2, <1>3, <1>5
  <2>2. loops[i].top + 3 <= B + 3 * k /\ loops[i].top \in Nat
    BY <1>1, <1>5, <1>6
  <2>3. /\ stack'[loops[i].top + 1] = stack[loops[i].top + 1]
        /\ stack'[loops[i].top + 2] = stack[loops[i].top + 2]
        /\ stack'[loops[i].top + 3] = stack[loops[i].top + 3]
    <3>1. /\ loops[i].top + 1 \in 1..(B + 3 * k) /\ loops[i].top + 2 \in 1..(B + 3 * k)
          /\ loops[i].top + 3 \in 1..(B + 3 * k)
      BY <1>1, <1>6, <2>2
    <3> QED
      BY <1>2, <3>1
  <2> QED
    BY <2>1, <2>3 DEF Inv, LoopsVisitAll, Frames
<1> QED
  BY <1>7, <1>8, <1>9, <1>10 DEF Inv

-----------------------------------------------------------------------------
(* The invariant is inductive.                                             *)

\* The program begins with an empty stack.
LEMMA InitInv == Init => Inv
<1> SUFFICES ASSUME Init PROVE Inv
  OBVIOUS
<1>1. /\ stack = <<>> /\ loops = <<>> /\ own = <<>> /\ damage = NoDamage
      /\ Depth = 0 /\ Len(own) = 0 /\ Len(stack) = 0 /\ DOMAIN loops = {} /\ DOMAIN own = {}
  BY DEF Init, Depth
<1>2. TypeOK
  BY <1>1, HostStackAssumption DEF Init, TypeOK, NoDamage
<1>3. Nested /\ Stacked /\ Counted
  BY <1>1 DEF Nested, Stacked, Counted, Frames, Size
<1>4. ValuesStand /\ LoopsVisitAll
  BY <1>1 DEF ValuesStand, LoopsVisitAll
<1> QED
  BY <1>2, <1>3, <1>4 DEF Inv

\* The invariant is about the stack, the loops and the values of the program only.
LEMMA UnchangedInv == Inv /\ UNCHANGED <<stack, loops, own, damage>> /\ TypeOK' => Inv'
BY DEF Inv, Nested, Stacked, Counted, ValuesStand, LoopsVisitAll, Frames, Depth, Size, PushedIn

\* The innermost loop begins above all others, after the program's values of outer bodies.
LEMMA Innermost ==
  ASSUME Inv
  PROVE  /\ Base = BaseAt(Depth) /\ Base \in Nat /\ Base <= Len(own)
         /\ Bottom \in Nat /\ \A i \in Frames : loops[i].base <= Base
         /\ damage # 0 => Bottom <= Len(stack) /\ \A i \in Frames : loops[i].top <= Bottom
         /\ damage = NoDamage /\ Depth > 0 => Bottom = Base + 3 * (Depth - 1)
<1>1. CASE loops = <<>>
  <2>1. Depth = 0 /\ Frames = {} /\ Base = 0 /\ Bottom = 0
    BY <1>1 DEF Depth, Frames, Base, Bottom
  <2> QED
    BY <2>1, Typed DEF BaseAt
<1>2. CASE loops # <<>>
  <2>1. Depth \in Frames /\ Last(loops) = loops[Depth] /\ Depth # 0 /\ \A i \in Frames : i <= Depth
    BY <1>2, Typed
  <2>2. Base = loops[Depth].base /\ Bottom = loops[Depth].top
    BY <1>2, <2>1 DEF Base, Bottom
  <2>3. Base = BaseAt(Depth) /\ Base \in Nat /\ Bottom \in Nat
    BY <2>1, <2>2, Typed DEF BaseAt
  <2>4. Base <= Len(own) /\ \A i \in Frames : loops[i].base <= Base
    BY <2>1, <2>2 DEF Inv, Nested
  <2>5. damage # 0 => Bottom <= Len(stack) /\ \A i \in Frames : loops[i].top <= Bottom
    BY <2>1, <2>2 DEF Inv, Stacked
  <2>6. damage = NoDamage => Bottom = Base + 3 * (Depth - 1)
    <3>1. NoDamage # 0 /\ Depth <= NoDamage
      BY Typed
    <3> QED
      BY <2>1, <2>2, <3>1 DEF Inv, Stacked
  <2> QED
    BY <2>3, <2>4, <2>5, <2>6
<1> QED
  BY <1>1, <1>2

\* What the program and the library do in the body of a loop, or outside of all.
LEMMA BodyInv ==
  ASSUME Inv, Runs, TypeOK', loops' = loops,
         Base <= Len(own'), \A j \in 1..Base : own'[j] = own[j],
         \/ damage' = 0
         \/ /\ damage' \in 1..Depth /\ damage' <= damage
            /\ Bottom <= Len(stack') /\ \A p \in 1..Bottom : stack'[p] = stack[p]
         \/ /\ damage' = NoDamage /\ damage = NoDamage
            /\ Len(stack') = Len(own') + 3 * Depth
            /\ \A p \in 1..(Base + 3 * Depth) : stack'[p] = stack[p]
            /\ \A j \in (Base + 1)..Len(own') : stack'[j + 3 * Depth] = Own(own'[j])
  PROVE  Inv'
<1>1. damage # 0 /\ Len(own') \in Nat
  BY DEF Runs, TypeOK
<1>2. Nested'
  <2>1. \A i \in Frames : loops[i].base <= Len(own')
    BY <1>1, Innermost, Typed
  <2> QED
    BY <2>1 DEF Nested, Inv, Frames, Depth
<1>3. CASE damage' = 0
  BY <1>2, <1>3, LostInv
<1>4. CASE /\ damage' \in 1..Depth /\ damage' <= damage
           /\ Bottom <= Len(stack') /\ \A p \in 1..Bottom : stack'[p] = stack[p]
  <2>1. Len(stack') \in Nat /\ Len(loops') = Depth /\ damage' \in Frames /\ 1..Len(loops') = Frames
    BY <1>4, Typed DEF TypeOK, Depth
  <2>2. \A i \in Frames : loops[i].top <= Len(stack')
    BY <1>1, <1>4, <2>1, Innermost, Typed
  <2>3. \A p \in 1..loops[damage'].top : stack'[p] = stack[p]
    <3>1. loops[damage'].top <= Bottom /\ loops[damage'].top \in Nat
      BY <1>1, <2>1, Innermost, Typed
    <3> QED
      BY <1>4, <3>1, Innermost
  <2>4. \A j \in 1..loops[damage'].base : own'[j] = own[j]
    <3>1. loops[damage'].base <= Base /\ loops[damage'].base \in Nat
      BY <2>1, Innermost, Typed
    <3> QED
      BY <3>1, Innermost
  <2>5. Len(loops') <= Depth /\ damage' \in 1..Len(loops') /\ damage' <= damage
    BY <1>4, <2>1, Typed
  <2>6. KeepsOuter
    BY <2>1, <2>2, <2>3, <2>4, <2>5 DEF KeepsOuter
  <2> QED
    BY <1>2, <2>6, KeepsOuterInv
<1>5. CASE /\ damage' = NoDamage /\ damage = NoDamage
           /\ Len(stack') = Len(own') + 3 * Depth
           /\ \A p \in 1..(Base + 3 * Depth) : stack'[p] = stack[p]
           /\ \A j \in (Base + 1)..Len(own') : stack'[j + 3 * Depth] = Own(own'[j])
  <2>1. Len(loops') = Depth /\ Base = BaseAt(Depth) /\ Depth < damage /\ Depth <= Depth
    BY <1>5, Innermost, Typed DEF Depth
  <2>2. \A i \in 1..Depth : ~loops[i].ended
    <3>1. Depth > 0 => ~loops[Depth].ended
      BY Typed DEF Runs
    <3> QED
      BY <3>1, Typed DEF Inv, Nested
  <2>3. KeepsOrder
    BY <1>5, <2>1, <2>2 DEF KeepsOrder
  <2> QED
    BY <1>2, <2>3, KeepsOrderInv
<1> QED
  BY <1>3, <1>4, <1>5

\* In an orderly body all that the stack has is three slots for each loop and the
\* program's values.
LEMMA OrderlySize ==
  ASSUME Inv, Runs, damage = NoDamage
  PROVE  /\ Len(stack) = Len(own) + 3 * Depth
         /\ \A j \in (Base + 1)..Len(own) : stack[j + 3 * Depth] = Own(own[j])
<1>1. Len(stack) = Len(own) + 3 * Depth
  BY Typed DEF Inv, Counted, Size, Runs
<1>2. ASSUME NEW j \in (Base + 1)..Len(own)
      PROVE  stack[j + 3 * Depth] = Own(own[j])
  <2>1. j \in DOMAIN own /\ j > Base
    BY Innermost, Typed DEF Inv, TypeOK
  <2>2. PushedIn(j, Depth) /\ Depth \in 0..Depth /\ Depth < damage
    BY <2>1, Innermost, Typed DEF PushedIn, BaseAt
  <2> QED
    BY <2>1, <2>2 DEF Inv, ValuesStand
<1> QED
  BY <1>1, <1>2

\* The program pushes a value (stack.hpp:56-74).
LEMMA PushInv ==
  ASSUME Inv, NEW v \in Value, Push(v)
  PROVE  Inv'
<1>1. /\ Runs /\ Len(stack) < MaxSlots /\ Len(own) < MaxOwn
      /\ stack' = Append(stack, Own(v)) /\ own' = Append(own, v)
      /\ loops' = loops /\ damage' = damage /\ fault' = fault
  BY DEF Push
<1>2. Own(v) \in Slot
  BY DEF Own, Slot
<1>3. /\ stack' \in Seq(Slot) /\ own' \in Seq(Value)
      /\ Len(stack') = Len(stack) + 1 /\ Len(own') = Len(own) + 1
      /\ \A p \in 1..Len(stack) : stack'[p] = stack[p]
      /\ \A j \in 1..Len(own) : own'[j] = own[j]
      /\ stack'[Len(stack) + 1] = Own(v) /\ own'[Len(own) + 1] = v
  BY <1>1, <1>2 DEF Inv, TypeOK
<1>4. TypeOK'
  BY <1>1, <1>3, Typed DEF Inv, TypeOK, Iterator, NoDamage, Slot
<1>5. Base <= Len(own') /\ \A j \in 1..Base : own'[j] = own[j]
  BY <1>3, Innermost, Typed
<1>6. CASE damage = NoDamage
  <2>0. /\ Len(stack) = Len(own) + 3 * Depth
        /\ Base \in Nat /\ Base <= Len(own) /\ Len(own) \in Nat /\ Depth \in Nat
    BY <1>1, <1>6, OrderlySize, Innermost, Typed
  <2>1. Len(stack') = Len(own') + 3 * Depth /\ \A p \in 1..(Base + 3 * Depth) : stack'[p] = stack[p]
    BY <1>3, <2>0
  <2>2. ASSUME NEW j \in (Base + 1)..Len(own')
        PROVE  stack'[j + 3 * Depth] = Own(own'[j])
    <3>1. CASE j = Len(own')
      <4>1. j + 3 * Depth = Len(stack) + 1 /\ j = Len(own) + 1
        BY <1>3, <2>0, <3>1
      <4> QED
        BY <1>3, <4>1
    <3>2. CASE j # Len(own')
      <4>1. j \in (Base + 1)..Len(own) /\ j \in 1..Len(own) /\ j + 3 * Depth \in 1..Len(stack)
        BY <1>3, <2>0, <3>2
      <4> QED
        BY <1>1, <1>3, <1>6, <4>1, OrderlySize
    <3> QED
      BY <3>1, <3>2
  <2> QED
    BY <1>1, <1>4, <1>5, <1>6, <2>1, <2>2, BodyInv
<1>7. CASE damage # NoDamage
  <2>1. damage' \in 1..Depth /\ damage' <= damage
    BY <1>1, <1>7, Typed DEF Inv, Counted, Runs
  <2>2. Bottom <= Len(stack') /\ \A p \in 1..Bottom : stack'[p] = stack[p]
    BY <1>1, <1>3, Innermost, Typed DEF Runs
  <2> QED
    BY <1>1, <1>4, <1>5, <2>1, <2>2, BodyInv
<1> QED
  BY <1>6, <1>7

\* The program takes values of its own off the top (stack.hpp:81-105).
LEMMA TakeInv ==
  ASSUME Inv, NEW n \in 1..Len(own), Take(n)
  PROVE  Inv'
<1>1. /\ Runs /\ Len(own) - n >= Base /\ Pops(n, 0) /\ own' = Popped(own, n) /\ loops' = loops
  BY DEF Take
<1>2. n \in Nat /\ n >= 1 /\ n <= Len(own) /\ Len(own) \in Nat /\ Base \in Nat /\ Bottom \in Nat
      /\ Depth \in Nat /\ Len(stack) \in Nat
  BY Typed, Innermost
<1>3. /\ own' \in Seq(Value) /\ Len(own') = Len(own) - n
      /\ \A j \in 1..(Len(own) - n) : own'[j] = own[j]
  BY <1>1, <1>2, PoppedOp DEF Inv, TypeOK
<1>4. /\ stack' \in Seq(Slot) /\ Len(stack') = (IF n <= Len(stack) THEN Len(stack) - n ELSE 0)
      /\ \A p \in 1..(Len(stack) - n) : stack'[p] = stack[p]
  BY <1>1, <1>2, PoppedOp DEF Inv, TypeOK, Pops
<1>5. /\ fault' \in {"none", "underflow", "next"}
      /\ damage' = IF Len(stack) - n < Bottom THEN Least(damage, Disturbed(n)) ELSE damage
  BY <1>1 DEF Pops, Inv, TypeOK
<1>6. IF Len(stack) - n < Bottom THEN damage' = 0 ELSE damage' = damage
  BY <1>2, <1>5, Typed DEF Least, Disturbed
<1>7. damage' \in 0..NoDamage
  BY <1>6, Typed DEF Inv, TypeOK
<1>8. TypeOK'
  <2>1. Len(stack') <= MaxSlots /\ Len(own') <= MaxOwn
    BY <1>2, <1>3, <1>4, Typed DEF Inv, TypeOK
  <2> QED
    BY <1>1, <1>3, <1>4, <1>5, <1>7, <2>1 DEF Inv, TypeOK, Iterator, NoDamage, Slot
<1>9. Base <= Len(own') /\ \A j \in 1..Base : own'[j] = own[j]
  BY <1>1, <1>2, <1>3
<1>10. CASE damage' = 0
  BY <1>1, <1>8, <1>9, <1>10, BodyInv
<1>11. CASE damage' # 0 /\ damage # NoDamage
  <2>1. damage' \in 1..Depth /\ damage' <= damage /\ Len(stack) - n >= Bottom
    BY <1>2, <1>6, <1>11, Typed DEF Inv, Counted
  <2>2. Bottom <= Len(stack') /\ \A p \in 1..Bottom : stack'[p] = stack[p]
    BY <1>2, <1>4, <2>1
  <2> QED
    BY <1>1, <1>8, <1>9, <2>1, <2>2, BodyInv
<1>12. CASE damage' # 0 /\ damage = NoDamage
  <2>1. Len(stack) = Len(own) + 3 * Depth
    BY <1>1, <1>12, OrderlySize
  <2>2. Len(stack') = Len(own') + 3 * Depth /\ \A p \in 1..(Base + 3 * Depth) : stack'[p] = stack[p]
    BY <1>1, <1>2, <1>3, <1>4, <2>1
  <2>3. \A j \in (Base + 1)..Len(own') : stack'[j + 3 * Depth] = Own(own'[j])
    <3> SUFFICES ASSUME NEW j \in (Base + 1)..Len(own')
                 PROVE  stack'[j + 3 * Depth] = Own(own'[j])
      OBVIOUS
    <3>1. /\ j \in (Base + 1)..Len(own) /\ j \in 1..(Len(own) - n)
          /\ j + 3 * Depth \in 1..(Len(stack) - n)
      BY <1>2, <1>3, <2>1
    <3> QED
      BY <1>1, <1>3, <1>4, <1>12, <3>1, OrderlySize
  <2>4. damage' = NoDamage
    BY <1>6, <1>12
  <2> QED
    BY <1>1, <1>8, <1>9, <1>12, <2>2, <2>3, <2>4, BodyInv
<1> QED
  BY <1>10, <1>11, <1>12

\* The program takes out a value of its own below the top (stack.hpp:86-91).
LEMMA PickInv ==
  ASSUME Inv, NEW k \in 1..Len(own), Pick(k)
  PROVE  Inv'
<1>1. /\ Runs /\ Len(own) - k >= Base /\ own' = RemoveAt(own, Len(own) + 1 - k) /\ loops' = loops
      /\ IF k > Len(stack)
         THEN fault' = "underflow" /\ stack' = stack
         ELSE stack' = RemoveAt(stack, Len(stack) + 1 - k) /\ fault' = fault
      /\ damage' = IF Len(stack) - k < Bottom THEN 0 ELSE damage
  BY DEF Pick
<1>2. k \in Nat /\ k >= 1 /\ k <= Len(own) /\ Len(own) \in Nat /\ Base \in Nat /\ Bottom \in Nat
      /\ Depth \in Nat /\ Len(stack) \in Nat
  BY Typed, Innermost
<1>3. /\ own' \in Seq(Value) /\ Len(own') = Len(own) - 1
      /\ \A j \in 1..(Len(own) - 1) : own'[j] = IF j < Len(own) + 1 - k THEN own[j] ELSE own[j + 1]
  BY <1>1, <1>2, RemoveAtOp DEF Inv, TypeOK
<1>4. CASE k > Len(stack)
  <2>1. damage' = 0
    BY <1>1, <1>2, <1>4
  <2>2. TypeOK'
    BY <1>1, <1>2, <1>3, <1>4, <2>1, Typed DEF Inv, TypeOK, Iterator, NoDamage, Slot
  <2>3. Base <= Len(own') /\ \A j \in 1..Base : own'[j] = own[j]
    BY <1>1, <1>2, <1>3
  <2> QED
    BY <1>1, <2>1, <2>2, <2>3, BodyInv
<1>5. CASE k <= Len(stack)
  <2>1. stack' = RemoveAt(stack, Len(stack) + 1 - k) /\ fault' = fault
    BY <1>1, <1>2, <1>5
  <2>2. /\ stack' \in Seq(Slot) /\ Len(stack') = Len(stack) - 1
        /\ \A p \in 1..(Len(stack) - 1) :
             stack'[p] = IF p < Len(stack) + 1 - k THEN stack[p] ELSE stack[p + 1]
    BY <1>2, <1>5, <2>1, RemoveAtOp DEF Inv, TypeOK
  <2>3. damage' \in {0, damage} /\ damage' \in 0..NoDamage
    BY <1>1, Typed DEF Inv, TypeOK
  <2>4. TypeOK'
    <3>1. Len(stack') <= MaxSlots /\ Len(own') <= MaxOwn
      BY <1>2, <1>3, <2>2, Typed DEF Inv, TypeOK
    <3> QED
      BY <1>1, <1>3, <2>1, <2>2, <2>3, <3>1 DEF Inv, TypeOK, Iterator, NoDamage, Slot
  <2>5. Base <= Len(own') /\ \A j \in 1..Base : own'[j] = own[j]
    BY <1>1, <1>2, <1>3
  <2>6. CASE damage' = 0
    BY <1>1, <2>4, <2>5, <2>6, BodyInv
  <2>7. CASE damage' # 0 /\ damage # NoDamage
    <3>1. damage' \in 1..Depth /\ damage' <= damage /\ Len(stack) - k >= Bottom
      BY <1>1, <1>2, <2>7, Typed DEF Inv, Counted
    <3>2. Bottom <= Len(stack') /\ \A p \in 1..Bottom : stack'[p] = stack[p]
      BY <1>2, <2>2, <3>1
    <3> QED
      BY <1>1, <2>4, <2>5, <3>1, <3>2, BodyInv
  <2>8. CASE damage' # 0 /\ damage = NoDamage
    <3>1. Len(stack) = Len(own) + 3 * Depth
      BY <1>1, <2>8, OrderlySize
    <3>2. /\ Len(stack') = Len(own') + 3 * Depth
          /\ \A p \in 1..(Base + 3 * Depth) : stack'[p] = stack[p]
      <4>1. Base + 3 * Depth <= Len(stack) - k /\ Base + 3 * Depth \in Nat
        BY <1>1, <1>2, <3>1
      <4>2. \A p \in 1..(Base + 3 * Depth) : p \in 1..(Len(stack) - 1) /\ p < Len(stack) + 1 - k
        BY <1>2, <4>1
      <4> QED
        BY <1>2, <1>3, <2>2, <3>1, <4>2
    <3>3. \A j \in (Base + 1)..Len(own') : stack'[j + 3 * Depth] = Own(own'[j])
      <4> SUFFICES ASSUME NEW j \in (Base + 1)..Len(own')
                   PROVE  stack'[j + 3 * Depth] = Own(own'[j])
        OBVIOUS
      <4>1. /\ j \in 1..(Len(own) - 1) /\ j + 3 * Depth \in 1..(Len(stack) - 1)
            /\ j \in (Base + 1)..Len(own) /\ j + 1 \in (Base + 1)..Len(own)
            /\ (j < Len(own) + 1 - k <=> j + 3 * Depth < Len(stack) + 1 - k)
            /\ (j + 3 * Depth) + 1 = (j + 1) + 3 * Depth
        BY <1>2, <1>3, <3>1
      <4>2. /\ own'[j] = IF j < Len(own) + 1 - k THEN own[j] ELSE own[j + 1]
            /\ stack'[j + 3 * Depth] = IF j < Len(own) + 1 - k THEN stack[j + 3 * Depth]
                                                               ELSE stack[(j + 1) + 3 * Depth]
        BY <1>3, <2>2, <4>1
      <4> QED
        BY <1>1, <2>8, <4>1, <4>2, OrderlySize
    <3>4. damage' = NoDamage
      BY <2>3, <2>8
    <3> QED
      BY <1>1, <2>4, <2>5, <2>8, <3>2, <3>3, <3>4, BodyInv
  <2> QED
    BY <2>6, <2>7, <2>8
<1> QED
  BY <1>2, <1>4, <1>5

\* clear() outside of loops puts everything in order (stack.hpp:107-109).
LEMMA ClearInv ==
  ASSUME Inv, Clear
  PROVE  Inv'
<1>1. /\ stack' = <<>> /\ loops' = <<>> /\ own' = <<>> /\ damage' = NoDamage /\ fault' = fault
      /\ NoDamage' = NoDamage
  BY DEF Clear, NoDamage
<1>2. Depth' = 0 /\ Len(own') = 0 /\ Len(stack') = 0 /\ DOMAIN loops' = {} /\ DOMAIN own' = {}
  BY <1>1 DEF Depth
<1>3. TypeOK'
  BY <1>1, HostStackAssumption DEF Inv, TypeOK, NoDamage
<1>4. Nested' /\ Stacked' /\ Counted'
  BY <1>1, <1>2 DEF Nested, Stacked, Counted, Frames, Size
<1>5. ValuesStand' /\ LoopsVisitAll'
  BY <1>2 DEF ValuesStand, LoopsVisitAll
<1> QED
  BY <1>3, <1>4, <1>5 DEF Inv

\* A call of the library that pops slots which are not its own.
LEMMA PopsInv ==
  ASSUME Inv, Runs, NEW n \in Nat, Pops(n, n), UNCHANGED <<loops, own>>
  PROVE  Inv'
<1>1. /\ stack' \in Seq(Slot) /\ Len(stack') = (IF n <= Len(stack) THEN Len(stack) - n ELSE 0)
      /\ \A p \in 1..(Len(stack) - n) : stack'[p] = stack[p]
  BY PoppedOp DEF Inv, TypeOK, Pops
<1>2. Len(stack) \in Nat /\ Bottom \in Nat /\ Depth \in Nat /\ damage \in Nat /\ damage <= NoDamage
  BY Typed, Innermost DEF Inv, TypeOK
<1>3. fault' \in {"none", "underflow", "next"}
  BY DEF Pops, Inv, TypeOK
<1>4. CASE n = 0
  <2>1. damage' = damage
    BY <1>2, <1>4, Innermost DEF Pops, Runs
  <2>2. stack' = stack
    BY <1>1, <1>2, <1>4 DEF Inv, TypeOK
  <2>3. TypeOK'
    BY <1>3, <2>1, <2>2 DEF Inv, TypeOK, Iterator, NoDamage, Slot
  <2> QED
    BY <2>1, <2>2, <2>3, UnchangedInv
<1>5. CASE n > 0
  <2>1. damage' = Least(damage, Disturbed(n))
    BY <1>5 DEF Pops
  <2>2. \/ damage' = 0
        \/ damage' \in 1..Depth /\ damage' <= damage /\ Len(stack) - n >= Bottom
    BY <1>2, <2>1 DEF Least, Disturbed
  <2>3. damage' \in 0..NoDamage
    BY <2>2, Typed
  <2>4. TypeOK'
    <3>1. Len(stack') <= MaxSlots
      BY <1>1, <1>2, Typed DEF Inv, TypeOK
    <3> QED
      BY <1>1, <1>3, <2>3, <3>1 DEF Inv, TypeOK, Iterator, NoDamage, Slot
  <2>5. Base <= Len(own') /\ \A j \in 1..Base : own'[j] = own[j]
    BY Innermost
  <2>6. CASE damage' = 0
    BY <2>4, <2>5, <2>6, BodyInv
  <2>7. CASE damage' \in 1..Depth /\ damage' <= damage /\ Len(stack) - n >= Bottom
    <3>1. Bottom <= Len(stack') /\ \A p \in 1..Bottom : stack'[p] = stack[p]
      BY <1>1, <1>2, <2>7
    <3> QED
      BY <2>4, <2>5, <2>7, <3>1, BodyInv
  <2> QED
    BY <2>2, <2>6, <2>7
<1> QED
  BY <1>4, <1>5

\* A Lua function returns (function.hpp:40-187).
LEMMA CallInv ==
  ASSUME Inv, NEW f \in Signature, Call(f)
  PROVE  Inv'
<1>1. PoppedAfter(f) - Wanted(f) \in Nat
  BY HostStackAssumption DEF PoppedAfter, Wanted
<1> QED
  BY <1>1, PopsInv DEF Call

\* A container is read (primitive_traits.hpp:134-176).
LEMMA ReadContainerInv == Inv /\ ReadContainer => Inv'
BY PopsInv DEF ReadContainer

\* A std::array is read that has fewer elements than the table (primitive_traits.hpp:195-206).
LEMMA ReadOverfullArrayInv ==
  ASSUME Inv, ReadOverfullArray
  PROVE  Inv'
<1>1. /\ Runs /\ Len(stack) < MaxSlots /\ stack' = Append(stack, LeftSlot)
      /\ damage' = Least(damage, Depth) /\ loops' = loops /\ own' = own /\ fault' = fault
  BY DEF ReadOverfullArray
<1>2. LeftSlot \in Slot
  BY DEF LeftSlot, Slot
<1>3. /\ stack' \in Seq(Slot) /\ Len(stack') = Len(stack) + 1
      /\ \A p \in 1..Len(stack) : stack'[p] = stack[p]
  BY <1>1, <1>2 DEF Inv, TypeOK
<1>4. damage' = 0 \/ (damage' \in 1..Depth /\ damage' <= damage)
  BY <1>1, Typed DEF Least
<1>5. TypeOK'
  <2>1. damage' \in 0..NoDamage
    BY <1>4, Typed
  <2>2. Len(stack') <= MaxSlots
    BY <1>1, <1>3, Typed
  <2> QED
    BY <1>1, <1>3, <2>1, <2>2 DEF Inv, TypeOK, Iterator, NoDamage, Slot
<1>6. Base <= Len(own') /\ \A j \in 1..Base : own'[j] = own[j]
  BY <1>1, Innermost
<1>7. Bottom <= Len(stack') /\ \A p \in 1..Bottom : stack'[p] = stack[p]
  BY <1>1, <1>3, Innermost, Typed DEF Runs
<1> QED
  BY <1>1, <1>4, <1>5, <1>6, <1>7, BodyInv

-----------------------------------------------------------------------------
(* Iterators.                                                              *)

\* If there are later string keys, the first of them is one.
LEMMA LaterKeys ==
  ASSUME NEW s, Later(s) # {}
  PROVE  /\ Min(Later(s)) \in Later(s) /\ Min(Later(s)) \in Key
         /\ \A k \in Later(s) : Min(Later(s)) <= k
<1>1. Later(s) \subseteq StringKeys
  BY DEF Later
<1>2. StringKeys \subseteq Key /\ Key \subseteq Nat
  BY HostStackAssumption DEF Key
<1> QED
  BY <1>1, <1>2, LeastNumber

\* What a frame has in its slots.
LEMMA FrameOp ==
  ASSUME NEW s
  PROVE  /\ Frame(s) \in Seq(Slot) /\ Len(Frame(s)) = (IF Later(s) = {} THEN 2 ELSE 3)
         /\ Frame(s)[1] = TableSlot
         /\ Later(s) # {} => /\ Frame(s)[2] = [is |-> "key", x |-> Min(Later(s))]
                             /\ Frame(s)[3] = [is |-> "value", x |-> Min(Later(s))]
<1>1. TableSlot \in Slot /\ NilSlot \in Slot
  BY DEF TableSlot, NilSlot, Slot
<1>2. CASE Later(s) = {}
  BY <1>1, <1>2 DEF Frame
<1>3. CASE Later(s) # {}
  <2> DEFINE k == Min(Later(s))
  <2>1. k \in Key
    BY <1>3, LaterKeys
  <2>2. [is |-> "key", x |-> k] \in Slot /\ [is |-> "value", x |-> k] \in Slot
    BY <2>1 DEF Slot
  <2>3. Frame(s) = <<TableSlot, [is |-> "key", x |-> k], [is |-> "value", x |-> k]>>
    BY <1>3 DEF Frame
  <2> HIDE DEF k
  <2>4. /\ Frame(s) \in Seq(Slot) /\ Len(Frame(s)) = 3 /\ Frame(s)[1] = TableSlot
        /\ Frame(s)[2] = [is |-> "key", x |-> k] /\ Frame(s)[3] = [is |-> "value", x |-> k]
    BY <1>1, <2>2, <2>3
  <2> QED
    BY <1>3, <2>4 DEF k
<1> QED
  BY <1>2, <1>3

\* What the iterator knows after lua_next.
LEMMA MovedOp ==
  ASSUME NEW it \in Iterator, NEW s
  PROVE  /\ Moved(it, s) \in Iterator
         /\ Moved(it, s).top = it.top /\ Moved(it, s).base = it.base
         /\ Later(s) = {} => Moved(it, s).ended /\ Moved(it, s).seen = it.seen
         /\ Later(s) # {} => /\ Moved(it, s).ended = it.ended
                             /\ Moved(it, s).seen = Append(it.seen, Min(Later(s)))
<1>1. CASE Later(s) = {}
  BY <1>1 DEF Moved, Iterator
<1>2. CASE Later(s) # {}
  <2>1. Moved(it, s) = [it EXCEPT !.seen = Append(it.seen, Min(Later(s)))]
    BY <1>2 DEF Moved
  <2>2. it.seen \in Seq(Key) /\ Append(it.seen, Min(Later(s))) \in Seq(Key)
    BY <1>2, LaterKeys DEF Iterator
  <2> QED
    BY <1>2, <2>1, <2>2 DEF Iterator
<1> QED
  BY <1>1, <1>2

\* What a loop has delivered when it delivers the next key, or ends.
Visited(it) ==
  /\ ~it.ended => it.seen # <<>>
  /\ \A a, b \in DOMAIN it.seen : a < b => it.seen[a] < it.seen[b]
  /\ ToSet(it.seen) = {k \in StringKeys : ~it.ended => k <= Last(it.seen)}

\* lua_next passes over no string key (table.hpp:67-79).
LEMMA MovedVisits ==
  ASSUME NEW it \in Iterator, ~it.ended, NEW s,
         \/ it.seen = <<>> /\ Later(s) = StringKeys
         \/ Visited(it) /\ Later(s) = {k \in StringKeys : k > Last(it.seen)}
  PROVE  /\ Visited(Moved(it, s))
         /\ Later(s) # {} => Last(Moved(it, s).seen) = Min(Later(s))
<1> DEFINE m == Min(Later(s))
           seen == it.seen
<1>1. seen \in Seq(Key) /\ Key \subseteq Nat /\ StringKeys \subseteq Key /\ Len(seen) \in Nat
      /\ DOMAIN seen = 1..Len(seen)
  BY HostStackAssumption DEF Iterator, Key
<1>2. seen # <<>> => Last(seen) = seen[Len(seen)] /\ Len(seen) \in DOMAIN seen /\ Last(seen) \in Key
  BY <1>1 DEF Last
<1>3. ToSet(seen) = {seen[i] : i \in DOMAIN seen}
  BY DEF ToSet
<1>4. CASE Later(s) = {}
  <2>1. Moved(it, s).ended /\ Moved(it, s).seen = seen
    BY <1>4, MovedOp
  <2>2. ToSet(seen) = StringKeys
    <3>1. CASE it.seen = <<>> /\ Later(s) = StringKeys
      BY <1>3, <1>4, <3>1
    <3>2. CASE Visited(it) /\ Later(s) = {k \in StringKeys : k > Last(it.seen)}
      <4>1. Last(seen) \in Nat /\ \A k \in StringKeys : k \in Nat /\ ~(k > Last(seen))
        BY <1>1, <1>2, <1>4, <3>2 DEF Visited
      <4> QED
        BY <3>2, <4>1 DEF Visited
    <3> QED
      BY <3>1, <3>2
  <2>3. \A a, b \in DOMAIN seen : a < b => seen[a] < seen[b]
    <3>1. CASE it.seen = <<>>
      BY <3>1
    <3>2. CASE Visited(it)
      BY <3>2 DEF Visited
    <3> QED
      BY <3>1, <3>2
  <2> QED
    BY <1>4, <2>1, <2>2, <2>3 DEF Visited
<1>5. CASE Later(s) # {}
  <2>1. m \in Later(s) /\ m \in Key /\ m \in Nat /\ m \in StringKeys /\ \A k \in Later(s) : m <= k
    BY <1>1, <1>5, LaterKeys DEF Later
  <2> DEFINE new == Append(seen, m)
  <2> HIDE DEF m
  <2>2. Moved(it, s).ended = FALSE /\ Moved(it, s).seen = new
    BY <1>5, MovedOp DEF m, Iterator
  <2>3. /\ new \in Seq(Key) /\ DOMAIN new = 1..(Len(seen) + 1) /\ new # <<>> /\ Last(new) = m
        /\ \A i \in DOMAIN seen : new[i] = seen[i] /\ new[Len(seen) + 1] = m
    BY <1>1, <2>1 DEF Last
  <2>4. new[Len(seen) + 1] = m
    BY <1>1, <2>1
  <2> HIDE DEF new
  <2>5. \A i \in DOMAIN seen : seen[i] \in Nat /\ seen[i] < m
    <3>1. CASE it.seen = <<>>
      BY <3>1
    <3>2. CASE Visited(it) /\ Later(s) = {k \in StringKeys : k > Last(it.seen)}
      <4>1. \A i \in DOMAIN seen : seen[i] \in Nat /\ Last(seen) \in Nat /\ seen[i] <= Last(seen)
        BY <1>1, <1>2, <1>3, <3>2 DEF Visited
      <4>2. m > Last(seen)
        BY <2>1, <3>2
      <4> QED
        BY <2>1, <4>1, <4>2
    <3> QED
      BY <3>1, <3>2
  <2>6. \A a, b \in DOMAIN new : a < b => new[a] < new[b]
    <3> SUFFICES ASSUME NEW a \in DOMAIN new, NEW b \in DOMAIN new, a < b
                 PROVE  new[a] < new[b]
      OBVIOUS
    <3>1. a \in DOMAIN seen /\ new[a] = seen[a]
      BY <1>1, <2>3
    <3>2. CASE b = Len(seen) + 1
      BY <2>4, <2>5, <3>1, <3>2
    <3>3. CASE b # Len(seen) + 1
      <4>1. b \in DOMAIN seen /\ new[b] = seen[b]
        BY <1>1, <2>3, <3>3
      <4>2. it.seen # <<>>
        BY <3>1
      <4> QED
        BY <3>1, <4>1, <4>2 DEF Visited
    <3> QED
      BY <3>2, <3>3
  <2>7. ToSet(new) = {k \in StringKeys : k <= m}
    <3>1. ToSet(new) = ToSet(seen) \cup {m}
      <4>1. ToSet(new) = {new[i] : i \in DOMAIN new}
        BY DEF ToSet
      <4>2. \A i \in DOMAIN new : i \in DOMAIN seen \/ i = Len(seen) + 1
        BY <1>1, <2>3
      <4>3. Len(seen) + 1 \in DOMAIN new /\ \A i \in DOMAIN seen : i \in DOMAIN new
        BY <1>1, <2>3
      <4> QED
        BY <1>3, <2>3, <2>4, <4>1, <4>2, <4>3
    <3>2. ToSet(seen) = {k \in StringKeys : k < m}
      <4>1. CASE it.seen = <<>> /\ Later(s) = StringKeys
        <5>1. \A k \in StringKeys : k \in Nat /\ m <= k
          BY <1>1, <2>1, <4>1
        <5>2. ToSet(seen) = {}
          BY <1>3, <4>1
        <5>3. \A k \in StringKeys : ~(k < m)
          BY <2>1, <5>1
        <5> QED
          BY <5>2, <5>3
      <4>2. CASE Visited(it) /\ Later(s) = {k \in StringKeys : k > Last(it.seen)}
        <5>1. Last(seen) \in Nat /\ m > Last(seen)
          BY <1>1, <1>2, <2>1, <4>2 DEF Visited
        <5>2. \A k \in StringKeys : k \in Nat /\ (k <= Last(seen) <=> k < m)
          BY <1>1, <2>1, <4>2, <5>1
        <5> QED
          BY <4>2, <5>2 DEF Visited
      <4> QED
        BY <4>1, <4>2
    <3>3. \A k \in StringKeys : k <= m <=> k < m \/ k = m
      BY <1>1, <2>1
    <3> QED
      BY <2>1, <3>1, <3>2, <3>3
  <2> QED
    BY <2>2, <2>3, <2>6, <2>7 DEF Visited, m
<1> QED
  BY <1>4, <1>5

\* A loop that is in order has its slots below those of the program.
LEMMA FrameFits ==
  ASSUME Inv, NEW i \in Frames, i < damage
  PROVE  /\ loops[i].top + 1 \in 1..Len(stack)
         /\ ~loops[i].ended =>
              loops[i].top + 2 \in 1..Len(stack) /\ loops[i].top + 3 \in 1..Len(stack)
<1>1. /\ i \in 1..Depth /\ Depth \in Nat /\ loops[i].top \in Nat /\ loops[i].base \in Nat
      /\ Len(stack) \in Nat /\ Len(own) \in Nat /\ damage \in Nat /\ damage # 0 /\ i <= damage
  BY Typed
<1>2. loops[i].top = loops[i].base + 3 * (i - 1) /\ loops[i].base <= Len(own)
  BY <1>1 DEF Inv, Stacked, Nested
<1>3. CASE i < Depth
  <2>1. i + 1 \in Frames /\ i + 1 <= damage
    BY <1>1, <1>3, Typed
  <2>2. /\ loops[i + 1].top = loops[i + 1].base + 3 * i /\ loops[i + 1].top <= Len(stack)
        /\ loops[i].base <= loops[i + 1].base /\ loops[i + 1].base \in Nat
    BY <1>1, <2>1, Typed DEF Inv, Stacked, Nested
  <2>3. loops[i].top + 3 <= Len(stack)
    BY <1>1, <1>2, <2>2
  <2> QED
    BY <1>1, <2>3
<1>4. CASE i = Depth
  <2>1. damage = NoDamage
    BY <1>1, <1>4 DEF Inv, Counted
  <2>2. Len(stack) = Len(own) + 3 * Depth - (IF loops[i].ended THEN 1 ELSE 0)
    BY <1>1, <1>4, <2>1, Typed DEF Inv, Counted, Size
  <2>3. /\ loops[i].top + 2 <= Len(stack)
        /\ ~loops[i].ended => loops[i].top + 3 <= Len(stack)
    BY <1>1, <1>2, <1>4, <2>2
  <2>4. loops[i].top + 1 \in 1..Len(stack) /\ loops[i].top + 2 \in 1..Len(stack)
    BY <1>1, <2>3
  <2>5. ~loops[i].ended => loops[i].top + 3 \in 1..Len(stack)
    BY <1>1, <2>3
  <2> QED
    BY <2>4, <2>5
<1> QED
  BY <1>1, <1>3, <1>4

\* LoopsVisitAll of one loop, before a step ...
LEMMA VisitsDef ==
  ASSUME Inv, NEW i \in Frames, i < damage
  PROVE  /\ stack[loops[i].top + 1] = TableSlot
         /\ ~loops[i].ended =>
              /\ stack[loops[i].top + 2] = [is |-> "key", x |-> Last(loops[i].seen)]
              /\ stack[loops[i].top + 3] = [is |-> "value", x |-> Last(loops[i].seen)]
         /\ Visited(loops[i])
BY DEF Inv, LoopsVisitAll, Visited, Frames

\* ... and after it.
LEMMA VisitsNext ==
  ASSUME \A i \in DOMAIN loops' : i < damage' =>
           /\ stack'[loops'[i].top + 1] = TableSlot
           /\ ~loops'[i].ended =>
                /\ stack'[loops'[i].top + 2] = [is |-> "key", x |-> Last(loops'[i].seen)]
                /\ stack'[loops'[i].top + 3] = [is |-> "value", x |-> Last(loops'[i].seen)]
           /\ Visited(loops'[i])
  PROVE  LoopsVisitAll'
BY DEF LoopsVisitAll, Visited, TableSlot

\* A loop begins (table.hpp:40-48).
LEMMA OpenInv ==
  ASSUME Inv, Open
  PROVE  Inv'
<1> DEFINE s == stack \o <<TableSlot, NilSlot>>
           it == [top |-> Len(stack), ended |-> FALSE, seen |-> <<>>, base |-> Len(own)]
           new == Moved(it, s)
           n == Depth + 1
<1>1. /\ Runs /\ Depth < MaxLoops /\ Len(stack) + 3 <= MaxSlots
      /\ stack' = stack \o Frame(s) /\ loops' = Append(loops, new)
      /\ own' = own /\ damage' = damage /\ fault' = fault
  BY DEF Open
<1>2. /\ Len(stack) \in Nat /\ Len(own) \in Nat /\ Depth \in Nat /\ damage \in Nat /\ damage # 0
      /\ Frames = 1..Depth /\ Len(own) <= MaxOwn
  BY <1>1, Typed DEF Runs, Inv, TypeOK
<1>3. Later(s) = StringKeys
  <2>1. NilSlot \in Slot /\ TableSlot \in Slot /\ stack \in Seq(Slot)
    BY DEF NilSlot, TableSlot, Slot, Inv, TypeOK
  <2>2. s \in Seq(Slot) /\ Len(s) = Len(stack) + 2 /\ s[Len(stack) + 2] = NilSlot
    BY <1>2, <2>1
  <2>3. Last(s) = NilSlot
    BY <2>2 DEF Last
  <2> QED
    BY <2>3 DEF Later, NilSlot
<1>4. it \in Iterator /\ it.seen = <<>> /\ ~it.ended /\ it.top = Len(stack) /\ it.base = Len(own)
  <2>1. Len(stack) \in 0..MaxSlots /\ Len(own) \in 0..MaxOwn
    BY <1>1, <1>2, Typed
  <2> QED
    BY <2>1 DEF Iterator
<1> HIDE DEF it
<1>5. /\ new \in Iterator /\ new.top = Len(stack) /\ new.base = Len(own)
      /\ new.ended <=> Later(s) = {}
  BY <1>4, MovedOp
<1>6. Visited(new) /\ (Later(s) # {} => Last(new.seen) = Min(Later(s)))
  BY <1>3, <1>4, MovedVisits
<1> DEFINE frame == Frame(s)
<1>7. /\ frame \in Seq(Slot) /\ Len(frame) = (IF Later(s) = {} THEN 2 ELSE 3)
      /\ frame[1] = TableSlot
      /\ Later(s) # {} => /\ frame[2] = [is |-> "key", x |-> Min(Later(s))]
                          /\ frame[3] = [is |-> "value", x |-> Min(Later(s))]
  BY FrameOp
<1>8. stack' = stack \o frame
  BY <1>1
<1> HIDE DEF new, frame, s
<1>9. /\ stack' \in Seq(Slot) /\ Len(stack') = Len(stack) + (IF new.ended THEN 2 ELSE 3)
      /\ \A p \in 1..Len(stack) : stack'[p] = stack[p]
      /\ stack'[Len(stack) + 1] = frame[1] /\ stack'[Len(stack) + 2] = frame[2]
      /\ ~new.ended => stack'[Len(stack) + 3] = frame[3]
  <2>0. stack \in Seq(Slot)
    BY DEF Inv, TypeOK
  <2>1. /\ stack \o frame \in Seq(Slot) /\ Len(stack \o frame) = Len(stack) + Len(frame)
        /\ \A p \in 1..Len(stack) : (stack \o frame)[p] = stack[p]
        /\ \A p \in 1..Len(frame) : (stack \o frame)[Len(stack) + p] = frame[p]
    <3>1. frame \in Seq(Slot)
      BY <1>7
    <3>2. stack \o frame \in Seq(Slot)
      BY <2>0, <3>1
    <3>3. Len(stack \o frame) = Len(stack) + Len(frame)
      BY <2>0, <3>1
    <3>4. \A p \in 1..Len(stack) : (stack \o frame)[p] = stack[p]
      BY <2>0, <3>1, ConcatOp
    <3>5. \A p \in 1..Len(frame) : (stack \o frame)[Len(stack) + p] = frame[p]
      BY <2>0, <3>1, ConcatOp
    <3> QED
      BY <3>2, <3>3, <3>4, <3>5
  <2> QED
    BY <1>5, <1>7, <1>8, <2>1
<1>10. /\ loops' \in Seq(Iterator) /\ Len(loops') = n /\ DOMAIN loops' = 1..n /\ loops'[n] = new
       /\ \A i \in Frames : loops'[i] = loops[i]
       /\ \A i \in 1..n : i \in Frames \/ i = n
       /\ loops' # <<>> /\ Last(loops') = new
  <2>1. loops \in Seq(Iterator) /\ Len(loops) = Depth
    BY DEF Inv, TypeOK, Depth
  <2> QED
    BY <1>1, <1>2, <1>5, <2>1, AppendOp
<1>11. TypeOK'
  <2>1. Len(stack') <= MaxSlots /\ Len(loops') <= MaxLoops
    BY <1>1, <1>2, <1>9, <1>10, Typed
  <2> QED
    BY <1>1, <1>9, <1>10, <2>1 DEF Inv, TypeOK, Iterator, NoDamage, Slot
<1>12. \A i \in Frames : ~loops[i].ended /\ loops[i].base <= Len(own) /\ loops[i].top <= Len(stack)
  BY <1>1, <1>2, Typed DEF Runs, Inv, Nested, Stacked
<1>13. Nested'
  <2>1. \A i \in 1..n : loops'[i].base <= Len(own) /\ (loops'[i].ended => i = n)
    BY <1>2, <1>5, <1>10, <1>12
  <2>2. \A i, j \in 1..n : i <= j => loops'[i].base <= loops'[j].base
    BY <1>2, <1>5, <1>10, <1>12 DEF Inv, Nested
  <2> QED
    BY <1>1, <1>10, <2>1, <2>2 DEF Nested, Frames, Depth
<1>14. Counted'
  <2>1. damage' \in 0..n \cup {NoDamage}
    BY <1>1, <1>2 DEF Inv, Counted
  <2>2. damage = NoDamage => Len(stack') = Len(own) + 3 * n - (IF new.ended THEN 1 ELSE 0)
    BY <1>1, <1>2, <1>5, <1>9, OrderlySize
  <2>3. Size' = Len(own) + 3 * n - (IF new.ended THEN 1 ELSE 0)
    BY <1>1, <1>10 DEF Size, Depth
  <2> QED
    BY <1>1, <1>10, <2>1, <2>2, <2>3 DEF Counted, Depth, NoDamage
<1>15. Stacked'
  <2>1. \A i \in 1..n : loops'[i].top <= Len(stack')
    <3> SUFFICES ASSUME NEW i \in 1..n PROVE loops'[i].top <= Len(stack')
      OBVIOUS
    <3>1. CASE i \in Frames
      <4>1. loops[i].top \in Nat /\ loops[i].top <= Len(stack) /\ loops'[i] = loops[i]
        BY <1>10, <1>12, <3>1, Typed
      <4> QED
        BY <1>2, <1>9, <4>1
    <3>2. CASE i = n
      BY <1>2, <1>5, <1>9, <1>10, <3>2
    <3> QED
      BY <1>10, <3>1, <3>2
  <2>2. \A i, j \in 1..n : i <= j => loops'[i].top <= loops'[j].top
    <3> SUFFICES ASSUME NEW i \in 1..n, NEW j \in 1..n, i <= j PROVE loops'[i].top <= loops'[j].top
      OBVIOUS
    <3>1. CASE j \in Frames
      <4>1. i \in Frames
        BY <1>2, <3>1
      <4> QED
        BY <1>2, <1>10, <3>1, <4>1 DEF Inv, Stacked
    <3>2. CASE j = n
      BY <1>2, <1>5, <1>10, <1>12, <3>2
    <3> QED
      BY <1>10, <3>1, <3>2
  <2>3. ASSUME NEW i \in 1..n, i <= damage PROVE loops'[i].top = loops'[i].base + 3 * (i - 1)
    <3>1. CASE i \in Frames
      BY <1>2, <1>10, <2>3, <3>1 DEF Inv, Stacked
    <3>2. CASE i = n
      <4>1. damage = NoDamage
        BY <1>2, <2>3, <3>2 DEF Inv, Counted
      <4> QED
        BY <1>1, <1>2, <1>5, <1>10, <3>2, <4>1, OrderlySize
    <3> QED
      BY <1>10, <3>1, <3>2
  <2> QED
    BY <1>1, <1>10, <2>1, <2>2, <2>3 DEF Stacked, Frames
<1>16. ValuesStand'
  <2> SUFFICES ASSUME NEW j \in DOMAIN own, NEW d \in 0..n, PushedIn(j, d)', d < damage
               PROVE  j + 3 * d \in DOMAIN stack' /\ stack'[j + 3 * d] = Own(own[j])
    BY <1>1, <1>10 DEF ValuesStand, Depth, Own
  <2>1. j \in Nat /\ j >= 1 /\ j <= Len(own)
    BY <1>2 DEF Inv, TypeOK
  <2>2. d \in 0..Depth
    <3>1. d # n
      BY <1>2, <1>5, <1>10, <2>1 DEF PushedIn
    <3> QED
      BY <1>2, <3>1
  <2>3. PushedIn(j, d)
    <3>1. d > 0 => d \in Frames
      BY <1>2, <2>2
    <3>2. d < Depth => d + 1 \in Frames /\ d < n
      BY <1>2, <2>2
    <3> QED
      BY <1>10, <2>2, <3>1, <3>2 DEF PushedIn, Depth
  <2>4. j + 3 * d \in DOMAIN stack /\ stack[j + 3 * d] = Own(own[j])
    BY <2>2, <2>3 DEF Inv, ValuesStand
  <2>5. DOMAIN stack = 1..Len(stack) /\ DOMAIN stack' = 1..Len(stack') /\ Len(stack) <= Len(stack')
        /\ Len(stack') \in Nat
    BY <1>2, <1>9 DEF Inv, TypeOK
  <2>6. \A p \in 1..Len(stack) : p \in 1..Len(stack')
    BY <1>2, <2>5
  <2> QED
    BY <1>9, <2>4, <2>5, <2>6
<1>17. LoopsVisitAll'
  <2> SUFFICES ASSUME NEW i \in 1..n, i < damage
               PROVE  /\ stack'[loops'[i].top + 1] = TableSlot
                      /\ ~loops'[i].ended =>
                           /\ stack'[loops'[i].top + 2] = [is |-> "key", x |-> Last(loops'[i].seen)]
                           /\ stack'[loops'[i].top + 3] =
                                [is |-> "value", x |-> Last(loops'[i].seen)]
                      /\ Visited(loops'[i])
    BY <1>1, <1>10, VisitsNext
  <2>1. CASE i \in Frames
    <3>1. loops'[i] = loops[i] /\ ~loops[i].ended
      BY <1>10, <1>12, <2>1
    <3>2. /\ stack'[loops[i].top + 1] = stack[loops[i].top + 1]
          /\ stack'[loops[i].top + 2] = stack[loops[i].top + 2]
          /\ stack'[loops[i].top + 3] = stack[loops[i].top + 3]
      BY <1>9, <2>1, <3>1, FrameFits
    <3> QED
      BY <2>1, <3>1, <3>2, VisitsDef
  <2>2. CASE i = n
    BY <1>5, <1>6, <1>7, <1>9, <1>10, <2>2
  <2> QED
    BY <1>10, <2>1, <2>2
<1> QED
  BY <1>11, <1>13, <1>14, <1>15, <1>16, <1>17 DEF Inv

\* The innermost loop goes on, and the stack above its beginning changes.  The body
\* disturbed it, or the step does.
LEMMA GoesOnInv ==
  ASSUME Inv, Goes, TypeOK', NEW s,
         loops' = [loops EXCEPT ![Depth] = Moved(@, s)], own' = own,
         damage' \in 1..Depth, damage' <= damage,
         Bottom <= Len(stack'), \A p \in 1..Bottom : stack'[p] = stack[p]
  PROVE  Inv'
<1>1. /\ damage # 0 /\ loops # <<>> /\ Depth \in Frames /\ Depth \in Nat /\ Frames = 1..Depth
      /\ Len(stack') \in Nat
  BY Typed DEF Goes, Runs, TypeOK
<1>2. /\ Len(loops') = Depth /\ DOMAIN loops' = Frames
      /\ \A i \in Frames : i # Depth => loops'[i] = loops[i]
      /\ loops'[Depth] = Moved(loops[Depth], s)
  BY <1>1, Typed DEF Inv, TypeOK, Depth, Frames
<1>3. \A i \in Frames : loops'[i].top = loops[i].top /\ loops'[i].base = loops[i].base
  <2>1. loops[Depth] \in Iterator
    BY <1>1, Typed
  <2> QED
    BY <1>2, <2>1, MovedOp
<1>4. Nested'
  <2>1. \A i \in Frames : loops'[i].base <= Len(own) /\ (loops'[i].ended => i = Depth)
    BY <1>2, <1>3 DEF Inv, Nested
  <2>2. \A i, j \in Frames : i <= j => loops'[i].base <= loops'[j].base
    BY <1>3 DEF Inv, Nested
  <2> QED
    BY <1>2, <2>1, <2>2 DEF Nested, Frames, Depth
<1>5. KeepsOuter
  <2>1. \A i \in Frames : loops[i].top <= Len(stack')
    BY <1>1, Innermost, Typed
  <2>2. \A p \in 1..loops[damage'].top : stack'[p] = stack[p]
    <3>1. loops[damage'].top <= Bottom /\ loops[damage'].top \in Nat
      BY <1>1, Innermost, Typed
    <3> QED
      BY <3>1, Innermost
  <2>3. \A i \in Frames : i < damage' => loops'[i] = loops[i]
    BY <1>1, <1>2
  <2>4. damage' \in 1..Len(loops') /\ Len(loops') <= Depth /\ 1..Len(loops') = Frames
    BY <1>1, <1>2
  <2> QED
    BY <1>3, <2>1, <2>2, <2>3, <2>4 DEF KeepsOuter
<1> QED
  BY <1>4, <1>5, KeepsOuterInv

\* lua_next finds no key that fits: the program is over.
LEMMA NextFailsInv ==
  ASSUME Inv, Goes, fault' = "next", UNCHANGED <<stack, loops, own>>,
         damage' \in {damage, Least(damage, Depth)}
  PROVE  Inv'
<1>1. /\ damage # 0 /\ Depth \in Nat /\ Depth > 0 /\ damage \in Nat /\ NoDamage > Depth
      /\ NoDamage \in Nat /\ damage \in 0..Depth \cup {NoDamage} /\ Runs
  BY Typed DEF Goes, Runs, Inv, Counted
<1>2. damage' = damage \/ (damage' \in 1..Depth /\ damage' <= damage)
  BY <1>1 DEF Least
<1>3. TypeOK'
  <2>1. damage' \in 0..NoDamage
    BY <1>1, <1>2
  <2> QED
    BY <2>1 DEF Inv, TypeOK, Iterator, NoDamage, Slot
<1>4. CASE damage' = damage
  BY <1>3, <1>4, UnchangedInv
<1>5. CASE damage' \in 1..Depth /\ damage' <= damage
  BY <1>1, <1>3, <1>5, Innermost, BodyInv
<1> QED
  BY <1>2, <1>4, <1>5

\* What lua_next leaves, when it works, has the types of stack and iterators.
LEMMA NextTypes ==
  ASSUME Inv, Goes, NEW s, NEW after \in Seq(Slot), Len(after) <= MaxSlots,
         stack' = after, loops' = [loops EXCEPT ![Depth] = Moved(@, s)],
         own' = own, fault' = fault, damage' \in 0..NoDamage
  PROVE  TypeOK'
<1>1. Depth \in Frames /\ loops \in Seq(Iterator) /\ Frames = DOMAIN loops
  BY Typed DEF Goes, Inv, TypeOK, Frames
<1>2. Moved(loops[Depth], s) \in Iterator
  BY <1>1, MovedOp, Typed
<1>3. loops' \in Seq(Iterator) /\ Len(loops') = Len(loops)
  BY <1>1, <1>2
<1> QED
  BY <1>3 DEF Inv, TypeOK, Iterator, NoDamage, Slot

\* it++ takes the frame away (table.hpp:81-85).
LEMMA PostIncrementInv ==
  ASSUME Inv, PostIncrement
  PROVE  Inv'
<1> DEFINE s == Popped(stack, 1)
           after == Settop(stack, Bottom)
<1>1. Goes /\ Nexts(s, after) /\ damage' = Least(damage, Depth) /\ own' = own
  BY DEF PostIncrement
<1>2. CASE ~NextWorks(s, Bottom)
  BY <1>1, <1>2, NextFailsInv DEF Nexts
<1>3. CASE NextWorks(s, Bottom)
  <2>1. stack' = after /\ loops' = [loops EXCEPT ![Depth] = Moved(@, s)] /\ fault' = fault
    BY <1>1, <1>3 DEF Nexts
  <2>2. /\ damage # 0 /\ Bottom \in Nat /\ Bottom <= Len(stack) /\ Len(stack) <= MaxSlots
        /\ Depth \in Nat /\ Depth > 0 /\ damage \in Nat /\ Depth < NoDamage /\ NoDamage \in Nat
        /\ Len(stack) \in Nat /\ MaxSlots \in Nat
    BY <1>1, Innermost, Typed DEF Goes, Runs, Inv, TypeOK
  <2>3. /\ after \in Seq(Slot) /\ Len(after) = Bottom
        /\ \A p \in 1..Bottom : after[p] = stack[p]
    BY <2>2, SettopOp DEF Inv, TypeOK
  <2>4. damage' \in 1..Depth /\ damage' <= damage /\ damage' \in 0..NoDamage
    BY <1>1, <2>2 DEF Least
  <2> HIDE DEF s, after
  <2>5. TypeOK'
    <3>1. Len(after) <= MaxSlots
      BY <2>2, <2>3
    <3> QED
      BY <1>1, <2>1, <2>3, <2>4, <3>1, NextTypes
  <2>6. Bottom <= Len(stack') /\ \A p \in 1..Bottom : stack'[p] = stack[p]
    BY <2>1, <2>2, <2>3
  <2> QED
    BY <1>1, <2>1, <2>4, <2>5, <2>6, GoesOnInv
<1> QED
  BY <1>2, <1>3

\* What ++it makes of the stack: the slots of the frame are new.
LEMMA AdvanceOp ==
  ASSUME Inv, Goes, NextWorks(Popped(stack, 1), Bottom)
  PROVE  LET s == Popped(stack, 1)
             after == Popped(s, 2) \o Frame(s)
         IN /\ Len(stack) = Bottom + 3 /\ after \in Seq(Slot)
            /\ Len(after) = Bottom + (IF Later(s) = {} THEN 2 ELSE 3)
            /\ \A p \in 1..Bottom : after[p] = stack[p]
            /\ after[Bottom + 1] = TableSlot
            /\ Later(s) # {} => /\ after[Bottom + 2] = [is |-> "key", x |-> Min(Later(s))]
                                /\ after[Bottom + 3] = [is |-> "value", x |-> Min(Later(s))]
            /\ Last(s) = stack[Bottom + 2]
<1> DEFINE s == Popped(stack, 1)
           frame == Frame(s)
           below == Popped(s, 2)
<1>1. stack \in Seq(Slot) /\ Len(stack) \in Nat /\ Bottom \in Nat
  BY Innermost, Typed DEF Inv, TypeOK
<1>2. /\ s \in Seq(Slot) /\ Len(s) = (IF 1 <= Len(stack) THEN Len(stack) - 1 ELSE 0)
      /\ \A i \in 1..(Len(stack) - 1) : s[i] = stack[i]
  <2>1. 1 \in Nat
    OBVIOUS
  <2> QED
    BY <1>1, <2>1, PoppedOp, Zenon
<1>3. Len(s) = Bottom + 2 /\ Len(stack) = Bottom + 3
  BY <1>1, <1>2 DEF NextWorks
<1>4. Last(s) = stack[Bottom + 2]
  BY <1>1, <1>2, <1>3 DEF Last
<1> HIDE DEF s
<1>5. /\ below \in Seq(Slot) /\ Len(below) = Bottom
      /\ \A i \in 1..Bottom : below[i] = s[i]
  <2>1. (2 <= Len(s)) /\ Len(s) - 2 = Bottom /\ 2 \in Nat
    BY <1>1, <1>3
  <2> QED
    BY <1>2, <2>1, PoppedOp
<1>6. /\ frame \in Seq(Slot) /\ Len(frame) = (IF Later(s) = {} THEN 2 ELSE 3)
      /\ frame[1] = TableSlot
      /\ Later(s) # {} => /\ frame[2] = [is |-> "key", x |-> Min(Later(s))]
                          /\ frame[3] = [is |-> "value", x |-> Min(Later(s))]
  BY FrameOp
<1> HIDE DEF frame, below
<1>7. /\ below \in Seq(Slot) /\ frame \in Seq(Slot)
  BY <1>5, <1>6
<1>8. /\ below \o frame \in Seq(Slot) /\ Len(below \o frame) = Len(below) + Len(frame)
      /\ \A i \in 1..Len(below) : (below \o frame)[i] = below[i]
      /\ \A i \in 1..Len(frame) : (below \o frame)[Len(below) + i] = frame[i]
  BY <1>7, ConcatOp
<1>9. /\ below \o frame \in Seq(Slot)
      /\ Len(below \o frame) = Bottom + (IF Later(s) = {} THEN 2 ELSE 3)
      /\ \A p \in 1..Bottom : (below \o frame)[p] = stack[p]
  BY <1>1, <1>2, <1>3, <1>5, <1>6, <1>8
<1>10. /\ (below \o frame)[Bottom + 1] = TableSlot
       /\ Later(s) # {} => /\ (below \o frame)[Bottom + 2] = [is |-> "key", x |-> Min(Later(s))]
                           /\ (below \o frame)[Bottom + 3] = [is |-> "value", x |-> Min(Later(s))]
  <2>1. 1 \in 1..Len(frame) /\ (Later(s) # {} => 2 \in 1..Len(frame) /\ 3 \in 1..Len(frame))
    BY <1>6
  <2> QED
    BY <1>5, <1>6, <1>8, <2>1
<1> QED
  BY <1>3, <1>4, <1>9, <1>10 DEF s, frame, below

\* ++it delivers the next string key, and with it the body ends (table.hpp:67-79).
LEMMA AdvanceInv ==
  ASSUME Inv, Advance
  PROVE  Inv'
<1> DEFINE s == Popped(stack, 1)
           after == Popped(s, 2) \o Frame(s)
<1>1. /\ Goes /\ Nexts(s, after) /\ own' = own
      /\ damage' = IF Len(own) > Base THEN Least(damage, Depth) ELSE damage
  BY DEF Advance
<1>2. CASE ~NextWorks(s, Bottom)
  BY <1>1, <1>2, NextFailsInv DEF Nexts
<1>3. CASE NextWorks(s, Bottom)
  <2>1. stack' = after /\ loops' = [loops EXCEPT ![Depth] = Moved(@, s)] /\ fault' = fault
    BY <1>1, <1>3 DEF Nexts
  <2>2. /\ damage # 0 /\ Bottom \in Nat /\ Bottom <= Len(stack) /\ Len(stack) <= MaxSlots
        /\ Depth \in Nat /\ Depth > 0 /\ damage \in Nat /\ Depth < NoDamage /\ NoDamage \in Nat
        /\ Len(stack) \in Nat /\ MaxSlots \in Nat /\ Len(own) \in Nat /\ Base \in Nat
        /\ Base <= Len(own) /\ damage \in 0..Depth \cup {NoDamage} /\ Depth \in Frames
        /\ Frames = 1..Depth /\ Runs
    BY <1>1, Innermost, Typed DEF Goes, Runs, Inv, TypeOK, Counted
  <2>3. /\ Len(stack) = Bottom + 3 /\ after \in Seq(Slot)
        /\ Len(after) = Bottom + (IF Later(s) = {} THEN 2 ELSE 3)
        /\ \A p \in 1..Bottom : after[p] = stack[p]
        /\ after[Bottom + 1] = TableSlot
        /\ Later(s) # {} => /\ after[Bottom + 2] = [is |-> "key", x |-> Min(Later(s))]
                            /\ after[Bottom + 3] = [is |-> "value", x |-> Min(Later(s))]
        /\ Last(s) = stack[Bottom + 2]
    BY <1>1, <1>3, AdvanceOp
  <2> HIDE DEF s, after
  <2>4. damage' \in 0..NoDamage
    BY <1>1, <2>2 DEF Least
  <2>5. TypeOK'
    <3>1. Len(after) <= MaxSlots
      BY <2>2, <2>3
    <3> QED
      BY <1>1, <2>1, <2>3, <2>4, <3>1, NextTypes
  <2>6. CASE damage' # NoDamage
    <3>1. damage' \in 1..Depth /\ damage' <= damage
      BY <1>1, <2>2, <2>6 DEF Least
    <3>2. Bottom <= Len(stack') /\ \A p \in 1..Bottom : stack'[p] = stack[p]
      BY <2>1, <2>2, <2>3
    <3> QED
      BY <1>1, <2>1, <2>5, <3>1, <3>2, GoesOnInv
  <2>7. CASE damage' = NoDamage
    <3> DEFINE it == loops[Depth]
               new == Moved(it, s)
    <3>1. damage' = damage /\ damage = NoDamage /\ Len(own) = Base
      BY <1>1, <2>2, <2>7 DEF Least
    <3>2. it \in Iterator /\ it.top = Bottom /\ it.base = Base /\ ~it.ended
      BY <2>2, Typed DEF Bottom, Base, Runs
    <3>3. /\ Visited(it) /\ stack[Bottom + 2] = [is |-> "key", x |-> Last(it.seen)]
      BY <2>2, <3>1, <3>2, VisitsDef
    <3>4. Later(s) = {k \in StringKeys : k > Last(it.seen)}
      <4>1. Last(s).is = "key" /\ Last(s).x = Last(it.seen)
        BY <2>3, <3>3
      <4> QED
        BY <4>1 DEF Later
    <3>5. Visited(new) /\ (Later(s) # {} => Last(new.seen) = Min(Later(s)))
      BY <3>2, <3>3, <3>4, MovedVisits
    <3>6. new \in Iterator /\ new.top = Bottom /\ new.base = Base /\ (new.ended <=> Later(s) = {})
      BY <3>2, MovedOp
    <3>7. /\ DOMAIN loops' = Frames /\ Len(loops') = Depth /\ loops'[Depth] = new
          /\ \A i \in Frames : i # Depth => loops'[i] = loops[i]
          /\ loops' # <<>> /\ Last(loops') = new
      <4>1. /\ DOMAIN loops' = Frames /\ Len(loops') = Depth /\ loops'[Depth] = new
            /\ \A i \in Frames : i # Depth => loops'[i] = loops[i]
        BY <2>1, <2>2 DEF Inv, TypeOK, Frames, Depth
      <4>2. loops' # <<>> /\ Last(loops') = loops'[Len(loops')]
        BY <2>2, <4>1 DEF Last
      <4> QED
        BY <4>1, <4>2
    <3> HIDE DEF it, new
    <3>8. \A i \in Frames : loops'[i].top = loops[i].top /\ loops'[i].base = loops[i].base
      BY <3>2, <3>6, <3>7 DEF it
    <3>9. Nested'
      <4>1. \A i \in Frames : loops'[i].base <= Len(own) /\ (loops'[i].ended => i = Depth)
        BY <3>7, <3>8 DEF Inv, Nested
      <4>2. \A i, j \in Frames : i <= j => loops'[i].base <= loops'[j].base
        BY <3>8 DEF Inv, Nested
      <4> QED
        BY <1>1, <3>7, <4>1, <4>2 DEF Nested, Frames, Depth
    <3>10. Counted'
      <4>1. Len(stack) = Len(own) + 3 * Depth
        BY <2>2, <3>1, OrderlySize
      <4>2. Size' = Len(own) + 3 * Depth - (IF new.ended THEN 1 ELSE 0)
        BY <1>1, <3>7 DEF Size, Depth
      <4>3. Len(stack') = Size'
        BY <2>1, <2>2, <2>3, <3>6, <4>1, <4>2
      <4> QED
        BY <2>7, <4>3 DEF Counted, NoDamage
    <3>11. Stacked'
      <4>1. \A i \in Frames : loops[i].top <= Len(stack')
        <5>1. Bottom <= Len(stack') /\ Len(stack') \in Nat
          BY <2>1, <2>2, <2>3
        <5> QED
          BY <2>2, <5>1, Innermost, Typed
      <4>2. /\ \A i, j \in Frames : i <= j => loops[i].top <= loops[j].top
            /\ \A i \in Frames : i <= damage => loops[i].top = loops[i].base + 3 * (i - 1)
        BY <2>2 DEF Inv, Stacked
      <4> QED
        BY <3>1, <3>7, <3>8, <4>1, <4>2 DEF Stacked, Frames
    <3>12. ValuesStand'
      <4> SUFFICES ASSUME NEW j \in DOMAIN own, NEW d \in 0..Depth, PushedIn(j, d)'
                   PROVE  j + 3 * d \in DOMAIN stack' /\ stack'[j + 3 * d] = Own(own[j])
        BY <1>1, <3>7 DEF ValuesStand, Depth, Own
      <4>1. j \in Nat /\ j >= 1 /\ j <= Base
        BY <2>2, <3>1 DEF Inv, TypeOK
      <4>2. PushedIn(j, d)
        <5>1. (d > 0 => d \in Frames) /\ (d < Depth => d + 1 \in Frames)
          BY <2>2
        <5> QED
          BY <3>7, <3>8, <5>1 DEF PushedIn, Depth
      <4>3. d < Depth
        BY <2>2, <3>2, <4>1, <4>2 DEF PushedIn, it
      <4>4. j + 3 * d \in 1..Bottom
        <5>1. Bottom = Base + 3 * (Depth - 1)
          BY <2>2, <3>1, Innermost
        <5> QED
          BY <2>2, <4>1, <4>3, <5>1
      <4>5. stack[j + 3 * d] = Own(own[j])
        BY <2>2, <3>1, <4>2, <4>3 DEF Inv, ValuesStand
      <4>6. DOMAIN stack' = 1..Len(stack') /\ Bottom <= Len(stack') /\ Len(stack') \in Nat
        BY <2>1, <2>2, <2>3
      <4> QED
        BY <2>1, <2>2, <2>3, <4>4, <4>5, <4>6
    <3>13. LoopsVisitAll'
      <4> SUFFICES ASSUME NEW i \in Frames
                   PROVE  /\ stack'[loops'[i].top + 1] = TableSlot
                          /\ ~loops'[i].ended =>
                               /\ stack'[loops'[i].top + 2] =
                                    [is |-> "key", x |-> Last(loops'[i].seen)]
                               /\ stack'[loops'[i].top + 3] =
                                    [is |-> "value", x |-> Last(loops'[i].seen)]
                          /\ Visited(loops'[i])
        BY <3>7, VisitsNext
      <4>1. CASE i = Depth
        BY <2>1, <2>3, <3>5, <3>6, <3>7, <4>1
      <4>2. CASE i # Depth
        <5>1. loops'[i] = loops[i] /\ i < damage
          BY <2>2, <3>1, <3>7, <4>2
        <5>2. loops[i].top + 3 <= Bottom /\ loops[i].top \in Nat
          <6>1. i + 1 \in Frames /\ i + 1 <= damage /\ i <= damage /\ i \in Nat
            BY <2>2, <3>1, <4>2
          <6>2. /\ loops[i].top = loops[i].base + 3 * (i - 1)
                /\ loops[i + 1].top = loops[i + 1].base + 3 * i
                /\ loops[i].base <= loops[i + 1].base /\ loops[i + 1].top <= Bottom
                /\ loops[i].base \in Nat /\ loops[i + 1].base \in Nat /\ loops[i].top \in Nat
            BY <2>2, <6>1, Innermost, Typed DEF Inv, Stacked, Nested
          <6>3. Bottom \in Nat /\ loops[i + 1].top \in Nat
            BY <2>2, <6>1, Typed
          <6> QED
            BY <6>1, <6>2, <6>3
        <5>3. /\ stack'[loops[i].top + 1] = stack[loops[i].top + 1]
              /\ stack'[loops[i].top + 2] = stack[loops[i].top + 2]
              /\ stack'[loops[i].top + 3] = stack[loops[i].top + 3]
          <6>1. /\ loops[i].top + 1 \in 1..Bottom /\ loops[i].top + 2 \in 1..Bottom
                /\ loops[i].top + 3 \in 1..Bottom
            <7>1. Bottom \in Nat
              BY <2>2
            <7> QED
              BY <5>2, <7>1
          <6> QED
            BY <2>1, <2>3, <6>1
        <5> QED
          BY <5>1, <5>3, VisitsDef
      <4> QED
        BY <4>1, <4>2
    <3> QED
      BY <2>5, <3>9, <3>10, <3>11, <3>12, <3>13 DEF Inv
  <2> QED
    BY <2>6, <2>7
<1> QED
  BY <1>2, <1>3

\* Loops that are left put the stack back to where they began (table.hpp:56-59).
LEMMA LeaveInv ==
  ASSUME Inv, NEW n \in 0..Depth, NEW s \in Seq(Slot), Len(s) <= MaxSlots,
         Len(stack) <= Len(s), \A p \in 1..Len(stack) : s[p] = stack[p],
         NEW harm, \/ harm = damage /\ s = stack
                   \/ harm = Least(damage, Depth),
         Leave(s, n, harm), fault' = fault
  PROVE  Inv'
<1> DEFINE k == Depth - n
           first == loops[k + 1]
<1>1. /\ Depth \in Nat /\ n \in Nat /\ n <= Depth /\ k \in Nat /\ k <= Depth /\ Frames = 1..Depth
      /\ damage \in Nat /\ damage \in 0..Depth \cup {NoDamage}
      /\ NoDamage > Depth /\ NoDamage \in Nat
      /\ Len(stack) \in Nat /\ Len(s) \in Nat /\ Len(own) \in Nat /\ MaxSlots \in Nat
      /\ MaxLoops \in Nat /\ Depth <= MaxLoops
  BY Typed DEF Inv, Counted
<1>2. /\ harm \in Nat /\ harm <= damage /\ harm \in 0..NoDamage
      /\ harm > Depth => s = stack /\ harm = damage
  BY <1>1 DEF Least
<1>3. /\ stack' = IF n = 0 THEN s ELSE Settop(s, first.top)
      /\ loops' = SubSeq(loops, 1, k)
      /\ own' = IF n = 0 THEN own ELSE SubSeq(own, 1, first.base)
      /\ damage' = IF harm > k THEN NoDamage ELSE harm
  BY DEF Leave
<1>4. /\ loops' \in Seq(Iterator) /\ Len(loops') = k
      /\ \A i \in 1..k : i \in Frames /\ loops'[i] = loops[i]
  <2>1. loops \in Seq(Iterator) /\ Len(loops) = Depth
    BY DEF Inv, TypeOK, Depth
  <2> QED
    BY <1>1, <1>3, <2>1, PrefixOp
<1>5. damage' \in 0..NoDamage
  BY <1>2, <1>3, Typed
<1>6. CASE n = 0
  <2>1. stack' = s /\ loops' = loops /\ own' = own /\ k = Depth
    BY <1>1, <1>3, <1>6 DEF Inv, TypeOK, Depth
  <2>2. TypeOK'
    BY <1>5, <2>1 DEF Inv, TypeOK, Iterator, NoDamage, Slot
  <2>3. Nested'
    BY <2>1 DEF Inv, Nested, Frames, Depth
  <2>4. CASE harm > Depth
    BY <1>1, <1>2, <1>3, <2>1, <2>2, <2>4, UnchangedInv DEF Inv, Counted
  <2>5. CASE harm = 0
    BY <1>1, <1>3, <2>2, <2>3, <2>5, LostInv
  <2>6. CASE harm \in 1..Depth
    <3>1. damage' = harm /\ damage # 0 /\ damage' \in Frames
      BY <1>1, <1>2, <1>3, <2>1, <2>6
    <3>2. \A i \in Frames :
            loops[i].top \in Nat /\ loops[i].top <= Len(stack) /\ loops[i].base <= Len(own)
      BY <3>1, Typed DEF Inv, Stacked, Nested
    <3>3. \A i \in Frames : loops[i].top <= Len(stack')
      BY <1>1, <2>1, <3>2
    <3>4. \A p \in 1..loops[damage'].top : stack'[p] = stack[p]
      BY <1>1, <2>1, <3>1, <3>2
    <3>5. KeepsOuter
      BY <1>1, <1>2, <1>4, <2>1, <3>1, <3>3, <3>4 DEF KeepsOuter
    <3> QED
      BY <2>2, <2>3, <3>5, KeepsOuterInv
  <2> QED
    BY <1>1, <1>2, <2>4, <2>5, <2>6
<1>7. CASE n # 0
  <2>1. k + 1 \in Frames /\ k < Depth
    BY <1>1, <1>7
  <2>2. /\ first.top \in Nat /\ first.base \in Nat /\ first.base <= Len(own)
        /\ first.top <= MaxSlots /\ Len(own) <= MaxOwn /\ MaxOwn \in Nat
    BY <2>1, Typed DEF Inv, Nested, TypeOK
  <2>3. stack' \in Seq(Slot) /\ Len(stack') = first.top
        /\ \A p \in 1..first.top : p <= Len(s) => stack'[p] = s[p]
    BY <1>3, <1>7, <2>2, SettopOp
  <2>4. own' \in Seq(Value) /\ Len(own') = first.base /\ \A j \in 1..first.base : own'[j] = own[j]
    <3>1. own \in Seq(Value) /\ first.base \in Int /\ own' = SubSeq(own, 1, first.base)
      BY <1>3, <1>7, <2>2 DEF Inv, TypeOK
    <3> QED
      BY <2>2, <3>1, PrefixOp
  <2> HIDE DEF first
  <2>5. TypeOK'
    <3>1. Len(stack') <= MaxSlots /\ Len(own') <= MaxOwn /\ Len(loops') <= MaxLoops
      BY <1>1, <1>4, <2>2, <2>3, <2>4
    <3> QED
      BY <1>4, <1>5, <2>3, <2>4, <3>1 DEF Inv, TypeOK, Iterator, NoDamage, Slot
  <2>6. Nested'
    <3>1. DOMAIN loops' = 1..k
      BY <1>4
    <3>2. \A i \in 1..k : loops[i].base <= first.base /\ ~loops[i].ended
      BY <1>1, <1>4, <2>1 DEF Inv, Nested, first
    <3>3. \A i, j \in 1..k : i <= j => loops[i].base <= loops[j].base
      BY <1>4 DEF Inv, Nested
    <3> QED
      BY <1>4, <2>4, <3>1, <3>2, <3>3 DEF Nested, Frames, Depth
  <2>7. CASE harm = 0
    BY <1>1, <1>3, <2>5, <2>6, <2>7, LostInv
  <2>8. CASE harm # 0
    <3>1. /\ damage # 0 /\ first.top <= Len(stack)
          /\ \A i \in 1..k : loops[i].top \in Nat /\ loops[i].top <= first.top
                             /\ loops[i].base \in Nat /\ loops[i].base <= first.base
      <4>1. damage # 0
        BY <1>1, <1>2, <2>8
      <4>2. \A i \in 1..k : i <= k + 1
        BY <1>1
      <4> QED
        BY <1>4, <2>1, <4>1, <4>2, Typed DEF Inv, Stacked, Nested, first
    <3>2. \A p \in 1..first.top : stack'[p] = stack[p]
      BY <1>1, <2>2, <2>3, <3>1
    <3>3. CASE harm <= k
      <4>1. damage' = harm /\ damage' \in 1..k
        BY <1>1, <1>2, <1>3, <2>8, <3>3
      <4>2. \A p \in 1..loops[damage'].top : stack'[p] = stack[p]
        BY <2>2, <3>1, <3>2, <4>1
      <4>3. \A j \in 1..loops[damage'].base : own'[j] = own[j]
        BY <2>2, <2>4, <3>1, <4>1
      <4>4. KeepsOuter
        BY <1>1, <1>2, <1>4, <2>3, <3>1, <4>1, <4>2, <4>3 DEF KeepsOuter
      <4> QED
        BY <2>5, <2>6, <4>4, KeepsOuterInv
    <3>4. CASE harm > k
      <4>1. damage' = NoDamage /\ k + 1 <= damage /\ k < damage
        BY <1>1, <1>2, <1>3, <3>4
      <4>2. first.top = first.base + 3 * k
        <5>1. first.top = first.base + 3 * ((k + 1) - 1)
          BY <2>1, <3>1, <4>1 DEF Inv, Stacked, first
        <5> QED
          BY <1>1, <2>2, <5>1
      <4>3. BaseAt(k) \in Nat /\ BaseAt(k) <= first.base
        BY <1>1, <2>2, <3>1 DEF BaseAt
      <4>4. \A i \in 1..k : ~loops[i].ended
        BY <1>1, <1>4, <2>1 DEF Inv, Nested
      <4>5. \A p \in 1..(BaseAt(k) + 3 * k) : stack'[p] = stack[p]
        BY <1>1, <2>2, <3>2, <4>2, <4>3
      <4>6. \A j \in 1..BaseAt(k) : own'[j] = own[j]
        BY <2>2, <2>4, <4>3
      <4>7. \A j \in (BaseAt(k) + 1)..Len(own') : stack'[j + 3 * k] = Own(own'[j])
        <5> SUFFICES ASSUME NEW j \in (BaseAt(k) + 1)..first.base
                     PROVE  stack'[j + 3 * k] = Own(own'[j])
          BY <2>4
        <5>1. j \in Nat /\ j >= 1 /\ j > BaseAt(k) /\ j <= first.base /\ j <= Len(own)
          BY <2>2, <4>3, <1>1
        <5>2. j \in DOMAIN own /\ j \in 1..first.base /\ j + 3 * k \in 1..first.top
          BY <1>1, <2>2, <4>2, <5>1 DEF Inv, TypeOK
        <5>3. PushedIn(j, k) /\ k \in 0..Depth
          BY <1>1, <2>1, <5>1 DEF PushedIn, BaseAt, first
        <5>4. stack[j + 3 * k] = Own(own[j])
          BY <4>1, <5>2, <5>3 DEF Inv, ValuesStand
        <5> QED
          BY <2>4, <3>2, <5>2, <5>4
      <4> HIDE DEF k
      <4>8. KeepsOrder
        BY <1>1, <1>4, <2>3, <2>4, <4>1, <4>2, <4>4, <4>5, <4>6, <4>7 DEF KeepsOrder
      <4> QED
        BY <2>5, <2>6, <4>8, KeepsOrderInv
    <3> QED
      BY <1>1, <1>2, <3>3, <3>4
  <2> QED
    BY <2>7, <2>8
<1> QED
  BY <1>6, <1>7

\* A loop ends, or a body breaks off.
LEMMA CloseInv ==
  ASSUME Inv, Close
  PROVE  Inv'
<1>1. loops # <<>> /\ Leave(stack, 1, damage) /\ fault' = fault
  BY DEF Close
<1>2. 1 \in 0..Depth /\ stack \in Seq(Slot) /\ Len(stack) <= MaxSlots /\ Len(stack) <= Len(stack)
  BY <1>1, Typed DEF Inv, TypeOK
<1> QED
  BY <1>1, <1>2, LeaveInv

\* A Lua function fails (function.hpp:29-33).
LEMMA CallFailsInv ==
  ASSUME Inv, NEW n \in 0..Depth, CallFails(n)
  PROVE  Inv'
<1>1. Leave(stack, n, damage) /\ fault' = fault
  BY DEF CallFails
<1>2. stack \in Seq(Slot) /\ Len(stack) <= MaxSlots /\ Len(stack) <= Len(stack)
  BY Typed DEF Inv, TypeOK
<1> QED
  BY <1>1, <1>2, LeaveInv

\* A source does not load, or a subscript finds no table.
LEMMA FailsInv ==
  ASSUME Inv, NEW n \in 0..Depth, Fails(n)
  PROVE  Inv'
<1> DEFINE s == Append(stack, LeftSlot)
           harm == Least(damage, Depth)
<1>1. Len(stack) < MaxSlots /\ Leave(s, n, harm) /\ fault' = fault
  BY DEF Fails
<1>2. stack \in Seq(Slot) /\ LeftSlot \in Slot /\ Len(stack) \in Nat /\ MaxSlots \in Nat
  BY Typed DEF Inv, TypeOK, LeftSlot, Slot
<1>3. s \in Seq(Slot) /\ Len(s) = Len(stack) + 1 /\ \A p \in 1..Len(stack) : s[p] = stack[p]
  BY <1>2, AppendOp
<1>4. harm = Least(damage, Depth)
  OBVIOUS
<1> HIDE DEF s, harm
<1>5. Len(s) <= MaxSlots /\ Len(stack) <= Len(s)
  BY <1>1, <1>2, <1>3
<1> QED
  BY <1>1, <1>3, <1>4, <1>5, LeaveInv

\* Everything that the program and the library do preserves the invariant.
LEMMA StepInv == Inv /\ [Next]_vars => Inv'
<1> SUFFICES ASSUME Inv, [Next]_vars PROVE Inv'
  OBVIOUS
<1>1. CASE UNCHANGED vars
  BY <1>1, UnchangedInv DEF vars, Inv, TypeOK, NoDamage, Slot, Iterator
<1>2. CASE Next
  BY <1>2, PushInv, TakeInv, PickInv, ClearInv, OpenInv, AdvanceInv, CloseInv, PostIncrementInv,
     CallInv, CallFailsInv, FailsInv, ReadContainerInv, ReadOverfullArrayInv DEF Next
<1> QED
  BY <1>1, <1>2

-----------------------------------------------------------------------------
(* How deep a value is.                                                    *)

\* A value of the program was pushed in as many loops as are around it.
LEMMA AroundIsDepth ==
  ASSUME Inv, NEW j \in DOMAIN own
  PROVE  /\ Cardinality(Around(j)) \in 0..Depth
         /\ PushedIn(j, Cardinality(Around(j)))
<1> DEFINE after == {i \in 1..(Depth + 1) : i \in Frames => j <= loops[i].base}
           first == Min(after)
           d == first - 1
<1>1. Depth \in Nat /\ Frames = 1..Depth /\ j \in Nat
  BY Typed DEF Inv, TypeOK
<1>2. Depth + 1 \in after
  BY <1>1
<1>3. after \subseteq Nat /\ after # {}
  BY <1>1, <1>2
<1>4. first \in after /\ \A i \in after : first <= i
  BY <1>3, LeastNumber
<1> HIDE DEF first
<1>5. d \in 0..Depth /\ first = d + 1 /\ first \in 1..(Depth + 1)
  BY <1>1, <1>4
<1>6. \A i \in Frames : i < first <=> loops[i].base < j
  <2> SUFFICES ASSUME NEW i \in Frames PROVE i < first <=> loops[i].base < j
    OBVIOUS
  <2>1. i \in 1..(Depth + 1) /\ loops[i].base \in Nat /\ i \in Nat /\ first \in Nat
    BY <1>1, <1>5, Typed
  <2>2. i < first => loops[i].base < j
    BY <1>1, <1>4, <2>1
  <2>3. ASSUME first <= i PROVE j <= loops[i].base
    <3>1. first \in Frames
      BY <1>1, <1>5, <2>1, <2>3
    <3>2. j <= loops[first].base /\ loops[first].base <= loops[i].base /\ loops[first].base \in Nat
      BY <1>4, <2>3, <3>1, Typed DEF Inv, Nested
    <3> QED
      BY <1>1, <2>1, <3>2
  <2> QED
    BY <1>1, <2>1, <2>2, <2>3
<1> HIDE DEF after
<1>7. Around(j) = 1..d
  BY <1>1, <1>5, <1>6 DEF Around, Frames
<1>8. Cardinality(Around(j)) = d
  <2>1. d \in Nat /\ Cardinality(1..d) = IF 1 > d THEN 0 ELSE d - 1 + 1
    BY <1>1, <1>5, FS_Interval
  <2> HIDE DEF d
  <2> QED
    BY <1>7, <2>1
<1>9. PushedIn(j, d)
  <2>1. d > 0 => d \in Frames /\ d < first
    BY <1>1, <1>5
  <2>2. d < Depth => d + 1 \in Frames /\ ~(d + 1 < first)
    BY <1>1, <1>5
  <2>3. \A i \in Frames : loops[i].base \in Nat
    BY Typed
  <2> QED
    BY <1>1, <1>6, <2>1, <2>2, <2>3 DEF PushedIn
<1> QED
  BY <1>5, <1>8, <1>9

\* The values are where OwnValuesStand says, for d is the number of loops around.
LEMMA ValuesStandDeep == Inv => OwnValuesStand
<1> SUFFICES ASSUME Inv, NEW j \in DOMAIN own, Cardinality(Around(j)) < damage
             PROVE  LET depth == Cardinality(Around(j)) IN
                      /\ Len(stack) >= j + 3 * depth
                      /\ stack[j + 3 * depth] = Own(own[j])
  BY DEF OwnValuesStand
<1> DEFINE depth == Cardinality(Around(j))
<1>1. depth \in 0..Depth /\ PushedIn(j, depth)
  BY AroundIsDepth
<1>2. depth < damage
  OBVIOUS
<1> HIDE DEF depth
<1>3. j + 3 * depth \in DOMAIN stack /\ stack[j + 3 * depth] = Own(own[j])
  BY <1>1, <1>2 DEF Inv, ValuesStand
<1>4. DOMAIN stack = 1..Len(stack) /\ Len(stack) \in Nat
  BY DEF Inv, TypeOK
<1>5. Len(stack) >= j + 3 * depth
  BY <1>3, <1>4
<1> QED
  BY <1>3, <1>5 DEF depth

-----------------------------------------------------------------------------
(* Theorems.                                                               *)

\* Every reachable state satisfies the invariant that the other theorems follow from.
THEOREM Invariant == Spec => []Inv
<1> QED
  BY InitInv, StepInv, PTL DEF Spec

\* Slots, iterators and the program's values keep their types, whatever is pushed, taken,
\* called and looped over (stack.hpp:56-109; table.hpp:40-85).
THEOREM TypeCorrect == Spec => []TypeOK
<1>1. Inv => TypeOK
  BY DEF Inv
<1> QED
  BY <1>1, Invariant, PTL

\* In any nesting of loops the program finds its values where it pushed them, unless the
\* stack was disturbed in the same body or further out: the end of a loop and an exception
\* restore the stack for what is around it (table.hpp:56-59; stack.hpp:56-109).
THEOREM ValuesStay == Spec => []OwnValuesStand
<1> QED
  BY ValuesStandDeep, Invariant, PTL

\* A loop that was not disturbed delivers all string keys of its table, each once and in
\* order, and keeps its slots, whatever loops run in its body (table.hpp:40-79).
THEOREM LoopsDeliverAll == Spec => []LoopsVisitAll
<1>1. Inv => LoopsVisitAll
  BY DEF Inv
<1> QED
  BY <1>1, Invariant, PTL

\* The keys that loops deliver are at most as many as the table has string keys.
LoopsAreBounded ==
  \A i \in DOMAIN loops : i < damage => Len(loops[i].seen) <= Cardinality(StringKeys)

\* Whatever its body does without disturbing the stack, a loop delivers no more keys than
\* there are, so that ++it ends it after as many steps at the latest (table.hpp:67-79).
THEOREM LoopsAreFinite == Spec => []LoopsAreBounded
<1>1. Inv => LoopsAreBounded
  <2> SUFFICES ASSUME Inv, NEW i \in DOMAIN loops, i < damage
               PROVE  Len(loops[i].seen) <= Cardinality(StringKeys)
    BY DEF LoopsAreBounded
  <2> DEFINE seen == loops[i].seen
             n == Len(seen)
  <2>1. seen \in Seq(Key)
    <3>1. loops \in Seq(Iterator) /\ i \in DOMAIN loops
      BY DEF Inv, TypeOK
    <3>2. loops[i] \in Iterator
      BY <3>1
    <3> QED
      BY <3>2 DEF Iterator
  <2>2. /\ \A a, b \in DOMAIN seen : a < b => seen[a] < seen[b]
        /\ ToSet(seen) \subseteq StringKeys
    BY DEF Inv, LoopsVisitAll
  <2> HIDE DEF seen
  <2>3. n \in Nat /\ DOMAIN seen = 1..n /\ \A a \in 1..n : seen[a] \in Key
    BY <2>1
  <2> HIDE DEF n
  <2>4. seen \in [1..n -> StringKeys]
    BY <2>1, <2>2, <2>3 DEF ToSet
  <2>5. \A a, b \in 1..n : seen[a] = seen[b] => a = b
    BY <2>2, <2>3 DEF Key
  <2>6. seen \in Injection(1..n, StringKeys)
    BY <2>3, <2>4, <2>5 DEF Injection, IsInjective
  <2>7. IsFiniteSet(StringKeys)
    <3>1. NumKeys \in Int /\ StringKeys \in SUBSET (1..NumKeys)
      BY HostStackAssumption DEF Key
    <3>2. IsFiniteSet(1..NumKeys)
      BY <3>1, FS_Interval
    <3> QED
      BY <3>1, <3>2, FS_Subset
  <2>8. Cardinality(1..n) <= Cardinality(StringKeys)
    BY <2>6, <2>7, FS_Injection
  <2>9. Cardinality(1..n) = IF 1 > n THEN 0 ELSE n - 1 + 1
    BY <2>3, FS_Interval
  <2>10. Cardinality(1..n) = n
    BY <2>3, <2>9
  <2> QED
    BY <2>8, <2>10 DEF seen, n
<1> QED
  BY <1>1, Invariant, PTL
=============================================================================
