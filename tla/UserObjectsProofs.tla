------------------------- MODULE UserObjectsProofs -------------------------
(***************************************************************************)
(* UserObjects for any number of objects, userdata and values: who owns    *)
(* storage, why pointers dangle, that const objects are not written, and   *)
(* that a careful program is safe.                                         *)
(*                                                                         *)
(* Every operation is a write to a live object, a copy pushed to Lua, a    *)
(* pointer pushed to Lua, an object made or destroyed by the program, or   *)
(* the end of a userdatum.  The invariant is stated over objects o,        *)
(* userdata d and the set R of those that Lua reaches, and each of these   *)
(* kinds of change is shown to preserve it once.                           *)
(***************************************************************************)
EXTENDS UserObjects, TLAPS

LiveIn(o, c) == c \in Cell /\ o[c] # Nothing /\ o[c].x # Freed

IsValue(d, u) == d[u] # Nothing /\ d[u].kind = "value"

Typed(o, d, R) ==
  /\ o \in [Cell -> Object \cup {Nothing}]
  /\ d \in [Userdatum -> Datum \cup {Nothing}]
  /\ R \subseteq Userdatum

\* An address is that of storage in use, or of none.
Sound(o, a) == a = Nowhere \/ (a \in Cell /\ o[a] # Nothing)

\* Lua reaches userdata in use, and addresses are sound.
Backed(o, d, R) ==
  /\ \A u \in R : d[u] # Nothing
  /\ \A u \in Userdatum : d[u] # Nothing => Sound(o, d[u].at)
  /\ \A c \in Cell : o[c] # Nothing => Sound(o, o[c].link)

\* Values and the objects in blocks of userdata correspond.
Fit(o, d) ==
  /\ \A u \in Userdatum :
       IsValue(d, u) => /\ LiveIn(o, d[u].at)
                        /\ o[d[u].at].home = "lua" /\ o[d[u].at].class = d[u].class
  /\ \A u, w \in Userdatum : IsValue(d, u) /\ IsValue(d, w) /\ d[u].at = d[w].at => u = w
  /\ \A c \in Cell :
       LiveIn(o, c) /\ o[c].home = "lua" => \E u \in Userdatum : IsValue(d, u) /\ d[u].at = c

\* If a is an address in the block of a value, then of one that has a nested part.
Part(o, a) == a \in Cell /\ o[a].home = "lua" => o[a].class = "outer"

\* What points into the block of a value points to its nested part.
PartsFit(o, d) ==
  /\ \A u \in Userdatum :
       d[u] # Nothing /\ d[u].kind # "value" =>
         /\ Part(o, d[u].at)
         /\ d[u].at \in Cell /\ o[d[u].at].home = "lua" => d[u].class = "inner"
  /\ \A c \in Cell : o[c] # Nothing => Part(o, o[c].link)

Base(o, d, R) == Typed(o, d, R) /\ Backed(o, d, R) /\ Fit(o, d) /\ PartsFit(o, d)

\* At a there is a live object, and if it is in a block, then in one that Lua reaches.
Secure(o, d, R, a) ==
  /\ LiveIn(o, a)
  /\ o[a].home = "lua" => \E w \in R : IsValue(d, w) /\ d[w].at = a

\* For careful programs: what Lua reaches is alive and will be, and so is what objects point
\* to; no object holds garbage.
Safe(o, d, R) ==
  /\ \A u \in R : Secure(o, d, R, d[u].at)
  /\ \A c \in Cell : o[c] # Nothing /\ o[c].link # Nowhere => Secure(o, d, R, o[c].link)
  /\ \A c \in Cell : o[c] # Nothing => o[c].x # Garbage

Reached == variables \cup closures

Inv ==
  /\ TypeOK
  /\ Base(object, datum, Reached)
  /\ careful => Safe(object, datum, Reached) /\ fault = "none"

-----------------------------------------------------------------------------
(* The kinds of change.                                                    *)

\* A record is not the sentinel.
LEMMA Something ==
  /\ \A x \in Object : x # Nothing
  /\ \A x \in Datum : x # Nothing
  BY UserObjectsAssumption DEF Object, Datum, Class, Kind, Address

\* A live object changes: it is still of its class and in its place.
LEMMA ChangeBase ==
  ASSUME NEW o, NEW d, NEW R, Base(o, d, R), NEW c \in Cell, LiveIn(o, c),
         NEW w \in Object, w.class = o[c].class, w.home = o[c].home, w.x # Freed,
         Sound(o, w.link), Part(o, w.link)
  PROVE  /\ Base([o EXCEPT ![c] = w], d, R)
         /\ /\ Safe(o, d, R) /\ w.x # Garbage
            /\ w.link # Nowhere => Secure(o, d, R, w.link)
            => Safe([o EXCEPT ![c] = w], d, R)
<1> DEFINE p == [o EXCEPT ![c] = w]
<1> USE DEF Base
<1>1. w # Nothing
  BY Something
<1>2. /\ p \in [Cell -> Object \cup {Nothing}]
      /\ \A b \in Cell : p[b] = IF b = c THEN w ELSE o[b]
  BY DEF Typed
<1> HIDE DEF p
<1>3. Typed(p, d, R)
  BY <1>2 DEF Typed
<1>4. /\ \A b : LiveIn(p, b) <=> LiveIn(o, b)
      /\ \A b \in Cell : p[b] = Nothing <=> o[b] = Nothing
      /\ \A b \in Cell : o[b] # Nothing => p[b].home = o[b].home /\ p[b].class = o[b].class
  BY <1>1, <1>2 DEF LiveIn
<1>5. \A a : Sound(o, a) => Sound(p, a) /\ (Part(o, a) => Part(p, a))
  BY <1>4, UserObjectsAssumption DEF Sound, Part
<1>6. \A b \in Cell : p[b] # Nothing => Sound(o, p[b].link) /\ Part(o, p[b].link)
  BY <1>2, <1>4 DEF Backed, PartsFit
<1>7. \A u \in Userdatum : d[u] # Nothing => Sound(o, d[u].at)
  BY DEF Backed
<1>8. Backed(p, d, R)
  BY <1>5, <1>6 DEF Backed
<1>9. Fit(p, d)
  BY <1>4 DEF Fit, LiveIn, IsValue
<1>10. PartsFit(p, d)
  <2>1. \A u \in Userdatum :
          d[u] # Nothing /\ d[u].at \in Cell => p[d[u].at].home = o[d[u].at].home
    BY <1>4, <1>7, UserObjectsAssumption DEF Sound
  <2> QED
    BY <1>5, <1>6, <1>7, <2>1 DEF PartsFit
<1>11. \A a : Secure(o, d, R, a) => Secure(p, d, R, a)
  BY <1>4 DEF Secure, LiveIn
<1>12. ASSUME Safe(o, d, R), w.x # Garbage, w.link # Nowhere => Secure(o, d, R, w.link)
       PROVE  Safe(p, d, R)
  <2>1. \A u \in R : Secure(p, d, R, d[u].at)
    BY <1>11, <1>12 DEF Safe
  <2>2. \A b \in Cell : p[b] # Nothing /\ p[b].link # Nowhere => Secure(p, d, R, p[b].link)
    BY <1>2, <1>4, <1>11, <1>12 DEF Safe
  <2>3. \A b \in Cell : p[b] # Nothing => p[b].x # Garbage
    BY <1>2, <1>12 DEF Safe
  <2> QED
    BY <2>1, <2>2, <2>3 DEF Safe
<1> QED
  BY <1>3, <1>8, <1>9, <1>10, <1>12 DEF p

\* Where the pointers of objects lead.
LEMMA LinksFit ==
  ASSUME NEW o, NEW d, NEW R, Base(o, d, R), NEW c \in Cell, o[c] # Nothing
  PROVE  /\ o[c].link \in Address /\ Sound(o, o[c].link) /\ Part(o, o[c].link)
         /\ Safe(o, d, R) /\ o[c].link # Nowhere => Secure(o, d, R, o[c].link)
  BY DEF Base, Typed, Backed, PartsFit, Safe, Object

\* A live object is written.
LEMMA WriteBase ==
  ASSUME NEW o, NEW d, NEW R, Base(o, d, R), NEW c \in Cell, LiveIn(o, c),
         NEW v \in Value \cup {Garbage}
  PROVE  /\ Base([o EXCEPT ![c].x = v], d, R)
         /\ Safe(o, d, R) /\ v # Garbage => Safe([o EXCEPT ![c].x = v], d, R)
<1> DEFINE w == [o[c] EXCEPT !.x = v]
<1>1. o[c] \in Object
  BY DEF Base, Typed, LiveIn
<1>2. /\ w \in Object /\ w.class = o[c].class /\ w.home = o[c].home
      /\ w.x = v /\ w.link = o[c].link /\ v # Freed
  BY <1>1, UserObjectsAssumption DEF Object
<1>3. [o EXCEPT ![c].x = v] = [o EXCEPT ![c] = w]
  OBVIOUS
<1>4. o[c] # Nothing
  BY DEF LiveIn
<1> HIDE DEF w
<1> QED
  BY <1>2, <1>3, <1>4, ChangeBase, LinksFit

\* The pointer of a live object is set to the address a.
LEMMA LinkBase ==
  ASSUME NEW o, NEW d, NEW R, Base(o, d, R), NEW c \in Cell, LiveIn(o, c),
         NEW a \in Address, Sound(o, a), Part(o, a)
  PROVE  /\ Base([o EXCEPT ![c].link = a], d, R)
         /\ Safe(o, d, R) /\ (a # Nowhere => Secure(o, d, R, a))
              => Safe([o EXCEPT ![c].link = a], d, R)
<1> DEFINE w == [o[c] EXCEPT !.link = a]
<1>1. o[c] \in Object
  BY DEF Base, Typed, LiveIn
<1>2. /\ w \in Object /\ w.class = o[c].class /\ w.home = o[c].home
      /\ w.x = o[c].x /\ w.link = a
  BY <1>1 DEF Object
<1>3. [o EXCEPT ![c].link = a] = [o EXCEPT ![c] = w]
  OBVIOUS
<1>4. o[c] # Nothing /\ o[c].x # Freed
  BY DEF LiveIn
<1>5. Safe(o, d, R) => o[c].x # Garbage
  BY <1>4 DEF Safe
<1> HIDE DEF w
<1> QED
  BY <1>2, <1>3, <1>4, <1>5, ChangeBase

\* Storage is taken by an object x that is not in a block of Lua.
LEMMA MakeBase ==
  ASSUME NEW o, NEW d, NEW R, Base(o, d, R), NEW c \in Cell, o[c] = Nothing,
         NEW x \in Object, x.home # "lua", Sound(o, x.link), Part(o, x.link)
  PROVE  /\ Base([o EXCEPT ![c] = x], d, R)
         /\ /\ Safe(o, d, R) /\ x.x # Garbage
            /\ x.link # Nowhere => Secure(o, d, R, x.link)
            => Safe([o EXCEPT ![c] = x], d, R)
<1> DEFINE p == [o EXCEPT ![c] = x]
<1> USE DEF Base
<1>1. /\ p \in [Cell -> Object \cup {Nothing}]
      /\ \A b \in Cell : p[b] = IF b = c THEN x ELSE o[b]
      /\ x # Nothing
  BY Something DEF Typed
<1> HIDE DEF p
<1>2. Typed(p, d, R)
  BY <1>1 DEF Typed
<1>3. \A a : Sound(o, a) /\ a \in Cell => a # c /\ p[a] = o[a]
  BY <1>1, UserObjectsAssumption DEF Sound
<1>4. \A a : Sound(o, a) => Sound(p, a) /\ (Part(o, a) => Part(p, a))
  BY <1>3 DEF Sound, Part
<1>5. \A b \in Cell : p[b] # Nothing => Sound(o, p[b].link) /\ Part(o, p[b].link)
  BY <1>1 DEF Backed, PartsFit
<1>6. \A u \in Userdatum : d[u] # Nothing => Sound(o, d[u].at)
  BY DEF Backed
<1>7. Backed(p, d, R)
  BY <1>4, <1>5 DEF Backed
<1>8. PartsFit(p, d)
  BY <1>3, <1>4, <1>5, <1>6 DEF PartsFit
<1>9. Fit(p, d)
  <2>1. \A u \in Userdatum : IsValue(d, u) => d[u].at \in Cell /\ p[d[u].at] = o[d[u].at]
    BY <1>3, <1>6 DEF IsValue, Fit, LiveIn
  <2>2. \A b \in Cell : LiveIn(p, b) /\ p[b].home = "lua" => LiveIn(o, b) /\ o[b].home = "lua"
    BY <1>1 DEF LiveIn
  <2> QED
    BY <2>1, <2>2 DEF Fit, LiveIn
<1>10. \A a : Secure(o, d, R, a) => Secure(p, d, R, a)
  BY <1>1 DEF Secure, LiveIn
<1>11. ASSUME Safe(o, d, R), x.x # Garbage, x.link # Nowhere => Secure(o, d, R, x.link)
       PROVE  Safe(p, d, R)
  <2>1. \A u \in R : Secure(p, d, R, d[u].at)
    BY <1>10, <1>11 DEF Safe
  <2>2. \A b \in Cell : p[b] # Nothing /\ p[b].link # Nowhere => Secure(p, d, R, p[b].link)
    BY <1>1, <1>10, <1>11 DEF Safe
  <2>3. \A b \in Cell : p[b] # Nothing => p[b].x # Garbage
    BY <1>1, <1>11 DEF Safe
  <2> QED
    BY <2>1, <2>2, <2>3 DEF Safe
<1> QED
  BY <1>2, <1>7, <1>8, <1>9, <1>11 DEF p

\* A copy is pushed: a value userdatum with storage of its own.
LEMMA CopyBase ==
  ASSUME NEW o, NEW d, NEW R, Base(o, d, R), NEW c \in Cell, o[c] = Nothing,
         NEW u \in Userdatum, d[u] = Nothing, NEW class \in Class,
         NEW x \in Value \cup {Garbage}, NEW l \in Address, Sound(o, l), Part(o, l)
  PROVE  LET p == [o EXCEPT ![c] = [class |-> class, home |-> "lua", x |-> x, link |-> l]]
             e == [d EXCEPT ![u] = [class |-> class, kind |-> "value", at |-> c]]
         IN /\ Base(p, e, R \cup {u})
            /\ Safe(o, d, R) /\ x # Garbage /\ (l # Nowhere => Secure(o, d, R, l))
                 => Safe(p, e, R \cup {u})
<1> DEFINE a == [class |-> class, home |-> "lua", x |-> x, link |-> l]
           b == [class |-> class, kind |-> "value", at |-> c]
           p == [o EXCEPT ![c] = a]
           e == [d EXCEPT ![u] = b]
<1> USE DEF Base
<1>1. /\ a \in Object /\ a.class = class /\ a.home = "lua" /\ a.x = x /\ a.link = l
      /\ b \in Datum /\ b.class = class /\ b.kind = "value" /\ b.at = c
      /\ x # Freed
  BY UserObjectsAssumption DEF Object, Datum, Kind, Address
<1>2. a # Nothing /\ b # Nothing
  BY <1>1, Something
<1> HIDE DEF a, b
<1>3. /\ p \in [Cell -> Object \cup {Nothing}]
      /\ \A k \in Cell : p[k] = IF k = c THEN a ELSE o[k]
      /\ e \in [Userdatum -> Datum \cup {Nothing}]
      /\ \A w \in Userdatum : e[w] = IF w = u THEN b ELSE d[w]
  BY <1>1 DEF Typed
<1> HIDE DEF p, e
<1>4. Typed(p, e, R \cup {u})
  BY <1>3 DEF Typed
<1>5. \A k : Sound(o, k) /\ k \in Cell => k # c /\ p[k] = o[k]
  BY <1>3, UserObjectsAssumption DEF Sound
<1>6. \A k : Sound(o, k) => Sound(p, k) /\ (Part(o, k) => Part(p, k))
  BY <1>5 DEF Sound, Part
<1>7. \A w \in Userdatum : d[w] # Nothing => w # u /\ e[w] = d[w] /\ Sound(o, d[w].at)
  BY <1>3 DEF Backed
<1>8. \A w \in Userdatum : w # u => e[w] = d[w]
  BY <1>3
<1>9. e[u] = b /\ p[c] = a
  BY <1>3
<1>10. \A k \in Cell : p[k] # Nothing => Sound(o, p[k].link) /\ Part(o, p[k].link)
  BY <1>1, <1>3 DEF Backed, PartsFit
<1>11. Backed(p, e, R \cup {u})
  <2>1. \A w \in R \cup {u} : e[w] # Nothing
    BY <1>2, <1>7, <1>9 DEF Backed, Typed
  <2>2. \A w \in Userdatum : e[w] # Nothing => Sound(p, e[w].at)
    BY <1>1, <1>2, <1>6, <1>7, <1>8, <1>9 DEF Sound
  <2>3. \A k \in Cell : p[k] # Nothing => Sound(p, p[k].link)
    BY <1>6, <1>10
  <2> QED
    BY <2>1, <2>2, <2>3 DEF Backed
<1>12. Fit(p, e)
  <2>0. \A w \in Userdatum : IsValue(d, w) => d[w].at # c /\ p[d[w].at] = o[d[w].at]
    BY <1>3, <1>7 DEF Fit, IsValue, LiveIn
  <2>1. \A w \in Userdatum :
          IsValue(e, w) => /\ LiveIn(p, e[w].at)
                           /\ p[e[w].at].home = "lua" /\ p[e[w].at].class = e[w].class
    BY <1>1, <1>2, <1>7, <1>8, <1>9, <2>0 DEF Fit, IsValue, LiveIn
  <2>2. \A v, w \in Userdatum : IsValue(e, v) /\ IsValue(e, w) /\ e[v].at = e[w].at => v = w
    BY <1>1, <1>7, <1>8, <1>9, <2>0 DEF Fit, IsValue
  <2>3. \A k \in Cell :
          LiveIn(p, k) /\ p[k].home = "lua" => \E w \in Userdatum : IsValue(e, w) /\ e[w].at = k
    <3> TAKE k \in Cell
    <3> HAVE LiveIn(p, k) /\ p[k].home = "lua"
    <3>1. CASE k = c
      BY <1>1, <1>2, <1>9, <3>1 DEF IsValue
    <3>2. CASE k # c
      <4>1. LiveIn(o, k) /\ o[k].home = "lua"
        BY <1>3, <3>2 DEF LiveIn
      <4>2. PICK w \in Userdatum : IsValue(d, w) /\ d[w].at = k
        BY <4>1 DEF Fit
      <4> QED
        BY <1>7, <4>2 DEF IsValue
    <3> QED
      BY <3>1, <3>2
  <2> QED
    BY <2>1, <2>2, <2>3 DEF Fit
<1>13. PartsFit(p, e)
  <2>1. \A w \in Userdatum : e[w] # Nothing /\ e[w].kind # "value" => d[w] # Nothing /\ e[w] = d[w]
    BY <1>1, <1>8, <1>9
  <2>2. \A w \in Userdatum :
          d[w] # Nothing /\ d[w].kind # "value" =>
            /\ Part(p, d[w].at)
            /\ d[w].at \in Cell /\ p[d[w].at].home = "lua" => d[w].class = "inner"
    BY <1>5, <1>6, <1>7 DEF PartsFit
  <2> QED
    BY <1>6, <1>10, <2>1, <2>2 DEF PartsFit
<1>14. \A k : Secure(o, d, R, k) => Secure(p, e, R \cup {u}, k)
  <2> SUFFICES ASSUME NEW k, Secure(o, d, R, k) PROVE Secure(p, e, R \cup {u}, k)
    OBVIOUS
  <2>1. k \in Cell /\ k # c /\ p[k] = o[k]
    BY <1>3 DEF Secure, LiveIn
  <2>2. \A w \in R : IsValue(d, w) => IsValue(e, w) /\ e[w] = d[w]
    BY <1>7 DEF IsValue, Typed
  <2> QED
    BY <2>1, <2>2 DEF Secure, LiveIn
<1>15. ASSUME Safe(o, d, R), x # Garbage, l # Nowhere => Secure(o, d, R, l)
       PROVE  Safe(p, e, R \cup {u})
  <2>1. \A w \in R : Secure(p, e, R \cup {u}, e[w].at)
    BY <1>7, <1>14, <1>15 DEF Safe, Backed, Typed
  <2>2. Secure(p, e, R \cup {u}, e[u].at)
    BY <1>1, <1>2, <1>9 DEF Secure, LiveIn, IsValue
  <2>3. \A k \in Cell :
          p[k] # Nothing /\ p[k].link # Nowhere => Secure(p, e, R \cup {u}, p[k].link)
    BY <1>1, <1>3, <1>14, <1>15 DEF Safe
  <2>4. \A k \in Cell : p[k] # Nothing => p[k].x # Garbage
    BY <1>1, <1>3, <1>15 DEF Safe
  <2> QED
    BY <2>1, <2>2, <2>3, <2>4 DEF Safe
<1> QED
  BY <1>4, <1>11, <1>12, <1>13, <1>15 DEF a, b, p, e

\* A pointer to the address a is pushed.
LEMMA PointBase ==
  ASSUME NEW o, NEW d, NEW R, Base(o, d, R), NEW a \in Address, Sound(o, a), Part(o, a),
         NEW u \in Userdatum, d[u] = Nothing, NEW class \in Class,
         NEW kind \in {"pointer", "const"},
         a \in Cell /\ o[a].home = "lua" => class = "inner"
  PROVE  LET e == [d EXCEPT ![u] = [class |-> class, kind |-> kind, at |-> a]]
         IN /\ Base(o, e, R \cup {u})
            /\ Safe(o, d, R) /\ Secure(o, d, R, a) => Safe(o, e, R \cup {u})
<1> DEFINE b == [class |-> class, kind |-> kind, at |-> a]
           e == [d EXCEPT ![u] = b]
<1> USE DEF Base
<1>1. b \in Datum /\ b.class = class /\ b.kind = kind /\ b.at = a
  BY DEF Datum, Kind
<1>2. b # Nothing
  BY <1>1, Something
<1> HIDE DEF b
<1>3. /\ e \in [Userdatum -> Datum \cup {Nothing}]
      /\ \A w \in Userdatum : e[w] = IF w = u THEN b ELSE d[w]
  BY <1>1 DEF Typed
<1> HIDE DEF e
<1>4. Typed(o, e, R \cup {u})
  BY <1>3 DEF Typed
<1>5. Backed(o, e, R \cup {u})
  BY <1>1, <1>2, <1>3 DEF Backed, Typed
<1>6. \A w \in Userdatum : IsValue(e, w) <=> IsValue(d, w)
  BY <1>1, <1>3 DEF IsValue
<1>7. \A w \in Userdatum : IsValue(d, w) => e[w] = d[w]
  BY <1>3 DEF IsValue
<1>8. Fit(o, e)
  BY <1>6, <1>7 DEF Fit
<1>9. PartsFit(o, e)
  BY <1>1, <1>3 DEF PartsFit
<1>10. \A k : Secure(o, d, R, k) => Secure(o, e, R \cup {u}, k)
  BY <1>6, <1>7 DEF Secure, Typed
<1>11. Safe(o, d, R) /\ Secure(o, d, R, a) => Safe(o, e, R \cup {u})
  <2>1. \A w \in R : w \in Userdatum /\ w # u /\ e[w] = d[w]
    BY <1>3 DEF Backed, Typed
  <2> QED
    BY <1>1, <1>3, <1>10, <2>1 DEF Safe
<1> QED
  BY <1>4, <1>5, <1>8, <1>9, <1>11 DEF b, e

\* Dead storage that nothing points to is given back.
LEMMA SweepBase ==
  ASSUME NEW o, NEW d, NEW R, Base(o, d, R)
  PROVE  /\ Base(Swept(o, d), d, R)
         /\ Safe(o, d, R) => Safe(Swept(o, d), d, R)
<1> DEFINE p == Swept(o, d)
<1> USE DEF Base
<1>1. /\ p \in [Cell -> Object \cup {Nothing}]
      /\ \A k \in Cell : p[k] = o[k] \/ p[k] = Nothing
      /\ \A k \in Cell : LiveIn(o, k) => p[k] = o[k]
      /\ \A w \in Userdatum : d[w] # Nothing /\ d[w].at \in Cell => p[d[w].at] = o[d[w].at]
      /\ \A k \in Cell : o[k] # Nothing /\ o[k].link \in Cell => p[o[k].link] = o[o[k].link]
  BY DEF Swept, Typed, LiveIn, Pointed
<1> HIDE DEF p
<1>2. Typed(p, d, R)
  BY <1>1 DEF Typed
<1>3. Backed(p, d, R)
  BY <1>1 DEF Backed, Sound
<1>4. PartsFit(p, d)
  BY <1>1 DEF PartsFit, Part
<1>5. Fit(p, d)
  <2>1. \A u \in Userdatum : IsValue(d, u) => d[u].at \in Cell /\ p[d[u].at] = o[d[u].at]
    BY <1>1 DEF IsValue, Fit, LiveIn
  <2>2. \A b \in Cell : LiveIn(p, b) => p[b] = o[b]
    BY <1>1 DEF LiveIn
  <2> QED
    BY <2>1, <2>2 DEF Fit, LiveIn
<1>6. \A a : Secure(o, d, R, a) => Secure(p, d, R, a)
  BY <1>1 DEF Secure, LiveIn
<1>7. Safe(o, d, R) => Safe(p, d, R)
  BY <1>1, <1>6 DEF Safe
<1> QED
  BY <1>2, <1>3, <1>4, <1>5, <1>7 DEF p

\* What is left of an object.
LEMMA DeadFits ==
  ASSUME NEW x \in Object
  PROVE  /\ Dead(x) \in Object /\ Dead(x) # Nothing
         /\ Dead(x).class = x.class /\ Dead(x).home = x.home
         /\ Dead(x).x = Freed /\ Dead(x).link = Nowhere
<1>1. /\ Dead(x) \in Object
      /\ Dead(x).class = x.class /\ Dead(x).home = x.home
      /\ Dead(x).x = Freed /\ Dead(x).link = Nowhere
  BY DEF Dead, Object, Address
<1> QED
  BY <1>1, Something

\* The program destroys an object of its own.
LEMMA DestroyBase ==
  ASSUME NEW o, NEW d, NEW R, Base(o, d, R), NEW c \in Cell, LiveIn(o, c),
         o[c].home = "host"
  PROVE  LET p == [o EXCEPT ![c] = Dead(o[c])]
         IN /\ Base(p, d, R)
            /\ Safe(o, d, R) /\ ~Pointed(p, d, c) => Safe(p, d, R)
<1> DEFINE w == Dead(o[c])
           p == [o EXCEPT ![c] = w]
<1> USE DEF Base
<1>1. /\ w \in Object /\ w # Nothing /\ w.class = o[c].class /\ w.home = "host"
      /\ w.x = Freed /\ w.link = Nowhere
  BY DeadFits DEF Typed, LiveIn
<1> HIDE DEF w
<1>2. /\ p \in [Cell -> Object \cup {Nothing}]
      /\ \A b \in Cell : p[b] = IF b = c THEN w ELSE o[b]
  BY <1>1 DEF Typed
<1> HIDE DEF p
<1>3. Typed(p, d, R)
  BY <1>2 DEF Typed
<1>4. \A a : Sound(o, a) => Sound(p, a) /\ (Part(o, a) => Part(p, a))
  BY <1>1, <1>2 DEF Sound, Part
<1>5. \A b \in Cell : p[b] # Nothing => Sound(o, p[b].link) /\ Part(o, p[b].link)
  BY <1>1, <1>2, UserObjectsAssumption DEF Backed, PartsFit, Sound, Part
<1>6. Backed(p, d, R)
  BY <1>4, <1>5 DEF Backed
<1>7. PartsFit(p, d)
  <2>1. \A u \in Userdatum :
          d[u] # Nothing /\ d[u].at \in Cell => p[d[u].at].home = o[d[u].at].home
    BY <1>1, <1>2
  <2> QED
    BY <1>4, <1>5, <2>1 DEF PartsFit, Backed
<1>8. Fit(p, d)
  <2>1. \A u \in Userdatum : IsValue(d, u) => d[u].at \in Cell /\ d[u].at # c
    BY DEF IsValue, Fit, LiveIn
  <2>2. \A b \in Cell : LiveIn(p, b) => b # c
    BY <1>1, <1>2 DEF LiveIn
  <2> QED
    BY <1>2, <2>1, <2>2 DEF Fit, LiveIn
<1>9. ASSUME Safe(o, d, R), ~Pointed(p, d, c)
      PROVE  Safe(p, d, R)
  <2>1. \A a : Secure(o, d, R, a) /\ a # c => Secure(p, d, R, a)
    BY <1>2 DEF Secure, LiveIn
  <2>2. \A u \in R : d[u].at # c
    BY <1>9 DEF Pointed, Backed, Typed
  <2>3. \A b \in Cell : p[b] # Nothing => p[b].link # c
    BY <1>9 DEF Pointed
  <2>4. \A b \in Cell : p[b] # Nothing /\ p[b].link # Nowhere => Secure(p, d, R, p[b].link)
    BY <1>1, <1>2, <1>9, <2>1, <2>3 DEF Safe
  <2>5. \A b \in Cell : p[b] # Nothing => p[b].x # Garbage
    BY <1>1, <1>2, <1>9, UserObjectsAssumption DEF Safe
  <2> QED
    BY <1>9, <2>1, <2>2, <2>4, <2>5 DEF Safe
<1> QED
  BY <1>3, <1>6, <1>7, <1>8, <1>9 DEF p, w

\* Userdatum u, which Lua does not reach, ends, and the storage in its block with it.
LEMMA EndBase ==
  ASSUME NEW o, NEW d, NEW R, Base(o, d, R), NEW u \in Userdatum, d[u] # Nothing, u \notin R
  PROVE  LET e == [d EXCEPT ![u] = Nothing]
             p == IF d[u].kind = "value" THEN [o EXCEPT ![d[u].at] = Dead(o[d[u].at])] ELSE o
         IN /\ Base(p, e, R)
            /\ Safe(o, d, R) => Safe(p, e, R)
<1> DEFINE e == [d EXCEPT ![u] = Nothing]
<1> USE DEF Base
<1>1. /\ e \in [Userdatum -> Datum \cup {Nothing}]
      /\ \A w \in Userdatum : e[w] = IF w = u THEN Nothing ELSE d[w]
  BY DEF Typed
<1> HIDE DEF e
<1>2. \A w \in R : w \in Userdatum /\ w # u /\ e[w] = d[w]
  BY <1>1 DEF Typed
<1>3. CASE d[u].kind # "value"
  <2>1. Typed(o, e, R) /\ Backed(o, e, R) /\ PartsFit(o, e)
    BY <1>1, <1>2 DEF Typed, Backed, PartsFit
  <2>2. \A w \in Userdatum : (IsValue(e, w) <=> IsValue(d, w)) /\ (IsValue(d, w) => e[w] = d[w])
    BY <1>1, <1>3 DEF IsValue
  <2>3. Fit(o, e)
    BY <2>2 DEF Fit
  <2>4. \A a : Secure(o, d, R, a) => Secure(o, e, R, a)
    BY <1>2, <2>2 DEF Secure
  <2>5. Safe(o, d, R) => Safe(o, e, R)
    BY <1>2, <2>4 DEF Safe
  <2> QED
    BY <1>3, <2>1, <2>3, <2>5 DEF e
<1>4. CASE d[u].kind = "value"
  <2> DEFINE c == d[u].at
             x == Dead(o[c])
             p == [o EXCEPT ![c] = x]
  <2>1. IsValue(d, u) /\ c \in Cell /\ LiveIn(o, c) /\ o[c].home = "lua"
    BY <1>4 DEF IsValue, Fit, LiveIn
  <2>2. /\ x \in Object /\ x # Nothing /\ x.class = o[c].class /\ x.home = "lua"
        /\ x.x = Freed /\ x.link = Nowhere
    BY <2>1, DeadFits DEF Typed, LiveIn
  <2> HIDE DEF x
  <2>3. /\ p \in [Cell -> Object \cup {Nothing}]
        /\ \A b \in Cell : p[b] = IF b = c THEN x ELSE o[b]
    BY <2>2 DEF Typed
  <2> HIDE DEF p, c
  <2>4. Typed(p, e, R)
    BY <1>1, <2>3 DEF Typed
  <2>5. \A a : Sound(o, a) => Sound(p, a) /\ (Part(o, a) => Part(p, a))
    BY <2>1, <2>2, <2>3 DEF Sound, Part
  <2>6. \A b \in Cell : p[b] # Nothing => Sound(o, p[b].link) /\ Part(o, p[b].link)
    BY <2>2, <2>3, UserObjectsAssumption DEF Backed, PartsFit, Sound, Part
  <2>7. \A w \in Userdatum : e[w] # Nothing => w # u /\ e[w] = d[w] /\ d[w] # Nothing
    BY <1>1
  <2>8. Backed(p, e, R)
    <3>1. \A w \in R : e[w] # Nothing
      BY <1>2 DEF Backed
    <3>2. \A w \in Userdatum : e[w] # Nothing => Sound(p, e[w].at)
      BY <2>5, <2>7 DEF Backed
    <3> QED
      BY <2>5, <2>6, <3>1, <3>2 DEF Backed
  <2>9. PartsFit(p, e)
    <3>1. \A w \in Userdatum :
            d[w] # Nothing /\ d[w].at \in Cell => p[d[w].at].home = o[d[w].at].home
      BY <2>1, <2>2, <2>3
    <3>2. \A w \in Userdatum :
            d[w] # Nothing /\ d[w].kind # "value" =>
              /\ Part(p, d[w].at)
              /\ d[w].at \in Cell /\ p[d[w].at].home = "lua" => d[w].class = "inner"
      BY <2>5, <3>1 DEF PartsFit, Backed
    <3> QED
      BY <2>5, <2>6, <2>7, <3>2 DEF PartsFit
  <2>10. \A w \in Userdatum :
           IsValue(e, w) => IsValue(d, w) /\ e[w] = d[w] /\ w # u /\ d[w].at # c /\ d[w].at \in Cell
    BY <1>1, <2>1 DEF IsValue, Fit, LiveIn, c
  <2>11. \A w \in Userdatum : IsValue(d, w) /\ w # u => IsValue(e, w) /\ e[w] = d[w]
    BY <1>1 DEF IsValue
  <2>12. Fit(p, e)
    <3>1. \A w \in Userdatum :
            IsValue(e, w) => /\ LiveIn(p, e[w].at)
                             /\ p[e[w].at].home = "lua" /\ p[e[w].at].class = e[w].class
      BY <2>3, <2>10 DEF Fit, LiveIn
    <3>2. \A v, w \in Userdatum : IsValue(e, v) /\ IsValue(e, w) /\ e[v].at = e[w].at => v = w
      BY <2>10 DEF Fit
    <3>3. \A k \in Cell :
            LiveIn(p, k) /\ p[k].home = "lua" => \E w \in Userdatum : IsValue(e, w) /\ e[w].at = k
      <4> TAKE k \in Cell
      <4> HAVE LiveIn(p, k) /\ p[k].home = "lua"
      <4>1. k # c /\ LiveIn(o, k) /\ o[k].home = "lua"
        BY <2>2, <2>3 DEF LiveIn
      <4>2. PICK w \in Userdatum : IsValue(d, w) /\ d[w].at = k
        BY <4>1 DEF Fit
      <4>3. w # u
        BY <4>1, <4>2 DEF c
      <4> QED
        BY <2>11, <4>2, <4>3
    <3> QED
      BY <3>1, <3>2, <3>3 DEF Fit
  <2>13. \A a : Secure(o, d, R, a) => Secure(p, e, R, a)
    <3> SUFFICES ASSUME NEW a, Secure(o, d, R, a) PROVE Secure(p, e, R, a)
      OBVIOUS
    <3>1. a # c
      <4> SUFFICES ASSUME a = c PROVE FALSE
        OBVIOUS
      <4>1. PICK v \in R : IsValue(d, v) /\ d[v].at = c
        BY <2>1 DEF Secure
      <4>2. v = u
        BY <2>1, <4>1 DEF Fit, c, Typed
      <4> QED
        BY <4>1, <4>2
    <3>2. a \in Cell /\ p[a] = o[a]
      BY <2>3, <3>1 DEF Secure, LiveIn
    <3>3. \A w \in R : IsValue(d, w) => IsValue(e, w) /\ e[w] = d[w]
      BY <1>2, <2>11
    <3> QED
      BY <3>2, <3>3 DEF Secure, LiveIn
  <2>14. ASSUME Safe(o, d, R) PROVE Safe(p, e, R)
    <3>1. \A w \in R : Secure(p, e, R, e[w].at)
      BY <1>2, <2>13, <2>14 DEF Safe
    <3>2. \A k \in Cell : p[k] # Nothing /\ p[k].link # Nowhere => Secure(p, e, R, p[k].link)
      BY <2>2, <2>3, <2>13, <2>14 DEF Safe
    <3>3. \A k \in Cell : p[k] # Nothing => p[k].x # Garbage
      BY <2>2, <2>3, <2>14, UserObjectsAssumption DEF Safe
    <3> QED
      BY <3>1, <3>2, <3>3 DEF Safe
  <2> QED
    BY <1>4, <2>4, <2>8, <2>9, <2>12, <2>14 DEF e, c, p, x
<1> QED
  BY <1>3, <1>4

-----------------------------------------------------------------------------
(* The invariant is inductive.                                             *)

\* What an operation leaves has to be typed, and to have the shape shown above.
LEMMA Rebuilt ==
  ASSUME Base(object', datum', Reached'),
         careful => Safe(object', datum', Reached') /\ fault' = "none",
         variables' \subseteq Userdatum, closures' \subseteq Userdatum,
         running' \in {"host", "lua"}, fault' \in {"none", "freed", "null"},
         careful \in BOOLEAN, careful' = careful
  PROVE  Inv'
  BY DEF Inv, TypeOK, Base, Typed

\* Before its first call a program has no objects and Lua no userdata.
LEMMA InitInv == Init => Inv
<1> SUFFICES ASSUME Init PROVE Inv
  OBVIOUS
<1>1. TypeOK
  BY DEF Init, TypeOK
<1>2. Typed(object, datum, Reached) /\ Backed(object, datum, Reached)
  BY DEF Init, Typed, Backed, Reached
<1>3. Fit(object, datum) /\ PartsFit(object, datum)
  BY DEF Init, Fit, PartsFit, IsValue, LiveIn
<1>4. Safe(object, datum, Reached)
  BY DEF Init, Safe, Reached
<1> QED
  BY <1>1, <1>2, <1>3, <1>4 DEF Inv, Base, Init

\* The userdata that Lua reaches have sound addresses, of live objects if the program is
\* careful.
LEMMA ReachedInUse ==
  ASSUME Inv, NEW u \in Reached
  PROVE  /\ u \in Userdatum /\ datum[u] # Nothing /\ datum[u] \in Datum
         /\ datum[u].at \in Address /\ Sound(object, datum[u].at)
         /\ Alive(datum[u].at) => /\ datum[u].at \in Cell /\ LiveIn(object, datum[u].at)
                                 /\ object[datum[u].at] \in Object
         /\ careful => Alive(datum[u].at) /\ Secure(object, datum, Reached, datum[u].at)
  BY DEF Inv, Base, Typed, Backed, Safe, Secure, LiveIn, Alive, Datum

\* A live object holds a value or garbage, and no garbage if the program is careful.
LEMMA AliveHolds ==
  ASSUME Inv, NEW c \in Cell, Alive(c)
  PROVE  object[c].x \in Value \cup {Garbage} /\ (careful => object[c].x # Garbage)
  BY DEF Inv, Base, Typed, Safe, Alive, Object

\* Where the pointer of an object leads.
LEMMA LinkHolds ==
  ASSUME Inv, NEW c \in Cell, object[c] # Nothing
  PROVE  /\ object[c].link \in Address
         /\ Sound(object, object[c].link) /\ Part(object, object[c].link)
         /\ careful /\ object[c].link # Nowhere => Secure(object, datum, Reached, object[c].link)
  BY LinksFit DEF Inv

\* Null is an address.
LEMMA NullHolds == Nowhere \in Address /\ \A o : Sound(o, Nowhere) /\ Part(o, Nowhere)
  BY UserObjectsAssumption DEF Address, Sound, Part

\* Reading the block of a userdatum yields a value or garbage, and a pointer or null.
LEMMA ReadAsHolds ==
  ASSUME Inv, NEW u \in Reached, NEW class \in Class
  PROVE  /\ ReadAs(u, class) \in Value \cup {Garbage}
         /\ careful /\ IsValueOf(u, class) => ReadAs(u, class) # Garbage
         /\ LinkAs(u, class) \in Address
         /\ Sound(object, LinkAs(u, class)) /\ Part(object, LinkAs(u, class))
         /\ careful /\ LinkAs(u, class) # Nowhere =>
              Secure(object, datum, Reached, LinkAs(u, class))
<1>1. IsValueOf(u, class) => Alive(datum[u].at) /\ datum[u].at \in Cell
  BY ReachedInUse DEF Inv, Base, Fit, LiveIn, Alive, IsValueOf, IsValue
<1>2. /\ ReadAs(u, class) \in Value \cup {Garbage}
      /\ careful /\ IsValueOf(u, class) => ReadAs(u, class) # Garbage
  BY <1>1, AliveHolds DEF ReadAs
<1>3. CASE IsValueOf(u, class)
  BY <1>1, <1>2, <1>3, LinkHolds DEF LinkAs, Alive
<1>4. CASE ~IsValueOf(u, class)
  BY <1>2, <1>4, NullHolds DEF LinkAs
<1> QED
  BY <1>3, <1>4

\* Objects are only touched through userdata that Lua reaches.
LEMMA TouchesFits ==
  ASSUME Inv, NEW u \in Reached, Touches(u)
  PROVE  fault' \in {"none", "freed", "null"} /\ (careful => fault' = "none")
  BY ReachedInUse DEF Touches, Inv, TypeOK

\* What a write through a userdatum leaves.
LEMMA WrittenFits ==
  ASSUME Inv, NEW u \in Reached, NEW v \in Value \cup {Garbage}, careful => v # Garbage
  PROVE  /\ Base(Written(u, v), datum, Reached)
         /\ careful => Safe(Written(u, v), datum, Reached)
  BY ReachedInUse, WriteBase DEF Written, Inv

\* What a method leaves that writes v.
LEMMA MutatorFits ==
  ASSUME Inv, NEW u \in Reached, NEW v \in Value
  PROVE  /\ Base(AfterMutator(u, v), datum, Reached)
         /\ careful => Safe(AfterMutator(u, v), datum, Reached)
<1>1. v \in Value \cup {Garbage} /\ v # Garbage
  BY UserObjectsAssumption
<1> QED
  BY <1>1, WrittenFits DEF AfterMutator, Inv

\* What is written through a userdatum leaves the pointers of objects as they are.
LEMMA WrittenLinks ==
  ASSUME Inv, NEW u \in Reached, NEW v \in Value \cup {Garbage}, NEW c \in Cell
  PROVE  /\ Written(u, v)[c] = Nothing <=> object[c] = Nothing
         /\ object[c] # Nothing => Written(u, v)[c].link = object[c].link
         /\ LiveIn(Written(u, v), c) => LiveIn(object, c)
<1> DEFINE w == [object[datum[u].at] EXCEPT !.x = v]
<1>1. CASE Alive(datum[u].at)
  <2>1. datum[u].at \in Cell /\ object[datum[u].at] \in Object
    BY <1>1, ReachedInUse
  <2>2. Written(u, v) = [object EXCEPT ![datum[u].at] = w]
    BY <1>1 DEF Written
  <2>3. w \in Object /\ w.link = object[datum[u].at].link
    BY <2>1 DEF Object
  <2>4. w # Nothing
    BY <2>3, Something
  <2> HIDE DEF w
  <2> QED
    BY <1>1, <2>1, <2>2, <2>3, <2>4 DEF Inv, TypeOK, Alive, LiveIn
<1>2. CASE ~Alive(datum[u].at)
  BY <1>2 DEF Written
<1> QED
  BY <1>1, <1>2

\* The same for a method that writes v.
LEMMA MutatorLinks ==
  ASSUME Inv, NEW u \in Reached, NEW v \in Value, NEW c \in Cell
  PROVE  /\ AfterMutator(u, v)[c] = Nothing <=> object[c] = Nothing
         /\ object[c] # Nothing => AfterMutator(u, v)[c].link = object[c].link
         /\ LiveIn(AfterMutator(u, v), c) => LiveIn(object, c)
  BY WrittenLinks DEF AfterMutator

\* Steps that change neither objects nor userdata.
LEMMA QuietInv ==
  ASSUME Inv, UNCHANGED <<object, datum>>, Reached' = Reached,
         variables' \subseteq Userdatum, closures' \subseteq Userdatum,
         running' \in {"host", "lua"}, fault' \in {"none", "freed", "null"},
         careful => fault' = "none",
         careful' = careful
  PROVE  Inv'
<1>1. Base(object', datum', Reached') /\ (careful => Safe(object', datum', Reached'))
  BY DEF Inv
<1> QED
  BY <1>1, Rebuilt DEF Inv, TypeOK

\* Steps that write through a userdatum, or let a method write.
LEMMA WritingInv ==
  ASSUME Inv, NEW u \in Reached, NEW o, object' = o, Touches(u) \/ UNCHANGED fault,
         Base(o, datum, Reached), careful => Safe(o, datum, Reached),
         UNCHANGED <<datum, variables, closures, running>>,
         careful' = careful
  PROVE  Inv'
<1>1. Reached' = Reached
  BY DEF Reached
<1>2. fault' \in {"none", "freed", "null"} /\ (careful => fault' = "none")
  BY TouchesFits DEF Inv, TypeOK
<1>3. Base(object', datum', Reached') /\ (careful => Safe(object', datum', Reached'))
  BY <1>1
<1>4. /\ variables' \subseteq Userdatum /\ closures' \subseteq Userdatum
      /\ running' \in {"host", "lua"}
  BY DEF Inv, TypeOK
<1> QED
  BY <1>2, <1>3, <1>4, Rebuilt DEF Inv, TypeOK

\* Steps that push a copy, possibly after a method has written.
LEMMA CopyingInv ==
  ASSUME Inv, NEW o, Base(o, datum, Reached), careful => Safe(o, datum, Reached),
         NEW u \in Userdatum, NEW class \in Class, NEW x \in Value \cup {Garbage},
         NEW l \in Address, Sound(o, l), Part(o, l),
         careful => x # Garbage /\ (l # Nowhere => Secure(o, datum, Reached, l)),
         PushCopy(o, u, class, x, l),
         UNCHANGED <<closures, running, fault>>,
         careful' = careful
  PROVE  Inv'
<1>1. PICK c \in Cell :
        /\ o[c] = Nothing
        /\ Push(u, class, "value", c)
        /\ object' = [o EXCEPT ![c] = [class |-> class, home |-> "lua", x |-> x, link |-> l]]
  BY DEF PushCopy
<1>2. /\ datum[u] = Nothing
      /\ datum' = [datum EXCEPT ![u] = [class |-> class, kind |-> "value", at |-> c]]
      /\ variables' = variables \cup {u}
  BY <1>1 DEF Push, Vacant
<1>3. Reached' = Reached \cup {u}
  BY <1>2 DEF Reached
<1>4. Base(object', datum', Reached') /\ (careful => Safe(object', datum', Reached'))
  BY <1>1, <1>2, <1>3, CopyBase
<1>5. /\ variables' \subseteq Userdatum /\ closures' \subseteq Userdatum
      /\ running' \in {"host", "lua"} /\ fault' \in {"none", "freed", "null"}
      /\ careful => fault' = "none"
  BY <1>2 DEF Inv, TypeOK
<1> QED
  BY <1>4, <1>5, Rebuilt DEF Inv, TypeOK

\* Steps that push a pointer, possibly to an object that was just made.
LEMMA PointingInv ==
  ASSUME Inv, NEW o, Base(o, datum, Reached), careful => Safe(o, datum, Reached),
         object' = o, NEW a \in Address, Sound(o, a), Part(o, a), NEW u \in Userdatum,
         NEW class \in Class, NEW kind \in {"pointer", "const"}, Push(u, class, kind, a),
         a \in Cell /\ o[a].home = "lua" => class = "inner",
         careful => Secure(o, datum, Reached, a),
         UNCHANGED <<closures, running, fault>>,
         careful' = careful
  PROVE  Inv'
<1>1. /\ datum[u] = Nothing
      /\ datum' = [datum EXCEPT ![u] = [class |-> class, kind |-> kind, at |-> a]]
      /\ variables' = variables \cup {u}
  BY DEF Push, Vacant
<1>2. Reached' = Reached \cup {u}
  BY <1>1 DEF Reached
<1>3. Base(object', datum', Reached') /\ (careful => Safe(object', datum', Reached'))
  BY <1>1, <1>2, PointBase
<1>4. /\ variables' \subseteq Userdatum /\ closures' \subseteq Userdatum
      /\ running' \in {"host", "lua"} /\ fault' \in {"none", "freed", "null"}
      /\ careful => fault' = "none"
  BY <1>1 DEF Inv, TypeOK
<1> QED
  BY <1>3, <1>4, Rebuilt DEF Inv, TypeOK

-----------------------------------------------------------------------------
(* The C++ program.                                                        *)

\* The program makes an object.
LEMMA HostMakeInv ==
  ASSUME Inv, NEW c \in Cell, NEW class \in Class, NEW v \in Value, HostMake(c, class, v),
         careful' = careful
  PROVE  Inv'
<1> DEFINE x == [class |-> class, home |-> "host", x |-> v, link |-> Nowhere]
<1>1. x \in Object /\ x.home # "lua" /\ x.link = Nowhere /\ x.x # Garbage
  BY UserObjectsAssumption, NullHolds DEF Object
<1>2. object[c] = Nothing /\ object' = [object EXCEPT ![c] = x]
  BY DEF HostMake
<1> HIDE DEF x
<1>3. Reached' = Reached /\ UNCHANGED <<datum, variables, closures, running, fault>>
  BY DEF HostMake, Reached
<1>4. Base(object', datum', Reached') /\ (careful => Safe(object', datum', Reached'))
  BY <1>1, <1>2, <1>3, NullHolds, MakeBase DEF Inv
<1> QED
  BY <1>3, <1>4, Rebuilt DEF Inv, TypeOK

\* The program changes an object.
LEMMA HostChangeInv ==
  ASSUME Inv, NEW c \in Cell, NEW v \in Value, HostChange(c, v),
         careful' = careful
  PROVE  Inv'
<1>1. LiveIn(object, c) /\ object' = [object EXCEPT ![c].x = v]
  BY DEF HostChange, Alive, LiveIn
<1>2. v \in Value \cup {Garbage} /\ v # Garbage
  BY UserObjectsAssumption
<1>3. Reached' = Reached /\ UNCHANGED <<datum, variables, closures, running, fault>>
  BY DEF HostChange, Reached
<1>4. Base(object', datum', Reached') /\ (careful => Safe(object', datum', Reached'))
  BY <1>1, <1>2, <1>3, WriteBase DEF Inv
<1> QED
  BY <1>3, <1>4, Rebuilt DEF Inv, TypeOK

\* The program sets the pointer of an object.
LEMMA HostLinkInv ==
  ASSUME Inv, NEW c \in Cell, NEW d \in Address, HostLink(c, d),
         careful' = careful
  PROVE  Inv'
<1>1. LiveIn(object, c) /\ object' = [object EXCEPT ![c].link = d]
  BY DEF HostLink, Alive, LiveIn
<1>2. d = Nowhere \/ (LiveIn(object, d) /\ object[d].home = "host")
  BY DEF HostLink, Alive, LiveIn
<1>3. /\ Sound(object, d) /\ Part(object, d)
      /\ d # Nowhere => Secure(object, datum, Reached, d)
  BY <1>2, NullHolds DEF Sound, Part, Secure, LiveIn
<1>4. Reached' = Reached /\ UNCHANGED <<datum, variables, closures, running, fault>>
  BY DEF HostLink, Reached
<1>5. Base(object', datum', Reached') /\ (careful => Safe(object', datum', Reached'))
  BY <1>1, <1>3, <1>4, LinkBase DEF Inv
<1> QED
  BY <1>4, <1>5, Rebuilt DEF Inv, TypeOK

\* The program destroys an object.
LEMMA HostDestroyInv ==
  ASSUME Inv, NEW c \in Cell, HostDestroy(c),
         careful' = careful
  PROVE  Inv'
<1> DEFINE o == [object EXCEPT ![c] = Dead(object[c])]
<1>1. /\ LiveIn(object, c) /\ object[c].home = "host" /\ object' = Swept(o, datum)
      /\ careful => ~Pointed(o, datum, c)
  BY DEF HostDestroy, Alive, LiveIn
<1>2. Reached' = Reached /\ UNCHANGED <<datum, variables, closures, running, fault>>
  BY DEF HostDestroy, Reached
<1>3. Base(o, datum, Reached) /\ (careful => Safe(o, datum, Reached))
  BY <1>1, DestroyBase DEF Inv
<1> HIDE DEF o
<1>4. Base(object', datum', Reached') /\ (careful => Safe(object', datum', Reached'))
  BY <1>1, <1>2, <1>3, SweepBase
<1> QED
  BY <1>2, <1>4, Rebuilt DEF Inv, TypeOK

\* The program pushes a copy of an object (stack.hpp:56-74).
LEMMA PushValueInv ==
  ASSUME Inv, NEW c \in Cell, NEW u \in Userdatum, PushValue(c, u),
         careful' = careful
  PROVE  Inv'
<1>1. /\ Alive(c)
      /\ PushCopy(object, u, object[c].class, object[c].x, object[c].link)
      /\ UNCHANGED <<closures, running, fault>>
  BY DEF PushValue
<1>2. object[c].class \in Class
  BY <1>1 DEF Inv, TypeOK, Alive, Object
<1>3. Base(object, datum, Reached) /\ (careful => Safe(object, datum, Reached))
  BY DEF Inv
<1>4. object[c] # Nothing
  BY <1>1 DEF Alive
<1> QED
  BY <1>1, <1>2, <1>3, <1>4, AliveHolds, LinkHolds, CopyingInv

\* The program pushes a pointer to an object (detail/user_traits.hpp:115-134).
LEMMA PushPointerInv ==
  ASSUME Inv, NEW c \in Cell, NEW u \in Userdatum, NEW kind \in {"pointer", "const"},
         PushPointer(c, u, kind),
         careful' = careful
  PROVE  Inv'
<1>1. /\ LiveIn(object, c) /\ object[c].home = "host" /\ object[c] # Nothing
      /\ Push(u, object[c].class, kind, c)
      /\ UNCHANGED <<object, closures, running, fault>>
  BY DEF PushPointer, Alive, LiveIn
<1>2. object[c].class \in Class
  BY <1>1 DEF Inv, TypeOK, Object
<1>3. Base(object, datum, Reached) /\ (careful => Safe(object, datum, Reached))
  BY DEF Inv
<1>4. c \in Address /\ Sound(object, c) /\ Part(object, c) /\ Secure(object, datum, Reached, c)
  BY <1>1 DEF Address, Sound, Part, Secure
<1> QED
  BY <1>1, <1>2, <1>3, <1>4, PointingInv

\* The program reads an object from Lua (table_reference.hpp:43-50).
LEMMA HostReadInv ==
  ASSUME Inv, NEW u \in Userdatum, NEW class \in Class, NEW c \in Cell, HostRead(u, class, c),
         careful' = careful
  PROVE  Inv'
<1> DEFINE v == ReadAs(u, class)
           l == LinkAs(u, class)
           x == [class |-> class, home |-> "host", x |-> v, link |-> l]
<1>1. /\ v \in Value \cup {Garbage} /\ (careful => v # Garbage)
      /\ l \in Address /\ Sound(object, l) /\ Part(object, l)
      /\ careful /\ l # Nowhere => Secure(object, datum, Reached, l)
  BY ReadAsHolds DEF HostRead, Reached
<1>2. object[c] = Nothing /\ object' = [object EXCEPT ![c] = x]
  BY DEF HostRead
<1> HIDE DEF v, l
<1>3. x \in Object /\ x.home # "lua" /\ x.link = l /\ x.x = v
  BY <1>1 DEF Object
<1> HIDE DEF x
<1>4. Reached' = Reached /\ UNCHANGED <<datum, variables, closures, running, fault>>
  BY DEF HostRead, Reached
<1>5. Base(object', datum', Reached') /\ (careful => Safe(object', datum', Reached'))
  BY <1>1, <1>2, <1>3, <1>4, MakeBase DEF Inv
<1> QED
  BY <1>4, <1>5, Rebuilt DEF Inv, TypeOK

\* A script is called or ends.
LEMMA SwitchInv ==
  ASSUME Inv, Enter \/ Leave,
         careful' = careful
  PROVE  Inv'
<1>1. /\ UNCHANGED <<object, datum, variables, closures, fault>>
      /\ running' \in {"host", "lua"}
  BY DEF Enter, Leave
<1>2. Reached' = Reached
  BY <1>1 DEF Reached
<1> QED
  BY <1>1, <1>2, QuietInv DEF Inv, TypeOK

-----------------------------------------------------------------------------
(* Lua code.                                                               *)

\* A script constructs an object in a userdatum (detail/user_ctor.hpp:43-81).
LEMMA CallClassInv ==
  ASSUME Inv, NEW u \in Userdatum, NEW class \in Class, NEW v \in Value, CallClass(u, class, v),
         careful' = careful
  PROVE  Inv'
<1>1. PushCopy(object, u, class, v, Nowhere) /\ UNCHANGED <<closures, running, fault>>
  BY DEF CallClass
<1>2. v \in Value \cup {Garbage} /\ v # Garbage
  BY UserObjectsAssumption
<1>3. Base(object, datum, Reached) /\ (careful => Safe(object, datum, Reached))
  BY DEF Inv
<1> QED
  BY <1>1, <1>2, <1>3, NullHolds, CopyingInv

\* A script constructs an object on the heap (detail/user_ctor.hpp:43-75).
LEMMA NewInv ==
  ASSUME Inv, NEW u \in Userdatum, NEW class \in Class, NEW c \in Cell, NEW v \in Value,
         New(u, class, c, v),
         careful' = careful
  PROVE  Inv'
<1> DEFINE x == [class |-> class, home |-> "host", x |-> v, link |-> Nowhere]
           o == [object EXCEPT ![c] = x]
<1>1. /\ x \in Object /\ x.home = "host" /\ x.x # Freed /\ x.x # Garbage
      /\ x.link = Nowhere /\ x # Nothing
  BY UserObjectsAssumption, Something, NullHolds DEF Object
<1>2. /\ object[c] = Nothing /\ object' = o
      /\ Push(u, class, "pointer", c)
      /\ UNCHANGED <<closures, running, fault>>
  BY DEF New
<1> HIDE DEF x
<1>3. o[c] = x
  BY DEF Inv, TypeOK
<1>4. Base(o, datum, Reached) /\ (careful => Safe(o, datum, Reached))
  BY <1>1, <1>2, NullHolds, MakeBase DEF Inv
<1> HIDE DEF o
<1>5. o[c].home # "lua" /\ LiveIn(o, c)
  BY <1>1, <1>3 DEF LiveIn
<1>6. c \in Address /\ Sound(o, c) /\ Part(o, c) /\ Secure(o, datum, Reached, c)
  BY <1>5 DEF Address, Sound, Part, Secure, LiveIn
<1> QED
  BY <1>2, <1>4, <1>5, <1>6, PointingInv

\* A script reads a nested property, and gets a pointer into the object
\* (detail/user_prop.hpp:40-60).
LEMMA GetNestedInv ==
  ASSUME Inv, NEW u \in Userdatum, NEW w \in Userdatum, GetNested(u, w),
         careful' = careful
  PROVE  Inv'
<1> DEFINE a == datum[u].at
           kind == Interior(datum[u].kind)
<1>1. /\ u \in Reached /\ datum[u].class = "outer"
      /\ Push(w, "inner", kind, a)
      /\ UNCHANGED <<object, closures, running, fault>>
  BY DEF GetNested, Holds, Reached
<1>2. /\ a \in Address /\ Sound(object, a) /\ datum[u] # Nothing /\ u \in Userdatum
      /\ careful => Secure(object, datum, Reached, a)
  BY <1>1, ReachedInUse
<1>3. kind \in {"pointer", "const"} /\ "inner" \in Class
  BY DEF Interior, Class
<1>4. Part(object, a)
  BY <1>1, <1>2 DEF Inv, Base, PartsFit, Fit, IsValue, Part
<1> HIDE DEF a, kind
<1>5. Base(object, datum, Reached) /\ (careful => Safe(object, datum, Reached))
  BY DEF Inv
<1> QED
  BY <1>1, <1>2, <1>3, <1>4, <1>5, PointingInv

\* A script reads a pointer property, or calls a method that returns it
\* (detail/user_prop.hpp:45-54).
LEMMA GetLinkInv ==
  ASSUME Inv, NEW u \in Userdatum, NEW w \in Userdatum, GetLink(u, w),
         careful' = careful
  PROVE  Inv'
<1> DEFINE a == object[datum[u].at].link
<1>1. /\ u \in Reached /\ Alive(datum[u].at)
      /\ careful => a # Nowhere
      /\ Push(w, "inner", "pointer", a)
      /\ UNCHANGED <<object, closures, running, fault>>
  BY DEF GetLink, Reached
<1>2. datum[u].at \in Cell /\ object[datum[u].at] # Nothing
  BY <1>1 DEF Alive
<1>3. /\ a \in Address /\ Sound(object, a) /\ Part(object, a)
      /\ careful => Secure(object, datum, Reached, a)
  BY <1>1, <1>2, LinkHolds
<1> HIDE DEF a
<1>4. "inner" \in Class
  BY DEF Class
<1>5. Base(object, datum, Reached) /\ (careful => Safe(object, datum, Reached))
  BY DEF Inv
<1> QED
  BY <1>1, <1>3, <1>4, <1>5, PointingInv

\* A script assigns a pointer property (detail/user_prop.hpp:68-77).
LEMMA SetLinkInv ==
  ASSUME Inv, NEW u \in Userdatum, NEW w \in Userdatum, SetLink(u, w),
         careful' = careful
  PROVE  Inv'
<1> DEFINE a == IF datum[w].kind = "value" THEN Nowhere ELSE datum[w].at
           o == IF Alive(datum[u].at) THEN [object EXCEPT ![datum[u].at].link = a] ELSE object
<1>1. /\ u \in Reached /\ w \in Reached /\ Touches(u) /\ object' = o
      /\ careful => datum[w].kind = "pointer"
      /\ UNCHANGED <<datum, variables, closures, running>>
  BY DEF SetLink, Holds, Reached
<1>2. /\ datum[w] # Nothing /\ w \in Userdatum /\ datum[w].at \in Address
      /\ Sound(object, datum[w].at)
      /\ careful => Secure(object, datum, Reached, datum[w].at)
  BY <1>1, ReachedInUse
<1>3. datum[w].kind # "value" => Part(object, datum[w].at)
  BY <1>2 DEF Inv, Base, PartsFit
<1>4. /\ a \in Address /\ Sound(object, a) /\ Part(object, a)
      /\ careful => Secure(object, datum, Reached, a)
  BY <1>1, <1>2, <1>3, NullHolds
<1> HIDE DEF a
<1>5. Base(o, datum, Reached) /\ (careful => Safe(o, datum, Reached))
  <2>1. CASE Alive(datum[u].at)
    <3>1. datum[u].at \in Cell /\ LiveIn(object, datum[u].at)
      BY <1>1, <2>1, ReachedInUse
    <3> QED
      BY <1>4, <2>1, <3>1, LinkBase DEF Inv
  <2>2. CASE ~Alive(datum[u].at)
    BY <2>2 DEF Inv
  <2> QED
    BY <2>1, <2>2
<1> HIDE DEF o
<1> QED
  BY <1>1, <1>5, WritingInv

\* A script writes a property (detail/user_prop.hpp:62-88).
LEMMA SetFieldInv ==
  ASSUME Inv, NEW u \in Userdatum, NEW v \in Value, SetField(u, v),
         careful' = careful
  PROVE  Inv'
<1>1. /\ u \in Reached /\ Touches(u) /\ object' = Written(u, v)
      /\ UNCHANGED <<datum, variables, closures, running>>
  BY DEF SetField, Holds, Reached
<1>2. v \in Value \cup {Garbage} /\ v # Garbage
  BY UserObjectsAssumption
<1> QED
  BY <1>1, <1>2, WrittenFits, WritingInv

\* A script writes a nested property (detail/user_prop.hpp:62-81).
LEMMA SetNestedInv ==
  ASSUME Inv, NEW u \in Userdatum, NEW w \in Userdatum, SetNested(u, w),
         careful' = careful
  PROVE  Inv'
<1> DEFINE v == ReadAs(w, "inner")
<1>1. /\ u \in Reached /\ w \in Reached /\ Touches(u) /\ object' = Written(u, v)
      /\ careful => IsValueOf(w, "inner")
      /\ UNCHANGED <<datum, variables, closures, running>>
  BY DEF SetNested, Holds, Reached
<1>2. v \in Value \cup {Garbage} /\ (careful => v # Garbage)
  BY <1>1, ReadAsHolds DEF Class
<1> HIDE DEF v
<1> QED
  BY <1>1, <1>2, WrittenFits, WritingInv

\* A script calls a method that changes the object (detail/user_method.hpp:122-194).
LEMMA CallMutatorInv ==
  ASSUME Inv, NEW u \in Userdatum, NEW v \in Value, CallMutator(u, v),
         careful' = careful
  PROVE  Inv'
<1>1. /\ u \in Reached /\ (Touches(u) \/ UNCHANGED fault) /\ object' = AfterMutator(u, v)
      /\ UNCHANGED <<datum, variables, closures, running>>
  BY DEF CallMutator, Reached
<1> QED
  BY <1>1, MutatorFits, WritingInv

\* A script calls a method that returns an object (detail/user_method.hpp:196-271).
LEMMA CallReturningInv ==
  ASSUME Inv, NEW u \in Userdatum, NEW v \in Value, NEW r \in Userdatum, NEW class \in Class,
         NEW y \in Value, CallReturning(u, v, r, class, y),
         careful' = careful
  PROVE  Inv'
<1> DEFINE o == AfterMutator(u, v)
           c == datum[u].at
<1>1. /\ u \in Reached /\ Alive(c)
      /\ PushCopy(o, r, class, y, Nowhere) \/ PushCopy(o, r, class, y, object[c].link)
      /\ UNCHANGED <<closures, running, fault>>
  BY DEF CallReturning, Reached
<1>2. y \in Value \cup {Garbage} /\ y # Garbage
  BY UserObjectsAssumption
<1>3. Base(o, datum, Reached) /\ (careful => Safe(o, datum, Reached))
  BY <1>1, MutatorFits
<1>4. c \in Cell /\ o[c] # Nothing /\ o[c].link = object[c].link
  BY <1>1, MutatorLinks DEF Alive
<1> HIDE DEF o, c
<1>5. /\ o[c].link \in Address /\ Sound(o, o[c].link) /\ Part(o, o[c].link)
      /\ careful /\ o[c].link # Nowhere => Secure(o, datum, Reached, o[c].link)
  BY <1>3, <1>4, LinksFit
<1>6. CASE PushCopy(o, r, class, y, Nowhere)
  BY <1>1, <1>2, <1>3, <1>6, NullHolds, CopyingInv
<1>7. CASE PushCopy(o, r, class, y, object[c].link)
  BY <1>1, <1>2, <1>3, <1>4, <1>5, <1>7, CopyingInv
<1> QED
  BY <1>1, <1>6, <1>7

\* A script calls a method that returns a pointer to its own object
\* (detail/user_method.hpp:87-94, 107-118, 221-231, 260-270).
LEMMA CallPointerInv ==
  ASSUME Inv, NEW u \in Userdatum, NEW r \in Userdatum, NEW class \in Class,
         NEW kind \in {"pointer", "const"}, CallPointer(u, r, class, kind),
         careful' = careful
  PROVE  Inv'
<1> DEFINE a == datum[u].at
<1>1. /\ u \in Reached /\ Alive(a)
      /\ class = datum[u].class \/ class = "inner"
      /\ careful => datum[u].kind # "value"
      /\ UNCHANGED <<closures, running, fault>>
  BY DEF CallPointer, Reached
<1>2. /\ datum[u] # Nothing /\ u \in Userdatum /\ a \in Address /\ a \in Cell
      /\ Sound(object, a) /\ datum[u] \in Datum
      /\ careful => Secure(object, datum, Reached, a)
  BY <1>1, ReachedInUse
<1>3. Base(object, datum, Reached) /\ (careful => Safe(object, datum, Reached))
  BY DEF Inv
<1>4. CASE datum[u].kind # "value"
  <2>1. Push(r, class, kind, a) /\ object' = object
    BY <1>4 DEF CallPointer
  <2>2. Part(object, a) /\ (object[a].home = "lua" => class = "inner")
    BY <1>1, <1>2, <1>4 DEF Inv, Base, PartsFit
  <2> HIDE DEF a
  <2> QED
    BY <1>1, <1>2, <1>3, <2>1, <2>2, PointingInv
<1>5. CASE datum[u].kind = "value"
  <2>1. PICK c \in Cell :
          /\ object[c] = Nothing
          /\ Push(r, class, kind, c)
          /\ object' = [object EXCEPT ![c] = [class |-> datum[u].class, home |-> "temp",
                                              x |-> Freed, link |-> Nowhere]]
    BY <1>5 DEF CallPointer
  <2> DEFINE x == [class |-> datum[u].class, home |-> "temp", x |-> Freed, link |-> Nowhere]
             o == [object EXCEPT ![c] = x]
  <2>2. x \in Object /\ x.home = "temp" /\ x.link = Nowhere /\ x # Nothing
    BY <1>2, NullHolds, Something DEF Object, Datum
  <2>3. object' = o
    BY <2>1
  <2> HIDE DEF x
  <2>4. o[c] = x
    BY DEF Inv, TypeOK
  <2>5. Base(o, datum, Reached)
    BY <1>3, <2>1, <2>2, NullHolds, MakeBase
  <2>6. c \in Address /\ Sound(o, c) /\ Part(o, c) /\ o[c].home # "lua"
    BY <2>2, <2>4 DEF Address, Sound, Part
  <2>7. ~careful
    BY <1>1, <1>5
  <2> HIDE DEF o
  <2> QED
    BY <1>1, <2>1, <2>3, <2>5, <2>6, <2>7, PointingInv
<1> QED
  BY <1>4, <1>5

\* A script applies an operator (operators.hpp:127-271).
LEMMA OperateInv ==
  ASSUME Inv, NEW u \in Userdatum, NEW w \in Userdatum, NEW r \in Userdatum, NEW v \in Value,
         Operate(u, w, r, v) \/ Negate(u, r, v),
         careful' = careful
  PROVE  Inv'
<1>1. PushCopy(object, r, "inner", v, Nowhere) /\ UNCHANGED <<closures, running, fault>>
  BY DEF Operate, Negate
<1>2. v \in Value \cup {Garbage} /\ v # Garbage /\ "inner" \in Class
  BY UserObjectsAssumption DEF Class
<1>3. Base(object, datum, Reached) /\ (careful => Safe(object, datum, Reached))
  BY DEF Inv
<1> QED
  BY <1>1, <1>2, <1>3, NullHolds, CopyingInv

\* Steps that read an object.
LEMMA ReaderInv ==
  ASSUME Inv, NEW u \in Userdatum, NEW w \in Userdatum,
         GetField(u) \/ CallReader(u) \/ Compare(u, w) \/ Describe(u),
         careful' = careful
  PROVE  Inv'
<1>1. /\ u \in Reached /\ Touches(u)
      /\ UNCHANGED <<object, datum, variables, closures, running>>
  BY DEF GetField, CallReader, Compare, Describe, Holds, Reached
<1>2. Reached' = Reached
  BY <1>1 DEF Reached
<1>3. fault' \in {"none", "freed", "null"} /\ (careful => fault' = "none")
  BY <1>1, TouchesFits
<1> QED
  BY <1>1, <1>2, <1>3, QuietInv DEF Inv, TypeOK

\* Steps that a careful program does not take.
LEMMA CarelessInv ==
  ASSUME Inv, NEW u \in Userdatum, SetToOther(u) \/ Stray(u),
         careful' = careful
  PROVE  Inv'
<1>1. /\ fault' \in {"none", "freed", "null"}
      /\ UNCHANGED <<object, datum, variables, closures, running>>
  BY DEF SetToOther, Stray, Touches, Inv, TypeOK
<1>2. Reached' = Reached
  BY <1>1 DEF Reached
<1>3. ~careful
  <2>1. ASSUME Stray(u) PROVE u \in Reached /\ ~Alive(datum[u].at)
    BY <2>1 DEF Stray, Reached
  <2> QED
    BY <2>1, ReachedInUse DEF SetToOther
<1> QED
  BY <1>1, <1>2, <1>3, QuietInv DEF Inv, TypeOK

\* A script indexes a userdatum with a name that is no property: a closure over it
\* (user_def.hpp:237-252).
LEMMA BindInv ==
  ASSUME Inv, NEW u \in Userdatum, Bind(u),
         careful' = careful
  PROVE  Inv'
<1>1. /\ u \in variables /\ closures' = closures \cup {u}
      /\ UNCHANGED <<object, datum, variables, running, fault>>
  BY DEF Bind, Holds
<1>2. Reached' = Reached
  BY <1>1 DEF Reached
<1> QED
  BY <1>1, <1>2, QuietInv DEF Inv, TypeOK

-----------------------------------------------------------------------------
(* Lua's memory.                                                           *)

\* Lua reaches less.
LEMMA ForgetInv ==
  ASSUME Inv, NEW u \in Userdatum, Forget(u),
         careful' = careful
  PROVE  Inv'
<1>1. /\ u \in Reached
      /\ careful => ~HasInterior(u)
      /\ variables' \subseteq variables /\ closures' \subseteq closures
      /\ Reached \ {u} \subseteq Reached'
      /\ UNCHANGED <<object, datum, running, fault>>
  BY DEF Forget, Reached
<1>2. Reached' \subseteq Reached
  BY <1>1 DEF Reached
<1> HIDE DEF Reached
<1>3. Base(object, datum, Reached')
  BY <1>2 DEF Inv, Base, Typed, Backed
<1>4. ASSUME careful PROVE Safe(object, datum, Reached')
  <2>1. Safe(object, datum, Reached)
    BY <1>4 DEF Inv
  <2>2. ASSUME NEW a, Secure(object, datum, Reached, a),
               \/ \E t \in Reached' : datum[t].at = a
               \/ \E c \in Cell : object[c] # Nothing /\ object[c].link = a
        PROVE  Secure(object, datum, Reached', a)
    <3> SUFFICES ASSUME object[a].home = "lua"
                 PROVE  \E w \in Reached' : IsValue(datum, w) /\ datum[w].at = a
      BY <2>2 DEF Secure
    <3>1. PICK w \in Reached : IsValue(datum, w) /\ datum[w].at = a
      BY <2>2 DEF Secure
    <3>2. CASE w # u
      BY <1>1, <3>1, <3>2
    <3>3. CASE w = u
      <4>1. u \in Reached'
        BY <1>1, <1>2, <1>4, <2>2, <3>1, <3>3 DEF HasInterior, IsValue, Reached
      <4> QED
        BY <3>1, <3>3, <4>1
    <3> QED
      BY <3>2, <3>3
  <2> QED
    BY <1>2, <2>1, <2>2 DEF Safe
<1> QED
  BY <1>1, <1>3, <1>4, Rebuilt DEF Inv, TypeOK

\* Lua collects what cannot be reached.
LEMMA CollectInv ==
  ASSUME Inv, NEW u \in Userdatum, Collect(u),
         careful' = careful
  PROVE  Inv'
<1> DEFINE d == [datum EXCEPT ![u] = Nothing]
           o == AfterCollect(u)
<1>1. /\ datum[u] # Nothing /\ u \notin Reached
      /\ datum' = d /\ object' = Swept(o, d)
      /\ UNCHANGED <<variables, closures, running, fault>>
  BY DEF Collect, Vacant, Reached
<1>2. Reached' = Reached
  BY <1>1 DEF Reached
<1>3. Base(o, d, Reached) /\ (careful => Safe(o, d, Reached))
  BY <1>1, EndBase DEF Inv, AfterCollect
<1> HIDE DEF o, d
<1>4. Base(object', datum', Reached') /\ (careful => Safe(object', datum', Reached'))
  BY <1>1, <1>2, <1>3, SweepBase
<1> QED
  BY <1>1, <1>4, Rebuilt DEF Inv, TypeOK

-----------------------------------------------------------------------------
(* The theorems.                                                           *)

\* The invariant is inductive.
LEMMA StepInv == Inv /\ [Next]_vars => Inv'
<1> SUFFICES ASSUME Inv, [Next]_vars PROVE Inv'
  OBVIOUS
<1>0. careful' = careful
  BY DEF Next, vars
<1>1. CASE UNCHANGED vars
  BY <1>0, <1>1, QuietInv DEF vars, Inv, TypeOK, Reached
<1>2. CASE HostNext
  BY <1>0, <1>2, HostMakeInv, HostChangeInv, HostDestroyInv, PushValueInv, PushPointerInv,
     HostReadInv, HostLinkInv, SwitchInv DEF HostNext
<1>3. CASE LuaNext
  <2>1. ASSUME NEW u \in Userdatum, NEW class \in Class, NEW v \in Value, CallClass(u, class, v)
        PROVE  Inv'
    BY <1>0, <2>1, CallClassInv
  <2>2. ASSUME NEW u \in Userdatum, NEW class \in Class, NEW c \in Cell, NEW v \in Value,
               New(u, class, c, v)
        PROVE  Inv'
    BY <1>0, <2>2, NewInv
  <2>3. ASSUME NEW u \in Userdatum,
               \/ GetField(u) \/ CallReader(u) \/ Describe(u)
               \/ \E w \in Userdatum : Compare(u, w)
        PROVE  Inv'
    BY <1>0, <2>3, ReaderInv
  <2>4. ASSUME NEW u \in Userdatum, SetToOther(u) \/ Stray(u) \/ Bind(u)
        PROVE  Inv'
    BY <1>0, <2>4, CarelessInv, BindInv
  <2>5. ASSUME NEW u \in Userdatum, NEW v \in Value, SetField(u, v) \/ CallMutator(u, v)
        PROVE  Inv'
    BY <1>0, <2>5, SetFieldInv, CallMutatorInv
  <2>6. ASSUME NEW u \in Userdatum, NEW w \in Userdatum,
               GetNested(u, w) \/ SetNested(u, w) \/ GetLink(u, w) \/ SetLink(u, w)
        PROVE  Inv'
    BY <1>0, <2>6, GetNestedInv, SetNestedInv, GetLinkInv, SetLinkInv
  <2>7. ASSUME NEW u \in Userdatum, NEW r \in Userdatum, NEW v \in Value,
               Negate(u, r, v) \/ \E w \in Userdatum : Operate(u, w, r, v)
        PROVE  Inv'
    BY <1>0, <2>7, OperateInv
  <2>8. ASSUME NEW u \in Userdatum, NEW v \in Value, NEW y \in Value, NEW r \in Userdatum,
               NEW class \in Class, CallReturning(u, v, r, class, y)
        PROVE  Inv'
    BY <1>0, <2>8, CallReturningInv
  <2>9. ASSUME NEW u \in Userdatum, NEW r \in Userdatum, NEW class \in Class,
               NEW kind \in {"pointer", "const"}, CallPointer(u, r, class, kind)
        PROVE  Inv'
    BY <1>0, <2>9, CallPointerInv
  <2> QED
    BY <1>0, <1>3, <2>1, <2>2, <2>3, <2>4, <2>5, <2>6, <2>7, <2>8, <2>9, SwitchInv DEF LuaNext
<1>4. CASE \E u \in Userdatum : Forget(u) \/ Collect(u)
  BY <1>0, <1>4, ForgetInv, CollectInv
<1> QED
  BY <1>0, <1>1, <1>2, <1>3, <1>4 DEF Next

\* Values and the objects in blocks of userdata correspond, pointers lead to storage in
\* use, and a careful program reaches live objects only: the state of userdata
\* (detail/user_traits.hpp, user_prop.hpp, user_method.hpp, user_ctor.hpp).
THEOREM Invariant == Spec => []Inv
<1>1. Init => Inv
  BY InitInv
<1>2. Inv /\ [Next]_vars => Inv'
  BY StepInv
<1> QED
  BY <1>1, <1>2, PTL DEF Spec

\* Every variable has its type.
THEOREM TypeCorrect == Spec => []TypeOK
<1>1. Inv => TypeOK
  BY DEF Inv
<1> QED
  BY <1>1, Invariant, PTL

\* A value userdatum is the only value in its storage, whatever methods return and
\* operators compute, and the storage lives as long as the userdatum.
THEOREM ValuesOwn == Spec => []ValuesOwnTheirCells
<1>1. Inv => ValuesOwnTheirCells
  BY DEF Inv, Base, Fit, ValuesOwnTheirCells, Vacant, IsValue, Alive, LiveIn
<1> QED
  BY <1>1, Invariant, PTL

\* The program destroyed the object that a userdatum dangles from, or Lua collected the
\* value that the object was a part of, or it was the copy that a method worked on
\* (user_def.hpp:114, detail/user_method.hpp:87-118).
THEOREM DanglingKnown == Spec => []DanglingHasCause
<1>1. Inv => DanglingHasCause
  <2> SUFFICES ASSUME Inv, NEW u \in Userdatum, datum[u] # Nothing,
                      datum[u].at # Nowhere, ~Alive(datum[u].at)
               PROVE  LET o == object[datum[u].at] IN
                      /\ o # Nothing /\ datum[u].kind # "value"
                      /\ \/ o.home = "host"
                         \/ o.home = "lua" /\ o.class = "outer" /\ datum[u].class = "inner"
                         \/ o.home = "temp"
    BY DEF DanglingHasCause, Vacant
  <2>1. datum[u].at \in Cell /\ object[datum[u].at] # Nothing
    BY DEF Inv, Base, Backed, Sound
  <2>2. datum[u].kind # "value"
    BY DEF Inv, Base, Fit, IsValue, LiveIn, Alive
  <2>3. object[datum[u].at].home \in {"host", "lua", "temp"}
    BY <2>1 DEF Inv, Base, Typed, Object
  <2>4. /\ Part(object, datum[u].at)
        /\ object[datum[u].at].home = "lua" => datum[u].class = "inner"
    BY <2>1, <2>2 DEF Inv, Base, PartsFit
  <2> QED
    BY <2>1, <2>2, <2>3, <2>4 DEF Part
<1> QED
  BY <1>1, Invariant, PTL

\* A program that keeps the rules never touches a dead object through a userdatum, and
\* no object of its own or in Lua ever holds garbage.
THEOREM CarefulSafe == Spec => []CarefulIsSafe
<1>1. Inv => CarefulIsSafe
  BY DEF Inv, Safe, CarefulIsSafe
<1> QED
  BY <1>1, Invariant, PTL

-----------------------------------------------------------------------------
(* Const objects.                                                          *)

LinkedIn(o, c) == \E k \in Cell : LiveIn(o, k) /\ o[k].link = c

\* Objects o have no pointers but those that the objects have now.
FewerLinks(o) ==
  \A k \in Cell : LiveIn(o, k) => LiveIn(object, k) /\ o[k].link = object[k].link

\* Whether a pointer leads to c depends on the objects alone.
LEMMA LinkedAlike ==
  ASSUME NEW c
  PROVE  /\ Linked(c) <=> LinkedIn(object, c)
         /\ Linked(c)' <=> LinkedIn(object', c)
  BY DEF Linked, LinkedIn, LiveIn, Alive

\* Fewer pointers lead nowhere new.
LEMMA FewerKeep ==
  ASSUME NEW o, FewerLinks(o), NEW c, ~LinkedIn(object, c)
  PROVE  ~LinkedIn(o, c)
  BY DEF FewerLinks, LinkedIn

\* What is written through a userdatum was writable, and so was what a method writes.
LEMMA WrittenKeeps ==
  ASSUME Inv, NEW c \in Cell, Alive(c), ~Writable(c), NEW u \in Reached, NEW v
  PROVE  /\ datum[u].kind # "const" => Written(u, v)[c] = object[c]
         /\ AfterMutator(u, v)[c] = object[c]
<1>1. datum[u].kind # "const" => datum[u].at # c
  BY ReachedInUse DEF Writable, Vacant
<1> QED
  BY <1>1, ReachedInUse DEF Written, AfterMutator, Inv, TypeOK

\* A userdatum that is pushed to other storage, or as const, is no way to write c.
LEMMA PushKeeps ==
  ASSUME Inv, NEW c \in Cell, ~Writable(c), NEW u \in Userdatum, NEW class \in Class,
         NEW kind \in Kind, NEW k \in Address, Push(u, class, kind, k),
         k # c \/ kind = "const"
  PROVE  ~Writable(c)'
<1> DEFINE b == [class |-> class, kind |-> kind, at |-> k]
<1>1. b.kind = kind /\ b.at = k
  OBVIOUS
<1>2. datum' = [datum EXCEPT ![u] = b]
  BY DEF Push
<1> HIDE DEF b
<1>3. \A w \in Userdatum : datum'[w] = IF w = u THEN b ELSE datum[w]
  BY <1>2 DEF Inv, TypeOK
<1> QED
  BY <1>1, <1>3 DEF Writable, Vacant

\* An object is made in unused storage, with a pointer that does not lead to c.
LEMMA MakeKeeps ==
  ASSUME NEW o, o \in [Cell -> Object \cup {Nothing}], FewerLinks(o),
         NEW c \in Cell, o[c] = object[c], Alive(c), ~Linked(c),
         NEW k \in Cell, o[k] = Nothing, NEW x, x.x = Freed \/ x.link # c,
         object' = [o EXCEPT ![k] = x]
  PROVE  k # c /\ object'[c] = object[c] /\ ~Linked(c)'
<1>1. k # c
  BY DEF Alive
<1>2. ~LinkedIn(o, c)
  BY LinkedAlike, FewerKeep
<1>3. \A b \in Cell : object'[b] = IF b = k THEN x ELSE o[b]
  OBVIOUS
<1>4. ~LinkedIn(object', c)
  BY <1>2, <1>3 DEF LinkedIn, LiveIn
<1> QED
  BY <1>1, <1>3, <1>4, LinkedAlike

\* A copy goes to unused storage.
LEMMA CopyKeeps ==
  ASSUME Inv, NEW c \in Cell, Alive(c), ~Writable(c), ~Linked(c), NEW o, o[c] = object[c],
         o \in [Cell -> Object \cup {Nothing}], FewerLinks(o),
         NEW u \in Userdatum, NEW class \in Class, NEW x, NEW l, l # c,
         PushCopy(o, u, class, x, l)
  PROVE  object'[c] = object[c] /\ ~Writable(c)' /\ ~Linked(c)'
<1>1. PICK k \in Cell :
        /\ o[k] = Nothing
        /\ Push(u, class, "value", k)
        /\ object' = [o EXCEPT ![k] = [class |-> class, home |-> "lua", x |-> x, link |-> l]]
  BY DEF PushCopy
<1> DEFINE y == [class |-> class, home |-> "lua", x |-> x, link |-> l]
<1>2. y.link # c
  OBVIOUS
<1>3. o[k] = Nothing /\ object' = [o EXCEPT ![k] = y]
  BY <1>1
<1> HIDE DEF y
<1>4. k # c /\ object'[c] = object[c] /\ ~Linked(c)'
  BY <1>2, <1>3, MakeKeeps
<1>5. ~Writable(c)'
  BY <1>1, <1>4, PushKeeps DEF Kind, Address
<1> QED
  BY <1>4, <1>5

\* The goal of the lemmas that follow, for an object c that is const and no link leads to.
KeepsIt(c) == object'[c] = object[c] /\ ~Writable(c)' /\ (careful => ~Linked(c)')

\* Steps that change neither objects nor userdata.
LEMMA QuietKeeps ==
  ASSUME UNCHANGED <<object, datum>>
  PROVE  KeepsConst
  BY DEF KeepsConst, Writable, Vacant, Linked, Alive

\* Steps of Lua code that push no userdatum and set no pointer.
LEMMA WritingKeeps ==
  ASSUME Inv, UNCHANGED datum, NEW u \in Reached, NEW v \in Value \cup {Garbage},
         \/ datum[u].kind # "const" /\ object' = Written(u, v)
         \/ v \in Value /\ object' = AfterMutator(u, v)
  PROVE  KeepsConst
<1> SUFFICES ASSUME NEW c \in Cell, Alive(c), ~Writable(c), ~Linked(c)
             PROVE  KeepsIt(c)
  BY DEF KeepsConst, KeepsIt
<1>1. ~Writable(c)'
  BY DEF Writable, Vacant
<1>2. FewerLinks(object')
  <2>1. CASE object' = Written(u, v)
    BY <2>1, WrittenLinks DEF FewerLinks, LiveIn
  <2>2. CASE v \in Value /\ object' = AfterMutator(u, v)
    BY <2>2, MutatorLinks DEF FewerLinks, LiveIn
  <2> QED
    BY <2>1, <2>2
<1>3. ~Linked(c)'
  BY <1>2, LinkedAlike, FewerKeep
<1> QED
  BY <1>1, <1>3, WrittenKeeps DEF KeepsIt

\* Setting a pointer: a careful program does not let it lead to a const object.
LEMMA SetLinkKeeps ==
  ASSUME Inv, NEW u \in Userdatum, NEW w \in Userdatum, SetLink(u, w)
  PROVE  KeepsConst
<1> SUFFICES ASSUME NEW c \in Cell, Alive(c), ~Writable(c), ~Linked(c)
             PROVE  KeepsIt(c)
  BY DEF KeepsConst, KeepsIt
<1> DEFINE a == IF datum[w].kind = "value" THEN Nowhere ELSE datum[w].at
           b == datum[u].at
           x == [object[b] EXCEPT !.link = a]
<1>1. /\ u \in Reached /\ w \in Reached /\ datum[u].kind # "const"
      /\ object' = IF Alive(b) THEN [object EXCEPT ![b] = x] ELSE object
      /\ careful => datum[w].kind = "pointer"
      /\ UNCHANGED datum
  BY DEF SetLink, Holds, Reached
<1>2. ~Writable(c)'
  BY <1>1 DEF Writable, Vacant
<1>3. datum[u] # Nothing /\ datum[w] # Nothing
  BY <1>1, ReachedInUse
<1>4. b # c /\ (careful => a # c)
  BY <1>1, <1>3 DEF Writable, Vacant
<1>5. CASE Alive(b)
  <2>1. b \in Cell /\ object[b] \in Object
    BY <1>1, <1>5, ReachedInUse
  <2>2. x.link = a
    BY <2>1 DEF Object
  <2> HIDE DEF x, a, b
  <2>3. \A k \in Cell : object'[k] = IF k = b THEN x ELSE object[k]
    BY <1>1, <1>5 DEF Inv, TypeOK
  <2>4. ~LinkedIn(object, c)
    BY LinkedAlike
  <2>5. careful => ~LinkedIn(object', c)
    BY <1>4, <2>2, <2>3, <2>4 DEF LinkedIn, LiveIn
  <2>6. careful => ~Linked(c)'
    BY <2>5, LinkedAlike
  <2> QED
    BY <1>2, <1>4, <2>3, <2>6 DEF KeepsIt
<1>6. CASE ~Alive(b)
  <2>1. ~Linked(c)'
    BY <1>1, <1>6 DEF Linked, Alive
  <2> QED
    BY <1>1, <1>2, <1>6, <2>1 DEF KeepsIt
<1> QED
  BY <1>5, <1>6

\* Steps of Lua code that push a copy.
LEMMA CopyingKeeps ==
  ASSUME Inv, NEW u \in Userdatum, NEW class \in Class, NEW x, NEW t \in Userdatum, NEW v \in Value,
         \/ PushCopy(object, u, class, x, Nowhere)
         \/ /\ t \in Reached /\ Alive(datum[t].at)
            /\ \/ PushCopy(AfterMutator(t, v), u, class, x, Nowhere)
               \/ PushCopy(AfterMutator(t, v), u, class, x, object[datum[t].at].link)
  PROVE  KeepsConst
<1> SUFFICES ASSUME NEW c \in Cell, Alive(c), ~Writable(c), ~Linked(c)
             PROVE  KeepsIt(c)
  BY DEF KeepsConst, KeepsIt
<1>1. object \in [Cell -> Object \cup {Nothing}] /\ FewerLinks(object) /\ Nowhere # c
  BY UserObjectsAssumption DEF Inv, TypeOK, FewerLinks
<1>2. CASE PushCopy(object, u, class, x, Nowhere)
  BY <1>1, <1>2, CopyKeeps DEF KeepsIt
<1>3. CASE /\ t \in Reached /\ Alive(datum[t].at)
           /\ \/ PushCopy(AfterMutator(t, v), u, class, x, Nowhere)
              \/ PushCopy(AfterMutator(t, v), u, class, x, object[datum[t].at].link)
  <2> DEFINE o == AfterMutator(t, v)
             l == object[datum[t].at].link
  <2>1. o \in [Cell -> Object \cup {Nothing}]
    BY <1>3, MutatorFits DEF Base, Typed
  <2>2. o[c] = object[c]
    BY <1>3, WrittenKeeps
  <2>3. FewerLinks(o)
    BY <1>3, MutatorLinks DEF FewerLinks, LiveIn
  <2>4. l # c
    BY <1>3 DEF Linked, Alive
  <2>5. PushCopy(o, u, class, x, Nowhere) \/ PushCopy(o, u, class, x, l)
    BY <1>3
  <2> HIDE DEF o, l
  <2>6. CASE PushCopy(o, u, class, x, Nowhere)
    BY <1>1, <2>1, <2>2, <2>3, <2>6, CopyKeeps DEF KeepsIt
  <2>7. CASE PushCopy(o, u, class, x, l)
    BY <2>1, <2>2, <2>3, <2>4, <2>7, CopyKeeps DEF KeepsIt
  <2> QED
    BY <2>5, <2>6, <2>7
<1> QED
  BY <1>2, <1>3

\* C.new makes its object in unused storage.
LEMMA NewKeeps ==
  ASSUME Inv, NEW u \in Userdatum, NEW class \in Class, NEW k \in Cell, NEW v \in Value,
         New(u, class, k, v)
  PROVE  KeepsConst
<1> SUFFICES ASSUME NEW c \in Cell, Alive(c), ~Writable(c), ~Linked(c)
             PROVE  KeepsIt(c)
  BY DEF KeepsConst, KeepsIt
<1> DEFINE x == [class |-> class, home |-> "host", x |-> v, link |-> Nowhere]
<1>1. /\ object[k] = Nothing /\ object' = [object EXCEPT ![k] = x]
      /\ Push(u, class, "pointer", k)
  BY DEF New
<1>2. x.link # c
  BY UserObjectsAssumption
<1> HIDE DEF x
<1>3. object \in [Cell -> Object \cup {Nothing}] /\ FewerLinks(object)
  BY DEF Inv, TypeOK, FewerLinks
<1>4. k # c /\ object'[c] = object[c] /\ ~Linked(c)'
  BY <1>1, <1>2, <1>3, MakeKeeps
<1>5. ~Writable(c)'
  BY <1>1, <1>4, PushKeeps DEF Kind, Address
<1> QED
  BY <1>4, <1>5 DEF KeepsIt

\* Steps of Lua code that push a pointer, to other storage or as const.
LEMMA PointingKeeps ==
  ASSUME Inv, NEW w \in Userdatum, NEW class \in Class, NEW kind \in Kind, NEW a \in Address,
         Push(w, class, kind, a), UNCHANGED object,
         \A c \in Cell : Alive(c) /\ ~Writable(c) /\ ~Linked(c) => a # c \/ kind = "const"
  PROVE  KeepsConst
<1> SUFFICES ASSUME NEW c \in Cell, Alive(c), ~Writable(c), ~Linked(c)
             PROVE  KeepsIt(c)
  BY DEF KeepsConst, KeepsIt
<1>1. ~Writable(c)'
  BY PushKeeps
<1>2. ~Linked(c)'
  BY DEF Linked, Alive
<1> QED
  BY <1>1, <1>2 DEF KeepsIt

\* A part of a const object is const.
LEMMA GetNestedKeeps ==
  ASSUME Inv, NEW u \in Userdatum, NEW w \in Userdatum, GetNested(u, w)
  PROVE  KeepsConst
<1>1. /\ u \in Reached /\ Push(w, "inner", Interior(datum[u].kind), datum[u].at)
      /\ UNCHANGED object
  BY DEF GetNested, Holds, Reached
<1>2. datum[u] # Nothing /\ datum[u].at \in Address /\ u \in Userdatum
  BY <1>1, ReachedInUse
<1>3. \A c \in Cell : ~Writable(c) => datum[u].at # c \/ Interior(datum[u].kind) = "const"
  BY <1>2 DEF Writable, Vacant, Interior
<1>4. Interior(datum[u].kind) \in Kind /\ "inner" \in Class
  BY DEF Interior, Kind, Class
<1> QED
  BY <1>1, <1>2, <1>3, <1>4, PointingKeeps

\* A pointer property leads to linked objects.
LEMMA GetLinkKeeps ==
  ASSUME Inv, NEW u \in Userdatum, NEW w \in Userdatum, GetLink(u, w)
  PROVE  KeepsConst
<1> DEFINE a == object[datum[u].at].link
<1>1. /\ Alive(datum[u].at) /\ Push(w, "inner", "pointer", a)
      /\ UNCHANGED object
  BY DEF GetLink
<1>2. a \in Address
  BY <1>1, LinkHolds DEF Alive
<1>3. \A c \in Cell : ~Linked(c) => a # c
  BY <1>1 DEF Linked, Alive
<1>4. "pointer" \in Kind /\ "inner" \in Class
  BY DEF Kind, Class
<1> HIDE DEF a
<1> QED
  BY <1>1, <1>2, <1>3, <1>4, PointingKeeps

\* A method that a pointer to const allows returns a pointer to const; the copy of a value
\* is another object.
LEMMA CallPointerKeeps ==
  ASSUME Inv, NEW u \in Userdatum, NEW r \in Userdatum, NEW class \in Class,
         NEW kind \in {"pointer", "const"}, CallPointer(u, r, class, kind)
  PROVE  KeepsConst
<1>1. u \in Reached /\ (datum[u].kind = "const" => kind = "const") /\ kind \in Kind
  BY DEF CallPointer, Reached, Kind
<1>2. datum[u] # Nothing /\ datum[u].at \in Address /\ u \in Userdatum
  BY <1>1, ReachedInUse
<1>3. CASE datum[u].kind # "value"
  <2>1. Push(r, class, kind, datum[u].at) /\ UNCHANGED object
    BY <1>3 DEF CallPointer
  <2>2. \A c \in Cell : ~Writable(c) => datum[u].at # c \/ kind = "const"
    BY <1>1, <1>2 DEF Writable, Vacant
  <2> QED
    BY <1>1, <1>2, <2>1, <2>2, PointingKeeps
<1>4. CASE datum[u].kind = "value"
  <2> SUFFICES ASSUME NEW c \in Cell, Alive(c), ~Writable(c), ~Linked(c)
               PROVE  KeepsIt(c)
    BY DEF KeepsConst, KeepsIt
  <2> DEFINE x == [class |-> datum[u].class, home |-> "temp", x |-> Freed, link |-> Nowhere]
  <2>1. PICK k \in Cell :
          /\ object[k] = Nothing
          /\ Push(r, class, kind, k)
          /\ object' = [object EXCEPT ![k] = x]
    BY <1>4 DEF CallPointer
  <2>2. x.x = Freed
    OBVIOUS
  <2> HIDE DEF x
  <2>3. object \in [Cell -> Object \cup {Nothing}] /\ FewerLinks(object)
    BY DEF Inv, TypeOK, FewerLinks
  <2>4. k # c /\ object'[c] = object[c] /\ ~Linked(c)'
    BY <2>1, <2>2, <2>3, MakeKeeps
  <2>5. ~Writable(c)'
    BY <1>1, <2>1, <2>4, PushKeeps DEF Address
  <2> QED
    BY <2>4, <2>5 DEF KeepsIt
<1> QED
  BY <1>3, <1>4

\* The block of a value is written by no one else; pointers end without a trace.
LEMMA CollectKeeps ==
  ASSUME Inv, NEW u \in Userdatum, Collect(u)
  PROVE  KeepsConst
<1> SUFFICES ASSUME NEW c \in Cell, Alive(c), ~Writable(c), ~Linked(c)
             PROVE  KeepsIt(c)
  BY DEF KeepsConst, KeepsIt
<1> DEFINE d == [datum EXCEPT ![u] = Nothing]
           o == AfterCollect(u)
<1>1. datum[u] # Nothing /\ datum' = d /\ object' = Swept(o, d)
  BY DEF Collect, Vacant
<1>2. datum[u].kind = "value" =>
        datum[u].at # c /\ datum[u].at \in Cell /\ object[datum[u].at] \in Object
  BY <1>1 DEF Inv, TypeOK, Base, Fit, IsValue, LiveIn, Writable, Vacant
<1>3. datum[u].kind = "value" => Dead(object[datum[u].at]).x = Freed
  BY <1>2, DeadFits
<1>4. \A k \in Cell :
        \/ o[k] = object[k]
        \/ datum[u].kind = "value" /\ k = datum[u].at /\ o[k].x = Freed
  BY <1>2, <1>3 DEF AfterCollect, Inv, TypeOK
<1>5. o[c] = object[c]
  BY <1>2, <1>4
<1>6. \A w \in Userdatum : d[w] = Nothing \/ d[w] = datum[w]
  BY DEF Inv, TypeOK
<1> HIDE DEF o, d
<1>7. \A k \in Cell : object'[k] = o[k] \/ object'[k] = Nothing
  BY <1>1 DEF Swept
<1>8. object'[c] = object[c]
  BY <1>1, <1>5 DEF Swept, Alive
<1>9. FewerLinks(object')
  BY <1>4, <1>7 DEF FewerLinks, LiveIn
<1>10. ~Linked(c)'
  BY <1>9, LinkedAlike, FewerKeep
<1>11. ~Writable(c)'
  BY <1>1, <1>6 DEF Writable, Vacant
<1> QED
  BY <1>8, <1>10, <1>11 DEF KeepsIt

\* No step of a script changes a part that is const, or makes it writable.
LEMMA ConstStep == Inv /\ Next => (running = "lua" => KeepsConst)
<1> SUFFICES ASSUME Inv, Next, running = "lua" PROVE KeepsConst
  OBVIOUS
<1>1. ~HostRuns
  BY DEF HostRuns
<1>2. CASE LuaNext
  <2>1. ASSUME NEW u \in Userdatum, NEW class \in Class, NEW v \in Value, CallClass(u, class, v)
        PROVE  KeepsConst
    BY <2>1, CopyingKeeps DEF CallClass
  <2>2. ASSUME NEW u \in Userdatum,
               \/ GetField(u) \/ SetToOther(u) \/ Bind(u) \/ CallReader(u)
               \/ Describe(u) \/ Stray(u) \/ Leave
               \/ \E w \in Userdatum : Compare(u, w)
        PROVE  KeepsConst
    <3>1. UNCHANGED <<object, datum>>
      BY <2>2 DEF GetField, SetToOther, Bind, CallReader, Describe, Stray, Leave, Compare
    <3> QED
      BY <3>1, QuietKeeps
  <2>3. ASSUME NEW u \in Userdatum, NEW v \in Value, SetField(u, v) \/ CallMutator(u, v)
        PROVE  KeepsConst
    <3>1. /\ u \in Reached /\ UNCHANGED datum
          /\ \/ datum[u].kind # "const" /\ object' = Written(u, v)
             \/ object' = AfterMutator(u, v)
      BY <2>3 DEF SetField, CallMutator, Holds, Reached
    <3> QED
      BY <3>1, WritingKeeps
  <2>4. ASSUME NEW u \in Userdatum, NEW w \in Userdatum, SetNested(u, w)
        PROVE  KeepsConst
    <3>1. /\ u \in Reached /\ w \in Reached /\ UNCHANGED datum /\ datum[u].kind # "const"
          /\ object' = Written(u, ReadAs(w, "inner"))
      BY <2>4 DEF SetNested, Holds, Reached
    <3>2. ReadAs(w, "inner") \in Value \cup {Garbage}
      BY <3>1, ReadAsHolds DEF Class
    <3> QED
      BY <3>1, <3>2, WritingKeeps
  <2>5. ASSUME NEW u \in Userdatum, NEW r \in Userdatum, NEW v \in Value,
               Negate(u, r, v) \/ \E w \in Userdatum : Operate(u, w, r, v)
        PROVE  KeepsConst
    <3>1. PushCopy(object, r, "inner", v, Nowhere) /\ "inner" \in Class
      BY <2>5 DEF Negate, Operate, Class
    <3> QED
      BY <3>1, CopyingKeeps
  <2>6. ASSUME NEW u \in Userdatum, NEW v \in Value, NEW y \in Value, NEW r \in Userdatum,
               NEW class \in Class, CallReturning(u, v, r, class, y)
        PROVE  KeepsConst
    <3>1. /\ u \in Reached /\ Alive(datum[u].at)
          /\ \/ PushCopy(AfterMutator(u, v), r, class, y, Nowhere)
             \/ PushCopy(AfterMutator(u, v), r, class, y, object[datum[u].at].link)
      BY <2>6 DEF CallReturning, Reached
    <3> QED
      BY <3>1, CopyingKeeps
  <2>7. ASSUME Leave PROVE KeepsConst
    BY <2>7, QuietKeeps DEF Leave
  <2> QED
    BY <1>2, <2>1, <2>2, <2>3, <2>4, <2>5, <2>6, <2>7, NewKeeps, GetNestedKeeps, GetLinkKeeps,
       SetLinkKeeps, CallPointerKeeps DEF LuaNext
<1>3. CASE \E u \in Userdatum : Forget(u) \/ Collect(u)
  <2>1. ASSUME NEW u \in Userdatum, Forget(u) PROVE KeepsConst
    BY <2>1, QuietKeeps DEF Forget
  <2> QED
    BY <1>3, <2>1, CollectKeeps
<1>4. ~HostNext
  BY <1>1 DEF HostNext, HostMake, HostChange, HostLink, HostDestroy, PushValue, PushPointer,
              HostRead, Enter
<1> QED
  BY <1>2, <1>3, <1>4 DEF Next

\* While Lua code runs, an object that it was given as const only, and that no pointer
\* property leads to, never changes, and no property, method or operator gives Lua a way
\* to write it; a careful program makes no pointer property lead to it either.
THEOREM ConstIsKept == Spec => ConstObjectsUntouched
<1>1. Inv /\ [Next]_vars => [running = "lua" => KeepsConst]_vars
  BY ConstStep
<1> QED
  BY <1>1, Invariant, PTL DEF Spec, ConstObjectsUntouched

=============================================================================
