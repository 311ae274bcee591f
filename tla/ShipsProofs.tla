----------------------------- MODULE ShipsProofs -----------------------------
(***************************************************************************)
(* Theorems about Ships. They assume Careful: harbours come and go, and    *)
(* expeditions are called off, only when the ships can cope with it.       *)
(*                                                                         *)
(* A handler is an operator on scenes, so the invariant is one, Good: every*)
(* ship is in a condition its state allows (ShipOK), everybody is ashore,  *)
(* in one queue or in one hold (Placed), and knows where he goes (Bound,   *)
(* Aware), and the materials of expeditions are all there (Supplied). In   *)
(* the midst of a handler some ships are not yet in the condition of their *)
(* state, and some items are in nobody's hands: GoodBut leaves them out.   *)
(* Each handler has a lemma that says what it keeps, and each action       *)
(* follows from them. Where a handler makes calls for all of a list, what  *)
(* they keep follows from a least number of calls that would not keep it   *)
(* (Least, CallsEnd, CallsKeep).                                           *)
(***************************************************************************)
EXTENDS Ships, FiniteSetTheorems, WellFoundedInduction, TLAPS

Coasts == Points \cup {None}
Nodes == Points \cup {Sea}
States == Transporting \cup Expeditions \cup Explorations \cup {"unbuilt", "idle", "to_harbour"}
Vessel == [goal : Coasts, state : States, home : Coasts, at : Nodes, step : Nodes \cup {None},
           route : Seq(Nodes), pos : Nat, tasks : Nat, lost : BOOLEAN, covered : Nat,
           hold : SUBSET Items]
Item == [goal : Points \cup Works \cup {None}, spot : Coasts, onship : BOOLEAN]
Stages == {"off", "gathering", "ready"}
Scenes ==
  [harbors : SUBSET Points, works : SUBSET Works, sites : SUBSET Points,
   expedition : [Points -> Stages], exploration : [Points -> Stages],
   stock : [Points -> Nat], queue : [Points -> SUBSET Items], item : [Items -> Item],
   ship : [Ships -> Vessel], failed : BOOLEAN, supply : 0..Sets, razed : 0..MaxRazed,
   letdown : BOOLEAN]

(* A ship under way has a step to make, after which it has arrived, or has *)
(* not come to the end of its route.                                       *)
Course(u) ==
  /\ u.step \in Nodes /\ u.tasks = 0 /\ ~u.lost /\ u.goal \in Points
  /\ u.pos <= Len(u.route) /\ (u.pos = Len(u.route) <=> u.step = u.goal)
(* A ship at a coast, with so many events to come. *)
Moored(u, tasks) ==
  /\ u.step = None /\ u.tasks = tasks /\ ~u.lost /\ u.at \in Points /\ u.pos = Len(u.route)
Anchored(u, tasks) == Moored(u, tasks) /\ u.at = u.goal

ShipOK(u, hs) ==
  /\ u.state \notin Transporting => u.hold = {}
  /\ u.state \in Expeditions \cup Explorations => u.home \in hs
  /\ u.state = "unbuilt" => u = Unbuilt
  /\ u.state = "idle" =>
       /\ u.step = None /\ u.tasks = 0 /\ ~u.lost
       /\ u.at = Sea \/ u.pos = Len(u.route)
  /\ u.state \in {"to_harbour", "expedition_driving", "exploration_driving"} => Course(u)
  /\ u.state = "to_harbour" => u.step = Sea \/ u.pos = Len(u.route)
  /\ u.state = "transport_loading" =>
       Moored(u, 1) /\ u.at = u.home /\ u.goal \in hs \ {u.home}
  /\ u.state = "transport_driving" =>
       \/ Course(u) /\ (u.goal \notin hs => hs = {})
       \/ u.lost /\ u.step = None /\ u.tasks = 0 /\ hs = {}
  /\ u.state = "transport_unloading" => Anchored(u, 1) /\ u.goal \in hs
  /\ u.state = "expedition_waiting" => Anchored(u, 0)
  /\ u.state \in {"expedition_loading", "expedition_unloading", "exploration_loading",
                  "exploration_unloading", "exploration_waiting"} => Anchored(u, 1)
  /\ u.state \in {"expedition_loading", "expedition_unloading", "exploration_loading",
                  "exploration_unloading"} => u.goal = u.home
Fleet(s, hs, X) == \A x \in X : ShipOK(s.ship[x], hs)

(* Everybody is ashore, in one queue or in one hold. *)
InQueue(s, i) == {h \in Points : i \in s.queue[h]}
InHold(s, i) == {x \in Ships : i \in s.ship[x].hold}
Placed(s, i) ==
  \/ s.item[i] = Ashore /\ InQueue(s, i) = {} /\ InHold(s, i) = {}
  \/ /\ s.item[i].spot \in Points
     /\ \/ (\E h \in Points : InQueue(s, i) = {h}) /\ InHold(s, i) = {}
        \/ InQueue(s, i) = {} /\ \E x \in Ships : InHold(s, i) = {x}

(* Those who wait do so for harbours, those aboard know where they go. *)
BoundOK(s, h, i, hs) == h \in hs /\ s.item[i].spot \in hs \ {h}
Bound(s, hs) == \A h \in Points : \A i \in s.queue[h] : BoundOK(s, h, i, hs)
AwareOf(s, u) ==
  \A i \in u.hold \cap Figures :
     /\ s.item[i].goal # None => s.item[i].spot = u.goal
     /\ u.lost => s.item[i].goal = None
Aware(s, x) == AwareOf(s, s.ship[x])

Stored(s) == UNION {{h} \X (1..s.stock[h]) : h \in Points}
Ready(s) == {h \in Points : s.expedition[h] = "ready"}
Abroad(s) == {x \in Ships : s.ship[x].state \in Expeditions}
Supplied(s) ==
  s.supply = Cardinality(Stored(s)) + Cardinality(s.sites)
             + Cardinality(Ready(s)) + Cardinality(Abroad(s))

(* All is well but for the ships X, and the items I, which are nowhere. *)
Nowhere(s, i) == InQueue(s, i) = {} /\ InHold(s, i) = {}
GoodBut(s, X, I) ==
  /\ s \in Scenes /\ ~s.failed
  /\ Fleet(s, s.harbors, Ships \ X)
  /\ \A i \in Items \ I : Placed(s, i)
  /\ \A i \in I : Nowhere(s, i)
  /\ Bound(s, s.harbors)
  /\ \A x \in Ships : Aware(s, x)
  /\ Supplied(s)
Good(s) == GoodBut(s, {}, {})
IInv == Good(Scene)

-----------------------------------------------------------------------------
(* Calls for all of a list.                                                *)

Call(kind, h, t, x) ==
  CASE kind = "call" -> CallShip(t, x)
    [] kind = "land" -> ReceiveFigure(t, h, x)
    [] kind = "end" -> HarborDestroyed(t, x, h)
    [] kind = "new" -> NewHarborBuilt(t, x, h)

Calls(kind, h, s, q, m, g) ==
  g = [n \in 0..m |-> IF n = 0 THEN {s} ELSE UNION {Call(kind, h, t, q[n]) : t \in g[n - 1]}]

(* A set of numbers has a least one. *)
LEMMA Least ==
  ASSUME NEW S, S \subseteq Nat, S # {}
  PROVE  \E x \in S : \A y \in S : x <= y
<1> DEFINE R == {ss \in Nat \X Nat : ss[1] < ss[2]}
<1>1. IsWellFoundedOn(R, Nat)
  BY NatLessThanWellFounded, Zenon DEF OpToRel
<1>2. \E x \in S : \A y \in S : <<y, x>> \notin R
  <2> HIDE DEF R
  <2> QED BY <1>1, WFMin, Zenon
<1>3. PICK x \in S : \A y \in S : <<y, x>> \notin R
  BY <1>2
<1>4. \A y \in S : ~(y < x)
  <2> SUFFICES ASSUME NEW y \in S, y < x PROVE FALSE
    OBVIOUS
  <2> QED BY <1>3
<1> QED BY <1>4

(* The recursion over the list has a result. *)
LEMMA CallsEnd ==
  ASSUME NEW kind, NEW h, NEW s, NEW q, NEW m \in Nat
  PROVE  \E g : Calls(kind, h, s, q, m, g)
<1> DEFINE S == {n \in Nat : ~\E g : Calls(kind, h, s, q, n, g)}
<1> SUFFICES ASSUME S # {} PROVE FALSE
  OBVIOUS
<1>1. PICK n \in S : \A y \in S : n <= y
  BY Least
<1>2. n \in Nat /\ ~\E g : Calls(kind, h, s, q, n, g)
  OBVIOUS
<1> DEFINE X(a, i) == UNION {Call(kind, h, t, q[i]) : t \in a}
<1>3. CASE n = 0
  <2> DEFINE g == [i \in 0..0 |-> {s}]
  <2>1. \A i \in 0..0 : i = 0
    OBVIOUS
  <2> HIDE DEF X
  <2>2. g = [i \in 0..0 |-> IF i = 0 THEN {s} ELSE X(g[i - 1], i)]
    BY <2>1
  <2> QED BY <1>2, <1>3, <2>2 DEF Calls, X
<1>4. CASE n # 0
  <2>1. n - 1 \in Nat /\ n - 1 \notin S
    BY <1>1, <1>2, <1>4
  <2>2. PICK g : Calls(kind, h, s, q, n - 1, g)
    BY <2>1
  <2> DEFINE f == [i \in 0..n |-> IF i = n THEN X(g[n - 1], n) ELSE g[i]]
  <2>3. g = [i \in 0..(n - 1) |-> IF i = 0 THEN {s} ELSE X(g[i - 1], i)]
    BY <2>2 DEF Calls
  <2> HIDE DEF X
  <2>4. \A i \in 0..(n - 1) : g[i] = IF i = 0 THEN {s} ELSE X(g[i - 1], i)
    BY <2>3
  <2>5. \A i \in 0..n : i # 0 => f[i - 1] = g[i - 1]
    BY <1>2
  <2>6. \A i \in 0..n : f[i] = IF i = 0 THEN {s} ELSE X(f[i - 1], i)
    <3> SUFFICES ASSUME NEW i \in 0..n PROVE f[i] = IF i = 0 THEN {s} ELSE X(f[i - 1], i)
      OBVIOUS
    <3>1. CASE i = n
      BY <1>2, <1>4, <2>5, <3>1
    <3>2. CASE i # n
      <4>1. i \in 0..(n - 1) /\ f[i] = g[i]
        BY <1>2, <3>2
      <4>2. i # 0 => f[i - 1] = g[i - 1]
        BY <2>5
      <4> HIDE DEF f
      <4> QED BY <2>4, <4>1, <4>2
    <3> QED BY <3>1, <3>2
  <2>7. f = [i \in 0..n |-> IF i = 0 THEN {s} ELSE X(f[i - 1], i)]
    <3>1. f = [i \in 0..n |-> f[i]]
      OBVIOUS
    <3> HIDE DEF f
    <3> QED BY <2>6, <3>1
  <2>8. Calls(kind, h, s, q, n, f)
    BY <2>7 DEF Calls, X
  <2> QED BY <1>2, <2>8
<1> QED BY <1>3, <1>4

(* What the n-th call keeps of what was so before it, is so after all. *)
Keeps(kind, h, q, m, R) ==
  \A n \in 1..m : \A t \in R[n - 1] : Call(kind, h, t, q[n]) \subseteq R[n]
LEMMA CallsKeep ==
  ASSUME NEW kind, NEW h, NEW s, NEW q, NEW m \in Nat, NEW g, Calls(kind, h, s, q, m, g),
         NEW R, s \in R[0], Keeps(kind, h, q, m, R)
  PROVE  g[m] \subseteq R[m]
<1> DEFINE S == {n \in 0..m : ~(g[n] \subseteq R[n])}
<1> SUFFICES ASSUME S # {} PROVE FALSE
  OBVIOUS
<1>1. PICK n \in S : \A y \in S : n <= y
  <2>1. S \subseteq Nat
    OBVIOUS
  <2> HIDE DEF S
  <2> QED BY <2>1, Least
<1>2. n \in 0..m /\ ~(g[n] \subseteq R[n])
  OBVIOUS
<1> DEFINE X(a, i) == UNION {Call(kind, h, t, q[i]) : t \in a}
<1>3. g[n] = IF n = 0 THEN {s} ELSE X(g[n - 1], n)
  <2>1. g = [i \in 0..m |-> IF i = 0 THEN {s} ELSE X(g[i - 1], i)]
    BY DEF Calls
  <2> HIDE DEF X
  <2> QED BY <1>2, <2>1
<1>4. n # 0
  BY <1>2, <1>3
<1>5. n - 1 \in 0..m /\ n - 1 \notin S
  BY <1>1, <1>2, <1>4
<1>6. g[n - 1] \subseteq R[n - 1]
  BY <1>5
<1>7. n \in 1..m
  BY <1>2, <1>4
<1>8. X(g[n - 1], n) \subseteq R[n]
  BY <1>6, <1>7 DEF Keeps
<1> QED BY <1>2, <1>3, <1>4, <1>8

Called(s, h, q) == InOrder(s, q, LAMBDA t, x : CallShip(t, x))

LEMMA CalledAll ==
  ASSUME NEW h, NEW s, NEW q, Len(q) \in Nat, NEW R, s \in R[0],
         \A n \in 1..Len(q) : \A t \in R[n - 1] : CallShip(t, q[n]) \subseteq R[n],
         NEW v \in Called(s, h, q)
  PROVE  v \in R[Len(q)]
<1> DEFINE P(g) == g = [n \in 0..Len(q) |->
                         IF n = 0 THEN {s} ELSE UNION {CallShip(t, q[n]) : t \in g[n - 1]}]
           after == CHOOSE g : P(g)
<1>1. v \in after[Len(q)]
  BY DEF InOrder, Called
<1>2. \A t, x : Call("call", h, t, x) = CallShip(t, x)
  BY DEF Call
<1>3. \A g : P(g) <=> Calls("call", h, s, q, Len(q), g)
  BY DEF Calls, Call
<1>4. \E g : P(g)
  BY <1>3, CallsEnd
<1> HIDE DEF P
<1>5. P(after)
  BY <1>4
<1> HIDE DEF after
<1>6. Calls("call", h, s, q, Len(q), after)
  BY <1>3, <1>5
<1>7. Keeps("call", h, q, Len(q), R)
  BY <1>2 DEF Keeps
<1>8. after[Len(q)] \subseteq R[Len(q)]
  BY <1>6, <1>7, CallsKeep
<1> QED BY <1>1, <1>8

Landed(s, h, q) == InOrder(s, q, LAMBDA t, x : ReceiveFigure(t, h, x))

LEMMA LandedAll ==
  ASSUME NEW h, NEW s, NEW q, Len(q) \in Nat, NEW R, s \in R[0],
         \A n \in 1..Len(q) : \A t \in R[n - 1] : ReceiveFigure(t, h, q[n]) \subseteq R[n],
         NEW v \in Landed(s, h, q)
  PROVE  v \in R[Len(q)]
<1> DEFINE P(g) == g = [n \in 0..Len(q) |->
                         IF n = 0 THEN {s} ELSE UNION {ReceiveFigure(t, h, q[n]) : t \in g[n - 1]}]
           after == CHOOSE g : P(g)
<1>1. v \in after[Len(q)]
  BY DEF InOrder, Landed
<1>2. \A t, x : Call("land", h, t, x) = ReceiveFigure(t, h, x)
  BY DEF Call
<1>3. \A g : P(g) <=> Calls("land", h, s, q, Len(q), g)
  BY DEF Calls, Call
<1>4. \E g : P(g)
  BY <1>3, CallsEnd
<1> HIDE DEF P
<1>5. P(after)
  BY <1>4
<1> HIDE DEF after
<1>6. Calls("land", h, s, q, Len(q), after)
  BY <1>3, <1>5
<1>7. Keeps("land", h, q, Len(q), R)
  BY <1>2 DEF Keeps
<1>8. after[Len(q)] \subseteq R[Len(q)]
  BY <1>6, <1>7, CallsKeep
<1> QED BY <1>1, <1>8

Warned(s, h, q) == InOrder(s, q, LAMBDA t, x : HarborDestroyed(t, x, h))

LEMMA WarnedAll ==
  ASSUME NEW h, NEW s, NEW q, Len(q) \in Nat, NEW R, s \in R[0],
         \A n \in 1..Len(q) : \A t \in R[n - 1] : HarborDestroyed(t, q[n], h) \subseteq R[n],
         NEW v \in Warned(s, h, q)
  PROVE  v \in R[Len(q)]
<1> DEFINE P(g) == g = [n \in 0..Len(q) |->
                         IF n = 0 THEN {s} ELSE UNION {HarborDestroyed(t, q[n], h) : t \in g[n - 1]}]
           after == CHOOSE g : P(g)
<1>1. v \in after[Len(q)]
  BY DEF InOrder, Warned
<1>2. \A t, x : Call("end", h, t, x) = HarborDestroyed(t, x, h)
  BY DEF Call
<1>3. \A g : P(g) <=> Calls("end", h, s, q, Len(q), g)
  BY DEF Calls, Call
<1>4. \E g : P(g)
  BY <1>3, CallsEnd
<1> HIDE DEF P
<1>5. P(after)
  BY <1>4
<1> HIDE DEF after
<1>6. Calls("end", h, s, q, Len(q), after)
  BY <1>3, <1>5
<1>7. Keeps("end", h, q, Len(q), R)
  BY <1>2 DEF Keeps
<1>8. after[Len(q)] \subseteq R[Len(q)]
  BY <1>6, <1>7, CallsKeep
<1> QED BY <1>1, <1>8

Hailed(s, h, q) == InOrder(s, q, LAMBDA t, x : NewHarborBuilt(t, x, h))

LEMMA HailedAll ==
  ASSUME NEW h, NEW s, NEW q, Len(q) \in Nat, NEW R, s \in R[0],
         \A n \in 1..Len(q) : \A t \in R[n - 1] : NewHarborBuilt(t, q[n], h) \subseteq R[n],
         NEW v \in Hailed(s, h, q)
  PROVE  v \in R[Len(q)]
<1> DEFINE P(g) == g = [n \in 0..Len(q) |->
                         IF n = 0 THEN {s} ELSE UNION {NewHarborBuilt(t, q[n], h) : t \in g[n - 1]}]
           after == CHOOSE g : P(g)
<1>1. v \in after[Len(q)]
  BY DEF InOrder, Hailed
<1>2. \A t, x : Call("new", h, t, x) = NewHarborBuilt(t, x, h)
  BY DEF Call
<1>3. \A g : P(g) <=> Calls("new", h, s, q, Len(q), g)
  BY DEF Calls, Call
<1>4. \E g : P(g)
  BY <1>3, CallsEnd
<1> HIDE DEF P
<1>5. P(after)
  BY <1>4
<1> HIDE DEF after
<1>6. Calls("new", h, s, q, Len(q), after)
  BY <1>3, <1>5
<1>7. Keeps("new", h, q, Len(q), R)
  BY <1>2 DEF Keeps
<1>8. after[Len(q)] \subseteq R[Len(q)]
  BY <1>6, <1>7, CallsKeep
<1> QED BY <1>1, <1>8

(* An order of a finite set. *)
LEMMA Ordered ==
  ASSUME NEW S, IsFiniteSet(S), NEW q \in SetToSeqs(S)
  PROVE  /\ Len(q) \in Nat /\ q \in [1..Len(q) -> S]
         /\ \A e \in S : \E n \in 1..Len(q) : q[n] = e
         /\ \A n, k \in 1..Len(q) : q[n] = q[k] => n = k
<1> DEFINE n == Cardinality(S)
<1>1. n \in Nat
  BY FS_CardinalityType
<1>2. q \in [1..n -> S] /\ \A i, k \in 1..n : i # k => q[i] # q[k]
  BY DEF SetToSeqs
<1>3. q \in Injection(1..n, S)
  BY <1>2 DEF Injection, IsInjective
<1>4. Cardinality(1..n) = n
  BY <1>1, FS_Interval
<1>5. q \in Surjection(1..n, S)
  BY <1>3, <1>4, FS_Injection
<1> HIDE DEF n
<1>6. q \in Seq(S) /\ Len(q) = n
  BY <1>1, <1>2
<1>7. \A e \in S : \E i \in 1..n : q[i] = e
  BY <1>5 DEF Surjection
<1> QED BY <1>1, <1>2, <1>6, <1>7

-----------------------------------------------------------------------------
(* Scenes and ships.                                                       *)

LEMMA Fields ==
  ASSUME NEW s \in Scenes
  PROVE  /\ s.harbors \in SUBSET Points /\ s.works \in SUBSET Works /\ s.sites \in SUBSET Points
         /\ s.expedition \in [Points -> Stages] /\ s.exploration \in [Points -> Stages]
         /\ s.stock \in [Points -> Nat] /\ s.queue \in [Points -> SUBSET Items]
         /\ s.item \in [Items -> Item] /\ s.ship \in [Ships -> Vessel]
         /\ s.failed \in BOOLEAN /\ s.supply \in 0..Sets /\ s.razed \in 0..MaxRazed /\ s.letdown \in BOOLEAN
BY DEF Scenes

LEMMA VesselFields ==
  ASSUME NEW u \in Vessel
  PROVE  /\ u.goal \in Coasts /\ u.state \in States /\ u.home \in Coasts /\ u.at \in Nodes
         /\ u.step \in Nodes \cup {None} /\ u.route \in Seq(Nodes) /\ u.pos \in Nat /\ u.tasks \in Nat
         /\ u.lost \in BOOLEAN /\ u.covered \in Nat /\ u.hold \in SUBSET Items
BY DEF Vessel

LEMMA ItemFields ==
  ASSUME NEW u \in Item
  PROVE  u.goal \in Points \cup Works \cup {None} /\ u.spot \in Coasts /\ u.onship \in BOOLEAN
BY DEF Item

LEMMA Names == None \notin Points /\ None \notin Works /\ Sea \notin Points /\ Sea # None
BY ShipsAssumption

LEMMA NowIs ==
  ASSUME NEW s \in Scenes, NEW x \in Ships, NEW u \in Vessel
  PROVE  /\ Now(s, x, u) \in Scenes
         /\ Now(s, x, u).ship = [s.ship EXCEPT ![x] = u]
         /\ Now(s, x, u).harbors = s.harbors /\ Now(s, x, u).works = s.works
         /\ Now(s, x, u).sites = s.sites /\ Now(s, x, u).expedition = s.expedition
         /\ Now(s, x, u).exploration = s.exploration /\ Now(s, x, u).stock = s.stock
         /\ Now(s, x, u).queue = s.queue /\ Now(s, x, u).item = s.item
         /\ Now(s, x, u).failed = s.failed /\ Now(s, x, u).supply = s.supply
         /\ Now(s, x, u).razed = s.razed /\ Now(s, x, u).letdown = s.letdown
BY Fields DEF Now, Scenes

LEMMA NowShips ==
  ASSUME NEW s \in Scenes, NEW x \in Ships, NEW u \in Vessel
  PROVE  /\ Now(s, x, u).ship[x] = u
         /\ \A y \in Ships \ {x} : Now(s, x, u).ship[y] = s.ship[y]
<1>1. s.ship \in [Ships -> Vessel]
  BY Fields
<1>2. Now(s, x, u).ship = [s.ship EXCEPT ![x] = u]
  BY NowIs
<1> QED BY <1>1, <1>2

LEMMA NowTwice ==
  ASSUME NEW s \in Scenes, NEW x \in Ships, NEW u \in Vessel, NEW v \in Vessel
  PROVE  Now(Now(s, x, u), x, v) = Now(s, x, v)
BY Fields DEF Now, Scenes

(* Another state of a ship moves nobody. *)
LEMMA NowPlaces ==
  ASSUME NEW s \in Scenes, NEW x \in Ships, NEW u \in Vessel, u.hold = s.ship[x].hold, NEW i \in Items
  PROVE  /\ InQueue(Now(s, x, u), i) = InQueue(s, i) /\ InHold(Now(s, x, u), i) = InHold(s, i)
         /\ Placed(Now(s, x, u), i) <=> Placed(s, i)
         /\ Nowhere(Now(s, x, u), i) <=> Nowhere(s, i)
<1>1. Now(s, x, u).queue = s.queue /\ Now(s, x, u).item = s.item
  BY NowIs
<1>2. \A y \in Ships : Now(s, x, u).ship[y].hold = s.ship[y].hold
  BY NowShips
<1>3. InQueue(Now(s, x, u), i) = InQueue(s, i)
  BY <1>1 DEF InQueue
<1>4. InHold(Now(s, x, u), i) = InHold(s, i)
  BY <1>2 DEF InHold
<1> QED BY <1>1, <1>3, <1>4 DEF Placed, Nowhere

LEMMA NowSupplied ==
  ASSUME NEW s \in Scenes, NEW x \in Ships, NEW u \in Vessel, Supplied(s),
         u.state \in Expeditions <=> s.ship[x].state \in Expeditions
  PROVE  Supplied(Now(s, x, u))
<1>1. /\ Now(s, x, u).stock = s.stock /\ Now(s, x, u).sites = s.sites
      /\ Now(s, x, u).expedition = s.expedition /\ Now(s, x, u).supply = s.supply
  BY NowIs, ZenonT(30)
<1>2. \A y \in Ships : Now(s, x, u).ship[y].state \in Expeditions <=> s.ship[y].state \in Expeditions
  BY NowShips
<1>3. Abroad(Now(s, x, u)) = Abroad(s)
  BY <1>2 DEF Abroad
<1> QED BY <1>1, <1>3 DEF Supplied, Stored, Ready

LEMMA NowAware ==
  ASSUME NEW s \in Scenes, NEW x \in Ships, NEW u \in Vessel, AwareOf(s, u),
         \A y \in Ships : Aware(s, y)
  PROVE  \A y \in Ships : Aware(Now(s, x, u), y)
<1>1. Now(s, x, u).item = s.item
  BY NowIs
<1> QED BY <1>1, NowShips DEF Aware, AwareOf

(* A ship in another state, well or not. *)
LEMMA Changes ==
  ASSUME NEW X, NEW I, I \subseteq Items, NEW s, GoodBut(s, X, I), NEW x \in Ships, NEW u \in Vessel,
         u.hold = s.ship[x].hold, u.state \in Expeditions <=> s.ship[x].state \in Expeditions,
         AwareOf(s, u)
  PROVE  /\ GoodBut(Now(s, x, u), X \cup {x}, I)
         /\ ShipOK(u, s.harbors) => GoodBut(Now(s, x, u), X \ {x}, I)
<1> DEFINE t == Now(s, x, u)
<1>1. /\ s \in Scenes /\ ~s.failed /\ Fleet(s, s.harbors, Ships \ X) /\ Bound(s, s.harbors)
      /\ \A i \in Items \ I : Placed(s, i)
      /\ \A i \in I : Nowhere(s, i)
      /\ \A y \in Ships : Aware(s, y)
      /\ Supplied(s)
  BY DEF GoodBut
<1>2. /\ t \in Scenes /\ t.harbors = s.harbors /\ t.failed = s.failed /\ t.queue = s.queue
      /\ t.item = s.item
  BY <1>1, NowIs
<1>3. t.ship[x] = u /\ \A y \in Ships \ {x} : t.ship[y] = s.ship[y]
  BY <1>1, NowShips
<1>4. Supplied(t)
  BY <1>1, NowSupplied
<1>5. \A y \in Ships : Aware(t, y)
  BY <1>1, NowAware
<1>6. \A i \in Items : (Placed(t, i) <=> Placed(s, i)) /\ (Nowhere(t, i) <=> Nowhere(s, i))
  BY <1>1, NowPlaces
<1>7. Bound(t, t.harbors)
  BY <1>1, <1>2 DEF Bound, BoundOK
<1> HIDE DEF t
<1>8. Fleet(t, t.harbors, Ships \ (X \cup {x}))
  BY <1>1, <1>2, <1>3 DEF Fleet
<1>9. ShipOK(u, s.harbors) => Fleet(t, t.harbors, Ships \ (X \ {x}))
  BY <1>1, <1>2, <1>3 DEF Fleet
<1> QED BY <1>1, <1>2, <1>4, <1>5, <1>6, <1>7, <1>8, <1>9 DEF GoodBut, t

LEMMA Settles ==
  ASSUME NEW s, NEW x \in Ships, GoodBut(s, {x}, {}), NEW u \in Vessel,
         u.hold = s.ship[x].hold, u.state \in Expeditions <=> s.ship[x].state \in Expeditions,
         AwareOf(s, u), ShipOK(u, s.harbors)
  PROVE  Good(Now(s, x, u))
<1>1. {x} \ {x} = {} /\ {} \subseteq Items
  OBVIOUS
<1>2. ShipOK(u, s.harbors) => GoodBut(Now(s, x, u), {x} \ {x}, {})
  BY <1>1, Changes
<1> QED BY <1>1, <1>2 DEF Good

(* Who is well needs no exception. *)
LEMMA IsWell ==
  ASSUME NEW X, NEW I, NEW s, GoodBut(s, X, I), NEW x \in Ships, ShipOK(s.ship[x], s.harbors)
  PROVE  GoodBut(s, X \ {x}, I)
BY DEF GoodBut, Fleet

LEMMA Excepted ==
  ASSUME NEW s, Good(s), NEW X
  PROVE  GoodBut(s, X, {})
BY DEF Good, GoodBut, Fleet

-----------------------------------------------------------------------------
(* Driving.                                                                *)

LEMMA RouteIs ==
  ASSUME NEW a \in Nodes, NEW b \in Points, a # b
  PROVE  /\ Route(a, b) \in Seq(Nodes) /\ Len(Route(a, b)) \in Nat /\ Len(Route(a, b)) > 0
         /\ Route(a, b)[1] \in Nodes
         /\ Len(Route(a, b)) = 1 <=> Route(a, b)[1] = b
         /\ Route(a, b)[1] = Sea \/ Len(Route(a, b)) = 1
<1>1. CASE a = Sea
  <2>1. Route(a, b) = <<b>>
    BY <1>1 DEF Route
  <2> QED BY <2>1 DEF Nodes
<1>2. CASE a # Sea
  <2>1. Route(a, b) = <<Sea, b>>
    BY <1>2 DEF Route
  <2> QED BY <2>1, Names DEF Nodes
<1> QED BY <1>1, <1>2

(* A ship at a node which has arrived, or not come to the end of its route. *)
Afloat(u) ==
  /\ u.step = None /\ u.tasks = 0 /\ ~u.lost /\ u.goal \in Points
  /\ u.pos <= Len(u.route) /\ (u.pos = Len(u.route) <=> u.at = u.goal)

(* The same ship under way. *)
Sails(u, v) ==
  /\ v \in Vessel /\ Course(v) /\ (v.step = Sea \/ v.pos = Len(v.route))
  /\ v.goal = u.goal /\ v.state = u.state /\ v.home = u.home /\ v.covered = u.covered
  /\ v.hold = u.hold

LEMMA StartIs ==
  ASSUME NEW s \in Scenes, ~s.failed, NEW x \in Ships, s.ship[x].step = None,
         s.ship[x].tasks = 0, ~s.ship[x].lost, s.ship[x].goal \in Points,
         s.ship[x].pos < Len(s.ship[x].route),
         s.ship[x].pos + 1 = Len(s.ship[x].route)
           <=> s.ship[x].route[s.ship[x].pos + 1] = s.ship[x].goal,
         s.ship[x].route[s.ship[x].pos + 1] = Sea \/ s.ship[x].pos + 1 = Len(s.ship[x].route)
  PROVE  \E v : Sails(s.ship[x], v) /\ StartDriving(s, x) = Now(s, x, v)
<1> DEFINE u == s.ship[x]
           n == u.route[u.pos + 1]
           p == u.pos + 1
           v == [u EXCEPT !.step = n, !.pos = p]
           t == Now(s, x, v)
<1>1. u \in Vessel
  BY Fields
<1> HIDE DEF u
<1>2. u.pos \in Nat /\ u.route \in Seq(Nodes) /\ u.pos < Len(u.route)
  BY <1>1, VesselFields DEF u
<1>3. u.pos + 1 \in 1..Len(u.route) /\ u.route[u.pos + 1] \in Nodes
  BY <1>2
<1>4. v \in Vessel
  <2>1. n \in Nodes /\ p \in Nat
    BY <1>2, <1>3
  <2> HIDE DEF n, p
  <2> QED BY <1>1, <2>1 DEF Vessel
<1>5. /\ v.step = u.route[u.pos + 1] /\ v.pos = u.pos + 1 /\ v.goal = u.goal /\ v.state = u.state
      /\ v.home = u.home /\ v.covered = u.covered /\ v.hold = u.hold /\ v.route = u.route
      /\ v.tasks = u.tasks /\ v.lost = u.lost
  BY <1>1 DEF Vessel
<1> HIDE DEF v
<1>6. Course(v)
  BY <1>2, <1>3, <1>5 DEF Course, u
<1>7. Sails(u, v)
  <2>1. v.step = Sea \/ v.pos = Len(v.route)
    BY <1>5 DEF u
  <2> QED BY <1>4, <1>5, <1>6, <2>1 DEF Sails
<1>8. t \in Scenes /\ t.failed = FALSE
  <2>1. t \in Scenes /\ t.failed = s.failed
    BY <1>4, NowIs
  <2>2. s.failed = FALSE
    BY Fields
  <2> QED BY <2>1, <2>2
<1> HIDE DEF t
<1>9. StartDriving(s, x) = [t EXCEPT !.failed = t.failed \/ u.step # None]
  BY DEF StartDriving, t, v, u
<1>10. (t.failed \/ u.step # None) = FALSE
  BY <1>8 DEF u
<1>11. [t EXCEPT !.failed = FALSE] = t
  BY <1>8 DEF Scenes
<1> QED BY <1>7, <1>9, <1>10, <1>11 DEF t, u

LEMMA LeftIs ==
  ASSUME NEW q \in Seq(Nodes), NEW p \in Nat, p < Len(q)
  PROVE  Len(SubSeq(q, p + 1, Len(q))) = Len(q) - p /\ SubSeq(q, p + 1, Len(q))[1] = q[p + 1]
OBVIOUS

LEMMA PlaceIs ==
  ASSUME NEW s \in Scenes, ~s.failed, NEW x \in Ships, Afloat(s.ship[x])
  PROVE  /\ s.ship[x].at = s.ship[x].goal =>
              DriveToHarbourPlace(s, x) = [result |-> "reached", scene |-> s]
         /\ s.ship[x].at # s.ship[x].goal =>
              \E v : /\ Sails(s.ship[x], v)
                     /\ DriveToHarbourPlace(s, x) = [result |-> "driving", scene |-> Now(s, x, v)]
<1> DEFINE u == s.ship[x]
           left == SubSeq(u.route, u.pos + 1, Len(u.route))
           r == Route(u.at, u.goal)
           w == [u EXCEPT !.route = r, !.pos = 0]
<1>1. u \in Vessel
  BY Fields
<1>2. /\ u.pos \in Nat /\ u.route \in Seq(Nodes) /\ u.at \in Nodes /\ u.goal \in Points
      /\ Len(u.route) \in Nat
  BY <1>1, VesselFields DEF Afloat
<1>3. /\ u.step = None /\ u.tasks = 0 /\ ~u.lost
      /\ u.pos <= Len(u.route) /\ (u.pos = Len(u.route) <=> u.at = u.goal)
  BY DEF Afloat
<1>4. CASE u.at = u.goal
  BY <1>2, <1>3, <1>4 DEF DriveToHarbourPlace
<1>5. CASE u.at # u.goal
  <2>1. u.pos < Len(u.route)
    BY <1>2, <1>3, <1>5
  <2>2. DriveToHarbourPlace(s, x) =
          [result |-> "driving",
           scene |-> StartDriving(IF left = r THEN s ELSE Now(s, x, w), x)]
    BY <2>1, <1>2, <1>5, SMTT(30) DEF DriveToHarbourPlace
  <2>3. /\ r \in Seq(Nodes) /\ Len(r) \in Nat /\ Len(r) > 0 /\ r[1] \in Nodes
        /\ Len(r) = 1 <=> r[1] = u.goal
        /\ r[1] = Sea \/ Len(r) = 1
    BY <1>2, <1>5, RouteIs
  <2>4. CASE left = r
    <3>1. Len(left) = Len(u.route) - u.pos /\ left[1] = u.route[u.pos + 1]
      BY <1>2, <2>1, LeftIs
    <3>2. /\ u.pos + 1 = Len(u.route) <=> u.route[u.pos + 1] = u.goal
          /\ u.route[u.pos + 1] = Sea \/ u.pos + 1 = Len(u.route)
      <4> HIDE DEF left, r, u
      <4> QED BY <1>2, <2>1, <2>3, <2>4, <3>1
    <3> HIDE DEF left, r
    <3>3. PICK v : Sails(u, v) /\ StartDriving(s, x) = Now(s, x, v)
      BY <1>2, <1>3, <2>1, <3>2, StartIs
    <3> QED BY <1>5, <2>2, <2>4, <3>3
  <2>5. CASE left # r
    <3> HIDE DEF left, r
    <3>1. w \in Vessel
      BY <1>1, <2>3 DEF Vessel
    <3>2. /\ w.route = r /\ w.pos = 0 /\ w.goal = u.goal /\ w.state = u.state
          /\ w.home = u.home /\ w.covered = u.covered /\ w.hold = u.hold /\ w.step = u.step
          /\ w.tasks = u.tasks /\ w.lost = u.lost
      BY <1>1 DEF Vessel
    <3> DEFINE t == Now(s, x, w)
    <3> HIDE DEF u, w
    <3>3. t \in Scenes /\ t.ship[x] = w /\ t.failed = s.failed
      <4>1. t \in Scenes /\ t.failed = s.failed
        BY <3>1, NowIs
      <4>2. t.ship[x] = w
        BY <3>1, NowShips
      <4> QED BY <4>1, <4>2
    <3> HIDE DEF t
    <3>4. PICK v : Sails(w, v) /\ StartDriving(t, x) = Now(t, x, v)
      <4>1. t \in Scenes /\ ~t.failed
        BY <3>3
      <4>2. /\ t.ship[x].step = None /\ t.ship[x].tasks = 0 /\ ~t.ship[x].lost
            /\ t.ship[x].goal \in Points
        BY <1>2, <1>3, <3>2, <3>3
      <4>3. /\ t.ship[x].pos < Len(t.ship[x].route)
            /\ t.ship[x].pos + 1 = Len(t.ship[x].route)
                 <=> t.ship[x].route[t.ship[x].pos + 1] = t.ship[x].goal
            /\ \/ t.ship[x].route[t.ship[x].pos + 1] = Sea
               \/ t.ship[x].pos + 1 = Len(t.ship[x].route)
        <5>1. t.ship[x].pos = 0 /\ t.ship[x].route = r /\ t.ship[x].goal = u.goal
          BY <3>2, <3>3
        <5>2. t.ship[x].pos + 1 = 1
          BY <5>1
        <5> QED BY <2>3, <5>1, <5>2
      <4>4. \E v : Sails(t.ship[x], v) /\ StartDriving(t, x) = Now(t, x, v)
        BY <4>1, <4>2, <4>3, StartIs
      <4> QED BY <3>3, <4>4
    <3>5. v \in Vessel
      BY <3>4 DEF Sails
    <3>6. Now(t, x, v) = Now(s, x, v)
      BY <3>1, <3>5, NowTwice DEF t
    <3>7. Sails(u, v)
      BY <3>2, <3>4 DEF Sails
    <3> QED BY <1>5, <2>2, <2>5, <3>4, <3>6, <3>7 DEF t, u
  <2> QED BY <2>4, <2>5
<1> QED BY <1>4, <1>5

(* The same ship at its place, whatever it does there. *)
Lies(u, v) ==
  /\ v \in Vessel /\ v.at = u.at /\ v.step = u.step /\ v.route = u.route /\ v.pos = u.pos
  /\ v.lost = u.lost /\ v.hold = u.hold

LEMMA AnchorsIs ==
  ASSUME NEW s \in Scenes, NEW x \in Ships, NEW st \in States
  PROVE  \E v : /\ Anchors(s, x, st) = Now(s, x, v) /\ Lies(s.ship[x], v)
                /\ v.state = st /\ v.tasks = s.ship[x].tasks + 1
                /\ v.goal = s.ship[x].goal /\ v.home = s.ship[x].home
                /\ v.covered = s.ship[x].covered
<1> DEFINE u == s.ship[x]
           k == u.tasks + 1
           v == [u EXCEPT !.state = st, !.tasks = k]
<1>1. u \in Vessel
  BY Fields
<1>2. k \in Nat
  BY <1>1, VesselFields
<1>3. Anchors(s, x, st) = Now(s, x, v)
  BY DEF Anchors
<1> HIDE DEF k, u
<1>4. v \in Vessel
  BY <1>1, <1>2 DEF Vessel
<1>5. /\ v.at = u.at /\ v.step = u.step /\ v.route = u.route /\ v.pos = u.pos
      /\ v.lost = u.lost /\ v.hold = u.hold /\ v.state = st /\ v.tasks = k
      /\ v.goal = u.goal /\ v.home = u.home /\ v.covered = u.covered
  BY <1>1 DEF Vessel
<1> HIDE DEF v
<1> QED BY <1>3, <1>4, <1>5 DEF Lies, u, k

LEMMA IdlingIs ==
  ASSUME NEW s \in Scenes, NEW x \in Ships
  PROVE  \E v : /\ StartIdling(s, x) = Now(s, x, v) /\ Lies(s.ship[x], v)
                /\ v.state = "idle" /\ v.tasks = s.ship[x].tasks
                /\ v.goal = s.ship[x].goal /\ v.home = s.ship[x].home
<1> DEFINE u == s.ship[x]
           v == [u EXCEPT !.state = "idle"]
<1>1. u \in Vessel
  BY Fields
<1>2. StartIdling(s, x) = Now(s, x, v)
  BY DEF StartIdling
<1> HIDE DEF u
<1>3. v \in Vessel
  BY <1>1 DEF Vessel, States
<1>4. /\ v.at = u.at /\ v.step = u.step /\ v.route = u.route /\ v.pos = u.pos
      /\ v.lost = u.lost /\ v.hold = u.hold /\ v.state = "idle" /\ v.tasks = u.tasks
      /\ v.goal = u.goal /\ v.home = u.home
  BY <1>1 DEF Vessel
<1> HIDE DEF v
<1> QED BY <1>2, <1>3, <1>4 DEF Lies, u

(* A transport goes on to a harbour that stands. *)
LEMMA Carrying ==
  ASSUME NEW s \in Scenes, ~s.failed, NEW x \in Ships, Afloat(s.ship[x]),
         s.ship[x].state = "transport_driving", s.ship[x].goal \in s.harbors
  PROVE  /\ DriveToHarbour(s, x).result # "gone"
         /\ \E v : /\ Carries(DriveToHarbour(s, x), x) = Now(s, x, v)
                   /\ v \in Vessel /\ v.hold = s.ship[x].hold /\ v.goal = s.ship[x].goal
                   /\ v.state \in {"transport_driving", "transport_unloading"}
                   /\ ~v.lost /\ ShipOK(v, s.harbors)
<1> DEFINE u == s.ship[x]
<1>1. DriveToHarbour(s, x) = DriveToHarbourPlace(s, x)
  BY DEF DriveToHarbour
<1>2. /\ u.step = None /\ u.tasks = 0 /\ ~u.lost /\ u.goal \in Points
      /\ u.pos <= Len(u.route) /\ (u.pos = Len(u.route) <=> u.at = u.goal)
  BY DEF Afloat
<1> HIDE DEF u
<1>3. CASE u.at = u.goal
  <2>1. DriveToHarbour(s, x) = [result |-> "reached", scene |-> s]
    BY <1>1, <1>3, PlaceIs DEF u
  <2>2. /\ DriveToHarbour(s, x).result = "reached"
        /\ Carries(DriveToHarbour(s, x), x) = Anchors(s, x, "transport_unloading")
    BY <2>1 DEF Carries
  <2>3. PICK v : /\ Anchors(s, x, "transport_unloading") = Now(s, x, v) /\ Lies(u, v)
                 /\ v.state = "transport_unloading" /\ v.tasks = u.tasks + 1 /\ v.goal = u.goal
    BY AnchorsIs DEF u, States, Transporting
  <2>4. ShipOK(v, s.harbors)
    BY <1>2, <1>3, <2>3 DEF ShipOK, Lies, Anchored, Moored, Transporting, Expeditions, Explorations, u
  <2> QED BY <1>2, <2>2, <2>3, <2>4 DEF Lies, u
<1>4. CASE u.at # u.goal
  <2>1. PICK v : /\ Sails(u, v)
                 /\ DriveToHarbour(s, x) = [result |-> "driving", scene |-> Now(s, x, v)]
    BY <1>1, <1>4, PlaceIs DEF u
  <2>2. /\ DriveToHarbour(s, x).result = "driving"
        /\ Carries(DriveToHarbour(s, x), x) = Now(s, x, v)
    BY <2>1 DEF Carries
  <2>3. ShipOK(v, s.harbors)
    BY <2>1 DEF ShipOK, Sails, Transporting, Expeditions, Explorations, u
  <2> QED BY <2>1, <2>2, <2>3 DEF Sails, Course, u
<1> QED BY <1>3, <1>4

-----------------------------------------------------------------------------
(* Items and queues.                                                       *)

Rearranged(s, f, g) == [s EXCEPT !.item = f, !.queue = g]

LEMMA Rearranges ==
  ASSUME NEW s \in Scenes, NEW f \in [Items -> Item], NEW g \in [Points -> SUBSET Items]
  PROVE  /\ Rearranged(s, f, g) \in Scenes
         /\ Rearranged(s, f, g).item = f /\ Rearranged(s, f, g).queue = g
         /\ Rearranged(s, f, g).harbors = s.harbors /\ Rearranged(s, f, g).works = s.works
         /\ Rearranged(s, f, g).sites = s.sites /\ Rearranged(s, f, g).expedition = s.expedition
         /\ Rearranged(s, f, g).exploration = s.exploration /\ Rearranged(s, f, g).stock = s.stock
         /\ Rearranged(s, f, g).ship = s.ship /\ Rearranged(s, f, g).failed = s.failed
         /\ Rearranged(s, f, g).supply = s.supply /\ Rearranged(s, f, g).razed = s.razed
         /\ Rearranged(s, f, g).letdown = s.letdown
BY Fields DEF Rearranged, Scenes

LEMMA Regroups ==
  ASSUME NEW X, NEW I, NEW s, GoodBut(s, X, I), NEW f \in [Items -> Item],
         NEW g \in [Points -> SUBSET Items], NEW t, t = Rearranged(s, f, g), NEW J,
         \A i \in Items \ J : Placed(t, i), \A i \in J : Nowhere(t, i), Bound(t, t.harbors),
         \A x \in Ships : AwareOf(t, s.ship[x])
  PROVE  GoodBut(t, X, J)
<1>1. s \in Scenes /\ ~s.failed /\ Fleet(s, s.harbors, Ships \ X) /\ Supplied(s)
  BY DEF GoodBut
<1>2. /\ t \in Scenes /\ t.harbors = s.harbors /\ t.sites = s.sites /\ t.expedition = s.expedition
      /\ t.stock = s.stock /\ t.ship = s.ship /\ t.failed = s.failed /\ t.supply = s.supply
  BY <1>1, Rearranges
<1>3. Supplied(t)
  BY <1>1, <1>2 DEF Supplied, Stored, Ready, Abroad
<1>4. Fleet(t, t.harbors, Ships \ X)
  BY <1>1, <1>2 DEF Fleet
<1>5. \A x \in Ships : Aware(t, x)
  BY <1>2 DEF Aware
<1> QED BY <1>1, <1>2, <1>3, <1>4, <1>5 DEF GoodBut

(* Some lose what they are meant for. *)
Aimless(s, A) == [i \in Items |-> IF i \in A THEN [s.item[i] EXCEPT !.goal = None] ELSE s.item[i]]

LEMMA AimlessIs ==
  ASSUME NEW s \in Scenes, NEW A
  PROVE  /\ Aimless(s, A) \in [Items -> Item]
         /\ [s EXCEPT !.item = Aimless(s, A)] = Rearranged(s, Aimless(s, A), s.queue)
         /\ \A i \in Items :
              /\ Aimless(s, A)[i].spot = s.item[i].spot
              /\ Aimless(s, A)[i].onship = s.item[i].onship
              /\ Aimless(s, A)[i].goal # None => Aimless(s, A)[i] = s.item[i]
              /\ s.item[i].goal = None => Aimless(s, A)[i] = s.item[i]
              /\ i \in A => Aimless(s, A)[i].goal = None
              /\ i \notin A => Aimless(s, A)[i] = s.item[i]
<1>1. s.item \in [Items -> Item]
  BY Fields
<1>2. \A u \in Item : [u EXCEPT !.goal = None] \in Item /\ [u EXCEPT !.goal = None].spot = u.spot
                      /\ [u EXCEPT !.goal = None].onship = u.onship
                      /\ [u EXCEPT !.goal = None].goal = None
                      /\ (u.goal = None => [u EXCEPT !.goal = None] = u)
  BY DEF Item
<1>3. Aimless(s, A) \in [Items -> Item]
  BY <1>1, <1>2 DEF Aimless
<1>4. [s EXCEPT !.item = Aimless(s, A)] = Rearranged(s, Aimless(s, A), s.queue)
  BY DEF Scenes, Rearranged
<1> QED BY <1>1, <1>2, <1>3, <1>4 DEF Aimless

LEMMA LosesAim ==
  ASSUME NEW X, NEW I, I \subseteq Items, NEW s, GoodBut(s, X, I), NEW A
  PROVE  GoodBut([s EXCEPT !.item = Aimless(s, A)], X, I)
<1> DEFINE f == Aimless(s, A)
           t == Rearranged(s, f, s.queue)
<1>1. /\ s \in Scenes /\ Bound(s, s.harbors)
      /\ \A i \in Items \ I : Placed(s, i)
      /\ \A i \in I : Nowhere(s, i)
      /\ \A x \in Ships : Aware(s, x)
  BY DEF GoodBut
<1>2. /\ f \in [Items -> Item] /\ [s EXCEPT !.item = f] = t
      /\ \A i \in Items :
           /\ f[i].spot = s.item[i].spot
           /\ f[i].goal # None => f[i] = s.item[i]
           /\ s.item[i].goal = None => f[i] = s.item[i]
  BY <1>1, AimlessIs
<1>3. s.queue \in [Points -> SUBSET Items]
  BY <1>1, Fields
<1>4. t.item = f /\ t.queue = s.queue /\ t.ship = s.ship /\ t.harbors = s.harbors
  BY <1>1, <1>2, <1>3, Rearranges
<1>11. t = Rearranged(s, f, s.queue)
  OBVIOUS
<1> HIDE DEF f, t
<1>5. \A i \in Items : InQueue(t, i) = InQueue(s, i) /\ InHold(t, i) = InHold(s, i)
  BY <1>4 DEF InQueue, InHold
<1>6. \A i \in Items \ I : Placed(t, i)
  BY <1>1, <1>2, <1>4, <1>5 DEF Placed, Ashore
<1>7. \A i \in I : Nowhere(t, i)
  BY <1>1, <1>5 DEF Nowhere
<1>8. Bound(t, t.harbors)
  BY <1>1, <1>2, <1>3, <1>4 DEF Bound, BoundOK
<1>9. \A x \in Ships : AwareOf(t, s.ship[x])
  <2> SUFFICES ASSUME NEW x \in Ships, NEW i \in s.ship[x].hold \cap Figures
               PROVE  /\ f[i].goal # None => f[i].spot = s.ship[x].goal
                      /\ s.ship[x].lost => f[i].goal = None
    BY <1>4 DEF AwareOf
  <2>1. i \in Items
    BY DEF Items
  <2>2. /\ s.item[i].goal # None => s.item[i].spot = s.ship[x].goal
        /\ s.ship[x].lost => s.item[i].goal = None
    BY <1>1 DEF Aware, AwareOf
  <2> QED BY <1>2, <2>1, <2>2
<1>10. GoodBut(t, X, I)
  BY <1>11, <1>2, <1>3, <1>6, <1>7, <1>8, <1>9, Regroups
<1> QED BY <1>2, <1>10 DEF f

-----------------------------------------------------------------------------
(* Ships arrive and drive on.                                              *)

(* What a ship does by itself concerns no other ship and no queue. *)
Alone(s, t, x) ==
  /\ t.harbors = s.harbors /\ t.queue = s.queue
  /\ \A y \in Ships \ {x} : t.ship[y] = s.ship[y]

LEMMA NowAlone ==
  ASSUME NEW s \in Scenes, NEW x \in Ships, NEW v \in Vessel
  PROVE  Alone(s, Now(s, x, v), x)
<1>1. Now(s, x, v).harbors = s.harbors /\ Now(s, x, v).queue = s.queue
  BY NowIs
<1> QED BY <1>1, NowShips DEF Alone

LEMMA TransportDrives ==
  ASSUME NEW X, NEW I, I \subseteq Items, NEW s, GoodBut(s, X, I), NEW x \in Ships,
         s.ship[x].state = "transport_driving", Afloat(s.ship[x]),
         s.ship[x].goal \notin s.harbors => s.harbors = {},
         NEW t \in TransportDriving(s, x)
  PROVE  /\ GoodBut(t, X \ {x}, I) /\ Alone(s, t, x)
         /\ s.ship[x].goal \in s.harbors =>
              /\ t.ship[x].goal = s.ship[x].goal /\ t.item = s.item
              /\ t.ship[x].state \in {"transport_driving", "transport_unloading"}
<1> DEFINE u == s.ship[x]
<1>1. s \in Scenes /\ ~s.failed /\ Aware(s, x)
  BY DEF GoodBut
<1>2. CASE u.goal \in s.harbors
  <2>1. /\ DriveToHarbour(s, x).result # "gone"
        /\ \E v : /\ Carries(DriveToHarbour(s, x), x) = Now(s, x, v)
                  /\ v \in Vessel /\ v.hold = u.hold /\ v.goal = u.goal
                  /\ v.state \in {"transport_driving", "transport_unloading"}
                  /\ ~v.lost /\ ShipOK(v, s.harbors)
    BY <1>1, <1>2, Carrying
  <2>2. PICK v : /\ Carries(DriveToHarbour(s, x), x) = Now(s, x, v)
                 /\ v \in Vessel /\ v.hold = u.hold /\ v.goal = u.goal
                 /\ v.state \in {"transport_driving", "transport_unloading"}
                 /\ ~v.lost /\ ShipOK(v, s.harbors)
    BY <2>1
  <2>3. t = Now(s, x, v)
    BY <2>1, <2>2 DEF TransportDriving
  <2>4. AwareOf(s, v)
    BY <1>1, <2>2 DEF Aware, AwareOf
  <2>5. v.state \in Expeditions <=> u.state \in Expeditions
    BY <2>2 DEF Expeditions
  <2>6. GoodBut(t, X \ {x}, I)
    BY <2>2, <2>3, <2>4, <2>5, Changes
  <2>7. t.ship[x] = v
    BY <1>1, <2>2, <2>3, NowShips
  <2>8. t.item = s.item
    BY <1>1, <2>2, <2>3, NowIs
  <2>9. Alone(s, t, x)
    BY <1>1, <2>2, <2>3, NowAlone
  <2> QED BY <2>2, <2>6, <2>7, <2>8, <2>9
<1>3. CASE u.goal \notin s.harbors
  <2> DEFINE r == [s EXCEPT !.item = Aimless(s, u.hold)]
             v == [u EXCEPT !.lost = TRUE]
  <2>1. s.harbors = {}
    BY <1>3
  <2>2. DriveToHarbour(s, x).result = "gone"
    BY <1>3 DEF DriveToHarbour
  <2>3. t \in {IF f.found THEN Carries(DriveToHarbour(f.scene, x), x) ELSE Lost(f.scene, x) :
                 f \in FindHarborForUnloading(r, x, u.at, {})}
    BY <2>2 DEF TransportDriving, Aimless
  <2>4. GoodBut(r, X, I)
    BY LosesAim
  <2>5. /\ Aimless(s, u.hold) \in [Items -> Item]
        /\ r = Rearranged(s, Aimless(s, u.hold), s.queue)
        /\ \A i \in Items : i \in u.hold => Aimless(s, u.hold)[i].goal = None
    BY <1>1, AimlessIs
  <2>6. s.queue \in [Points -> SUBSET Items]
    BY <1>1, Fields
  <2>7. /\ r \in Scenes /\ r.harbors = s.harbors /\ r.queue = s.queue /\ r.ship = s.ship
        /\ r.item = Aimless(s, u.hold)
    BY <1>1, <2>5, <2>6, Rearranges
  <2> HIDE DEF r
  <2>8. FindHarborForUnloading(r, x, u.at, {}) = {[found |-> FALSE, scene |-> r]}
    BY <2>1, <2>7 DEF FindHarborForUnloading
  <2>9. t = Now(r, x, v)
    <3>1. PICK f \in {[found |-> FALSE, scene |-> r]} :
            t = IF f.found THEN Carries(DriveToHarbour(f.scene, x), x) ELSE Lost(f.scene, x)
      BY <2>3, <2>8, Zenon
    <3>2. f.found = FALSE /\ f.scene = r
      BY <3>1
    <3>3. t = Lost(r, x)
      BY <3>1, <3>2
    <3> QED BY <2>7, <3>3 DEF Lost
  <2>10. u \in Vessel
    BY <1>1, Fields
  <2> HIDE DEF u
  <2>11. v \in Vessel
    BY <2>10 DEF Vessel
  <2>12. /\ v.hold = u.hold /\ v.state = u.state /\ v.step = u.step /\ v.tasks = u.tasks
         /\ v.lost /\ v.goal = u.goal
    BY <2>10 DEF Vessel
  <2> HIDE DEF v
  <2>13. AwareOf(r, v)
    <3> SUFFICES ASSUME NEW i \in u.hold \cap Figures PROVE r.item[i].goal = None
      BY <2>12 DEF AwareOf
    <3> QED BY <2>5, <2>7 DEF Items
  <2>14. u.step = None /\ u.tasks = 0
    BY DEF Afloat, u
  <2>15. ShipOK(v, r.harbors)
    BY <2>1, <2>7, <2>12, <2>14 DEF ShipOK, Transporting, Expeditions, Explorations, u
  <2>16. GoodBut(t, X \ {x}, I)
    BY <2>4, <2>7, <2>9, <2>11, <2>12, <2>13, <2>15, Changes DEF u
  <2>17. Alone(r, t, x)
    BY <2>7, <2>9, <2>11, NowAlone
  <2>18. Alone(s, t, x)
    BY <2>7, <2>17 DEF Alone
  <2> QED BY <1>3, <2>16, <2>18 DEF u
<1> QED BY <1>2, <1>3

LEMMA ExpeditionDrives ==
  ASSUME NEW X, NEW I, I \subseteq Items, NEW s, GoodBut(s, X, I), NEW x \in Ships,
         s.ship[x].state \in {"expedition_driving", "expedition_waiting"}, Afloat(s.ship[x]),
         s.ship[x].state = "expedition_waiting" => s.ship[x].at = s.ship[x].goal,
         s.ship[x].hold = {}, s.ship[x].home \in s.harbors
  PROVE  GoodBut(ExpeditionDriving(s, x), X \ {x}, I)
<1> DEFINE u == s.ship[x]
           homeward == u.home = u.goal
           d == IF homeward THEN DriveToHarbour(s, x) ELSE DriveToHarbourPlace(s, x)
<1>1. s \in Scenes /\ ~s.failed
  BY DEF GoodBut
<1>2. d = DriveToHarbourPlace(s, x)
  BY DEF DriveToHarbour
<1>3. ExpeditionDriving(s, x) =
        CASE d.result = "reached" ->
               IF homeward THEN Anchors(d.scene, x, "expedition_unloading")
               ELSE Now(d.scene, x, [d.scene.ship[x] EXCEPT !.state = "expedition_waiting"])
          [] d.result = "no_route" -> StartIdling(d.scene, x)
          [] OTHER -> d.scene
  BY DEF ExpeditionDriving
<1>4. /\ u.step = None /\ u.tasks = 0 /\ ~u.lost /\ u.goal \in Points
      /\ u.pos <= Len(u.route) /\ (u.pos = Len(u.route) <=> u.at = u.goal)
  BY DEF Afloat
<1>5. u \in Vessel
  BY <1>1, Fields
<1> SUFFICES ASSUME TRUE
             PROVE  \E v : /\ ExpeditionDriving(s, x) = Now(s, x, v)
                           /\ v \in Vessel /\ v.hold = {} /\ v.state \in Expeditions
                           /\ ShipOK(v, s.harbors)
  <2>1. PICK v : /\ ExpeditionDriving(s, x) = Now(s, x, v)
                 /\ v \in Vessel /\ v.hold = {} /\ v.state \in Expeditions
                 /\ ShipOK(v, s.harbors)
    OBVIOUS
  <2>2. AwareOf(s, v)
    BY <2>1 DEF AwareOf
  <2>3. u.state \in Expeditions /\ v.hold = u.hold
    BY <2>1 DEF Expeditions
  <2>4. GoodBut(Now(s, x, v), X \ {x}, I)
    BY <2>1, <2>2, <2>3, Changes
  <2> QED BY <2>1, <2>4
<1> HIDE DEF d, u
<1>6. CASE u.at = u.goal /\ homeward
  <2>1. d = [result |-> "reached", scene |-> s]
    BY <1>1, <1>2, <1>6, PlaceIs DEF u
  <2>2. ExpeditionDriving(s, x) = Anchors(s, x, "expedition_unloading")
    BY <1>3, <1>6, <2>1
  <2>3. PICK v : /\ Anchors(s, x, "expedition_unloading") = Now(s, x, v) /\ Lies(u, v)
                 /\ v.state = "expedition_unloading" /\ v.tasks = u.tasks + 1
                 /\ v.goal = u.goal /\ v.home = u.home
    BY <1>1, AnchorsIs DEF u, States, Expeditions
  <2>4. ShipOK(v, s.harbors)
    BY <1>4, <1>6, <2>3 DEF ShipOK, Lies, Anchored, Moored, Transporting, Expeditions, Explorations, u
  <2> QED BY <2>2, <2>3, <2>4 DEF Lies, Expeditions, u
<1>7. CASE u.at = u.goal /\ ~homeward
  <2> DEFINE v == [u EXCEPT !.state = "expedition_waiting"]
  <2>1. d = [result |-> "reached", scene |-> s]
    BY <1>1, <1>2, <1>7, PlaceIs DEF u
  <2>2. ExpeditionDriving(s, x) = Now(s, x, v)
    BY <1>3, <1>7, <2>1 DEF u
  <2>3. /\ v \in Vessel /\ v.at = u.at /\ v.step = u.step /\ v.route = u.route /\ v.pos = u.pos
        /\ v.lost = u.lost /\ v.hold = u.hold /\ v.tasks = u.tasks
        /\ v.state = "expedition_waiting" /\ v.goal = u.goal /\ v.home = u.home
    BY <1>5 DEF Vessel, States, Expeditions
  <2> HIDE DEF v
  <2>4. ShipOK(v, s.harbors)
    BY <1>4, <1>7, <2>3 DEF ShipOK, Anchored, Moored, Transporting, Expeditions, Explorations, u
  <2> QED BY <2>2, <2>3, <2>4 DEF Expeditions, u
<1>8. CASE u.at # u.goal
  <2>1. PICK v : Sails(u, v) /\ d = [result |-> "driving", scene |-> Now(s, x, v)]
    BY <1>1, <1>2, <1>8, PlaceIs DEF u
  <2>2. ExpeditionDriving(s, x) = Now(s, x, v)
    BY <1>3, <2>1
  <2>3. ShipOK(v, s.harbors)
    BY <1>8, <2>1 DEF ShipOK, Sails, Transporting, Expeditions, Explorations, u
  <2> QED BY <1>8, <2>1, <2>2, <2>3 DEF Sails, Expeditions, u
<1> QED BY <1>6, <1>7, <1>8

LEMMA ExplorationDrives ==
  ASSUME NEW X, NEW I, I \subseteq Items, NEW s, GoodBut(s, X, I), NEW x \in Ships,
         s.ship[x].state = "exploration_driving", Afloat(s.ship[x]),
         s.ship[x].hold = {}, s.ship[x].home \in s.harbors, NEW t \in ExplorationDriving(s, x)
  PROVE  GoodBut(t, X \ {x}, I)
<1> DEFINE u == s.ship[x]
           homeward == u.home = u.goal /\ u.covered >= Far
           d == IF homeward THEN DriveToHarbour(s, x) ELSE DriveToHarbourPlace(s, x)
           c == u.covered + Len(u.route)
           w == [u EXCEPT !.covered = c]
<1>1. s \in Scenes /\ ~s.failed
  BY DEF GoodBut
<1>2. d = DriveToHarbourPlace(s, x)
  BY DEF DriveToHarbour
<1>3. u \in Vessel
  BY <1>1, Fields
<1>4. /\ u.step = None /\ u.tasks = 0 /\ ~u.lost /\ u.goal \in Points
      /\ u.pos <= Len(u.route) /\ (u.pos = Len(u.route) <=> u.at = u.goal)
  BY DEF Afloat
<1>5. d.result = "reached" =>
        t = IF homeward THEN Anchors(d.scene, x, "exploration_unloading")
            ELSE Anchors(Now(d.scene, x, [d.scene.ship[x] EXCEPT !.covered = c]),
                         x, "exploration_waiting")
  BY DEF ExplorationDriving
<1>6. d.result = "driving" => t = d.scene
  BY DEF ExplorationDriving
<1> SUFFICES ASSUME TRUE
             PROVE  \E v : /\ t = Now(s, x, v)
                           /\ v \in Vessel /\ v.hold = {} /\ v.state \in Explorations
                           /\ ShipOK(v, s.harbors)
  <2>1. PICK v : /\ t = Now(s, x, v)
                 /\ v \in Vessel /\ v.hold = {} /\ v.state \in Explorations
                 /\ ShipOK(v, s.harbors)
    OBVIOUS
  <2>2. AwareOf(s, v)
    BY <2>1 DEF AwareOf
  <2>3. v.state \notin Expeditions /\ u.state \notin Expeditions
    BY <2>1 DEF Expeditions, Explorations
  <2> QED BY <2>1, <2>2, <2>3, Changes
<1> HIDE DEF d, u, c
<1>7. CASE u.at = u.goal /\ homeward
  <2>1. d = [result |-> "reached", scene |-> s]
    BY <1>1, <1>2, <1>7, PlaceIs DEF u
  <2>2. t = Anchors(s, x, "exploration_unloading")
    BY <1>5, <1>7, <2>1
  <2>3. PICK v : /\ Anchors(s, x, "exploration_unloading") = Now(s, x, v) /\ Lies(u, v)
                 /\ v.state = "exploration_unloading" /\ v.tasks = u.tasks + 1
                 /\ v.goal = u.goal /\ v.home = u.home
    BY <1>1, AnchorsIs DEF u, States, Explorations
  <2>4. ShipOK(v, s.harbors)
    BY <1>4, <1>7, <2>3 DEF ShipOK, Lies, Anchored, Moored, Transporting, Expeditions, Explorations, u
  <2> QED BY <2>2, <2>3, <2>4 DEF Lies, Explorations, u
<1>8. CASE u.at = u.goal /\ ~homeward
  <2>1. d = [result |-> "reached", scene |-> s]
    BY <1>1, <1>2, <1>8, PlaceIs DEF u
  <2>2. t = Anchors(Now(s, x, w), x, "exploration_waiting")
    BY <1>5, <1>8, <2>1 DEF u
  <2>3. c \in Nat
    BY <1>3, VesselFields DEF c
  <2>4. /\ w \in Vessel /\ w.at = u.at /\ w.step = u.step /\ w.route = u.route /\ w.pos = u.pos
        /\ w.lost = u.lost /\ w.hold = u.hold /\ w.tasks = u.tasks
        /\ w.goal = u.goal /\ w.home = u.home
    BY <1>3, <2>3 DEF Vessel
  <2> HIDE DEF w
  <2>5. Now(s, x, w) \in Scenes /\ Now(s, x, w).ship[x] = w
    <3>1. Now(s, x, w) \in Scenes
      BY <1>1, <2>4, NowIs
    <3> QED BY <1>1, <2>4, <3>1, NowShips
  <2>6. PICK v : /\ Anchors(Now(s, x, w), x, "exploration_waiting") = Now(Now(s, x, w), x, v)
                 /\ Lies(w, v)
                 /\ v.state = "exploration_waiting" /\ v.tasks = w.tasks + 1
                 /\ v.goal = w.goal /\ v.home = w.home
    BY <2>5, AnchorsIs DEF States, Explorations
  <2>7. v \in Vessel
    BY <2>6 DEF Lies
  <2>8. t = Now(s, x, v)
    BY <1>1, <2>2, <2>4, <2>6, <2>7, NowTwice
  <2>9. ShipOK(v, s.harbors)
    BY <1>4, <1>8, <2>4, <2>6 DEF ShipOK, Lies, Anchored, Moored, Transporting, Expeditions, Explorations, u
  <2> QED BY <2>4, <2>6, <2>8, <2>9 DEF Lies, Explorations, u
<1>9. CASE u.at # u.goal
  <2>1. PICK v : Sails(u, v) /\ d = [result |-> "driving", scene |-> Now(s, x, v)]
    BY <1>1, <1>2, <1>9, PlaceIs DEF u
  <2>2. t = Now(s, x, v)
    BY <1>6, <2>1
  <2>3. ShipOK(v, s.harbors)
    BY <2>1 DEF ShipOK, Sails, Transporting, Expeditions, Explorations, u
  <2> QED BY <2>1, <2>2, <2>3 DEF Sails, Explorations, u
<1> QED BY <1>7, <1>8, <1>9

(* A ship sets out for its goal. *)
LEMMA SetsOut ==
  ASSUME NEW s \in Scenes, NEW x \in Ships, s.ship[x].step = None, s.ship[x].tasks = 0,
         ~s.ship[x].lost, s.ship[x].goal \in Points,
         s.ship[x].at = s.ship[x].goal => s.ship[x].pos = Len(s.ship[x].route)
  PROVE  \E v : /\ StartDrivingToHarborPlace(s, x) = Now(s, x, v) /\ v \in Vessel /\ Afloat(v)
                /\ v.goal = s.ship[x].goal /\ v.state = s.ship[x].state
                /\ v.home = s.ship[x].home /\ v.hold = s.ship[x].hold
<1> DEFINE u == s.ship[x]
           r == Route(u.at, u.goal)
           w == [u EXCEPT !.route = r, !.pos = 0]
<1>1. u \in Vessel
  BY Fields
<1>2. u.at \in Nodes /\ u.route \in Seq(Nodes)
  BY <1>1, VesselFields
<1>3. CASE u.at = u.goal
  <2>1. s = Now(s, x, u)
    BY Fields DEF Now, Scenes
  <2>2. StartDrivingToHarborPlace(s, x) = Now(s, x, u)
    BY <1>3, <2>1 DEF StartDrivingToHarborPlace
  <2>3. Afloat(u)
    BY <1>2, <1>3 DEF Afloat
  <2> QED BY <1>1, <2>2, <2>3
<1>4. CASE u.at # u.goal
  <2>1. StartDrivingToHarborPlace(s, x) = Now(s, x, w)
    BY <1>4 DEF StartDrivingToHarborPlace
  <2>2. r \in Seq(Nodes) /\ Len(r) \in Nat /\ Len(r) > 0
    BY <1>2, <1>4, RouteIs
  <2>3. u.step = None /\ u.tasks = 0 /\ ~u.lost /\ u.goal \in Points
    OBVIOUS
  <2> HIDE DEF r, u
  <2>4. /\ w \in Vessel /\ w.at = u.at /\ w.step = u.step /\ w.route = r /\ w.pos = 0
        /\ w.lost = u.lost /\ w.hold = u.hold /\ w.tasks = u.tasks
        /\ w.goal = u.goal /\ w.home = u.home /\ w.state = u.state
    BY <1>1, <2>2 DEF Vessel
  <2> HIDE DEF w
  <2>5. Afloat(w)
    BY <1>4, <2>2, <2>3, <2>4 DEF Afloat
  <2> QED BY <2>1, <2>4, <2>5 DEF u
<1> QED BY <1>3, <1>4

-----------------------------------------------------------------------------
(* Boards, stones and builders are counted.                                *)

LEMMA StoredIs ==
  ASSUME NEW s \in Scenes, NEW e
  PROVE  e \in Stored(s) <=> e \in Points \X Nat /\ e[2] \in 1..s.stock[e[1]]
<1>1. s.stock \in [Points -> Nat]
  BY Fields
<1>2. ASSUME e \in Stored(s) PROVE e \in Points \X Nat /\ e[2] \in 1..s.stock[e[1]]
  <2>1. PICK h \in Points : e \in {h} \X (1..s.stock[h])
    BY <1>2 DEF Stored
  <2>2. PICK k \in 1..s.stock[h] : e = <<h, k>>
    BY <2>1
  <2>3. s.stock[h] \in Nat
    BY <1>1
  <2> QED BY <2>2, <2>3
<1>3. ASSUME e \in Points \X Nat, e[2] \in 1..s.stock[e[1]] PROVE e \in Stored(s)
  <2>1. e[1] \in Points /\ e \in {e[1]} \X (1..s.stock[e[1]])
    BY <1>3
  <2> QED BY <2>1 DEF Stored
<1> QED BY <1>2, <1>3

LEMMA Countable ==
  ASSUME NEW s \in Scenes
  PROVE  /\ IsFiniteSet(Stored(s)) /\ Cardinality(Stored(s)) \in Nat
         /\ IsFiniteSet(s.sites) /\ Cardinality(s.sites) \in Nat
         /\ IsFiniteSet(Ready(s)) /\ Cardinality(Ready(s)) \in Nat
         /\ IsFiniteSet(Abroad(s)) /\ Cardinality(Abroad(s)) \in Nat
<1>1. IsFiniteSet(Points) /\ IsFiniteSet(Ships)
  BY ShipsAssumption
<1>2. IsFiniteSet(s.sites)
  <2>1. s.sites \in SUBSET Points
    BY Fields
  <2> QED BY <1>1, <2>1, FS_Subset
<1>3. IsFiniteSet(Ready(s))
  <2>1. Ready(s) \in SUBSET Points
    BY DEF Ready
  <2> QED BY <1>1, <2>1, FS_Subset
<1>4. IsFiniteSet(Abroad(s))
  <2>1. Abroad(s) \in SUBSET Ships
    BY DEF Abroad
  <2> QED BY <1>1, <2>1, FS_Subset
<1>5. IsFiniteSet(Stored(s))
  <2> DEFINE T == {{h} \X (1..s.stock[h]) : h \in Points}
             f == [h \in Points |-> {h} \X (1..s.stock[h])]
  <2>1. f \in Surjection(Points, T)
    BY DEF Surjection
  <2>2. IsFiniteSet(T)
    <3> HIDE DEF T, f
    <3> QED BY <1>1, <2>1, FS_Surjection
  <2>3. \A S \in T : IsFiniteSet(S)
    <3> SUFFICES ASSUME NEW h \in Points PROVE IsFiniteSet({h} \X (1..s.stock[h]))
      OBVIOUS
    <3>1. IsFiniteSet({h})
      BY FS_Singleton
    <3>2. s.stock[h] \in Int
      BY Fields
    <3>3. IsFiniteSet(1..s.stock[h])
      BY <3>2, FS_Interval
    <3> QED BY <3>1, <3>3, FS_Product
  <2>4. IsFiniteSet(UNION T)
    <3> HIDE DEF T
    <3> QED BY <2>2, <2>3, FS_UNION
  <2> QED BY <2>4 DEF Stored
<1> QED BY <1>2, <1>3, <1>4, <1>5, FS_CardinalityType

LEMMA StoredMore ==
  ASSUME NEW s \in Scenes, NEW t \in Scenes, NEW h \in Points,
         t.stock = [s.stock EXCEPT ![h] = s.stock[h] + 1]
  PROVE  Cardinality(Stored(t)) = Cardinality(Stored(s)) + 1
<1> DEFINE e == <<h, s.stock[h] + 1>>
<1>1. s.stock \in [Points -> Nat]
  BY Fields
<1>2. e \notin Stored(s)
  BY <1>1, StoredIs
<1>3. Stored(t) = Stored(s) \cup {e}
  <2>1. ASSUME NEW d PROVE d \in Stored(t) <=> d \in Stored(s) \cup {e}
    <3>1. d \in Stored(t) <=> d \in Points \X Nat /\ d[2] \in 1..t.stock[d[1]]
      BY StoredIs
    <3>2. d \in Stored(s) <=> d \in Points \X Nat /\ d[2] \in 1..s.stock[d[1]]
      BY StoredIs
    <3>3. CASE d \in Points \X Nat
      <4>1. PICK a \in Points, k \in Nat : d = <<a, k>>
        BY <3>3
      <4>2. s.stock[a] \in Nat /\ s.stock[h] \in Nat
        BY <1>1
      <4>3. t.stock[a] = IF a = h THEN s.stock[h] + 1 ELSE s.stock[a]
        BY <1>1
      <4> QED BY <3>1, <3>2, <4>1, <4>2, <4>3
    <3>4. CASE d \notin Points \X Nat
      BY <1>1, <3>1, <3>2, <3>4
    <3> QED BY <3>3, <3>4
  <2> HIDE DEF e
  <2> QED BY <2>1
<1> HIDE DEF e
<1> QED BY <1>2, <1>3, Countable, FS_AddElement

LEMMA StoredLess ==
  ASSUME NEW s \in Scenes, NEW t \in Scenes, NEW h \in Points, s.stock[h] > 0,
         t.stock = [s.stock EXCEPT ![h] = s.stock[h] - 1]
  PROVE  Cardinality(Stored(t)) = Cardinality(Stored(s)) - 1
<1>1. s.stock \in [Points -> Nat]
  BY Fields
<1>2. s.stock = [t.stock EXCEPT ![h] = t.stock[h] + 1]
  BY <1>1
<1>3. Cardinality(Stored(s)) = Cardinality(Stored(t)) + 1
  BY <1>2, StoredMore
<1> QED BY <1>3, Countable

LEMMA StoredGone ==
  ASSUME NEW s \in Scenes, NEW t \in Scenes, NEW h \in Points,
         t.stock = [s.stock EXCEPT ![h] = 0]
  PROVE  Cardinality(Stored(t)) = Cardinality(Stored(s)) - s.stock[h]
<1> DEFINE B == {h} \X (1..s.stock[h])
<1>1. s.stock \in [Points -> Nat] /\ s.stock[h] \in Nat
  BY Fields
<1>2. B \subseteq Stored(s)
  BY DEF Stored
<1>3. Stored(t) = Stored(s) \ B
  <2>1. ASSUME NEW d PROVE d \in Stored(t) <=> d \in Stored(s) \ B
    <3>1. d \in Stored(t) <=> d \in Points \X Nat /\ d[2] \in 1..t.stock[d[1]]
      BY StoredIs
    <3>2. d \in Stored(s) <=> d \in Points \X Nat /\ d[2] \in 1..s.stock[d[1]]
      BY StoredIs
    <3>3. CASE d \in Points \X Nat
      <4>1. PICK a \in Points, k \in Nat : d = <<a, k>>
        BY <3>3
      <4>2. s.stock[a] \in Nat
        BY <1>1
      <4>3. t.stock[a] = IF a = h THEN 0 ELSE s.stock[a]
        BY <1>1
      <4>4. d \in B <=> a = h /\ k \in 1..s.stock[h]
        BY <4>1
      <4> HIDE DEF B
      <4> QED BY <3>1, <3>2, <4>1, <4>2, <4>3, <4>4
    <3>4. CASE d \notin Points \X Nat
      BY <3>1, <3>2, <3>4
    <3> QED BY <3>3, <3>4
  <2> HIDE DEF B
  <2> QED BY <2>1
<1>4. Cardinality(B) = s.stock[h]
  <2>1. IsFiniteSet({h}) /\ Cardinality({h}) = 1
    BY FS_Singleton
  <2>2. IsFiniteSet(1..s.stock[h]) /\ Cardinality(1..s.stock[h]) = s.stock[h]
    BY <1>1, FS_Interval, SMTT(30)
  <2>3. Cardinality(B) = Cardinality({h}) * Cardinality(1..s.stock[h])
    BY <2>1, <2>2, FS_Product, Zenon
  <2> QED BY <1>1, <2>1, <2>2, <2>3
<1>5. Stored(s) \cap B = B
  BY <1>2
<1>6. IsFiniteSet(Stored(s))
  BY Countable
<1> HIDE DEF B
<1>7. Cardinality(Stored(s) \ B) = Cardinality(Stored(s)) - Cardinality(Stored(s) \cap B)
  BY <1>6, FS_Difference, Zenon
<1> QED BY <1>3, <1>4, <1>5, <1>7

LEMMA ReadyMore ==
  ASSUME NEW s \in Scenes, NEW t \in Scenes, NEW h \in Points, s.expedition[h] # "ready",
         t.expedition = [s.expedition EXCEPT ![h] = "ready"]
  PROVE  Cardinality(Ready(t)) = Cardinality(Ready(s)) + 1
<1>1. s.expedition \in [Points -> Stages]
  BY Fields
<1>2. Ready(t) = Ready(s) \cup {h} /\ h \notin Ready(s)
  BY <1>1 DEF Ready
<1> QED BY <1>2, Countable, FS_AddElement

LEMMA ReadyLess ==
  ASSUME NEW s \in Scenes, NEW t \in Scenes, NEW h \in Points,
         t.expedition = [s.expedition EXCEPT ![h] = "off"]
  PROVE  Cardinality(Ready(t)) = Cardinality(Ready(s)) - (IF s.expedition[h] = "ready" THEN 1 ELSE 0)
<1>1. s.expedition \in [Points -> Stages]
  BY Fields
<1>2. Ready(t) = Ready(s) \ {h} /\ (h \in Ready(s) <=> s.expedition[h] = "ready")
  BY <1>1 DEF Ready
<1>3. IsFiniteSet(Ready(s)) /\ Cardinality(Ready(s)) \in Nat
  BY Countable
<1>4. Cardinality(Ready(s) \ {h})
        = IF h \in Ready(s) THEN Cardinality(Ready(s)) - 1 ELSE Cardinality(Ready(s))
  BY <1>3, FS_RemoveElement, Zenon
<1> QED BY <1>2, <1>3, <1>4

LEMMA AbroadMore ==
  ASSUME NEW s \in Scenes, NEW t \in Scenes, NEW x \in Ships, s.ship[x].state \notin Expeditions,
         NEW v, v.state \in Expeditions, t.ship = [s.ship EXCEPT ![x] = v]
  PROVE  Cardinality(Abroad(t)) = Cardinality(Abroad(s)) + 1
<1>1. s.ship \in [Ships -> Vessel]
  BY Fields
<1>2. Abroad(t) = Abroad(s) \cup {x} /\ x \notin Abroad(s)
  BY <1>1 DEF Abroad
<1> QED BY <1>2, Countable, FS_AddElement

LEMMA AbroadLess ==
  ASSUME NEW s \in Scenes, NEW t \in Scenes, NEW x \in Ships, s.ship[x].state \in Expeditions,
         NEW v, v.state \notin Expeditions, t.ship = [s.ship EXCEPT ![x] = v]
  PROVE  Cardinality(Abroad(t)) = Cardinality(Abroad(s)) - 1
<1>1. s.ship \in [Ships -> Vessel]
  BY Fields
<1>2. Abroad(t) = Abroad(s) \ {x} /\ x \in Abroad(s)
  BY <1>1 DEF Abroad
<1> QED BY <1>2, Countable, FS_RemoveElement, ZenonT(30)

LEMMA AbroadSame ==
  ASSUME NEW s \in Scenes, NEW t, NEW x \in Ships,
         NEW v, v.state \in Expeditions <=> s.ship[x].state \in Expeditions,
         t.ship = [s.ship EXCEPT ![x] = v]
  PROVE  Abroad(t) = Abroad(s)
<1>1. s.ship \in [Ships -> Vessel]
  BY Fields
<1> QED BY <1>1 DEF Abroad

-----------------------------------------------------------------------------
(* Harbours and their ships.                                               *)

(* A ship in another state, while materials change hands. *)
LEMMA Trades ==
  ASSUME NEW X, NEW I, NEW s, GoodBut(s, X, I), NEW t \in Scenes, ~t.failed,
         t.harbors = s.harbors, t.queue = s.queue, t.item = s.item, Supplied(t),
         NEW x \in Ships, NEW v \in Vessel, t.ship = [s.ship EXCEPT ![x] = v],
         v.hold = s.ship[x].hold, AwareOf(s, v)
  PROVE  /\ GoodBut(t, X \cup {x}, I)
         /\ ShipOK(v, s.harbors) => GoodBut(t, X \ {x}, I)
<1>1. /\ s \in Scenes /\ Fleet(s, s.harbors, Ships \ X) /\ Bound(s, s.harbors)
      /\ \A i \in Items \ I : Placed(s, i)
      /\ \A i \in I : Nowhere(s, i)
      /\ \A y \in Ships : Aware(s, y)
  BY DEF GoodBut
<1>2. s.ship \in [Ships -> Vessel]
  BY <1>1, Fields
<1>3. t.ship[x] = v /\ \A y \in Ships \ {x} : t.ship[y] = s.ship[y]
  BY <1>2
<1>4. \A y \in Ships : t.ship[y].hold = s.ship[y].hold
  BY <1>3
<1>5. \A i : InQueue(t, i) = InQueue(s, i) /\ InHold(t, i) = InHold(s, i)
  BY <1>4 DEF InQueue, InHold
<1>6. /\ \A i \in Items \ I : Placed(t, i)
      /\ \A i \in I : Nowhere(t, i)
  BY <1>1, <1>5 DEF Placed, Nowhere
<1>7. \A y \in Ships : Aware(t, y)
  BY <1>1, <1>3 DEF Aware, AwareOf
<1>8. Bound(t, t.harbors)
  BY <1>1 DEF Bound, BoundOK
<1>9. Fleet(t, t.harbors, Ships \ (X \cup {x}))
  BY <1>1, <1>3 DEF Fleet
<1>10. ShipOK(v, s.harbors) => Fleet(t, t.harbors, Ships \ (X \ {x}))
  BY <1>1, <1>3 DEF Fleet
<1> QED BY <1>6, <1>7, <1>8, <1>9, <1>10 DEF GoodBut

(* A ship without work at the coast of its harbour. *)
Berthed(u, h) ==
  /\ u.step = None /\ u.tasks = 0 /\ ~u.lost /\ u.at = h /\ u.goal = h /\ u.pos = Len(u.route)
  /\ u.hold = {} /\ u.state \in {"idle", "transport_unloading"}

(* What an arriving ship leaves alone. *)
Serves(s, t, X, I) ==
  /\ t.harbors = s.harbors
  /\ \A y \in X : t.ship[y] = s.ship[y]
  /\ \A i \in I : t.item[i] = s.item[i]

Commissioned == {"transport_loading", "expedition_loading", "exploration_loading"}
Commission(s, t, X, I, x) ==
  /\ GoodBut(t, X \ {x}, I) /\ Serves(s, t, Ships \ {x}, I)
  /\ t.ship[x].state \in Commissioned

LEMMA ArrivesForExpedition ==
  ASSUME NEW X, NEW I, I \subseteq Items, NEW s, GoodBut(s, X, I), NEW x \in Ships,
         NEW h \in s.harbors, Berthed(s.ship[x], h), s.expedition[h] = "ready",
         NEW t \in ShipArrived(s, h, x)
  PROVE  Commission(s, t, X, I, x)
<1> DEFINE u == s.ship[x]
           g == u.goal
           k == u.tasks + 1
           w == [u EXCEPT !.home = g]
           v == [w EXCEPT !.state = "expedition_loading", !.tasks = k]
           r == [s EXCEPT !.expedition[h] = "off"]
<1>1. s \in Scenes /\ ~s.failed /\ Supplied(s)
  BY DEF GoodBut
<1>2. u \in Vessel /\ g \in Coasts /\ k \in Nat /\ h \in Points
  BY <1>1, Fields, VesselFields
<1>3. t = Anchors(Now(r, x, w), x, "expedition_loading")
  BY DEF ShipArrived
<1>4. w \in Vessel /\ w.tasks = u.tasks
  <2> HIDE DEF u, g
  <2> QED BY <1>2 DEF Vessel
<1>5. /\ r \in Scenes /\ r.harbors = s.harbors /\ r.queue = s.queue /\ r.item = s.item
      /\ r.ship = s.ship /\ r.failed = s.failed /\ r.stock = s.stock /\ r.sites = s.sites
      /\ r.supply = s.supply /\ r.expedition = [s.expedition EXCEPT ![h] = "off"]
  BY <1>1, <1>2, Fields DEF Scenes, Stages
<1> HIDE DEF r
<1>6. Now(r, x, w) \in Scenes /\ Now(r, x, w).ship[x] = w
  <2>1. Now(r, x, w) \in Scenes
    BY <1>4, <1>5, NowIs
  <2> QED BY <1>4, <1>5, <2>1, NowShips
<1>7. v \in Vessel
  <2> HIDE DEF k, w
  <2> QED BY <1>2, <1>4 DEF Vessel, States, Expeditions
<1>8. t = Now(r, x, v)
  <2>1. t = Now(Now(r, x, w), x, v)
    BY <1>3, <1>4, <1>6 DEF Anchors
  <2> QED BY <1>4, <1>5, <1>7, <2>1, NowTwice
<1>9. /\ v.at = u.at /\ v.step = u.step /\ v.route = u.route /\ v.pos = u.pos
      /\ v.lost = u.lost /\ v.hold = u.hold /\ v.state = "expedition_loading"
      /\ v.tasks = u.tasks + 1 /\ v.goal = u.goal /\ v.home = u.goal
  <2> HIDE DEF u
  <2> QED BY <1>2 DEF Vessel
<1> HIDE DEF w, v
<1>10. /\ t \in Scenes /\ t.harbors = s.harbors /\ t.queue = s.queue /\ t.item = s.item
       /\ t.ship = [s.ship EXCEPT ![x] = v] /\ t.failed = s.failed /\ t.stock = s.stock
       /\ t.sites = s.sites /\ t.supply = s.supply
       /\ t.expedition = [s.expedition EXCEPT ![h] = "off"]
  BY <1>5, <1>7, <1>8, NowIs
<1>11. u.state \notin Expeditions /\ v.state \in Expeditions
  BY <1>9 DEF Berthed, Expeditions
<1>12. Supplied(t)
  <2>1. Cardinality(Ready(t)) = Cardinality(Ready(s)) - 1
    BY <1>1, <1>2, <1>10, ReadyLess
  <2>2. Cardinality(Abroad(t)) = Cardinality(Abroad(s)) + 1
    BY <1>1, <1>10, <1>11, AbroadMore
  <2>3. Stored(t) = Stored(s) /\ t.sites = s.sites /\ t.supply = s.supply
    BY <1>10 DEF Stored
  <2> QED BY <1>1, <2>1, <2>2, <2>3, Countable DEF Supplied
<1>13. AwareOf(s, v)
  BY <1>9 DEF AwareOf, Berthed
<1>14. ShipOK(v, s.harbors)
  <2> HIDE DEF u
  <2> QED BY <1>2, <1>9 DEF ShipOK, Berthed, Anchored, Moored, Transporting, Expeditions, Explorations, u
<1>15. GoodBut(t, X \ {x}, I)
  BY <1>1, <1>7, <1>9, <1>10, <1>12, <1>13, <1>14, Trades
<1>16. t.ship[x] = v /\ \A y \in Ships \ {x} : t.ship[y] = s.ship[y]
  BY <1>1, <1>10, Fields
<1> QED BY <1>9, <1>10, <1>15, <1>16 DEF Commission, Serves, Commissioned

LEMMA ArrivesForExploration ==
  ASSUME NEW X, NEW I, I \subseteq Items, NEW s, GoodBut(s, X, I), NEW x \in Ships,
         NEW h \in s.harbors, Berthed(s.ship[x], h), s.expedition[h] # "ready",
         s.exploration[h] = "ready", NEW t \in ShipArrived(s, h, x)
  PROVE  Commission(s, t, X, I, x)
<1> DEFINE u == s.ship[x]
           g == u.goal
           k == u.tasks + 1
           b == [u EXCEPT !.home = g]
           w == [b EXCEPT !.covered = 0]
           v == [w EXCEPT !.state = "exploration_loading", !.tasks = k]
           r == [s EXCEPT !.exploration[h] = "off"]
<1>1. s \in Scenes /\ ~s.failed /\ Supplied(s)
  BY DEF GoodBut
<1>2. u \in Vessel /\ g \in Coasts /\ k \in Nat /\ h \in Points
  BY <1>1, Fields, VesselFields
<1>3. t = Anchors(Now(r, x, w), x, "exploration_loading")
  BY DEF ShipArrived
<1>4. w \in Vessel /\ w.tasks = u.tasks
  <2> HIDE DEF u, g
  <2> QED BY <1>2 DEF Vessel
<1>5. /\ r \in Scenes /\ r.harbors = s.harbors /\ r.queue = s.queue /\ r.item = s.item
      /\ r.ship = s.ship /\ r.failed = s.failed /\ r.stock = s.stock /\ r.sites = s.sites
      /\ r.supply = s.supply /\ r.expedition = s.expedition
  BY <1>1, <1>2, Fields DEF Scenes, Stages
<1> HIDE DEF r
<1>6. Now(r, x, w) \in Scenes /\ Now(r, x, w).ship[x] = w
  <2>1. Now(r, x, w) \in Scenes
    BY <1>4, <1>5, NowIs
  <2> QED BY <1>4, <1>5, <2>1, NowShips
<1>7. v \in Vessel
  <2> HIDE DEF k, w
  <2> QED BY <1>2, <1>4 DEF Vessel, States, Explorations
<1>8. t = Now(r, x, v)
  <2>1. t = Now(Now(r, x, w), x, v)
    BY <1>3, <1>4, <1>6 DEF Anchors
  <2> QED BY <1>4, <1>5, <1>7, <2>1, NowTwice
<1>9. /\ v.at = u.at /\ v.step = u.step /\ v.route = u.route /\ v.pos = u.pos
      /\ v.lost = u.lost /\ v.hold = u.hold /\ v.state = "exploration_loading"
      /\ v.tasks = u.tasks + 1 /\ v.goal = u.goal /\ v.home = u.goal
  <2> HIDE DEF u
  <2> QED BY <1>2 DEF Vessel
<1> HIDE DEF w, v
<1>10. /\ t \in Scenes /\ t.harbors = s.harbors /\ t.queue = s.queue /\ t.item = s.item
       /\ t.ship = [s.ship EXCEPT ![x] = v] /\ t.failed = s.failed /\ t.stock = s.stock
       /\ t.sites = s.sites /\ t.supply = s.supply /\ t.expedition = s.expedition
  BY <1>5, <1>7, <1>8, NowIs
<1>11. u.state \notin Expeditions /\ v.state \notin Expeditions
  BY <1>9 DEF Berthed, Expeditions
<1>12. Supplied(t)
  <2>1. Abroad(t) = Abroad(s)
    BY <1>1, <1>10, <1>11, AbroadSame
  <2> QED BY <1>1, <1>10, <2>1 DEF Supplied, Stored, Ready
<1>13. AwareOf(s, v)
  BY <1>9 DEF AwareOf, Berthed
<1>14. ShipOK(v, s.harbors)
  <2> HIDE DEF u
  <2> QED BY <1>2, <1>9 DEF ShipOK, Berthed, Anchored, Moored, Transporting, Expeditions, Explorations, u
<1>15. GoodBut(t, X \ {x}, I)
  BY <1>1, <1>7, <1>9, <1>10, <1>12, <1>13, <1>14, Trades
<1>16. t.ship[x] = v /\ \A y \in Ships \ {x} : t.ship[y] = s.ship[y]
  BY <1>1, <1>10, Fields
<1> QED BY <1>9, <1>10, <1>15, <1>16 DEF Commission, Serves, Commissioned

(* Whatever is loaded waits for the destination. *)
LEMMA LoadsAre ==
  ASSUME NEW B, NEW l \in Loads(B)
  PROVE  l \subseteq B
BY DEF Loads

LEMMA TakesAboard ==
  ASSUME NEW X, NEW I, I \subseteq Items, NEW s, GoodBut(s, X, I), NEW x \in Ships,
         NEW h \in s.harbors, Berthed(s.ship[x], h), NEW d \in s.harbors, d # h,
         NEW l, l \subseteq s.queue[h], \A i \in l : s.item[i].spot = d,
         NEW t, t = PrepareTransport(s, h, x, d, l)
  PROVE  Commission(s, t, X, I, x)
<1> DEFINE u == s.ship[x]
           g == u.goal
           k == u.tasks + 1
           w == [u EXCEPT !.home = g, !.goal = d, !.hold = l]
           v == [w EXCEPT !.state = "transport_loading", !.tasks = k]
           f == [i \in Items |-> IF i \in l \cap Figures THEN [s.item[i] EXCEPT !.onship = TRUE]
                                 ELSE s.item[i]]
           r == [s EXCEPT !.queue[h] = @ \ l, !.item = f]
<1>1. /\ s \in Scenes /\ ~s.failed /\ Supplied(s) /\ Bound(s, s.harbors)
      /\ Fleet(s, s.harbors, Ships \ X)
      /\ \A i \in Items \ I : Placed(s, i)
      /\ \A i \in I : Nowhere(s, i)
      /\ \A y \in Ships : Aware(s, y)
  BY DEF GoodBut
<1>2. /\ u \in Vessel /\ g \in Coasts /\ k \in Nat /\ h \in Points /\ d \in Coasts
      /\ s.queue \in [Points -> SUBSET Items] /\ s.item \in [Items -> Item]
      /\ l \in SUBSET Items /\ s.ship \in [Ships -> Vessel]
  <2>1. s.queue \in [Points -> SUBSET Items] /\ s.item \in [Items -> Item]
        /\ s.ship \in [Ships -> Vessel] /\ s.harbors \in SUBSET Points
    BY <1>1, Fields
  <2> QED BY <2>1, VesselFields DEF Coasts
<1>3. t = Anchors(Now(r, x, w), x, "transport_loading")
  BY DEF PrepareTransport
<1>4. w \in Vessel /\ w.tasks = u.tasks
  <2> HIDE DEF u, g
  <2> QED BY <1>2 DEF Vessel
<1>5. f \in [Items -> Item] /\ \A i \in Items : f[i].spot = s.item[i].spot /\ f[i].goal = s.item[i].goal
                                /\ (i \notin l => f[i] = s.item[i])
  <2>1. \A e \in Item : [e EXCEPT !.onship = TRUE] \in Item /\ [e EXCEPT !.onship = TRUE].spot = e.spot
                        /\ [e EXCEPT !.onship = TRUE].goal = e.goal
    BY DEF Item
  <2> QED BY <1>2, <2>1
<1> HIDE DEF f
<1>6. /\ r \in Scenes /\ r.harbors = s.harbors /\ r.queue = [s.queue EXCEPT ![h] = s.queue[h] \ l]
      /\ r.item = f /\ r.ship = s.ship /\ r.failed = s.failed /\ r.stock = s.stock
      /\ r.sites = s.sites /\ r.supply = s.supply /\ r.expedition = s.expedition
  BY <1>1, <1>2, <1>5, Fields DEF Scenes
<1> HIDE DEF r
<1>7. Now(r, x, w) \in Scenes /\ Now(r, x, w).ship[x] = w
  <2>1. Now(r, x, w) \in Scenes
    BY <1>4, <1>6, NowIs
  <2> QED BY <1>4, <1>6, <2>1, NowShips
<1>8. v \in Vessel
  <2> HIDE DEF k, w
  <2> QED BY <1>2, <1>4 DEF Vessel, States, Transporting
<1>9. t = Now(r, x, v)
  <2>1. t = Now(Now(r, x, w), x, v)
    BY <1>3, <1>4, <1>7, ZenonT(30) DEF Anchors
  <2> QED BY <1>4, <1>6, <1>8, <2>1, NowTwice
<1>10. /\ v.at = u.at /\ v.step = u.step /\ v.route = u.route /\ v.pos = u.pos
       /\ v.lost = u.lost /\ v.hold = l /\ v.state = "transport_loading"
       /\ v.tasks = u.tasks + 1 /\ v.goal = d /\ v.home = u.goal
  <2> HIDE DEF u
  <2> QED BY <1>2 DEF Vessel
<1> HIDE DEF w, v
<1>11. /\ t \in Scenes /\ t.harbors = s.harbors
       /\ t.queue = [s.queue EXCEPT ![h] = s.queue[h] \ l] /\ t.item = f
       /\ t.ship = [s.ship EXCEPT ![x] = v] /\ t.failed = s.failed /\ t.stock = s.stock
       /\ t.sites = s.sites /\ t.supply = s.supply /\ t.expedition = s.expedition
  BY <1>6, <1>8, <1>9, NowIs
<1>12. u.state \notin Expeditions /\ v.state \notin Expeditions
  BY <1>10 DEF Berthed, Expeditions
<1>13. Supplied(t)
  <2>1. Abroad(t) = Abroad(s)
    BY <1>1, <1>11, <1>12, AbroadSame
  <2> QED BY <1>1, <1>11, <2>1 DEF Supplied, Stored, Ready
<1>14. ShipOK(v, s.harbors)
  <2> HIDE DEF u
  <2> QED BY <1>2, <1>10 DEF ShipOK, Berthed, Anchored, Moored, Transporting, Expeditions, Explorations, u
<1>15. t.ship[x] = v /\ \A y \in Ships \ {x} : t.ship[y] = s.ship[y]
  BY <1>2, <1>11
<1>16. Fleet(t, t.harbors, Ships \ (X \ {x}))
  BY <1>1, <1>11, <1>14, <1>15 DEF Fleet
<1>17. \A i \in l : InQueue(s, i) = {h} /\ InHold(s, i) = {} /\ i \in Items \ I
  <2> SUFFICES ASSUME NEW i \in l PROVE InQueue(s, i) = {h} /\ InHold(s, i) = {} /\ i \in Items \ I
    OBVIOUS
  <2>1. i \in Items /\ h \in InQueue(s, i)
    BY <1>2 DEF InQueue
  <2>2. i \notin I
    BY <1>1, <2>1 DEF Nowhere
  <2>3. Placed(s, i)
    BY <1>1, <2>1, <2>2
  <2> QED BY <2>1, <2>2, <2>3 DEF Placed
<1>18. u.hold = {}
  BY DEF Berthed
<1>19. \A i \in Items \ l : InQueue(t, i) = InQueue(s, i) /\ InHold(t, i) = InHold(s, i)
  <2> SUFFICES ASSUME NEW i \in Items \ l
               PROVE  InQueue(t, i) = InQueue(s, i) /\ InHold(t, i) = InHold(s, i)
    OBVIOUS
  <2>1. \A a \in Points : i \in t.queue[a] <=> i \in s.queue[a]
    BY <1>2, <1>11
  <2>2. \A y \in Ships : i \in t.ship[y].hold <=> i \in s.ship[y].hold
    BY <1>10, <1>15, <1>18
  <2> QED BY <2>1, <2>2 DEF InQueue, InHold
<1>20. \A i \in l : InQueue(t, i) = {} /\ InHold(t, i) = {x}
  <2> SUFFICES ASSUME NEW i \in l PROVE InQueue(t, i) = {} /\ InHold(t, i) = {x}
    OBVIOUS
  <2>1. \A a \in Points : i \notin t.queue[a]
    BY <1>2, <1>11, <1>17 DEF InQueue
  <2>2. \A y \in Ships : i \in t.ship[y].hold <=> y = x
    BY <1>10, <1>15, <1>17 DEF InHold
  <2> QED BY <2>1, <2>2 DEF InQueue, InHold
<1>21. \A i \in Items \ I : Placed(t, i)
  <2> SUFFICES ASSUME NEW i \in Items \ I PROVE Placed(t, i)
    OBVIOUS
  <2>1. CASE i \in l
    <3>1. t.item[i].spot = d /\ d \in Points
      BY <1>1, <1>5, <1>11, <2>1, Fields
    <3> QED BY <1>20, <2>1, <3>1 DEF Placed
  <2>2. CASE i \notin l
    <3>1. t.item[i] = s.item[i]
      BY <1>5, <1>11, <2>2
    <3> QED BY <1>1, <1>19, <2>2, <3>1 DEF Placed
  <2> QED BY <2>1, <2>2
<1>22. \A i \in I : Nowhere(t, i) /\ t.item[i] = s.item[i]
  <2> SUFFICES ASSUME NEW i \in I PROVE Nowhere(t, i) /\ t.item[i] = s.item[i]
    OBVIOUS
  <2>1. i \in Items \ l
    BY <1>17
  <2> QED BY <1>1, <1>5, <1>11, <1>19, <2>1 DEF Nowhere
<1>23. Bound(t, t.harbors)
  <2> SUFFICES ASSUME NEW a \in Points, NEW i \in t.queue[a] PROVE BoundOK(t, a, i, s.harbors)
    BY <1>11 DEF Bound
  <2>1. i \in s.queue[a] /\ i \in Items
    BY <1>2, <1>11
  <2> QED BY <1>1, <1>5, <1>11, <2>1 DEF Bound, BoundOK
<1>24. \A y \in Ships : Aware(t, y)
  <2> SUFFICES ASSUME NEW y \in Ships, NEW i \in t.ship[y].hold \cap Figures
               PROVE  /\ t.item[i].goal # None => t.item[i].spot = t.ship[y].goal
                      /\ t.ship[y].lost => t.item[i].goal = None
    BY DEF Aware, AwareOf
  <2>1. i \in Items
    BY DEF Items
  <2>2. CASE y = x
    <3>1. i \in l /\ t.ship[y].goal = d /\ ~t.ship[y].lost
      BY <1>10, <1>15, <2>2 DEF Berthed
    <3> QED BY <1>5, <1>11, <2>1, <3>1
  <2>3. CASE y # x
    <3>1. t.ship[y] = s.ship[y]
      BY <1>15, <2>3
    <3> QED BY <1>1, <1>5, <1>11, <2>1, <3>1 DEF Aware, AwareOf
  <2> QED BY <2>2, <2>3
<1>25. GoodBut(t, X \ {x}, I)
  BY <1>1, <1>11, <1>13, <1>16, <1>21, <1>22, <1>23, <1>24 DEF GoodBut
<1> QED BY <1>10, <1>11, <1>15, <1>22, <1>25 DEF Commission, Serves, Commissioned

LEMMA Arrives ==
  ASSUME NEW X, NEW I, I \subseteq Items, NEW s, GoodBut(s, X, I), NEW x \in Ships,
         NEW h \in s.harbors, Berthed(s.ship[x], h), NEW t \in ShipArrived(s, h, x)
  PROVE  t = s \/ Commission(s, t, X, I, x)
<1> DEFINE Goals(S) == Awaited(s, s.queue[h] \cap S) \cap s.harbors
           dests == IF Goals(Figures) # {} THEN Goals(Figures) ELSE Goals(Wares)
<1>1. CASE s.expedition[h] = "ready"
  BY <1>1, ArrivesForExpedition
<1>2. CASE s.expedition[h] # "ready" /\ s.exploration[h] = "ready"
  BY <1>2, ArrivesForExploration
<1>3. CASE s.expedition[h] # "ready" /\ s.exploration[h] # "ready" /\ dests = {}
  <2>1. ShipArrived(s, h, x) = {s}
    BY <1>3 DEF ShipArrived
  <2> QED BY <2>1
<1>4. CASE s.expedition[h] # "ready" /\ s.exploration[h] # "ready" /\ dests # {}
  <2>1. t \in UNION {{PrepareTransport(s, h, x, d, l) :
                        l \in Loads({i \in s.queue[h] : s.item[i].spot = d})} : d \in dests}
    BY <1>4 DEF ShipArrived
  <2>2. PICK d \in dests : \E l \in Loads({i \in s.queue[h] : s.item[i].spot = d}) :
          t = PrepareTransport(s, h, x, d, l)
    <3> HIDE DEF dests
    <3> QED BY <2>1
  <2>9. PICK l \in Loads({i \in s.queue[h] : s.item[i].spot = d}) :
          t = PrepareTransport(s, h, x, d, l)
    BY <2>2
  <2>3. d \in s.harbors /\ \E i \in s.queue[h] : s.item[i].spot = d
    BY <2>2 DEF Awaited
  <2>4. s \in Scenes /\ Bound(s, s.harbors)
    BY DEF GoodBut
  <2>5. h \in Points
    BY <2>4, Fields
  <2>6. d # h
    BY <2>3, <2>4, <2>5 DEF Bound, BoundOK
  <2>7. l \subseteq s.queue[h] /\ \A i \in l : s.item[i].spot = d
    BY LoadsAre
  <2> HIDE DEF dests
  <2>8. Commission(s, t, X, I, x)
    BY <2>3, <2>6, <2>7, <2>9, TakesAboard
  <2> QED BY <2>8
<1> QED BY <1>1, <1>2, <1>3, <1>4

(* An idle ship that knows another goal. *)
LEMMA TakesJobs ==
  ASSUME NEW X, NEW I, I \subseteq Items, NEW s, GoodBut(s, X, I), NEW x \in Ships \ X,
         s.ship[x].state = "idle", NEW h \in s.harbors, s.ship[x].at = h,
         NEW t \in TakesJob(s, x, h)
  PROVE  GoodBut(t, X, I) /\ Serves(s, t, Ships \ {x}, I)
<1> DEFINE u == s.ship[x]
           v == [u EXCEPT !.goal = h]
           r == Now(s, x, v)
<1>1. s \in Scenes /\ Fleet(s, s.harbors, Ships \ X)
  BY DEF GoodBut
<1>2. u \in Vessel /\ h \in Points
  BY <1>1, Fields
<1>3. ShipOK(u, s.harbors)
  BY <1>1 DEF Fleet
<1>4. /\ u.state = "idle" /\ u.at = h /\ u.hold = {} /\ u.step = None /\ u.tasks = 0 /\ ~u.lost
      /\ u.pos = Len(u.route)
  BY <1>2, <1>3, Names DEF ShipOK, Transporting
<1> HIDE DEF u
<1>5. /\ v \in Vessel /\ v.at = u.at /\ v.step = u.step /\ v.route = u.route /\ v.pos = u.pos
      /\ v.lost = u.lost /\ v.hold = u.hold /\ v.state = u.state /\ v.tasks = u.tasks /\ v.goal = h
  BY <1>2 DEF Vessel, Coasts
<1> HIDE DEF v
<1>6. ShipOK(v, s.harbors) /\ Berthed(v, h) /\ AwareOf(s, v)
  BY <1>4, <1>5 DEF ShipOK, Berthed, AwareOf, Transporting, Expeditions, Explorations
<1>7. X \ {x} = X
  OBVIOUS
<1>8. GoodBut(r, X, I)
  <2>1. v.hold = s.ship[x].hold /\ (v.state \in Expeditions <=> s.ship[x].state \in Expeditions)
    BY <1>5 DEF u
  <2>2. GoodBut(r, X \ {x}, I)
    BY <1>5, <1>6, <2>1, Changes
  <2> QED BY <1>7, <2>2
<1>9. r.harbors = s.harbors /\ r.item = s.item
  BY <1>1, <1>5, NowIs, ZenonT(30)
<1>10. r.ship[x] = v /\ \A y \in Ships \ {x} : r.ship[y] = s.ship[y]
  BY <1>1, <1>5, NowShips
<1>11. t \in ShipArrived(r, h, x)
  BY DEF TakesJob, v, u
<1> HIDE DEF r
<1>12. t = r \/ Commission(r, t, X, I, x)
  BY <1>6, <1>8, <1>9, <1>10, <1>11, Arrives
<1>13. CASE t = r
  BY <1>8, <1>9, <1>10, <1>13 DEF Serves
<1>14. CASE Commission(r, t, X, I, x)
  BY <1>7, <1>9, <1>10, <1>14 DEF Commission, Serves
<1> QED BY <1>12, <1>13, <1>14

LEMMA GoesThere ==
  ASSUME NEW X, NEW I, I \subseteq Items, NEW s, GoodBut(s, X, I), NEW x \in Ships \ X,
         s.ship[x].state = "idle", NEW h \in s.harbors, s.ship[x].at # h,
         NEW t, t = GoToHarbor(s, x, h)
  PROVE  GoodBut(t, X, I) /\ Serves(s, t, Ships \ {x}, I)
<1> DEFINE u == s.ship[x]
           q == Route(u.at, h)
           w == [u EXCEPT !.state = "to_harbour", !.goal = h, !.pos = 0, !.route = q]
           r == Now(s, x, w)
<1>1. s \in Scenes /\ ~s.failed /\ Fleet(s, s.harbors, Ships \ X)
  BY DEF GoodBut
<1>2. u \in Vessel /\ h \in Points /\ u.at \in Nodes
  BY <1>1, Fields, VesselFields
<1>3. ShipOK(u, s.harbors)
  BY <1>1 DEF Fleet
<1>4. u.state = "idle" /\ u.at # h /\ u.hold = {} /\ u.step = None /\ u.tasks = 0 /\ ~u.lost
  BY <1>3 DEF ShipOK, Transporting
<1>5. q \in Seq(Nodes) /\ Len(q) \in Nat /\ Len(q) > 0 /\ (Len(q) = 1 <=> q[1] = h)
      /\ (q[1] = Sea \/ Len(q) = 1)
  BY <1>2, RouteIs
<1> HIDE DEF u, q
<1>6. /\ w \in Vessel /\ w.at = u.at /\ w.step = u.step /\ w.route = q /\ w.pos = 0
      /\ w.lost = u.lost /\ w.hold = u.hold /\ w.state = "to_harbour" /\ w.tasks = u.tasks
      /\ w.goal = h
  BY <1>2, <1>5 DEF Vessel, Coasts, States
<1>7. t = StartDriving(r, x)
  BY DEF GoToHarbor, w, r, q, u
<1> HIDE DEF w
<1>8. r \in Scenes /\ r.failed = s.failed
  BY <1>1, <1>6, NowIs
<1>9. r.ship[x] = w
  BY <1>1, <1>6, NowShips
<1> HIDE DEF r
<1>10. PICK v : Sails(w, v) /\ t = Now(r, x, v)
  <2>1. /\ r.ship[x].step = None /\ r.ship[x].tasks = 0 /\ ~r.ship[x].lost
        /\ r.ship[x].goal \in Points
    BY <1>2, <1>4, <1>6, <1>9
  <2>2. /\ r.ship[x].pos < Len(r.ship[x].route)
        /\ r.ship[x].pos + 1 = Len(r.ship[x].route)
             <=> r.ship[x].route[r.ship[x].pos + 1] = r.ship[x].goal
        /\ \/ r.ship[x].route[r.ship[x].pos + 1] = Sea
           \/ r.ship[x].pos + 1 = Len(r.ship[x].route)
    <3>1. r.ship[x].pos = 0 /\ r.ship[x].route = q /\ r.ship[x].goal = h
      BY <1>6, <1>9
    <3>2. r.ship[x].pos + 1 = 1
      BY <3>1
    <3> QED BY <1>5, <3>1, <3>2
  <2>3. \E v : Sails(r.ship[x], v) /\ StartDriving(r, x) = Now(r, x, v)
    BY <1>1, <1>8, <2>1, <2>2, StartIs
  <2> QED BY <1>7, <1>9, <2>3
<1>11. v \in Vessel
  BY <1>10 DEF Sails
<1>12. t = Now(s, x, v)
  BY <1>1, <1>6, <1>10, <1>11, NowTwice DEF r
<1>13. ShipOK(v, s.harbors) /\ AwareOf(s, v) /\ v.hold = u.hold /\ v.state = "to_harbour"
  BY <1>4, <1>6, <1>10 DEF ShipOK, AwareOf, Sails, Transporting, Expeditions, Explorations
<1>14. GoodBut(t, X, I)
  <2>1. v.hold = s.ship[x].hold /\ (v.state \in Expeditions <=> s.ship[x].state \in Expeditions)
    BY <1>13 DEF u, Expeditions
  <2>2. GoodBut(Now(s, x, v), X \ {x}, I)
    BY <1>11, <1>13, <2>1, Changes
  <2>3. X \ {x} = X
    OBVIOUS
  <2> QED BY <1>12, <2>2, <2>3
<1>15. t.harbors = s.harbors /\ t.item = s.item
  <2>1. Now(s, x, v).harbors = s.harbors /\ Now(s, x, v).item = s.item
    BY <1>1, <1>11, NowIs
  <2> QED BY <1>12, <2>1
<1>16. \A y \in Ships \ {x} : t.ship[y] = s.ship[y]
  BY <1>1, <1>11, <1>12, NowShips
<1> QED BY <1>14, <1>15, <1>16 DEF Serves

LEMMA CallIs ==
  ASSUME NEW X, X \subseteq Ships, NEW I, I \subseteq Items, NEW s, GoodBut(s, X, I),
         \A x \in X : s.ship[x].state # "idle", NEW h \in s.harbors, NEW t \in CallShip(s, h)
  PROVE  GoodBut(t, X, I) /\ Serves(s, t, X, I)
<1> DEFINE idle == {x \in Ships : s.ship[x].state = "idle"}
           here == {x \in idle : s.ship[x].at = h}
<1>1. CASE t = s
  BY <1>1 DEF Serves
<1>2. CASE \E x \in here : t \in TakesJob(s, x, h)
  <2>1. PICK x \in here : t \in TakesJob(s, x, h)
    BY <1>2
  <2>2. x \in Ships \ X /\ s.ship[x].state = "idle" /\ s.ship[x].at = h
    BY <2>1
  <2>3. GoodBut(t, X, I) /\ Serves(s, t, Ships \ {x}, I)
    BY <2>1, <2>2, TakesJobs
  <2> QED BY <2>2, <2>3 DEF Serves
<1>3. CASE here = {} /\ \E x \in idle : t = GoToHarbor(s, x, h)
  <2>1. PICK x \in idle : t = GoToHarbor(s, x, h)
    BY <1>3
  <2>2. x \in Ships \ X /\ s.ship[x].state = "idle" /\ s.ship[x].at # h
    BY <1>3, <2>1
  <2>3. GoodBut(t, X, I) /\ Serves(s, t, Ships \ {x}, I)
    BY <2>1, <2>2, GoesThere
  <2> QED BY <2>2, <2>3 DEF Serves
<1>4. \/ t = s
      \/ \E x \in here : t \in TakesJob(s, x, h)
      \/ here = {} /\ \E x \in idle : t = GoToHarbor(s, x, h)
  BY DEF CallShip
<1> QED BY <1>1, <1>2, <1>3, <1>4

LEMMA OrdersShips ==
  ASSUME NEW X, X \subseteq Ships, NEW I, I \subseteq Items, NEW s, GoodBut(s, X, I),
         \A x \in X : s.ship[x].state # "idle", NEW h \in s.harbors, NEW t \in OrderShip(s, h)
  PROVE  GoodBut(t, X, I) /\ Serves(s, t, X, I)
<1> DEFINE k == GetNeededShipsCount(s, h) - GetShipsToHarbor(s, h)
           q == [i \in 1..k |-> h]
           T == {r \in Scenes : GoodBut(r, X, I) /\ Serves(s, r, X, I)}
           R == [n \in 0..k |-> T]
<1>1. s \in Scenes
  BY DEF GoodBut
<1>2. s \in T
  BY <1>1 DEF Serves
<1>3. CASE ~NeedsMore(s, h)
  <2>1. t = s
    BY <1>3 DEF OrderShip
  <2> QED BY <1>2, <2>1
<1>4. CASE NeedsMore(s, h)
  <2>1. t \in Called(s, h, q)
    BY <1>4 DEF OrderShip, Called, InOrder
  <2>2. GetShipsToHarbor(s, h) \in Nat
    <3>1. {x \in Ships : IsGoingToHarbor(s, x, h)} \in SUBSET Ships
      OBVIOUS
    <3>2. IsFiniteSet({x \in Ships : IsGoingToHarbor(s, x, h)})
      BY <3>1, ShipsAssumption, FS_Subset
    <3> QED BY <3>2, FS_CardinalityType DEF GetShipsToHarbor
  <2>3. GetNeededShipsCount(s, h) \in Nat
    <3>1. Awaited(s, s.queue[h]) \in SUBSET Coasts
      <4>1. s.harbors \in SUBSET Points /\ s.item \in [Items -> Item]
            /\ s.queue \in [Points -> SUBSET Items]
        BY <1>1, Fields
      <4>2. \A i \in s.queue[h] : s.item[i].spot \in Coasts
        BY <4>1, ItemFields
      <4> QED BY <4>2 DEF Awaited
    <3>2. IsFiniteSet(Coasts)
      BY ShipsAssumption, FS_AddElement DEF Coasts
    <3>3. IsFiniteSet(Awaited(s, s.queue[h]))
      BY <3>1, <3>2, FS_Subset
    <3>4. Cardinality(Awaited(s, s.queue[h])) \in Nat
      BY <3>3, FS_CardinalityType
    <3> QED BY <3>4 DEF GetNeededShipsCount
  <2>4. k \in Nat
    BY <1>4, <2>2, <2>3 DEF NeedsMore
  <2> HIDE DEF k
  <2>5. Len(q) = k /\ \A n \in 1..k : q[n] = h
    <3>1. q \in Seq({h})
      BY <2>4
    <3> QED BY <2>4, <3>1
  <2> HIDE DEF q
  <2>6. ASSUME NEW n \in 1..k, NEW r \in R[n - 1] PROVE CallShip(r, q[n]) \subseteq R[n]
    <3>1. r \in T /\ R[n] = T
      BY <2>4
    <3>2. /\ GoodBut(r, X, I) /\ Serves(s, r, X, I) /\ h \in r.harbors
          /\ \A x \in X : r.ship[x].state # "idle"
      BY <3>1 DEF Serves
    <3>3. ASSUME NEW v \in CallShip(r, h) PROVE v \in T
      <4>1. GoodBut(v, X, I) /\ Serves(r, v, X, I)
        BY <3>2, CallIs
      <4> QED BY <3>2, <4>1 DEF Serves, GoodBut
    <3> QED BY <2>5, <3>1, <3>3
  <2>7. s \in R[0]
    BY <1>2, <2>4
  <2>8. R[k] = T
    BY <2>4
  <2> HIDE DEF R
  <2>9. t \in R[Len(q)]
    BY <2>1, <2>4, <2>5, <2>6, <2>7, CalledAll
  <2> QED BY <2>5, <2>8, <2>9
<1> QED BY <1>3, <1>4

LEMMA GetsJob ==
  ASSUME NEW X, NEW I, I \subseteq Items, NEW s, GoodBut(s, X, I), NEW x \in Ships \ X,
         s.ship[x].state = "idle", NEW t \in GetJobForShip(s, x)
  PROVE  GoodBut(t, X, I) /\ Serves(s, t, Ships \ {x}, I)
<1> DEFINE needy == {h \in s.harbors : NeedsMore(s, h)}
<1>1. CASE s.ship[x].at \in needy
  <2>1. t \in TakesJob(s, x, s.ship[x].at) /\ s.ship[x].at \in s.harbors
    BY <1>1 DEF GetJobForShip
  <2> QED BY <2>1, TakesJobs
<1>2. CASE s.ship[x].at \notin needy /\ needy # {}
  <2>1. PICK h \in needy : t = GoToHarbor(s, x, h)
    BY <1>2 DEF GetJobForShip
  <2>2. h \in s.harbors /\ s.ship[x].at # h
    BY <1>2, <2>1
  <2> QED BY <2>1, <2>2, GoesThere
<1>3. CASE needy = {}
  <2>1. t = s
    BY <1>3 DEF GetJobForShip
  <2> QED BY <2>1 DEF Serves
<1> QED BY <1>1, <1>2, <1>3

(* A ship without load at a coast, or one that has just been built, looks  *)
(* for something to do.                                                    *)
Released(u) ==
  /\ u.step = None /\ u.tasks = 0 /\ ~u.lost /\ u.hold = {}
  /\ u.at = Sea \/ u.pos = Len(u.route)

LEMMA Rests ==
  ASSUME NEW X, NEW I, I \subseteq Items, NEW s, GoodBut(s, X, I), NEW x \in Ships,
         Released(s.ship[x]), s.ship[x].state \notin Expeditions
  PROVE  /\ GoodBut(StartIdling(s, x), X \ {x}, I)
         /\ StartIdling(s, x).ship[x].state = "idle"
<1>1. s \in Scenes
  BY DEF GoodBut
<1>2. PICK v : /\ StartIdling(s, x) = Now(s, x, v) /\ Lies(s.ship[x], v)
               /\ v.state = "idle" /\ v.tasks = s.ship[x].tasks
  BY <1>1, IdlingIs
<1>3. v \in Vessel /\ v.hold = s.ship[x].hold /\ v.hold = {}
  BY <1>2 DEF Lies, Released
<1>4. ShipOK(v, s.harbors) /\ AwareOf(s, v)
  BY <1>2, <1>3 DEF ShipOK, AwareOf, Lies, Released, Transporting, Expeditions, Explorations
<1>5. v.state \in Expeditions <=> s.ship[x].state \in Expeditions
  BY <1>2 DEF Expeditions
<1>6. GoodBut(Now(s, x, v), X \ {x}, I)
  BY <1>3, <1>4, <1>5, Changes
<1>7. Now(s, x, v).ship[x] = v
  BY <1>1, <1>3, NowShips
<1> QED BY <1>2, <1>6, <1>7

LEMMA LooksForJobs ==
  ASSUME NEW X, NEW I, I \subseteq Items, NEW s, GoodBut(s, X, I), NEW x \in Ships,
         Released(s.ship[x]), s.ship[x].state \notin Expeditions,
         NEW t \in LooksForJob(s, x)
  PROVE  GoodBut(t, X \ {x}, I)
<1> DEFINE r == StartIdling(s, x)
<1>1. GoodBut(r, X \ {x}, I) /\ r.ship[x].state = "idle"
  BY Rests
<1>2. t \in GetJobForShip(r, x) /\ x \in Ships \ (X \ {x})
  BY DEF LooksForJob
<1> HIDE DEF r
<1> QED BY <1>1, <1>2, GetsJob

(* A ship that was called. *)
LEMMA GoesToHarbors ==
  ASSUME NEW X, NEW I, I \subseteq Items, NEW s, GoodBut(s, X, I), NEW x \in Ships,
         s.ship[x].state = "to_harbour", Afloat(s.ship[x]), s.ship[x].hold = {},
         s.ship[x].at = Sea \/ s.ship[x].pos = Len(s.ship[x].route),
         NEW t \in GoesToHarbor(s, x)
  PROVE  GoodBut(t, X \ {x}, I)
<1> DEFINE u == s.ship[x]
           d == DriveToHarbour(s, x)
           idle == StartIdling(d.scene, x)
<1>1. s \in Scenes /\ ~s.failed
  BY DEF GoodBut
<1>2. Released(u) /\ u.state \notin Expeditions
  BY DEF Released, Afloat, Expeditions
<1>3. GoodBut(StartIdling(s, x), X \ {x}, I) /\ StartIdling(s, x).ship[x].state = "idle"
  BY <1>2, Rests
<1>4. t \in CASE d.result = "driving" -> {d.scene}
              [] d.result = "reached" -> ShipArrived(idle, u.goal, x)
              [] OTHER -> {idle}
  BY DEF GoesToHarbor
<1>5. CASE u.goal \notin s.harbors
  <2>1. d = [result |-> "gone", scene |-> s]
    BY <1>5 DEF DriveToHarbour
  <2> HIDE DEF d
  <2>2. t = StartIdling(s, x)
    BY <1>4, <2>1
  <2> QED BY <1>3, <2>2
<1>6. CASE u.goal \in s.harbors /\ u.at = u.goal
  <2>1. d = [result |-> "reached", scene |-> s]
    BY <1>1, <1>6, PlaceIs DEF DriveToHarbour
  <2> DEFINE r == StartIdling(s, x)
  <2>2. t \in ShipArrived(r, u.goal, x)
    <3> HIDE DEF d
    <3> QED BY <1>4, <2>1
  <2>3. PICK v : /\ r = Now(s, x, v) /\ Lies(u, v)
                 /\ v.state = "idle" /\ v.tasks = u.tasks /\ v.goal = u.goal
    BY <1>1, IdlingIs
  <2>4. v \in Vessel
    BY <2>3 DEF Lies
  <2>5. r.harbors = s.harbors /\ r.ship[x] = v
    <3>1. Now(s, x, v).harbors = s.harbors
      BY <1>1, <2>4, NowIs
    <3>2. Now(s, x, v).ship[x] = v
      BY <1>1, <2>4, NowShips
    <3> QED BY <2>3, <3>1, <3>2
  <2>6. Berthed(v, u.goal)
    BY <1>6, <2>3 DEF Berthed, Lies, Afloat
  <2> HIDE DEF r
  <2>7. GoodBut(r, X \ {x}, I)
    BY <1>3 DEF r
  <2>8. t = r \/ Commission(r, t, X \ {x}, I, x)
    BY <1>6, <2>2, <2>5, <2>6, <2>7, Arrives
  <2>9. (X \ {x}) \ {x} = X \ {x}
    OBVIOUS
  <2> QED BY <2>7, <2>8, <2>9 DEF Commission
<1>7. CASE u.goal \in s.harbors /\ u.at # u.goal
  <2>1. PICK v : Sails(u, v) /\ d = [result |-> "driving", scene |-> Now(s, x, v)]
    BY <1>1, <1>7, PlaceIs DEF DriveToHarbour
  <2>2. t = Now(s, x, v)
    <3> HIDE DEF d
    <3> QED BY <1>4, <2>1
  <2>3. /\ v \in Vessel /\ v.hold = u.hold /\ v.hold = {}
        /\ v.state \notin Expeditions /\ u.state \notin Expeditions
    BY <2>1 DEF Sails, Expeditions
  <2>4. ShipOK(v, s.harbors)
    BY <2>1, <2>3 DEF ShipOK, Sails, Transporting, Expeditions, Explorations
  <2>5. AwareOf(s, v)
    BY <2>3 DEF AwareOf
  <2>6. GoodBut(Now(s, x, v), X \ {x}, I)
    BY <2>3, <2>4, <2>5, Changes
  <2> QED BY <2>2, <2>6
<1> QED BY <1>5, <1>6, <1>7

(* A ship under way comes to the next node. *)
Stepped(s, x) == Now(s, x, [s.ship[x] EXCEPT !.at = s.ship[x].step, !.step = None])
LEMMA Driving ==
  ASSUME NEW s, GoodBut(s, {}, {}), NEW x \in Ships, s.ship[x].step # None,
         NEW r, r = Stepped(s, x), NEW t \in Driven(r, x)
  PROVE  Good(t)
<1> USE DEF Stepped
<1> DEFINE u == s.ship[x]
           n == u.step
           v == [u EXCEPT !.at = n, !.step = None]
<1>1. s \in Scenes /\ ~s.failed /\ Fleet(s, s.harbors, Ships) /\ Aware(s, x)
  BY DEF GoodBut
<1>2. u \in Vessel
  BY <1>1, Fields
<1>3. ShipOK(u, s.harbors) /\ u.step # None
  BY <1>1 DEF Fleet
<1>4. /\ u.state \in {"to_harbour", "expedition_driving", "exploration_driving", "transport_driving"}
      /\ Course(u)
  <2>1. u.state \in States
    BY <1>2, VesselFields
  <2>2. u.state # "unbuilt"
    BY <1>3 DEF ShipOK, Unbuilt
  <2> HIDE DEF u
  <2> QED BY <1>3, <2>1, <2>2
          DEF ShipOK, Anchored, Moored, States, Transporting, Expeditions, Explorations
<1> HIDE DEF u
<1>5. n \in Nodes /\ None \in Coasts
  BY <1>4 DEF Course, Coasts
<1> HIDE DEF n
<1>6. /\ v \in Vessel /\ v.at = n /\ v.step = None /\ v.route = u.route /\ v.pos = u.pos
      /\ v.lost = u.lost /\ v.hold = u.hold /\ v.state = u.state /\ v.tasks = u.tasks
      /\ v.goal = u.goal /\ v.home = u.home
  BY <1>2, <1>5 DEF Vessel
<1>7. r = Now(s, x, v)
  BY DEF u, n, v
<1> HIDE DEF v
<1>8. Afloat(v)
  BY <1>4, <1>6 DEF Afloat, Course, n
<1>9. AwareOf(s, v)
  BY <1>1, <1>6 DEF Aware, AwareOf, u
<1>10. v.hold = s.ship[x].hold /\ (v.state \in Expeditions <=> s.ship[x].state \in Expeditions)
  BY <1>6 DEF u
<1>11. GoodBut(r, {x}, {})
  <2>1. GoodBut(Now(s, x, v), {} \cup {x}, {})
    BY <1>6, <1>9, <1>10, Changes
  <2>2. {} \cup {x} = {x}
    OBVIOUS
  <2> QED BY <1>7, <2>1, <2>2
<1>12. r.harbors = s.harbors /\ r.ship[x] = v
  <2>1. Now(s, x, v).harbors = s.harbors
    BY <1>1, <1>6, NowIs
  <2>2. Now(s, x, v).ship[x] = v
    BY <1>1, <1>6, NowShips
  <2> QED BY <1>7, <2>1, <2>2
<1>13. {x} \ {x} = {}
  OBVIOUS
<1>14. CASE u.state = "to_harbour"
  <2>1. t \in GoesToHarbor(r, x) /\ v.hold = {}
    BY <1>3, <1>6, <1>12, <1>14 DEF Driven, ShipOK, Transporting
  <2>2. v.at = Sea \/ v.pos = Len(v.route)
    BY <1>3, <1>6, <1>14 DEF ShipOK, n
  <2>3. GoodBut(t, {x} \ {x}, {})
    BY <1>6, <1>8, <1>11, <1>12, <1>14, <2>1, <2>2, GoesToHarbors
  <2> QED BY <1>13, <2>3 DEF Good
<1>15. CASE u.state = "expedition_driving"
  <2>1. t = ExpeditionDriving(r, x) /\ v.hold = {} /\ v.home \in s.harbors
    BY <1>3, <1>6, <1>12, <1>15 DEF Driven, ShipOK, Transporting, Expeditions
  <2>2. GoodBut(ExpeditionDriving(r, x), {x} \ {x}, {})
    BY <1>6, <1>8, <1>11, <1>12, <1>15, <2>1, ExpeditionDrives
  <2> QED BY <1>13, <2>1, <2>2 DEF Good
<1>16. CASE u.state = "exploration_driving"
  <2>1. t \in ExplorationDriving(r, x) /\ v.hold = {} /\ v.home \in s.harbors
    BY <1>3, <1>6, <1>12, <1>16 DEF Driven, ShipOK, Transporting, Explorations
  <2>2. GoodBut(t, {x} \ {x}, {})
    BY <1>6, <1>8, <1>11, <1>12, <1>16, <2>1, ExplorationDrives
  <2> QED BY <1>13, <2>2 DEF Good
<1>17. CASE u.state = "transport_driving"
  <2>1. t \in TransportDriving(r, x)
    BY <1>6, <1>12, <1>17 DEF Driven
  <2>2. v.goal \notin s.harbors => s.harbors = {}
    BY <1>3, <1>6, <1>17 DEF ShipOK
  <2>3. GoodBut(t, {x} \ {x}, {})
    BY <1>6, <1>8, <1>11, <1>12, <1>17, <2>1, <2>2, TransportDrives
  <2> QED BY <1>13, <2>3 DEF Good
<1> QED BY <1>4, <1>14, <1>15, <1>16, <1>17

-----------------------------------------------------------------------------
(* People and wares come and go.                                           *)

Departed(s, S) == [i \in Items |-> IF i \in S THEN Ashore ELSE s.item[i]]
Remaining(s, S) == [h \in Points |-> s.queue[h] \ S]

LEMMA LeavesAre ==
  ASSUME NEW s \in Scenes, NEW S
  PROVE  /\ Leaves(s, S) = Rearranged(s, Departed(s, S), Remaining(s, S))
         /\ Departed(s, S) \in [Items -> Item] /\ Remaining(s, S) \in [Points -> SUBSET Items]
<1>1. s.item \in [Items -> Item] /\ s.queue \in [Points -> SUBSET Items]
  BY Fields
<1>2. Ashore \in Item
  BY DEF Ashore, Item, Coasts
<1>3. Leaves(s, S) = Rearranged(s, Departed(s, S), Remaining(s, S))
  BY DEF Leaves, Rearranged, Departed, Remaining
<1> QED BY <1>1, <1>2, <1>3 DEF Departed, Remaining

(* Who is on no ship may leave. *)
LEMMA MayLeave ==
  ASSUME NEW X, NEW I, I \subseteq Items, NEW s, GoodBut(s, X, I), NEW S,
         \A i \in S \cap Items : InHold(s, i) = {},
         NEW t, t = Leaves(s, S)
  PROVE  /\ GoodBut(t, X, I \ S) /\ t.harbors = s.harbors /\ t.ship = s.ship
         /\ t.queue = Remaining(s, S) /\ t.item = Departed(s, S)
<1> DEFINE f == Departed(s, S)
           g == Remaining(s, S)
<1>1. /\ s \in Scenes /\ Bound(s, s.harbors)
      /\ \A i \in Items \ I : Placed(s, i)
      /\ \A i \in I : Nowhere(s, i)
      /\ \A x \in Ships : Aware(s, x)
  BY DEF GoodBut
<1>2. t = Rearranged(s, f, g) /\ f \in [Items -> Item] /\ g \in [Points -> SUBSET Items]
  BY <1>1, LeavesAre
<1>3. t.item = f /\ t.queue = g /\ t.ship = s.ship /\ t.harbors = s.harbors
  BY <1>1, <1>2, Rearranges
<1>4. /\ \A i \in Items : f[i] = IF i \in S THEN Ashore ELSE s.item[i]
      /\ \A h \in Points : g[h] = s.queue[h] \ S
  BY DEF Departed, Remaining
<1> HIDE DEF f, g
<1>5. \A i \in Items : InHold(t, i) = InHold(s, i)
  BY <1>3 DEF InHold
<1>6. \A i \in Items \ S : InQueue(t, i) = InQueue(s, i) /\ t.item[i] = s.item[i]
  BY <1>3, <1>4 DEF InQueue
<1>7. \A i \in Items \cap S : InQueue(t, i) = {} /\ t.item[i] = Ashore
  BY <1>3, <1>4 DEF InQueue
<1>8. \A i \in Items \ (I \ S) : Placed(t, i)
  <2> SUFFICES ASSUME NEW i \in Items \ (I \ S) PROVE Placed(t, i)
    OBVIOUS
  <2>1. CASE i \in S
    BY <1>5, <1>7, <2>1 DEF Placed
  <2>2. CASE i \notin S
    BY <1>1, <1>5, <1>6, <2>2 DEF Placed
  <2> QED BY <2>1, <2>2
<1>9. \A i \in I \ S : Nowhere(t, i)
  BY <1>1, <1>5, <1>6 DEF Nowhere
<1>10. Bound(t, t.harbors)
  <2> SUFFICES ASSUME NEW a \in Points, NEW i \in t.queue[a] PROVE BoundOK(t, a, i, s.harbors)
    BY <1>3 DEF Bound
  <2>1. i \in s.queue[a] /\ i \notin S /\ i \in Items
    BY <1>1, <1>3, <1>4, Fields
  <2> QED BY <1>1, <1>6, <2>1 DEF Bound, BoundOK
<1>11. \A x \in Ships : AwareOf(t, s.ship[x])
  <2> SUFFICES ASSUME NEW x \in Ships, NEW i \in s.ship[x].hold \cap Figures
               PROVE  /\ t.item[i].goal # None => t.item[i].spot = s.ship[x].goal
                      /\ s.ship[x].lost => t.item[i].goal = None
    BY DEF AwareOf
  <2>1. i \in Items /\ x \in InHold(s, i)
    BY DEF Items, InHold
  <2>2. i \notin S
    BY <2>1
  <2> QED BY <1>1, <1>6, <2>1, <2>2 DEF Aware, AwareOf
<1>12. GoodBut(t, X, I \ S)
  BY <1>2, <1>8, <1>9, <1>10, <1>11, Regroups
<1> QED BY <1>3, <1>12 DEF f, g

LEMMA WaitsAre ==
  ASSUME NEW s \in Scenes, NEW i, NEW h, NEW d
  PROVE  /\ Waits(s, i, h, d).harbors = s.harbors /\ Waits(s, i, h, d).ship = s.ship
         /\ \A j \in Items : j # i => Waits(s, i, h, d).item[j] = s.item[j]
BY Fields DEF Waits, Scenes

(* Who is nowhere may wait for a harbour. *)
LEMMA MayWait ==
  ASSUME NEW X, NEW I, I \subseteq Items, NEW s, GoodBut(s, X, I), NEW i \in I,
         NEW h \in s.harbors, NEW d \in s.harbors, d # h
  PROVE  GoodBut(Waits(s, i, h, d), X, I \ {i})
<1> DEFINE t == Waits(s, i, h, d)
           f == [s.item EXCEPT ![i] = [s.item[i] EXCEPT !.spot = d]]
           g == [s.queue EXCEPT ![h] = s.queue[h] \cup {i}]
<1>1. /\ s \in Scenes /\ Bound(s, s.harbors)
      /\ \A j \in Items \ I : Placed(s, j)
      /\ \A j \in I : Nowhere(s, j)
      /\ \A x \in Ships : Aware(s, x)
  BY DEF GoodBut
<1>2. /\ s.item \in [Items -> Item] /\ s.queue \in [Points -> SUBSET Items]
      /\ h \in Points /\ d \in Points /\ i \in Items
  BY <1>1, Fields
<1>3. [s.item[i] EXCEPT !.spot = d] \in Item /\ [s.item[i] EXCEPT !.spot = d].spot = d
  <2>1. s.item[i] \in Item
    BY <1>2
  <2> QED BY <1>2, <2>1 DEF Item, Coasts
<1>4. f \in [Items -> Item] /\ g \in [Points -> SUBSET Items]
  BY <1>2, <1>3
<1>5. t = Rearranged(s, f, g)
  BY <1>1 DEF Waits, Rearranged, Scenes
<1> HIDE DEF t
<1>6. t.item = f /\ t.queue = g /\ t.ship = s.ship /\ t.harbors = s.harbors
  BY <1>1, <1>4, <1>5, Rearranges
<1>7. /\ f[i].spot = d /\ \A j \in Items \ {i} : f[j] = s.item[j]
      /\ g[h] = s.queue[h] \cup {i} /\ \A a \in Points \ {h} : g[a] = s.queue[a]
  BY <1>2, <1>3
<1> HIDE DEF f, g
<1>8. \A j \in Items : InHold(t, j) = InHold(s, j)
  BY <1>6 DEF InHold
<1>9. \A j \in Items \ {i} : InQueue(t, j) = InQueue(s, j) /\ t.item[j] = s.item[j]
  BY <1>6, <1>7 DEF InQueue
<1>10. InQueue(t, i) = {h} /\ InHold(t, i) = {} /\ t.item[i].spot = d
  <2>1. InQueue(s, i) = {} /\ InHold(s, i) = {}
    BY <1>1 DEF Nowhere
  <2>2. \A a \in Points : i \in t.queue[a] <=> a = h
    BY <1>2, <1>6, <1>7, <2>1 DEF InQueue
  <2> QED BY <1>2, <1>6, <1>7, <1>8, <2>1, <2>2 DEF InQueue
<1>11. \A j \in Items \ (I \ {i}) : Placed(t, j)
  <2> SUFFICES ASSUME NEW j \in Items \ (I \ {i}) PROVE Placed(t, j)
    OBVIOUS
  <2>1. CASE j = i
    BY <1>2, <1>10, <2>1 DEF Placed
  <2>2. CASE j # i
    BY <1>1, <1>8, <1>9, <2>2 DEF Placed
  <2> QED BY <2>1, <2>2
<1>12. \A j \in I \ {i} : Nowhere(t, j)
  BY <1>1, <1>8, <1>9 DEF Nowhere
<1>13. Bound(t, t.harbors)
  <2> SUFFICES ASSUME NEW a \in Points, NEW j \in t.queue[a] PROVE BoundOK(t, a, j, s.harbors)
    BY <1>6 DEF Bound
  <2>1. CASE j = i
    <3>1. a = h
      BY <1>10, <2>1 DEF InQueue
    <3> QED BY <1>10, <2>1, <3>1 DEF BoundOK
  <2>2. CASE j # i
    <3>1. j \in s.queue[a] /\ j \in Items
      BY <1>2, <1>4, <1>6, <1>7, <2>2
    <3> QED BY <1>1, <1>9, <2>2, <3>1 DEF Bound, BoundOK
  <2> QED BY <2>1, <2>2
<1>14. \A x \in Ships : AwareOf(t, s.ship[x])
  <2> SUFFICES ASSUME NEW x \in Ships, NEW j \in s.ship[x].hold \cap Figures
               PROVE  /\ t.item[j].goal # None => t.item[j].spot = s.ship[x].goal
                      /\ s.ship[x].lost => t.item[j].goal = None
    BY DEF AwareOf
  <2>1. j \in Items /\ x \in InHold(s, j)
    BY DEF Items, InHold
  <2>2. j # i
    BY <1>1, <2>1 DEF Nowhere
  <2> QED BY <1>1, <1>9, <2>1, <2>2 DEF Aware, AwareOf
<1>15. GoodBut(t, X, I \ {i})
  BY <1>4, <1>5, <1>11, <1>12, <1>13, <1>14, Regroups
<1> QED BY <1>15 DEF t

(* Who is landed where he believes to be goes his way. *)
LEMMA Lands ==
  ASSUME NEW X, X \subseteq Ships, NEW I, I \subseteq Items, NEW s, GoodBut(s, X, I),
         \A y \in X : s.ship[y].state # "idle", NEW i \in I, NEW h \in s.harbors,
         s.item[i].goal # None => s.item[i].spot = h, NEW t \in ReceiveFigure(s, h, i)
  PROVE  GoodBut(t, X, I \ {i}) /\ Serves(s, t, X, I \ {i})
<1> DEFINE u == s.item[i]
           dests == IF u.goal = h THEN {} ELSE OverSea(s, u.spot, u.goal)
<1>1. s \in Scenes /\ \A j \in I : Nowhere(s, j)
  BY DEF GoodBut
<1>2. CASE dests = {}
  <2>1. t = Leaves(s, {i})
    BY <1>2 DEF ReceiveFigure
  <2>2. \A j \in {i} \cap Items : InHold(s, j) = {}
    BY <1>1 DEF Nowhere
  <2>3. /\ GoodBut(t, X, I \ {i}) /\ t.harbors = s.harbors /\ t.ship = s.ship
        /\ t.item = Departed(s, {i})
    BY <2>1, <2>2, MayLeave
  <2> QED BY <2>3 DEF Serves, Departed
<1>3. CASE dests # {}
  <2>1. t \in UNION {OrderShip(Waits(s, i, h, d), h) : d \in dests}
    BY <1>3 DEF ReceiveFigure
  <2>2. PICK d \in dests : t \in OrderShip(Waits(s, i, h, d), h)
    <3> HIDE DEF dests
    <3> QED BY <2>1
  <2>3. d \in s.harbors /\ d # h
    BY <2>2 DEF OverSea
  <2> HIDE DEF dests
  <2> DEFINE r == Waits(s, i, h, d)
  <2>4. /\ GoodBut(r, X, I \ {i}) /\ r.harbors = s.harbors /\ r.ship = s.ship
        /\ \A j \in Items \ {i} : r.item[j] = s.item[j]
    <3>1. GoodBut(r, X, I \ {i})
      BY <2>3, MayWait
    <3> QED BY <1>1, <3>1, WaitsAre
  <2> HIDE DEF r
  <2>5. I \ {i} \subseteq Items
    OBVIOUS
  <2>6. GoodBut(t, X, I \ {i}) /\ Serves(r, t, X, I \ {i})
    BY <2>2, <2>4, <2>5, OrdersShips DEF r
  <2> QED BY <2>4, <2>6 DEF Serves
<1> QED BY <1>2, <1>3

LEMMA Empties ==
  ASSUME NEW s, NEW x \in Ships, GoodBut(s, {x}, {}),
         NEW r, r = Now(s, x, [s.ship[x] EXCEPT !.hold = {}])
  PROVE  /\ GoodBut(r, {x}, s.ship[x].hold) /\ r.harbors = s.harbors /\ r.item = s.item
         /\ r.ship[x] = [s.ship[x] EXCEPT !.hold = {}]
<1> DEFINE u == s.ship[x]
           v == [u EXCEPT !.hold = {}]
           load == u.hold
<1>1. /\ s \in Scenes /\ ~s.failed /\ Bound(s, s.harbors) /\ Supplied(s)
      /\ Fleet(s, s.harbors, Ships \ {x})
      /\ \A i \in Items : Placed(s, i)
      /\ \A y \in Ships : Aware(s, y)
  BY DEF GoodBut
<1>2. u \in Vessel /\ load \subseteq Items
  BY <1>1, Fields, VesselFields
<1>3. v \in Vessel /\ v.hold = {} /\ v.state = u.state
  <2> HIDE DEF u
  <2> QED BY <1>2 DEF Vessel
<1>4. r = Now(s, x, v)
  OBVIOUS
<1> HIDE DEF v
<1>5. /\ r \in Scenes /\ r.harbors = s.harbors /\ r.queue = s.queue /\ r.item = s.item
      /\ r.failed = s.failed
  <2>1. /\ Now(s, x, v) \in Scenes /\ Now(s, x, v).harbors = s.harbors
        /\ Now(s, x, v).queue = s.queue /\ Now(s, x, v).item = s.item
        /\ Now(s, x, v).failed = s.failed
    BY <1>1, <1>3, NowIs
  <2> QED BY <1>4, <2>1
<1>6. r.ship[x] = v /\ \A y \in Ships \ {x} : r.ship[y] = s.ship[y]
  <2>1. Now(s, x, v).ship[x] = v /\ \A y \in Ships \ {x} : Now(s, x, v).ship[y] = s.ship[y]
    BY <1>1, <1>3, NowShips
  <2> QED BY <1>4, <2>1
<1>7. Supplied(r)
  <2>1. Supplied(Now(s, x, v))
    BY <1>1, <1>3, NowSupplied
  <2> QED BY <1>4, <2>1
<1>8. \A i \in Items : InQueue(r, i) = InQueue(s, i)
  BY <1>5 DEF InQueue
<1>9. \A i \in Items \ load : InHold(r, i) = InHold(s, i)
  BY <1>3, <1>6 DEF InHold
<1>10. \A i \in load : InQueue(r, i) = {} /\ InHold(r, i) = {}
  <2> SUFFICES ASSUME NEW i \in load PROVE InQueue(r, i) = {} /\ InHold(r, i) = {}
    OBVIOUS
  <2>1. i \in Items /\ x \in InHold(s, i)
    BY <1>2 DEF InHold
  <2>2. Placed(s, i)
    BY <1>1, <2>1
  <2>3. InQueue(s, i) = {} /\ InHold(s, i) = {x}
    BY <2>1, <2>2 DEF Placed
  <2>4. \A y \in Ships : i \notin r.ship[y].hold
    BY <1>3, <1>6, <2>3 DEF InHold
  <2> QED BY <1>8, <2>1, <2>3, <2>4 DEF InHold
<1>11. \A i \in Items \ load : Placed(r, i)
  BY <1>1, <1>5, <1>8, <1>9 DEF Placed
<1>12. \A y \in Ships : Aware(r, y)
  <2> SUFFICES ASSUME NEW y \in Ships PROVE AwareOf(r, r.ship[y])
    BY DEF Aware
  <2>1. CASE y = x
    BY <1>3, <1>6, <2>1 DEF AwareOf
  <2>2. CASE y # x
    <3>1. r.ship[y] = s.ship[y] /\ AwareOf(s, s.ship[y])
      BY <1>1, <1>6, <2>2 DEF Aware
    <3> QED BY <1>5, <3>1 DEF AwareOf
  <2> QED BY <2>1, <2>2
<1>13. Bound(r, r.harbors)
  BY <1>1, <1>5 DEF Bound, BoundOK
<1>14. Fleet(r, r.harbors, Ships \ {x})
  BY <1>1, <1>5, <1>6 DEF Fleet
<1>15. GoodBut(r, {x}, load)
  BY <1>1, <1>5, <1>7, <1>10, <1>11, <1>12, <1>13, <1>14 DEF GoodBut, Nowhere
<1> QED BY <1>5, <1>6, <1>15 DEF v

(* A transport that has arrived is unloaded. *)
LEMMA Unloads ==
  ASSUME NEW s, NEW x \in Ships, GoodBut(s, {x}, {}), s.ship[x].state = "transport_unloading",
         Anchored(s.ship[x], 0), s.ship[x].goal \in s.harbors,
         NEW t \in ReceiveGoodsFromShip(s, s.ship[x].goal, x)
  PROVE  /\ GoodBut(t, {x}, {}) /\ t.harbors = s.harbors /\ Berthed(t.ship[x], s.ship[x].goal)
         /\ t.ship[x].state = "transport_unloading"
<1> DEFINE u == s.ship[x]
           h == u.goal
           load == u.hold
           v == [u EXCEPT !.hold = {}]
           empty == Now(s, x, v)
           S == load \cap Figures
<1>1. s \in Scenes /\ Aware(s, x)
  BY DEF GoodBut
<1>2. u \in Vessel /\ load \subseteq Items
  BY <1>1, Fields, VesselFields
<1>3. /\ GoodBut(empty, {x}, load) /\ empty.harbors = s.harbors /\ empty.item = s.item
      /\ empty.ship[x] = v
  BY Empties
<1>4. \A i \in S : s.item[i].goal # None => s.item[i].spot = h
  BY <1>1 DEF Aware, AwareOf
<1>5. /\ u.state = "transport_unloading" /\ u.step = None /\ u.tasks = 0 /\ ~u.lost
      /\ u.pos = Len(u.route) /\ u.at = h
  BY DEF Anchored, Moored
<1>6. \E w \in ReceiveFigures(empty, h, S) : t = Leaves(w, load \cap Wares)
  BY DEF ReceiveGoodsFromShip
<1>7. h \in s.harbors
  OBVIOUS
<1> HIDE DEF u, empty, h, load
<1>8. Berthed(v, h) /\ v.state = "transport_unloading"
  BY <1>2, <1>5 DEF Berthed, Vessel, h
<1> HIDE DEF v
<1>9. PICK w \in ReceiveFigures(empty, h, S) : t = Leaves(w, load \cap Wares)
  BY <1>6
<1>10. PICK q \in SetToSeqs(S) : w \in Landed(empty, h, q)
  BY <1>9 DEF ReceiveFigures, ForEach, Landed, InOrder
<1>11. IsFiniteSet(S)
  <2>1. S \in SUBSET Items
    BY <1>2
  <2> QED BY <2>1, ShipsAssumption, FS_Subset
<1>12. /\ Len(q) \in Nat /\ q \in [1..Len(q) -> S]
       /\ \A e \in S : \E n \in 1..Len(q) : q[n] = e
       /\ \A n, k \in 1..Len(q) : q[n] = q[k] => n = k
  <2> HIDE DEF S
  <2> QED BY <1>11, Ordered
<1> DEFINE Left(n) == load \ {q[k] : k \in 1..n}
           Fine(r, n) == /\ GoodBut(r, {x}, Left(n)) /\ r.harbors = s.harbors /\ r.ship[x] = v
                         /\ \A j \in Left(n) : r.item[j] = s.item[j]
           R == [n \in 0..Len(q) |-> {r \in Scenes : Fine(r, n)}]
<1>13. Left(0) = load
  OBVIOUS
<1>14. empty \in R[0]
  <2>1. Fine(empty, 0)
    BY <1>3, <1>13
  <2>2. empty \in Scenes
    BY <1>3 DEF GoodBut
  <2> HIDE DEF Fine
  <2> QED BY <1>12, <2>1, <2>2
<1>15. ASSUME NEW n \in 1..Len(q), NEW r \in R[n - 1] PROVE ReceiveFigure(r, h, q[n]) \subseteq R[n]
  <2>1. Fine(r, n - 1)
    <3> HIDE DEF Fine
    <3> QED BY <1>12
  <2>2. q[n] \in S /\ n - 1 \in Nat
    BY <1>12
  <2>3. q[n] \in Left(n - 1)
    <3>1. \A k \in 1..(n - 1) : q[k] # q[n]
      BY <1>12
    <3> QED BY <2>2, <3>1
  <2>4. Left(n) = Left(n - 1) \ {q[n]}
    <3>1. 1..n = (1..(n - 1)) \cup {n}
      BY <2>2
    <3> QED BY <3>1
  <2>5. Left(n - 1) \subseteq Items
    BY <1>2
  <2> DEFINE I == Left(n - 1)
             i == q[n]
  <2>6. /\ GoodBut(r, {x}, I) /\ r.harbors = s.harbors /\ r.ship[x] = v
        /\ \A j \in I : r.item[j] = s.item[j]
    BY <2>1
  <2>7. r.item[i].goal # None => r.item[i].spot = h
    BY <1>4, <2>2, <2>3, <2>6
  <2>8. i \in I /\ i \in S /\ Left(n) = I \ {i} /\ I \subseteq Items
    BY <2>2, <2>3, <2>4, <2>5
  <2> HIDE DEF I, i, Left
  <2>9. ASSUME NEW z \in ReceiveFigure(r, h, i) PROVE z \in R[n]
    <3>1. \A y \in {x} : r.ship[y].state # "idle"
      BY <1>8, <2>6
    <3>2. {x} \subseteq Ships
      OBVIOUS
    <3>3. GoodBut(z, {x}, I \ {i}) /\ Serves(r, z, {x}, I \ {i})
      BY <1>7, <2>6, <2>7, <2>8, <2>9, <3>1, <3>2, Lands DEF h, u
    <3>4. z.harbors = s.harbors /\ z.ship[x] = v /\ \A j \in I \ {i} : z.item[j] = s.item[j]
      BY <2>6, <3>3 DEF Serves
    <3>5. Fine(z, n)
      BY <2>8, <3>3, <3>4
    <3>6. z \in Scenes
      BY <3>3 DEF GoodBut
    <3> HIDE DEF Fine
    <3> QED BY <1>12, <3>5, <3>6
  <2> QED BY <2>9 DEF i
<1>16. w \in R[Len(q)]
  <2> HIDE DEF R
  <2> QED BY <1>10, <1>12, <1>14, <1>15, LandedAll
<1>17. Fine(w, Len(q))
  <2> HIDE DEF Fine
  <2> QED BY <1>12, <1>16
<1>18. Left(Len(q)) = load \cap Wares
  <2>1. {q[k] : k \in 1..Len(q)} = S
    BY <1>12
  <2>2. load \ S = load \cap Wares
    BY <1>2, ShipsAssumption DEF Items
  <2> HIDE DEF S
  <2> QED BY <2>1, <2>2
<1>19. GoodBut(w, {x}, load \cap Wares) /\ w.harbors = s.harbors /\ w.ship[x] = v
  BY <1>17, <1>18
<1>20. \A i \in (load \cap Wares) \cap Items : InHold(w, i) = {}
  BY <1>19 DEF GoodBut, Nowhere
<1>21. load \cap Wares \subseteq Items /\ (load \cap Wares) \ (load \cap Wares) = {}
  BY <1>2
<1>22. GoodBut(t, {x}, {}) /\ t.harbors = w.harbors /\ t.ship = w.ship
  BY <1>9, <1>19, <1>20, <1>21, MayLeave, SMTT(30)
<1> QED BY <1>8, <1>19, <1>22 DEF h, u

-----------------------------------------------------------------------------
(* The tasks of a ship.                                                    *)

(* The end of an expedition: its materials are stored or built in. *)
LEMMA Retires ==
  ASSUME NEW X, NEW s, GoodBut(s, X, {}), NEW x \in Ships, s.ship[x].state \in Expeditions,
         Released(s.ship[x]), NEW q \in Scenes, q.harbors = s.harbors, q.queue = s.queue,
         q.item = s.item, q.ship = s.ship, q.failed = s.failed, q.supply = s.supply,
         q.expedition = s.expedition,
         Cardinality(Stored(q)) + Cardinality(q.sites)
           = Cardinality(Stored(s)) + Cardinality(s.sites) + 1,
         NEW t \in LooksForJob(q, x)
  PROVE  GoodBut(t, X \ {x}, {})
<1> DEFINE u == s.ship[x]
           r == StartIdling(q, x)
<1>1. s \in Scenes /\ ~s.failed /\ Supplied(s)
  BY DEF GoodBut
<1>2. PICK v : /\ r = Now(q, x, v) /\ Lies(u, v) /\ v.state = "idle" /\ v.tasks = u.tasks
  BY IdlingIs
<1>3. v \in Vessel /\ v.hold = u.hold /\ v.hold = {}
  BY <1>2 DEF Lies, Released
<1>4. ShipOK(v, s.harbors) /\ AwareOf(s, v)
  BY <1>2, <1>3 DEF ShipOK, AwareOf, Lies, Released, Transporting, Expeditions, Explorations
<1>5. /\ Now(q, x, v) \in Scenes /\ Now(q, x, v).harbors = s.harbors
      /\ Now(q, x, v).queue = s.queue /\ Now(q, x, v).item = s.item
      /\ Now(q, x, v).ship = [s.ship EXCEPT ![x] = v] /\ Now(q, x, v).failed = s.failed
      /\ Now(q, x, v).supply = s.supply /\ Now(q, x, v).expedition = s.expedition
      /\ Now(q, x, v).stock = q.stock /\ Now(q, x, v).sites = q.sites
  BY <1>3, NowIs
<1> HIDE DEF r
<1>6. /\ r \in Scenes /\ r.harbors = s.harbors /\ r.queue = s.queue /\ r.item = s.item
      /\ r.ship = [s.ship EXCEPT ![x] = v] /\ r.failed = s.failed /\ r.supply = s.supply
      /\ r.expedition = s.expedition /\ r.stock = q.stock /\ r.sites = q.sites
  BY <1>2, <1>5
<1>7. Supplied(r)
  <2>1. Cardinality(Abroad(r)) = Cardinality(Abroad(s)) - 1
    <3>1. v.state \notin Expeditions
      BY <1>2 DEF Expeditions
    <3> QED BY <1>1, <1>6, <3>1, AbroadLess
  <2>2. Stored(r) = Stored(q) /\ Ready(r) = Ready(s) /\ r.sites = q.sites /\ r.supply = s.supply
    BY <1>6 DEF Stored, Ready
  <2>3. /\ Cardinality(Stored(s)) \in Nat /\ Cardinality(s.sites) \in Nat
        /\ Cardinality(Ready(s)) \in Nat /\ Cardinality(Abroad(s)) \in Nat
    BY <1>1, Countable
  <2>4. Cardinality(Stored(q)) \in Nat /\ Cardinality(q.sites) \in Nat
    BY Countable
  <2> QED BY <1>1, <2>1, <2>2, <2>3, <2>4 DEF Supplied
<1>8. GoodBut(r, X \ {x}, {})
  BY <1>1, <1>3, <1>4, <1>6, <1>7, Trades DEF u
<1>9. r.ship[x].state = "idle"
  BY <1>1, <1>2, <1>6, Fields
<1>10. t \in GetJobForShip(r, x) /\ x \in Ships \ (X \ {x}) /\ {} \subseteq Items
  BY DEF LooksForJob, r
<1> QED BY <1>8, <1>9, <1>10, GetsJob

(* An exploration goes on. *)
LEMMA Explores ==
  ASSUME NEW s, NEW x \in Ships, GoodBut(s, {x}, {}),
         s.ship[x].state \in {"exploration_loading", "exploration_waiting"},
         Anchored(s.ship[x], 0), s.ship[x].hold = {}, s.ship[x].home \in s.harbors,
         NEW t \in ContinueExploration(s, x)
  PROVE  Good(t)
<1> DEFINE u == s.ship[x]
           far == u.covered >= Far
           next == IF far \/ Points = {u.goal} THEN {u.home} ELSE Points \ {u.goal}
           Goes(p) == StartDrivingToHarborPlace(
                        Now(s, x, [u EXCEPT !.goal = p, !.state = "exploration_driving"]), x)
           E(p) == ExplorationDriving(Goes(p), x)
<1>0. t \in IF far /\ u.goal = u.home THEN {Anchors(s, x, "exploration_unloading")}
              ELSE UNION {E(p) : p \in next}
  BY Zenon DEF ContinueExploration
<1> HIDE DEF far, next, E
<1>1. s \in Scenes
  BY DEF GoodBut
<1>2. u \in Vessel /\ u.home \in Points
  BY <1>1, Fields
<1>3. /\ u.step = None /\ u.tasks = 0 /\ ~u.lost /\ u.at \in Points /\ u.pos = Len(u.route)
      /\ u.at = u.goal /\ u.hold = {}
  BY DEF Anchored, Moored
<1>4. {x} \ {x} = {} /\ {} \subseteq Items
  OBVIOUS
<1>5. CASE far /\ u.goal = u.home
  <2>1. t = Anchors(s, x, "exploration_unloading")
    BY <1>0, <1>5
  <2>2. PICK v : /\ t = Now(s, x, v) /\ Lies(u, v)
                 /\ v.state = "exploration_unloading" /\ v.tasks = u.tasks + 1
                 /\ v.goal = u.goal /\ v.home = u.home
    BY <1>1, <2>1, AnchorsIs DEF States, Explorations
  <2> HIDE DEF u
  <2>3. ShipOK(v, s.harbors)
    BY <1>3, <1>5, <2>2 DEF ShipOK, Lies, Anchored, Moored, Transporting, Expeditions, Explorations, u
  <2>4. v \in Vessel /\ v.hold = u.hold /\ AwareOf(s, v)
    BY <1>3, <2>2 DEF Lies, AwareOf
  <2>5. v.state \in Expeditions <=> u.state \in Expeditions
    BY <2>2 DEF Expeditions, u
  <2> QED BY <2>2, <2>3, <2>4, <2>5, Settles DEF u
<1>6. CASE ~(far /\ u.goal = u.home)
  <2>1. t \in UNION {E(p) : p \in next}
    BY <1>0, <1>6
  <2>2. PICK p \in next : t \in E(p)
    BY <2>1
  <2>3. p \in Points
    BY <1>2 DEF next
  <2> DEFINE w == [u EXCEPT !.goal = p, !.state = "exploration_driving"]
             r == Now(s, x, w)
  <2>4. t \in ExplorationDriving(StartDrivingToHarborPlace(r, x), x)
    BY <2>2 DEF E
  <2> HIDE DEF u
  <2>5. /\ w \in Vessel /\ w.at = u.at /\ w.step = u.step /\ w.route = u.route /\ w.pos = u.pos
        /\ w.lost = u.lost /\ w.hold = u.hold /\ w.tasks = u.tasks /\ w.home = u.home
        /\ w.goal = p /\ w.state = "exploration_driving"
    BY <1>2, <2>3 DEF Vessel, Coasts, States, Explorations
  <2> HIDE DEF w
  <2>6. AwareOf(s, w)
    BY <1>3, <2>5 DEF AwareOf
  <2>7. w.hold = s.ship[x].hold /\ (w.state \in Expeditions <=> s.ship[x].state \in Expeditions)
    BY <2>5 DEF Expeditions, u
  <2>8. GoodBut(r, {x}, {})
    <3>1. GoodBut(r, {x} \cup {x}, {})
      BY <1>4, <2>5, <2>6, <2>7, Changes
    <3> QED BY <3>1
  <2>9. r \in Scenes /\ r.ship[x] = w /\ r.harbors = s.harbors
    <3>1. r \in Scenes /\ r.harbors = s.harbors
      BY <1>1, <2>5, NowIs
    <3> QED BY <1>1, <2>5, <3>1, NowShips
  <2> HIDE DEF r
  <2>10. PICK v : /\ StartDrivingToHarborPlace(r, x) = Now(r, x, v) /\ v \in Vessel /\ Afloat(v)
                  /\ v.goal = w.goal /\ v.state = w.state /\ v.home = w.home /\ v.hold = w.hold
    <3>1. /\ r.ship[x].step = None /\ r.ship[x].tasks = 0 /\ ~r.ship[x].lost
          /\ r.ship[x].goal \in Points
          /\ r.ship[x].at = r.ship[x].goal => r.ship[x].pos = Len(r.ship[x].route)
      BY <1>3, <2>3, <2>5, <2>9
    <3>2. \E v : /\ StartDrivingToHarborPlace(r, x) = Now(r, x, v) /\ v \in Vessel /\ Afloat(v)
                 /\ v.goal = r.ship[x].goal /\ v.state = r.ship[x].state
                 /\ v.home = r.ship[x].home /\ v.hold = r.ship[x].hold
      BY <2>9, <3>1, SetsOut
    <3> QED BY <2>9, <3>2
  <2> DEFINE z == Now(r, x, v)
  <2>11. GoodBut(z, {x}, {})
    <3>1. v.hold = r.ship[x].hold /\ (v.state \in Expeditions <=> r.ship[x].state \in Expeditions)
          /\ AwareOf(r, v)
      BY <1>3, <2>5, <2>9, <2>10 DEF AwareOf
    <3>2. GoodBut(z, {x} \cup {x}, {})
      BY <1>4, <2>8, <2>10, <3>1, Changes
    <3> QED BY <3>2
  <2>12. z.ship[x] = v /\ z.harbors = s.harbors
    <3>1. z.harbors = r.harbors
      BY <2>9, <2>10, NowIs
    <3> QED BY <2>9, <2>10, <3>1, NowShips
  <2>13. t \in ExplorationDriving(z, x)
    BY <2>4, <2>10
  <2> HIDE DEF z
  <2>14. GoodBut(t, {x} \ {x}, {})
    BY <1>3, <1>4, <2>5, <2>10, <2>11, <2>12, <2>13, ExplorationDrives DEF u
  <2> QED BY <1>4, <2>14 DEF Good
<1> QED BY <1>5, <1>6

(* A ship that has waited for a harbour point's task to end. *)
Waited(u, v) ==
  /\ v \in Vessel /\ v.tasks = 0 /\ v.at = u.at /\ v.step = u.step /\ v.route = u.route
  /\ v.pos = u.pos /\ v.lost = u.lost /\ v.hold = u.hold /\ v.state = u.state
  /\ v.goal = u.goal /\ v.home = u.home

Tasks == {"transport_loading", "transport_unloading", "expedition_loading",
          "expedition_unloading", "exploration_loading", "exploration_unloading",
          "exploration_waiting"}

LEMMA Tasked ==
  ASSUME NEW s, Good(s), NEW x \in Ships, s.ship[x].tasks > 0,
         NEW r, r = Now(s, x, [s.ship[x] EXCEPT !.tasks = s.ship[x].tasks - 1])
  PROVE  /\ GoodBut(r, {x}, {}) /\ r.harbors = s.harbors /\ Waited(s.ship[x], r.ship[x])
         /\ s.ship[x].state \in Tasks
         /\ ShipOK(s.ship[x], s.harbors) /\ s.harbors \subseteq Points
<1> DEFINE u == s.ship[x]
           v == [u EXCEPT !.tasks = u.tasks - 1]
<1>0. GoodBut(s, {}, {})
  BY DEF Good
<1>1. s \in Scenes /\ Fleet(s, s.harbors, Ships \ {}) /\ Aware(s, x) /\ s.harbors \subseteq Points
  BY <1>0, Fields DEF GoodBut
<1>2. u \in Vessel /\ ShipOK(u, s.harbors) /\ u.tasks > 0
  BY <1>1, Fields DEF Fleet
<1>3. u.state \in Tasks /\ u.tasks = 1
  <2>1. u.state \in States
    BY <1>2, VesselFields
  <2>2. u.state # "unbuilt"
    BY <1>2 DEF ShipOK, Unbuilt
  <2> HIDE DEF u
  <2>3. u.state \notin {"idle", "to_harbour", "expedition_driving", "exploration_driving",
                        "transport_driving", "expedition_waiting"}
    BY <1>2 DEF ShipOK, Course, Anchored, Moored
  <2>4. u.state \in Tasks
    BY <2>1, <2>2, <2>3 DEF States, Transporting, Expeditions, Explorations, Tasks
  <2> QED BY <1>2, <2>4 DEF ShipOK, Anchored, Moored, Tasks
<1>4. r = Now(s, x, v)
  OBVIOUS
<1> HIDE DEF u
<1>5. Waited(u, v)
  <2>1. u.tasks - 1 = 0
    BY <1>3
  <2>2. v = [u EXCEPT !.tasks = 0]
    BY <2>1
  <2>3. v \in Vessel
    BY <1>2, <2>2 DEF Vessel
  <2>4. /\ v.tasks = 0 /\ v.at = u.at /\ v.step = u.step /\ v.route = u.route
        /\ v.pos = u.pos /\ v.lost = u.lost /\ v.hold = u.hold /\ v.state = u.state
        /\ v.goal = u.goal /\ v.home = u.home
    BY <1>2, <2>2 DEF Vessel
  <2> HIDE DEF v
  <2> QED BY <2>3, <2>4 DEF Waited
<1> HIDE DEF v
<1>6. AwareOf(s, v)
  BY <1>1, <1>5 DEF Aware, AwareOf, Waited, u
<1>7. v.hold = s.ship[x].hold /\ (v.state \in Expeditions <=> s.ship[x].state \in Expeditions)
      /\ v \in Vessel
  BY <1>5 DEF u, Waited
<1>8. GoodBut(r, {x}, {})
  <2>1. GoodBut(Now(s, x, v), {} \cup {x}, {})
    BY <1>0, <1>6, <1>7, Changes
  <2>2. {} \cup {x} = {x}
    OBVIOUS
  <2> QED BY <1>4, <2>1, <2>2
<1>9. r.harbors = s.harbors /\ r.ship[x] = v
  <2>1. Now(s, x, v).harbors = s.harbors
    BY <1>1, <1>7, NowIs
  <2>2. Now(s, x, v).ship[x] = v
    BY <1>1, <1>7, NowShips
  <2> QED BY <1>4, <2>1, <2>2
<1> QED BY <1>1, <1>2, <1>3, <1>5, <1>8, <1>9 DEF u

(* The cargo of a transport goes aboard, and it sets sail. *)
LEMMA StartsTransport ==
  ASSUME NEW s, NEW x \in Ships, GoodBut(s, {x}, {}),
         Moored(s.ship[x], 0), s.ship[x].state = "transport_loading",
         s.ship[x].goal \in s.harbors, NEW t \in StartTransport(s, x)
  PROVE  Good(t)
<1> DEFINE u == s.ship[x]
           w == [u EXCEPT !.state = "transport_driving"]
           r == Now(s, x, w)
<1>1. s \in Scenes /\ s.harbors \subseteq Points /\ Aware(s, x)
  BY Fields DEF GoodBut
<1>2. u \in Vessel
  BY <1>1, Fields
<1>3. /\ u.step = None /\ u.tasks = 0 /\ ~u.lost /\ u.at \in Points /\ u.pos = Len(u.route)
      /\ u.goal \in s.harbors
  BY DEF Moored
<1>4. {x} \ {x} = {} /\ {} \subseteq Items /\ {x} \cup {x} = {x}
  OBVIOUS
<1>5. t \in TransportDriving(StartDrivingToHarborPlace(r, x), x)
  BY DEF StartTransport
<1>6. /\ w \in Vessel /\ w.at = u.at /\ w.step = u.step /\ w.route = u.route /\ w.pos = u.pos
      /\ w.lost = u.lost /\ w.hold = u.hold /\ w.tasks = u.tasks /\ w.home = u.home
      /\ w.goal = u.goal /\ w.state = "transport_driving"
  BY <1>2 DEF Vessel, States, Transporting
<1> HIDE DEF w
<1>7. AwareOf(s, w)
  BY <1>1, <1>6 DEF Aware, AwareOf
<1>8. w.hold = s.ship[x].hold /\ (w.state \in Expeditions <=> s.ship[x].state \in Expeditions)
  BY <1>6 DEF Expeditions
<1> HIDE DEF u
<1>9. GoodBut(r, {x}, {})
  <2>1. GoodBut(r, {x} \cup {x}, {})
    BY <1>4, <1>6, <1>7, <1>8, Changes
  <2> QED BY <1>4, <2>1
<1>10. r \in Scenes /\ r.ship[x] = w /\ r.harbors = s.harbors
  <2>1. r \in Scenes /\ r.harbors = s.harbors
    BY <1>1, <1>6, NowIs
  <2> QED BY <1>1, <1>6, <2>1, NowShips
<1> HIDE DEF r
<1>11. PICK v : /\ StartDrivingToHarborPlace(r, x) = Now(r, x, v) /\ v \in Vessel /\ Afloat(v)
                /\ v.goal = w.goal /\ v.state = w.state /\ v.home = w.home /\ v.hold = w.hold
  <2>1. /\ r.ship[x].step = None /\ r.ship[x].tasks = 0 /\ ~r.ship[x].lost
        /\ r.ship[x].goal \in Points
        /\ r.ship[x].at = r.ship[x].goal => r.ship[x].pos = Len(r.ship[x].route)
    BY <1>1, <1>3, <1>6, <1>10
  <2>2. \E v : /\ StartDrivingToHarborPlace(r, x) = Now(r, x, v) /\ v \in Vessel /\ Afloat(v)
               /\ v.goal = r.ship[x].goal /\ v.state = r.ship[x].state
               /\ v.home = r.ship[x].home /\ v.hold = r.ship[x].hold
    BY <1>10, <2>1, SetsOut
  <2> QED BY <1>10, <2>2
<1> DEFINE z == Now(r, x, v)
<1>12. GoodBut(z, {x}, {})
  <2>1. v.hold = r.ship[x].hold /\ (v.state \in Expeditions <=> r.ship[x].state \in Expeditions)
    BY <1>6, <1>10, <1>11
  <2>2. AwareOf(r, v)
    <3>1. Aware(r, x)
      BY <1>9 DEF GoodBut
    <3>2. ~v.lost /\ v.hold = w.hold /\ v.goal = w.goal
      BY <1>11 DEF Afloat
    <3> QED BY <1>10, <3>1, <3>2 DEF Aware, AwareOf
  <2>3. GoodBut(z, {x} \cup {x}, {})
    BY <1>4, <1>9, <1>11, <2>1, <2>2, Changes
  <2> QED BY <1>4, <2>3
<1>13. z.ship[x] = v /\ z.harbors = s.harbors
  <2>1. z.harbors = r.harbors
    BY <1>10, <1>11, NowIs
  <2> QED BY <1>10, <1>11, <2>1, NowShips
<1>14. t \in TransportDriving(z, x)
  BY <1>5, <1>11
<1> HIDE DEF z
<1>15. GoodBut(t, {x} \ {x}, {})
  <2>1. z.ship[x].state = "transport_driving" /\ Afloat(z.ship[x])
        /\ (z.ship[x].goal \notin z.harbors => z.harbors = {})
    BY <1>3, <1>6, <1>11, <1>13
  <2> QED BY <1>4, <1>12, <1>14, <2>1, TransportDrives
<1> QED BY <1>4, <1>15 DEF Good

(* What it has brought is landed, and it loads again or looks for a job. *)
LEMMA EndsTransport ==
  ASSUME NEW s, NEW x \in Ships, GoodBut(s, {x}, {}),
         Anchored(s.ship[x], 0), s.ship[x].state = "transport_unloading",
         s.ship[x].goal \in s.harbors, NEW t \in UnloadTransport(s, x)
  PROVE  Good(t)
<1> DEFINE h == s.ship[x].goal
           Goes(r) == IF r.ship[x].state = "transport_unloading" THEN LooksForJob(r, x) ELSE {r}
           A == ReceiveGoodsFromShip(s, h, x)
<1> DEFINE B == UNION {ShipArrived(r, h, x) : r \in A}
<1>1. t \in UNION {Goes(r) : r \in B}
  BY Zenon DEF UnloadTransport, Then
<1>2. PICK z \in B : t \in Goes(z)
  <2> HIDE DEF B, Goes
  <2> QED BY <1>1
<1>21. PICK r \in A : z \in ShipArrived(r, h, x)
  <2> HIDE DEF A
  <2> QED BY <1>2
<1> HIDE DEF B
<1>3. /\ GoodBut(r, {x}, {}) /\ r.harbors = s.harbors /\ Berthed(r.ship[x], h)
      /\ r.ship[x].state = "transport_unloading"
  BY Unloads
<1>4. {x} \ {x} = {} /\ {} \subseteq Items
  OBVIOUS
<1>5. z = r \/ Commission(r, z, {x}, {}, x)
  BY <1>21, <1>3, <1>4, Arrives
<1>6. CASE z = r
  <2>1. t \in LooksForJob(r, x)
    BY <1>2, <1>3, <1>6
  <2>2. Released(r.ship[x]) /\ r.ship[x].state \notin Expeditions
    BY <1>3 DEF Released, Berthed, Expeditions
  <2>3. GoodBut(t, {x} \ {x}, {})
    BY <1>3, <1>4, <2>1, <2>2, LooksForJobs
  <2> QED BY <1>4, <2>3 DEF Good
<1>7. CASE Commission(r, z, {x}, {}, x)
  <2>1. z.ship[x].state # "transport_unloading" /\ GoodBut(z, {x} \ {x}, {})
    BY <1>7 DEF Commission, Commissioned
  <2>2. t = z
    BY <1>2, <2>1
  <2> QED BY <1>4, <2>1, <2>2 DEF Good
<1> QED BY <1>5, <1>6, <1>7

LEMMA EndsExpedition ==
  ASSUME NEW s, NEW x \in Ships, GoodBut(s, {x}, {}),
         Anchored(s.ship[x], 0), s.ship[x].state = "expedition_unloading", s.ship[x].hold = {},
         s.ship[x].goal \in s.harbors, NEW t \in UnloadExpedition(s, x)
  PROVE  Good(t)
<1> DEFINE h == s.ship[x].goal
           q == [s EXCEPT !.stock[h] = @ + 1]
<1>1. s \in Scenes /\ h \in Points
  BY Fields DEF GoodBut
<1>2. /\ q \in Scenes /\ q.stock = [s.stock EXCEPT ![h] = s.stock[h] + 1]
      /\ q.harbors = s.harbors /\ q.queue = s.queue /\ q.sites = s.sites
      /\ q.item = s.item /\ q.ship = s.ship /\ q.failed = s.failed /\ q.supply = s.supply
      /\ q.expedition = s.expedition
  <2>1. q.stock = [s.stock EXCEPT ![h] = s.stock[h] + 1]
    BY <1>1 DEF Scenes
  <2>2. s.stock \in [Points -> Nat]
    BY <1>1, Fields
  <2>3. [s.stock EXCEPT ![h] = s.stock[h] + 1] \in [Points -> Nat]
    BY <1>1, <2>2
  <2> DEFINE f == [s.stock EXCEPT ![h] = s.stock[h] + 1]
  <2>4. q = [s EXCEPT !.stock = f]
    BY <1>1 DEF Scenes
  <2> HIDE DEF f, q
  <2> QED BY <1>1, <2>1, <2>3, <2>4 DEF Scenes, f
<1>3. t \in LooksForJob(q, x)
  BY DEF UnloadExpedition
<1> HIDE DEF q, h
<1>4. Cardinality(Stored(q)) + Cardinality(q.sites)
        = Cardinality(Stored(s)) + Cardinality(s.sites) + 1
  <2>1. Cardinality(Stored(q)) = Cardinality(Stored(s)) + 1
    BY <1>1, <1>2, StoredMore
  <2>2. Cardinality(Stored(s)) \in Nat /\ Cardinality(s.sites) \in Nat
    BY <1>1, Countable
  <2> QED BY <1>2, <2>1, <2>2
<1>5. Released(s.ship[x]) /\ s.ship[x].state \in Expeditions
  BY DEF Released, Anchored, Moored, Expeditions
<1>6. GoodBut(t, {x} \ {x}, {})
  BY <1>2, <1>3, <1>4, <1>5, Retires
<1>7. {x} \ {x} = {}
  OBVIOUS
<1> QED BY <1>6, <1>7 DEF Good

(* A ship with an event that ends a stay at a harbour point. *)
LEMMA Handling ==
  ASSUME NEW s, Good(s), NEW x \in Ships, s.ship[x].tasks > 0,
         NEW r, r = Now(s, x, [s.ship[x] EXCEPT !.tasks = s.ship[x].tasks - 1]),
         NEW t \in Handled(r, x)
  PROVE  Good(t)
<1> DEFINE u == s.ship[x]
           v == r.ship[x]
<1>1. /\ GoodBut(r, {x}, {}) /\ r.harbors = s.harbors /\ Waited(u, v)
      /\ u.state \in Tasks /\ ShipOK(u, s.harbors) /\ s.harbors \subseteq Points
  BY Tasked
<1>0. r.ship[x] = v
  OBVIOUS
<1> HIDE DEF u, v
<1>2. r \in Scenes
  BY <1>1 DEF GoodBut
<1>3. /\ v \in Vessel /\ v.tasks = 0 /\ v.at = u.at /\ v.step = u.step /\ v.route = u.route
      /\ v.pos = u.pos /\ v.lost = u.lost /\ v.hold = u.hold /\ v.state = u.state
      /\ v.goal = u.goal /\ v.home = u.home
  BY <1>1 DEF Waited
<1>4. u.state \notin Transporting => v.hold = {}
  BY <1>1, <1>3 DEF ShipOK
<1>5. {x} \ {x} = {} /\ {} \subseteq Items
  OBVIOUS
<1>6. CASE u.state = "expedition_loading"
  <2> DEFINE w == [v EXCEPT !.state = "expedition_waiting"]
  <2>1. t = Now(r, x, w)
    BY <1>3, <1>6, SMTT(30) DEF Handled, v
  <2>2. /\ w \in Vessel /\ w.at = v.at /\ w.step = v.step /\ w.route = v.route /\ w.pos = v.pos
        /\ w.lost = v.lost /\ w.hold = v.hold /\ w.tasks = v.tasks /\ w.home = v.home
        /\ w.goal = v.goal /\ w.state = "expedition_waiting"
    BY <1>3 DEF Vessel, States, Expeditions
  <2> HIDE DEF w
  <2>3. ShipOK(w, r.harbors)
    BY <1>1, <1>3, <1>6, <2>2
       DEF ShipOK, Anchored, Moored, Transporting, Expeditions, Explorations
  <2>4. w.hold = {}
    BY <1>4, <1>6, <2>2 DEF Transporting
  <2>5. AwareOf(r, w)
    BY <2>4 DEF AwareOf
  <2>6. w.hold = r.ship[x].hold /\ (w.state \in Expeditions <=> r.ship[x].state \in Expeditions)
    BY <1>3, <1>6, <2>2 DEF v, Expeditions
  <2> QED BY <1>1, <2>1, <2>2, <2>3, <2>5, <2>6, Settles
<1>7. CASE u.state \in {"exploration_loading", "exploration_waiting"}
  <2>1. t \in ContinueExploration(r, x)
    BY <1>3, <1>7, SMTT(30) DEF Handled, v
  <2>2. Anchored(v, 0) /\ v.hold = {} /\ v.home \in r.harbors
    BY <1>1, <1>3, <1>4, <1>7
       DEF ShipOK, Anchored, Moored, Transporting, Expeditions, Explorations
  <2>3. v.state \in {"exploration_loading", "exploration_waiting"}
    BY <1>3, <1>7
  <2> QED BY <1>0, <1>1, <2>1, <2>2, <2>3, Explores
<1>8. CASE u.state = "expedition_unloading"
  <2>1. t \in UnloadExpedition(r, x)
    BY <1>3, <1>8 DEF Handled, v
  <2>2. Anchored(v, 0) /\ v.hold = {} /\ v.goal \in r.harbors
    BY <1>1, <1>3, <1>4, <1>8
       DEF ShipOK, Anchored, Moored, Transporting, Expeditions, Explorations
  <2>3. v.state = "expedition_unloading"
    BY <1>3, <1>8
  <2> QED BY <1>0, <1>1, <1>4, <2>1, <2>2, <2>3, EndsExpedition
<1>9. CASE u.state = "exploration_unloading"
  <2>1. Anchored(v, 0) /\ v.hold = {} /\ v.goal \in r.harbors
    BY <1>1, <1>3, <1>4, <1>9
       DEF ShipOK, Anchored, Moored, Transporting, Expeditions, Explorations
  <2>2. t \in LooksForJob(r, x)
    <3>1. t \in UnloadExploration(r, x)
      BY <1>3, <1>9 DEF Handled, v
    <3> QED BY <1>0, <2>1, <3>1 DEF UnloadExploration
  <2>3. Released(v) /\ v.state \notin Expeditions
    BY <1>3, <1>9, <2>1 DEF Released, Anchored, Moored, Expeditions
  <2>4. GoodBut(t, {x} \ {x}, {})
    BY <1>1, <1>5, <2>2, <2>3, LooksForJobs DEF v
  <2> QED BY <1>5, <2>4 DEF Good
<1>10. CASE u.state = "transport_loading"
  <2>1. t \in StartTransport(r, x)
    BY <1>3, <1>10 DEF Handled, v
  <2>2. Moored(v, 0) /\ v.goal \in r.harbors
    BY <1>1, <1>3, <1>10 DEF ShipOK, Moored
  <2>3. v.state = "transport_loading"
    BY <1>3, <1>10
  <2> QED BY <1>0, <1>1, <1>4, <2>1, <2>2, <2>3, StartsTransport
<1>11. CASE u.state = "transport_unloading"
  <2>1. t \in UnloadTransport(r, x)
    BY <1>3, <1>11 DEF Handled, v
  <2>2. Anchored(v, 0) /\ v.goal \in r.harbors
    BY <1>1, <1>3, <1>11 DEF ShipOK, Anchored, Moored
  <2>3. v.state = "transport_unloading"
    BY <1>3, <1>11
  <2> QED BY <1>0, <1>1, <1>4, <2>1, <2>2, <2>3, EndsTransport
<1> QED BY <1>1, <1>6, <1>7, <1>8, <1>9, <1>10, <1>11 DEF Tasks

-----------------------------------------------------------------------------
(* The orders of the player.                                               *)

LEMMA Launched ==
  ASSUME NEW s, Good(s), NEW x \in Ships, s.ship[x] = Unbuilt, NEW t \in LooksForJob(s, x)
  PROVE  Good(t)
<1>1. Released(s.ship[x]) /\ s.ship[x].state \notin Expeditions
  BY DEF Released, Unbuilt, Expeditions
<1>2. GoodBut(s, {}, {}) /\ {} \subseteq Items /\ {} \ {x} = {}
  BY DEF Good
<1>3. GoodBut(t, {} \ {x}, {})
  BY <1>1, <1>2, LooksForJobs
<1> QED BY <1>2, <1>3 DEF Good

(* An expedition that waits for its orders. *)
LEMMA AwaitsOrders ==
  ASSUME NEW s, Good(s), NEW x \in Ships, s.ship[x].state = "expedition_waiting"
  PROVE  /\ GoodBut(s, {}, {}) /\ s \in Scenes /\ ~s.failed /\ s.harbors \subseteq Points
         /\ s.ship[x] \in Vessel /\ Anchored(s.ship[x], 0) /\ s.ship[x].hold = {}
         /\ s.ship[x].home \in s.harbors /\ s.ship[x].goal \in Points
<1>1. GoodBut(s, {}, {}) /\ s \in Scenes /\ ~s.failed /\ ShipOK(s.ship[x], s.harbors)
  BY DEF Good, GoodBut, Fleet
<1>2. s.harbors \subseteq Points /\ s.ship[x] \in Vessel
  BY <1>1, Fields
<1>3. Anchored(s.ship[x], 0) /\ s.ship[x].hold = {} /\ s.ship[x].home \in s.harbors
  BY <1>1 DEF ShipOK, Transporting, Expeditions
<1> QED BY <1>1, <1>2, <1>3 DEF Anchored, Moored

Founding(s, x) == [s EXCEPT !.sites = @ \cup {s.ship[x].goal}]
LEMMA FoundsColony ==
  ASSUME NEW s, Good(s), NEW x \in Ships, s.ship[x].state = "expedition_waiting",
         s.ship[x].goal \notin s.sites,
         NEW q, q = Founding(s, x),
         NEW t \in LooksForJob(q, x)
  PROVE  Good(t)
<1> USE DEF Founding
<1> DEFINE g == s.ship[x].goal
<1>1. /\ GoodBut(s, {}, {}) /\ s \in Scenes /\ Anchored(s.ship[x], 0)
      /\ s.ship[x].hold = {} /\ g \in Points
  BY AwaitsOrders
<1>2. q = [s EXCEPT !.sites = s.sites \cup {g}]
  BY <1>1 DEF Scenes
<1> HIDE DEF g
<1>3. s.sites \cup {g} \in SUBSET Points
  BY <1>1, Fields
<1>4. /\ q \in Scenes /\ q.sites = s.sites \cup {g} /\ q.stock = s.stock
      /\ q.harbors = s.harbors /\ q.queue = s.queue
      /\ q.item = s.item /\ q.ship = s.ship /\ q.failed = s.failed /\ q.supply = s.supply
      /\ q.expedition = s.expedition
  BY <1>1, <1>2, <1>3 DEF Scenes
<1>5. Cardinality(Stored(q)) + Cardinality(q.sites)
        = Cardinality(Stored(s)) + Cardinality(s.sites) + 1
  <2>1. Stored(q) = Stored(s)
    BY <1>4 DEF Stored
  <2>2. IsFiniteSet(s.sites) /\ Cardinality(s.sites) \in Nat /\ Cardinality(Stored(s)) \in Nat
    BY <1>1, Countable
  <2>3. Cardinality(s.sites \cup {g}) = Cardinality(s.sites) + 1
    BY <2>2, FS_AddElement DEF g
  <2> QED BY <1>4, <2>1, <2>2, <2>3
<1>6. Released(s.ship[x]) /\ s.ship[x].state \in Expeditions
  BY <1>1 DEF Released, Anchored, Moored, Expeditions
<1>7. GoodBut(t, {} \ {x}, {})
  BY <1>1, <1>4, <1>5, <1>6, Retires
<1>8. {} \ {x} = {}
  OBVIOUS
<1> QED BY <1>7, <1>8 DEF Good

(* An expedition that leaves its place. *)
LEMMA Departs ==
  ASSUME NEW s, Good(s), NEW x \in Ships, s.ship[x].state = "expedition_waiting",
         NEW w \in Vessel, w.hold = {}, w.state \in Expeditions,
         NEW r, r = Now(s, x, w)
  PROVE  GoodBut(r, {x}, {}) /\ r \in Scenes /\ r.ship[x] = w /\ r.harbors = s.harbors /\ ~r.failed
<1>1. GoodBut(s, {}, {}) /\ s \in Scenes /\ s.ship[x].hold = {}
  BY AwaitsOrders
<1>2. AwareOf(s, w) /\ (w.state \in Expeditions <=> s.ship[x].state \in Expeditions)
  BY DEF AwareOf, Expeditions
<1>3. {} \cup {x} = {x} /\ {} \subseteq Items
  OBVIOUS
<1>4. GoodBut(r, {} \cup {x}, {})
  BY <1>1, <1>2, <1>3, Changes
<1>5. GoodBut(r, {x}, {})
  BY <1>3, <1>4
<1>6. r.harbors = s.harbors
  BY <1>1, NowIs
<1>7. r.ship[x] = w
  BY <1>1, NowShips
<1> QED BY <1>5, <1>6, <1>7 DEF GoodBut

Continued(s, x, p) ==
  StartDriving(
         Now(s, x, [s.ship[x] EXCEPT !.route = Route(s.ship[x].at, p), !.pos = 0, !.goal = p,
                                     !.state = "expedition_driving"]), x)
LEMMA ContinuesExpedition ==
  ASSUME NEW s, Good(s), NEW x \in Ships, s.ship[x].state = "expedition_waiting",
         NEW p \in Points, p # s.ship[x].goal,
         NEW t, t = Continued(s, x, p)
  PROVE  Good(t)
<1> USE DEF Continued
<1> DEFINE u == s.ship[x]
           a == u.at
           w == [u EXCEPT !.route = Route(a, p), !.pos = 0, !.goal = p, !.state = "expedition_driving"]
           r == Now(s, x, w)
<1>0. t = StartDriving(r, x)
  OBVIOUS
<1>1. /\ GoodBut(s, {}, {}) /\ s \in Scenes /\ u \in Vessel /\ Anchored(u, 0) /\ u.hold = {}
      /\ u.home \in s.harbors /\ s.harbors \subseteq Points
  BY AwaitsOrders
<1>2. a \in Nodes /\ a # p /\ u.step = None /\ u.tasks = 0 /\ ~u.lost
  BY <1>1 DEF Anchored, Moored, Nodes
<1> HIDE DEF u
<1>3. /\ Route(a, p) \in Seq(Nodes) /\ Len(Route(a, p)) \in Nat /\ Len(Route(a, p)) > 0
      /\ (Len(Route(a, p)) = 1 <=> Route(a, p)[1] = p)
      /\ (Route(a, p)[1] = Sea \/ Len(Route(a, p)) = 1)
  BY <1>2, RouteIs
<1> DEFINE R == Route(a, p)
<1> HIDE DEF a, R
<1>4. w = [u EXCEPT !.route = R, !.pos = 0, !.goal = p, !.state = "expedition_driving"]
  BY DEF R
<1> HIDE DEF w
<1>5. /\ w \in Vessel /\ w.step = None /\ w.tasks = 0 /\ ~w.lost /\ w.hold = {}
      /\ w.home = u.home /\ w.goal = p /\ w.state = "expedition_driving"
      /\ w.route = R /\ w.pos = 0
  BY <1>1, <1>2, <1>3, <1>4, ZenonT(30) DEF Vessel, Coasts, States, Expeditions, R
<1>6. /\ GoodBut(r, {x}, {}) /\ r \in Scenes /\ r.ship[x] = w /\ r.harbors = s.harbors /\ ~r.failed
  BY <1>5, Departs DEF Expeditions
<1> HIDE DEF r
<1>7. PICK v : Sails(w, v) /\ t = Now(r, x, v)
  <2>1. /\ w.pos < Len(w.route) /\ (w.pos + 1 = Len(w.route) <=> w.route[w.pos + 1] = w.goal)
        /\ (w.route[w.pos + 1] = Sea \/ w.pos + 1 = Len(w.route))
    BY <1>3, <1>5 DEF R
  <2> QED BY <1>0, <1>5, <1>6, <2>1, StartIs
<1>8. v \in Vessel /\ v.hold = {} /\ v.state = "expedition_driving" /\ v.home \in s.harbors /\ Course(v)
  BY <1>1, <1>5, <1>7 DEF Sails
<1>9. ShipOK(v, r.harbors) /\ AwareOf(r, v)
  BY <1>6, <1>8 DEF ShipOK, AwareOf, Transporting, Expeditions, Explorations
<1>10. v.hold = r.ship[x].hold /\ (v.state \in Expeditions <=> r.ship[x].state \in Expeditions)
  BY <1>5, <1>6, <1>8 DEF Expeditions
<1> QED BY <1>6, <1>7, <1>8, <1>9, <1>10, Settles

Recalled(s, x) ==
  ExpeditionDriving(Now(s, x, [s.ship[x] EXCEPT !.route = <<>>, !.pos = 0]), x)
LEMMA CallsBack ==
  ASSUME NEW s, Good(s), NEW x \in Ships, s.ship[x].state = "expedition_waiting",
         s.ship[x].goal = s.ship[x].home,
         NEW t, t = Recalled(s, x)
  PROVE  Good(t)
<1> USE DEF Recalled
<1> DEFINE u == s.ship[x]
           none == <<>>
           w == [u EXCEPT !.route = none, !.pos = 0]
           r == Now(s, x, w)
<1>0. t = ExpeditionDriving(r, x)
  OBVIOUS
<1>1. /\ u \in Vessel /\ Anchored(u, 0) /\ u.hold = {} /\ u.home \in s.harbors /\ u.goal \in Points
  BY AwaitsOrders
<1>2. u.state = "expedition_waiting" /\ u.at = u.goal /\ u.step = None /\ u.tasks = 0 /\ ~u.lost
  BY <1>1 DEF Anchored, Moored
<1> HIDE DEF u
<1>21. none \in Seq(Nodes) /\ Len(none) = 0
  OBVIOUS
<1> HIDE DEF none
<1>3. /\ w \in Vessel /\ w.step = None /\ w.tasks = 0 /\ ~w.lost /\ w.hold = {} /\ w.at = u.at
      /\ w.home = u.home /\ w.goal = u.goal /\ w.state = "expedition_waiting"
      /\ w.route = none /\ w.pos = 0
  BY <1>1, <1>2, <1>21 DEF Vessel
<1> HIDE DEF w
<1>4. GoodBut(r, {x}, {}) /\ r.ship[x] = w /\ r.harbors = s.harbors
  BY <1>3, Departs DEF Expeditions, u
<1> HIDE DEF r
<1>5. Afloat(w)
  BY <1>1, <1>2, <1>21, <1>3 DEF Afloat
<1>6. {x} \ {x} = {} /\ {} \subseteq Items
  OBVIOUS
<1>7. GoodBut(ExpeditionDriving(r, x), {x} \ {x}, {})
  BY <1>1, <1>2, <1>3, <1>4, <1>5, <1>6, ExpeditionDrives
<1> QED BY <1>0, <1>6, <1>7 DEF Good

SentHome(s, x) ==
  ExpeditionDriving(
         StartDrivingToHarborPlace(
           Now(s, x, [s.ship[x] EXCEPT !.state = "expedition_driving",
                                       !.goal = s.ship[x].home]), x), x)
LEMMA SendsHome ==
  ASSUME NEW s, Good(s), NEW x \in Ships, s.ship[x].state = "expedition_waiting",
         NEW t, t = SentHome(s, x)
  PROVE  Good(t)
<1> USE DEF SentHome
<1> DEFINE u == s.ship[x]
           w == [u EXCEPT !.state = "expedition_driving", !.goal = u.home]
           r == Now(s, x, w)
<1>0. t = ExpeditionDriving(StartDrivingToHarborPlace(r, x), x)
  OBVIOUS
<1>1. /\ u \in Vessel /\ Anchored(u, 0) /\ u.hold = {} /\ u.home \in s.harbors /\ u.home \in Points
      /\ s \in Scenes
  BY AwaitsOrders
<1>2. u.step = None /\ u.tasks = 0 /\ ~u.lost /\ u.pos = Len(u.route)
  BY <1>1 DEF Anchored, Moored
<1> HIDE DEF u
<1>3. /\ w \in Vessel /\ w.step = None /\ w.tasks = 0 /\ ~w.lost /\ w.hold = {}
      /\ w.home = u.home /\ w.goal = u.home /\ w.state = "expedition_driving"
      /\ w.route = u.route /\ w.pos = u.pos
  BY <1>1, <1>2 DEF Vessel, Coasts, States, Expeditions
<1> HIDE DEF w
<1>4. GoodBut(r, {x}, {}) /\ r \in Scenes /\ r.ship[x] = w /\ r.harbors = s.harbors
  BY <1>3, Departs DEF Expeditions, u
<1> HIDE DEF r
<1>5. PICK v : /\ StartDrivingToHarborPlace(r, x) = Now(r, x, v) /\ v \in Vessel /\ Afloat(v)
               /\ v.goal = w.goal /\ v.state = w.state /\ v.home = w.home /\ v.hold = w.hold
  <2>1. /\ r.ship[x].step = None /\ r.ship[x].tasks = 0 /\ ~r.ship[x].lost
        /\ r.ship[x].goal \in Points
        /\ r.ship[x].at = r.ship[x].goal => r.ship[x].pos = Len(r.ship[x].route)
    BY <1>1, <1>2, <1>3, <1>4
  <2>2. \E v : /\ StartDrivingToHarborPlace(r, x) = Now(r, x, v) /\ v \in Vessel /\ Afloat(v)
               /\ v.goal = r.ship[x].goal /\ v.state = r.ship[x].state
               /\ v.home = r.ship[x].home /\ v.hold = r.ship[x].hold
    BY <1>4, <2>1, SetsOut
  <2> QED BY <1>4, <2>2
<1> DEFINE z == Now(r, x, v)
<1>6. {x} \ {x} = {} /\ {} \subseteq Items /\ {x} \cup {x} = {x}
  OBVIOUS
<1>7. GoodBut(z, {x}, {})
  <2>1. v.hold = r.ship[x].hold /\ (v.state \in Expeditions <=> r.ship[x].state \in Expeditions)
        /\ AwareOf(r, v)
    BY <1>3, <1>4, <1>5 DEF AwareOf
  <2>2. GoodBut(z, {x} \cup {x}, {})
    BY <1>4, <1>5, <1>6, <2>1, Changes
  <2> QED BY <1>6, <2>2
<1>8. z.ship[x] = v /\ z.harbors = s.harbors
  <2>1. z.harbors = r.harbors
    BY <1>4, <1>5, NowIs
  <2> QED BY <1>4, <1>5, <2>1, NowShips
<1>9. t = ExpeditionDriving(z, x)
  BY <1>0, <1>5
<1> HIDE DEF z
<1>10. GoodBut(ExpeditionDriving(z, x), {x} \ {x}, {})
  BY <1>1, <1>3, <1>5, <1>6, <1>7, <1>8, ExpeditionDrives
<1> QED BY <1>6, <1>9, <1>10 DEF Good

(* Materials and orders change hands while nobody moves. *)
LEMMA Provides ==
  ASSUME NEW s, Good(s), NEW q \in Scenes, q.harbors = s.harbors, q.queue = s.queue,
         q.item = s.item, q.ship = s.ship, q.failed = s.failed, Supplied(q)
  PROVE  Good(q)
<1>1. /\ s \in Scenes /\ ~s.failed /\ Fleet(s, s.harbors, Ships \ {})
      /\ (\A i \in Items \ {} : Placed(s, i)) /\ Bound(s, s.harbors) /\ \A x \in Ships : Aware(s, x)
  BY DEF Good, GoodBut
<1>2. Fleet(q, q.harbors, Ships \ {})
  BY <1>1 DEF Fleet
<1>3. \A i \in Items \ {} : Placed(q, i)
  BY <1>1 DEF Placed, InQueue, InHold
<1>4. Bound(q, q.harbors)
  BY <1>1 DEF Bound, BoundOK
<1>5. \A x \in Ships : Aware(q, x)
  BY <1>1 DEF Aware, AwareOf
<1> QED BY <1>1, <1>2, <1>3, <1>4, <1>5 DEF Good, GoodBut

Gathering(s, h) == [s EXCEPT !.expedition[h] = "gathering"]
LEMMA Gathers ==
  ASSUME NEW s, Good(s), NEW h \in Points, s.expedition[h] = "off",
         NEW q, q = Gathering(s, h)
  PROVE  Good(q)
<1> USE DEF Gathering
<1>1. s \in Scenes /\ Supplied(s) /\ s.expedition \in [Points -> Stages]
      /\ s.stock \in [Points -> Nat]  /\ s.supply \in 0..Sets /\ s.letdown \in BOOLEAN
  BY Fields DEF Good, GoodBut
<1> DEFINE f == [s.expedition EXCEPT ![h] = "gathering"]
<1>2. f \in [Points -> Stages] /\ \A a \in Points : f[a] = "ready" <=> s.expedition[a] = "ready"
  BY <1>1 DEF Stages
<1>3. q = [s EXCEPT !.expedition = f]
  BY <1>1 DEF Scenes
<1> HIDE DEF f
<1>4. /\ q \in Scenes /\ q.harbors = s.harbors /\ q.queue = s.queue
      /\ q.item = s.item /\ q.ship = s.ship /\ q.failed = s.failed /\ q.sites = s.sites
      /\ q.supply = s.supply /\ q.expedition = f /\ q.stock = s.stock
  BY <1>1, <1>2, <1>3, SMTT(30) DEF Scenes
<1>5. Supplied(q)
  <2>1. Ready(q) = Ready(s)
    BY <1>2, <1>4 DEF Ready
  <2>2. Stored(q) = Stored(s) /\ Abroad(q) = Abroad(s)
    BY <1>4 DEF Stored, Abroad
  <2> QED BY <1>1, <1>4, <2>1, <2>2 DEF Supplied
<1> QED BY <1>4, <1>5, Provides

(* What is gathered for an expedition is counted from when all is there. *)
LEMMA Balanced ==
  ASSUME NEW s, Good(s), NEW q \in Scenes, q.sites = s.sites, q.ship = s.ship,
         q.supply + Cardinality(Stored(s)) + Cardinality(Ready(s))
           = s.supply + Cardinality(Stored(q)) + Cardinality(Ready(q))
  PROVE  Supplied(q)
<1>1. s \in Scenes /\ Supplied(s)
  BY DEF Good, GoodBut
<1>2. /\ Cardinality(Stored(s)) \in Nat /\ Cardinality(s.sites) \in Nat
      /\ Cardinality(Ready(s)) \in Nat /\ Cardinality(Abroad(s)) \in Nat
      /\ Cardinality(Stored(q)) \in Nat /\ Cardinality(Ready(q)) \in Nat
  BY <1>1, Countable
<1>3. q.supply \in Nat /\ s.supply \in Nat
  <2>1. q.supply \in 0..Sets /\ s.supply \in 0..Sets
    BY <1>1, Fields
  <2> QED BY <2>1, ShipsAssumption
<1>4. Abroad(q) = Abroad(s)
  BY DEF Abroad
<1> DEFINE a == Cardinality(Stored(s))
           b == Cardinality(Ready(s))
           c == Cardinality(Abroad(s))
           d == Cardinality(s.sites)
           e == Cardinality(Stored(q))
           f == Cardinality(Ready(q))
<1>5. s.supply = a + d + b + c
  BY <1>1 DEF Supplied
<1>6. q.supply + a + b = s.supply + e + f
  OBVIOUS
<1>7. a \in Nat /\ b \in Nat /\ c \in Nat /\ d \in Nat /\ e \in Nat /\ f \in Nat
  BY <1>2
<1>8. Supplied(q) <=> q.supply = e + d + f + c
  BY <1>4 DEF Supplied
<1> HIDE DEF a, b, c, d, e, f
<1> QED BY <1>3, <1>5, <1>6, <1>7, <1>8

Stopped(s, h) == [s EXCEPT !.expedition[h] = "off"]
LEMMA Stops ==
  ASSUME NEW s, Good(s), NEW h \in Points, s.expedition[h] = "gathering",
         NEW q, q = Stopped(s, h)
  PROVE  Good(q)
<1> USE DEF Stopped
<1>1. s \in Scenes /\ s.expedition \in [Points -> Stages] /\ s.stock \in [Points -> Nat]
      /\ s.supply \in 0..Sets /\ s.letdown \in BOOLEAN
  BY Fields DEF Good, GoodBut
<1> DEFINE f == [s.expedition EXCEPT ![h] = "off"]
<1>2. f \in [Points -> Stages]
  BY <1>1 DEF Stages
<1>3. q = [s EXCEPT !.expedition = f]
  BY <1>1 DEF Scenes
<1> HIDE DEF f
<1>4. /\ q \in Scenes /\ q.harbors = s.harbors /\ q.queue = s.queue
      /\ q.item = s.item /\ q.ship = s.ship /\ q.failed = s.failed /\ q.sites = s.sites
      /\ q.supply = s.supply /\ q.expedition = f /\ q.stock = s.stock
  BY <1>1, <1>2, <1>3 DEF Scenes
<1>5. Cardinality(Ready(q)) = Cardinality(Ready(s))
  <2>1. Cardinality(Ready(q)) = Cardinality(Ready(s)) - (IF s.expedition[h] = "ready" THEN 1 ELSE 0)
    BY <1>1, <1>4, ReadyLess DEF f
  <2>2. Cardinality(Ready(s)) \in Nat
    BY <1>1, Countable
  <2> QED BY <2>1, <2>2
<1>6. Supplied(q)
  <2>1. Stored(q) = Stored(s)
    BY <1>4 DEF Stored
  <2>2. /\ Cardinality(Stored(s)) \in Nat /\ Cardinality(Ready(s)) \in Nat /\ s.supply \in Int
    BY <1>1, Countable
  <2> QED BY <1>4, <1>5, <2>1, <2>2, Balanced
<1> QED BY <1>4, <1>6, Provides

CalledOff(s, h) == [s EXCEPT !.expedition[h] = "off", !.stock[h] = @ + 1, !.letdown = TRUE]
LEMMA CallsOff ==
  ASSUME NEW s, Good(s), NEW h \in Points, s.expedition[h] = "ready",
         NEW q, q = CalledOff(s, h)
  PROVE  Good(q)
<1> USE DEF CalledOff
<1> DEFINE n == s.stock[h] + 1
           f == [s.expedition EXCEPT ![h] = "off"]
           g == [s.stock EXCEPT ![h] = n]
<1>1. s \in Scenes /\ s.stock \in [Points -> Nat] /\ s.expedition \in [Points -> Stages]
      /\ s.supply \in 0..Sets
  BY Fields DEF Good, GoodBut
<1>2. n \in Nat /\ s.stock[h] \in Nat /\ "off" \in Stages /\ TRUE \in BOOLEAN
  BY <1>1 DEF Stages
<1>3. q = [s EXCEPT !.expedition = f, !.stock = g,
                    !.supply = s.supply, !.letdown = TRUE]
  BY <1>1 DEF Scenes
<1>32. f \in [Points -> Stages] /\ g \in [Points -> Nat]
  BY <1>1, <1>2
<1> HIDE DEF f, g
<1>4. /\ q \in Scenes /\ q.harbors = s.harbors /\ q.queue = s.queue
      /\ q.item = s.item /\ q.ship = s.ship /\ q.failed = s.failed /\ q.sites = s.sites
      /\ q.supply = s.supply /\ q.expedition = f
      /\ q.stock = g
  BY <1>1, <1>2, <1>3, <1>32, ZenonT(30) DEF Scenes
<1>5. Cardinality(Ready(q)) = Cardinality(Ready(s)) - 1
  <2>1. Cardinality(Ready(q)) = Cardinality(Ready(s)) - (IF s.expedition[h] = "ready" THEN 1 ELSE 0)
    BY <1>1, <1>4, ReadyLess, ZenonT(30) DEF f
  <2> QED BY <2>1
<1>6. Cardinality(Stored(q)) = Cardinality(Stored(s)) + 1
  BY <1>1, <1>4, StoredMore DEF g, n
<1>7. Supplied(q)
  <2>1. /\ Cardinality(Stored(s)) \in Nat /\ Cardinality(Ready(s)) \in Nat /\ s.supply \in Int
    BY <1>1, Countable
  <2>2. q.supply + Cardinality(Stored(s)) + Cardinality(Ready(s))
           = s.supply + Cardinality(Stored(q)) + Cardinality(Ready(q))
    BY <1>4, <1>5, <1>6, <2>1
  <2> QED BY <1>4, <2>2, Balanced
<1> QED BY <1>4, <1>7, Provides

Equipped(s, h) == [s EXCEPT !.expedition[h] = "ready", !.stock[h] = @ - 1]
LEMMA Equips ==
  ASSUME NEW s, Good(s), NEW h \in s.harbors, s.expedition[h] = "off", s.stock[h] > 0,
         NEW q, q = Equipped(s, h),
         NEW t \in OrderShip(q, h)
  PROVE  Good(t)
<1> USE DEF Equipped
<1> DEFINE n == s.stock[h] - 1
           f == [s.expedition EXCEPT ![h] = "ready"]
           g == [s.stock EXCEPT ![h] = n]
<1>1. s \in Scenes /\ s.stock \in [Points -> Nat] /\ s.expedition \in [Points -> Stages]
      /\ s.supply \in 0..Sets /\ s.letdown \in BOOLEAN /\ h \in Points
  BY Fields DEF Good, GoodBut
<1>2. n \in Nat /\ s.stock[h] \in Nat /\ "ready" \in Stages
  BY <1>1 DEF Stages
<1>3. q = [s EXCEPT !.expedition = f, !.stock = g,
                    !.supply = s.supply, !.letdown = s.letdown]
  BY <1>1 DEF Scenes
<1>32. f \in [Points -> Stages] /\ g \in [Points -> Nat]
  BY <1>1, <1>2
<1> HIDE DEF f, g
<1>4. /\ q \in Scenes /\ q.harbors = s.harbors /\ q.queue = s.queue
      /\ q.item = s.item /\ q.ship = s.ship /\ q.failed = s.failed /\ q.sites = s.sites
      /\ q.supply = s.supply /\ q.expedition = f
      /\ q.stock = g
  BY <1>1, <1>2, <1>3, <1>32, ZenonT(30) DEF Scenes
<1>5. Cardinality(Ready(q)) = Cardinality(Ready(s)) + 1
  BY <1>1, <1>4, ReadyMore DEF f
<1>6. Cardinality(Stored(q)) = Cardinality(Stored(s)) - 1
  BY <1>1, <1>4, StoredLess DEF g, n
<1>7. Supplied(q)
  <2>1. /\ Cardinality(Stored(s)) \in Nat /\ Cardinality(Ready(s)) \in Nat /\ s.supply \in Int
    BY <1>1, Countable
  <2>2. q.supply + Cardinality(Stored(s)) + Cardinality(Ready(s))
           = s.supply + Cardinality(Stored(q)) + Cardinality(Ready(q))
    BY <1>4, <1>5, <1>6, <2>1
  <2> QED BY <1>4, <2>2, Balanced
<1>8. GoodBut(q, {}, {}) /\ {} \subseteq Ships /\ {} \subseteq Items /\ h \in q.harbors
  BY <1>4, <1>7, Provides DEF Good
<1> QED BY <1>8, OrdersShips DEF Good

Completed(s, h) == [s EXCEPT !.expedition[h] = "ready", !.supply = @ + 1]
LEMMA Completes ==
  ASSUME NEW s, Good(s), NEW h \in s.harbors, s.expedition[h] = "gathering", s.supply < Sets,
         NEW q, q = Completed(s, h),
         NEW t \in OrderShip(q, h)
  PROVE  Good(t)
<1> USE DEF Completed
<1> DEFINE n == s.stock[h]
           k == s.supply + 1
           f == [s.expedition EXCEPT ![h] = "ready"]
           g == [s.stock EXCEPT ![h] = n]
<1>1. s \in Scenes /\ s.stock \in [Points -> Nat] /\ s.expedition \in [Points -> Stages]
      /\ s.supply \in 0..Sets /\ s.letdown \in BOOLEAN /\ h \in Points
  BY Fields DEF Good, GoodBut
<1>2. n \in Nat /\ k \in 0..Sets /\ "ready" \in Stages /\ Sets \in Nat
  BY <1>1, ShipsAssumption DEF Stages
<1>3. q = [s EXCEPT !.expedition = f, !.stock = g,
                    !.supply = k, !.letdown = s.letdown]
  BY <1>1 DEF Scenes
<1>31. g = s.stock
  BY <1>1
<1>32. f \in [Points -> Stages] /\ g \in [Points -> Nat]
  BY <1>1, <1>2
<1> HIDE DEF f, g, k
<1>4. /\ q \in Scenes /\ q.harbors = s.harbors /\ q.queue = s.queue
      /\ q.item = s.item /\ q.ship = s.ship /\ q.failed = s.failed /\ q.sites = s.sites
      /\ q.supply = k /\ q.expedition = f
      /\ q.stock = g
  BY <1>1, <1>2, <1>3, <1>32, ZenonT(30) DEF Scenes
<1>5. Cardinality(Ready(q)) = Cardinality(Ready(s)) + 1
  BY <1>1, <1>4, ReadyMore DEF f
<1>6. Stored(q) = Stored(s)
  BY <1>31, <1>4 DEF Stored
<1>7. Supplied(q)
  <2>1. /\ Cardinality(Stored(s)) \in Nat /\ Cardinality(Ready(s)) \in Nat /\ s.supply \in Int
    BY <1>1, Countable
  <2>2. q.supply = s.supply + 1
    BY <1>4 DEF k
  <2>3. q.supply + Cardinality(Stored(s)) + Cardinality(Ready(s))
           = s.supply + Cardinality(Stored(q)) + Cardinality(Ready(q))
    BY <1>5, <1>6, <2>1, <2>2
  <2> QED BY <1>4, <2>3, Balanced
<1>8. GoodBut(q, {}, {}) /\ {} \subseteq Ships /\ {} \subseteq Items /\ h \in q.harbors
  BY <1>4, <1>7, Provides DEF Good
<1> QED BY <1>8, OrdersShips DEF Good

(* The state of an exploration is not counted. *)
Exploring(s, h, e, l) == [s EXCEPT !.exploration = [s.exploration EXCEPT ![h] = e], !.letdown = l]
LEMMA Explored ==
  ASSUME NEW s, Good(s), NEW h \in Points, NEW e \in Stages, NEW l \in BOOLEAN,
         NEW q, q = Exploring(s, h, e, l)
  PROVE  Good(q) /\ q.harbors = s.harbors
<1> USE DEF Exploring
<1> DEFINE f == [s.exploration EXCEPT ![h] = e]
<1>1. s \in Scenes /\ s.exploration \in [Points -> Stages] /\ Supplied(s)
  BY Fields DEF Good, GoodBut
<1>2. f \in [Points -> Stages]
  BY <1>1
<1>3. q = [s EXCEPT !.exploration = f, !.letdown = l]
  OBVIOUS
<1> HIDE DEF f
<1>4. /\ q \in Scenes /\ q.harbors = s.harbors /\ q.queue = s.queue
      /\ q.item = s.item /\ q.ship = s.ship /\ q.failed = s.failed /\ q.sites = s.sites
      /\ q.supply = s.supply /\ q.expedition = s.expedition /\ q.stock = s.stock
  BY <1>1, <1>2, <1>3, ZenonT(30) DEF Scenes
<1>5. Supplied(q)
  BY <1>1, <1>4 DEF Supplied, Stored, Ready, Abroad
<1> QED BY <1>4, <1>5, Provides

-----------------------------------------------------------------------------
(* People and wares set out, and lose their goals.                         *)

LEMMA SeaWays ==
  ASSUME NEW s, NEW a, NEW g, NEW d \in OverSea(s, a, g)
  PROVE  a \in s.harbors /\ d \in s.harbors /\ d # a
BY DEF OverSea

Engaged(s, i, g) == [s EXCEPT !.item[i].goal = g]
LEMMA Engages ==
  ASSUME NEW s, Good(s), NEW i \in Items, s.item[i] = Ashore, NEW g \in Points \cup Works,
         NEW r, r = Engaged(s, i, g)
  PROVE  GoodBut(r, {}, {i}) /\ r.harbors = s.harbors
<1> USE DEF Engaged
<1> DEFINE z == [Ashore EXCEPT !.goal = g]
           f == [s.item EXCEPT ![i] = z]
<1>1. /\ s \in Scenes /\ s.item \in [Items -> Item] /\ s.queue \in [Points -> SUBSET Items]
      /\ (\A j \in Items \ {} : Placed(s, j)) /\ Bound(s, s.harbors)
      /\ (\A x \in Ships : Aware(s, x)) /\ GoodBut(s, {}, {})
  BY Fields DEF Good, GoodBut
<1>2. Nowhere(s, i)
  <2>1. Placed(s, i) /\ s.item[i].spot \notin Points
    BY <1>1, Names DEF Ashore
  <2> QED BY <2>1 DEF Placed, Nowhere
<1>3. z \in Item
  BY Names DEF Ashore, Item, Coasts
<1>4. r = Rearranged(s, f, s.queue)
  <2>1. r = [s EXCEPT !.item = f]
    <3>1. f = [s.item EXCEPT ![i].goal = g]
      OBVIOUS
    <3> HIDE DEF f
    <3> QED BY <3>1
  <2> HIDE DEF f
  <2> QED BY <1>1, <2>1 DEF Rearranged, Scenes
<1> HIDE DEF z
<1>5. f \in [Items -> Item] /\ f[i] = z /\ \A j \in Items : j # i => f[j] = s.item[j]
  BY <1>1, <1>3
<1> HIDE DEF f
<1>6. r.queue = s.queue /\ r.item = f /\ r.ship = s.ship /\ r.harbors = s.harbors
  <2>1. LET q == Rearranged(s, f, s.queue)
        IN  q.queue = s.queue /\ q.item = f /\ q.ship = s.ship /\ q.harbors = s.harbors
    BY <1>1, <1>5, Rearranges
  <2> QED BY <1>4, <2>1
<1>7. \A j \in Items \ {i} : Placed(r, j)
  BY <1>1, <1>5, <1>6 DEF Placed, InQueue, InHold
<1>8. \A j \in {i} : Nowhere(r, j)
  BY <1>2, <1>6 DEF Nowhere, InQueue, InHold
<1>9. Bound(r, r.harbors)
  <2> SUFFICES ASSUME NEW a \in Points, NEW j \in r.queue[a]
               PROVE  BoundOK(r, a, j, r.harbors)
    BY DEF Bound
  <2>1. BoundOK(s, a, j, s.harbors) /\ j \in Items
    BY <1>1, <1>6 DEF Bound
  <2>2. j # i
    BY <1>2, <1>6 DEF Nowhere, InQueue
  <2> QED BY <1>5, <1>6, <2>1, <2>2 DEF BoundOK
<1>10. \A x \in Ships : AwareOf(r, s.ship[x])
  <2> SUFFICES ASSUME NEW x \in Ships, NEW j \in s.ship[x].hold \cap Figures
               PROVE  /\ r.item[j].goal # None => r.item[j].spot = s.ship[x].goal
                      /\ s.ship[x].lost => r.item[j].goal = None
    BY DEF AwareOf
  <2>1. j # i
    BY <1>2 DEF Nowhere, InHold
  <2>2. j \in Items
    BY DEF Items
  <2>3. /\ s.item[j].goal # None => s.item[j].spot = s.ship[x].goal
        /\ s.ship[x].lost => s.item[j].goal = None
    BY <1>1 DEF Aware, AwareOf
  <2> QED BY <1>5, <1>6, <2>1, <2>2, <2>3
<1>11. GoodBut(Rearranged(s, f, s.queue), {}, {i})
  <2> DEFINE q == Rearranged(s, f, s.queue)
  <2>1. /\ \A j \in Items \ {i} : Placed(q, j)
        /\ \A j \in {i} : Nowhere(q, j)
        /\ Bound(q, q.harbors)
        /\ \A x \in Ships : AwareOf(q, s.ship[x])
    BY <1>4, <1>7, <1>8, <1>9, <1>10
  <2>2. q = Rearranged(s, f, s.queue)
    OBVIOUS
  <2> HIDE DEF q
  <2>3. GoodBut(q, {}, {i})
    BY <1>1, <1>5, <2>1, <2>2, Regroups
  <2> QED BY <2>2, <2>3
<1> QED BY <1>4, <1>6, <1>11

LEMMA Embarks ==
  ASSUME NEW r, NEW i \in Items, GoodBut(r, {}, {i}), NEW h \in r.harbors,
         NEW d \in r.harbors, d # h, NEW t \in OrderShip(Waits(r, i, h, d), h)
  PROVE  Good(t)
<1>1. GoodBut(Waits(r, i, h, d), {}, {i} \ {i})
  BY MayWait
<1>2. {i} \ {i} = {} /\ {} \subseteq Ships /\ {} \subseteq Items
  OBVIOUS
<1>3. h \in Waits(r, i, h, d).harbors
  <2>1. r \in Scenes
    BY DEF GoodBut
  <2> QED BY <2>1, WaitsAre
<1> QED BY <1>1, <1>2, <1>3, OrdersShips DEF Good

(* Whose goal is gone goes home, or stays aboard without one. *)
LEMMA LosesGoals ==
  ASSUME NEW X, NEW s, GoodBut(s, X, {}), NEW S \in SUBSET Items, NEW t, t = LosesGoal(s, S)
  PROVE  GoodBut(t, X, {}) /\ t.harbors = s.harbors /\ t.ship = s.ship
         /\ \A h \in Points : t.queue[h] \subseteq s.queue[h]
<1> DEFINE A == {i \in S : s.item[i].onship \/ \E x \in Ships : i \in s.ship[x].hold}
           r == [s EXCEPT !.item = Aimless(s, A)]
           D == S \ A
<1>1. s \in Scenes /\ {} \subseteq Items
  BY DEF GoodBut
<1>2. t = Leaves(r, D)
  BY DEF LosesGoal, Aimless
<1> HIDE DEF A
<1>3. GoodBut(r, X, {})
  BY <1>1, LosesAim
<1>4. r.harbors = s.harbors /\ r.ship = s.ship /\ r.queue = s.queue
  BY <1>1 DEF Scenes
<1>5. \A i \in D \cap Items : InHold(r, i) = {}
  BY <1>4 DEF InHold, A
<1> HIDE DEF r, D
<1>6. /\ GoodBut(t, X, {} \ D) /\ t.harbors = r.harbors /\ t.ship = r.ship
      /\ t.queue = Remaining(r, D)
  BY <1>1, <1>2, <1>3, <1>5, MayLeave
<1>7. {} \ D = {}
  OBVIOUS
<1> QED BY <1>4, <1>6, <1>7 DEF Remaining

Worn(s, g) == [s EXCEPT !.works = @ \ {g}]
LEMMA Forgets ==
  ASSUME NEW s, Good(s), NEW g, NEW r, r = Worn(s, g),
         NEW t, t = LosesGoal(r, {i \in Items : s.item[i].goal = g})
  PROVE  Good(t)
<1> USE DEF Worn
<1> DEFINE w == s.works \ {g}
<1>1. s \in Scenes /\ w \in SUBSET Works /\ Supplied(s)
  BY Fields DEF Good, GoodBut
<1>2. r = [s EXCEPT !.works = w]
  BY <1>1 DEF Scenes
<1> HIDE DEF w
<1>3. /\ r \in Scenes /\ r.harbors = s.harbors /\ r.queue = s.queue
      /\ r.item = s.item /\ r.ship = s.ship /\ r.failed = s.failed /\ r.sites = s.sites
      /\ r.supply = s.supply /\ r.expedition = s.expedition /\ r.stock = s.stock
  BY <1>1, <1>2 DEF Scenes
<1>4. Supplied(r)
  BY <1>1, <1>3 DEF Supplied, Stored, Ready, Abroad
<1>5. GoodBut(r, {}, {})
  BY <1>3, <1>4, Provides DEF Good
<1> DEFINE S == {i \in Items : s.item[i].goal = g}
<1>6. S \in SUBSET Items /\ t = LosesGoal(r, S)
  OBVIOUS
<1> HIDE DEF S
<1> QED BY <1>5, <1>6, LosesGoals DEF Good

-----------------------------------------------------------------------------
(* Harbours are pulled down.                                               *)

(* Those aboard learn where they go. *)
LEMMA Informs ==
  ASSUME NEW X, NEW s, GoodBut(s, X, {}), NEW x \in Ships,
         NEW v \in Vessel, v.hold = s.ship[x].hold, v.goal \in Points, ~v.lost,
         v.state \notin Expeditions, s.ship[x].state \notin Expeditions,
         NEW t, t = Informed(Now(s, x, v), x)
  PROVE  /\ GoodBut(t, X \cup {x}, {}) /\ t.ship[x] = v /\ t.harbors = s.harbors
         /\ t.queue = s.queue /\ \A y \in Ships \ {x} : t.ship[y] = s.ship[y]
<1> DEFINE A == v.hold \cap Figures
           f == [i \in Items |-> IF i \in A THEN [s.item[i] EXCEPT !.spot = v.goal] ELSE s.item[i]]
           F == [s.ship EXCEPT ![x] = v]
           r == Now(s, x, v)
<1>1. /\ s \in Scenes /\ ~s.failed /\ s.item \in [Items -> Item] /\ s.queue \in [Points -> SUBSET Items]
      /\ s.ship \in [Ships -> Vessel] /\ Supplied(s)
      /\ (\A i \in Items \ {} : Placed(s, i)) /\ Bound(s, s.harbors)
      /\ (\A y \in Ships : Aware(s, y)) /\ Fleet(s, s.harbors, Ships \ X)
  BY Fields DEF GoodBut
<1>2. /\ r \in Scenes /\ r.ship[x] = v /\ r.item = s.item /\ r.harbors = s.harbors
      /\ r.queue = s.queue /\ r.ship = F /\ r.failed = s.failed
  BY <1>1, NowIs, NowShips
<1>3. Supplied(r)
  BY <1>1, NowSupplied
<1>4. t = [r EXCEPT !.item = f]
  BY <1>2 DEF Informed
<1> HIDE DEF r, A
<1>5. f \in [Items -> Item]
  <2> SUFFICES ASSUME NEW i \in Items
               PROVE  (IF i \in A THEN [s.item[i] EXCEPT !.spot = v.goal] ELSE s.item[i]) \in Item
    OBVIOUS
  <2>1. s.item[i] \in Item
    BY <1>1
  <2> QED BY <2>1 DEF Item, Coasts
<1>6. \A i \in Items : /\ i \notin A => f[i] = s.item[i]
                       /\ i \in A => f[i].spot = v.goal /\ f[i].goal = s.item[i].goal
  <2> SUFFICES ASSUME NEW i \in Items
               PROVE  /\ i \notin A => f[i] = s.item[i]
                      /\ i \in A => f[i].spot = v.goal /\ f[i].goal = s.item[i].goal
    OBVIOUS
  <2>1. s.item[i] \in Item
    BY <1>1
  <2> QED BY <2>1 DEF Item
<1> HIDE DEF f
<1>7. /\ t \in Scenes /\ t.item = f /\ t.harbors = r.harbors /\ t.queue = r.queue
      /\ t.ship = r.ship /\ t.failed = r.failed /\ t.supply = r.supply /\ t.stock = r.stock
      /\ t.sites = r.sites /\ t.expedition = r.expedition
  BY <1>2, <1>4, <1>5 DEF Scenes
<1>8. Supplied(t)
  BY <1>3, <1>7 DEF Supplied, Stored, Ready, Abroad
<1>9. /\ t.item = f /\ t.harbors = s.harbors /\ t.queue = s.queue /\ t.ship = F /\ t.failed = s.failed
  BY <1>2, <1>7
<1>10. F[x] = v /\ \A y \in Ships \ {x} : F[y] = s.ship[y]
  BY <1>1
<1>11. \A y \in Ships : F[y].hold = s.ship[y].hold
  BY <1>10
<1> HIDE DEF F
<1>12. \A i \in Items : InQueue(t, i) = InQueue(s, i) /\ InHold(t, i) = InHold(s, i)
  BY <1>9, <1>11 DEF InQueue, InHold
<1>13. \A i \in A : i \in Items /\ InHold(s, i) # {} /\ x \in InHold(s, i)
  BY DEF A, InHold, Items
<1>14. \A i \in Items \ {} : Placed(t, i)
  <2> SUFFICES ASSUME NEW i \in Items PROVE Placed(t, i)
    OBVIOUS
  <2>1. Placed(s, i)
    BY <1>1
  <2>2. CASE i \notin A
    BY <1>6, <1>9, <1>12, <2>1, <2>2 DEF Placed
  <2>3. CASE i \in A
    <3>1. InHold(s, i) # {}
      BY <1>13, <2>3
    <3>2. t.item[i].spot \in Points
      BY <1>6, <1>9, <2>3
    <3>3. InQueue(s, i) = {} /\ \E y \in Ships : InHold(s, i) = {y}
      BY <2>1, <3>1 DEF Placed
    <3> QED BY <1>12, <3>2, <3>3 DEF Placed
  <2> QED BY <2>2, <2>3
<1>15. Bound(t, t.harbors)
  <2> SUFFICES ASSUME NEW h \in Points, NEW i \in t.queue[h]
               PROVE  BoundOK(t, h, i, t.harbors)
    BY DEF Bound
  <2>1. i \in s.queue[h] /\ i \in Items /\ BoundOK(s, h, i, s.harbors)
    BY <1>1, <1>9 DEF Bound
  <2>2. InQueue(s, i) # {} /\ Placed(s, i)
    BY <1>1, <2>1 DEF InQueue
  <2>3. InHold(s, i) = {}
    BY <2>2 DEF Placed
  <2>4. i \notin A
    BY <1>13, <2>3
  <2> QED BY <1>6, <1>9, <2>1, <2>4 DEF BoundOK
<1>16. \A y \in Ships : Aware(t, y)
  <2> SUFFICES ASSUME NEW y \in Ships, NEW i \in F[y].hold \cap Figures
               PROVE  /\ t.item[i].goal # None => t.item[i].spot = F[y].goal
                      /\ F[y].lost => t.item[i].goal = None
    BY <1>9 DEF Aware, AwareOf
  <2>1. i \in Items
    BY DEF Items
  <2>2. CASE y = x
    <3>1. i \in A
      BY <1>10, <2>2 DEF A
    <3> QED BY <1>6, <1>9, <1>10, <2>1, <2>2, <3>1
  <2>3. CASE y # x
    <3>1. i \in s.ship[y].hold \cap Figures
      BY <1>11
    <3>2. i \notin A
      <4>1. y \in InHold(s, i) /\ Placed(s, i)
        BY <1>1, <2>1, <3>1 DEF InHold
      <4>2. x \notin InHold(s, i)
        BY <2>3, <4>1 DEF Placed
      <4> QED BY <1>13, <4>2
    <3>3. /\ s.item[i].goal # None => s.item[i].spot = s.ship[y].goal
          /\ s.ship[y].lost => s.item[i].goal = None
      BY <1>1, <3>1 DEF Aware, AwareOf
    <3> QED BY <1>6, <1>9, <1>10, <2>1, <2>3, <3>2, <3>3
  <2> QED BY <2>2, <2>3
<1>17. Fleet(t, t.harbors, Ships \ (X \cup {x}))
  BY <1>1, <1>9, <1>10 DEF Fleet
<1>18. GoodBut(t, X \cup {x}, {})
  BY <1>1, <1>7, <1>8, <1>9, <1>14, <1>15, <1>16, <1>17 DEF GoodBut
<1> QED BY <1>9, <1>10, <1>18

(* A ship that can cope with the end of a harbour. *)
Copes(u, hs, h) ==
  /\ u.state \in Expeditions \cup Explorations => u.home # h
  /\ u.state = "transport_loading" /\ u.goal = h => u.home \in hs
  /\ u.state = "transport_unloading" /\ u.goal = h => hs # {h}
  /\ u.state = "transport_driving" /\ u.goal = h =>
       (IF u.step = None THEN u.at ELSE u.step) \notin hs \ {h}

(* What the end of harbour h makes of ship x. *)
Told(s, t, x, h) ==
  /\ GoodBut(t, Ships, {}) /\ t.harbors = s.harbors /\ t.queue = s.queue
  /\ \A y \in Ships \ {x} : t.ship[y] = s.ship[y]
  /\ ShipOK(t.ship[x], s.harbors \ {h})

LEMMA UnconcernedShip ==
  ASSUME NEW u, NEW hs, NEW h \in hs, ShipOK(u, hs), Copes(u, hs, h),
         u.goal # h \/ u.state \notin Transporting
  PROVE  ShipOK(u, hs \ {h})
<1>1. u.state \in {"expedition_driving", "exploration_driving", "to_harbour"} => Course(u)
  BY DEF ShipOK
<1>2. u.state \in Expeditions \cup Explorations => u.home \in hs \ {h}
  BY DEF ShipOK, Copes
<1>3. u.state = "transport_driving" => Course(u) /\ (u.goal \notin hs \ {h} => hs \ {h} = {})
  BY DEF ShipOK, Transporting
<1>4. u.state = "transport_loading" =>
        Moored(u, 1) /\ u.at = u.home /\ u.goal \in (hs \ {h}) \ {u.home}
  BY DEF ShipOK, Transporting
<1>5. u.state = "transport_unloading" => Anchored(u, 1) /\ u.goal \in hs \ {h}
  BY DEF ShipOK, Transporting
<1> DEFINE ks == hs \ {h}
<1> HIDE DEF ks
<1>6. ShipOK(u, ks)
  BY <1>1, <1>2, <1>3, <1>4, <1>5 DEF ShipOK, ks
<1> QED BY <1>6 DEF ks

LEMMA ToldShip ==
  ASSUME NEW s, GoodBut(s, Ships, {}), NEW x \in Ships, s.ship[x].state \in Transporting,
         NEW v \in Vessel, v.hold = s.ship[x].hold, v.goal \in Points, ~v.lost,
         v.state \in Transporting, NEW h, ShipOK(v, s.harbors \ {h}),
         NEW t, t = Informed(Now(s, x, v), x)
  PROVE  Told(s, t, x, h)
<1>1. v.state \notin Expeditions /\ s.ship[x].state \notin Expeditions
  BY DEF Transporting, Expeditions
<1>2. /\ GoodBut(t, Ships \cup {x}, {}) /\ t.ship[x] = v /\ t.harbors = s.harbors
      /\ t.queue = s.queue /\ \A y \in Ships \ {x} : t.ship[y] = s.ship[y]
  BY <1>1, Informs
<1>3. Ships \cup {x} = Ships
  OBVIOUS
<1> QED BY <1>2, <1>3 DEF Told

LEMMA LandsAgain ==
  ASSUME NEW s, GoodBut(s, Ships, {}), NEW x \in Ships, NEW h \in s.harbors,
         ShipOK(s.ship[x], s.harbors), Copes(s.ship[x], s.harbors, h),
         s.ship[x].goal = h, s.ship[x].state = "transport_loading",
         NEW t \in HarborDestroyed(s, x, h)
  PROVE  Told(s, t, x, h)
<1> DEFINE u == s.ship[x]
           v == [u EXCEPT !.state = "transport_unloading", !.goal = u.home]
<1>1. s \in Scenes /\ u \in Vessel /\ s.harbors \subseteq Points
  BY Fields DEF GoodBut
<1>2. t = Informed(Now(s, x, v), x)
  BY DEF HarborDestroyed, Transporting
<1>3. Moored(u, 1) /\ u.at = u.home /\ u.home \in s.harbors \ {h}
  BY DEF ShipOK, Copes
<1> HIDE DEF u
<1>4. /\ v \in Vessel /\ v.hold = u.hold /\ v.goal = u.home /\ v.lost = u.lost /\ v.at = u.at
      /\ v.step = u.step /\ v.tasks = u.tasks /\ v.pos = u.pos /\ v.route = u.route
      /\ v.state = "transport_unloading"
  BY <1>1, <1>3 DEF Vessel, Coasts, States, Transporting
<1> HIDE DEF v
<1>5. Anchored(v, 1) /\ ~v.lost /\ v.goal \in s.harbors \ {h}
  BY <1>3, <1>4 DEF Anchored, Moored
<1>6. ShipOK(v, s.harbors \ {h})
  BY <1>4, <1>5 DEF ShipOK, Transporting, Expeditions, Explorations
<1> QED BY <1>1, <1>2, <1>4, <1>5, <1>6, ToldShip DEF u, Transporting

(* What is found when another harbour is looked for. *)
Rerouted(s, x, n, h) == Now(s, x, [s.ship[x] EXCEPT !.goal = h, !.route = Route(n, h)])
Bend(s, x, n, h) == [s.ship[x] EXCEPT !.goal = h, !.route = IF h = n THEN <<>> ELSE Route(n, h)]

LEMMA FindsHarbor ==
  ASSUME NEW s \in Scenes, NEW x \in Ships, NEW n, NEW E, n \notin s.harbors \ E,
         s.harbors \ E # {}, NEW f \in FindHarborForUnloading(s, x, n, E)
  PROVE  f.found /\ \E h \in s.harbors \ E : f.scene = Rerouted(s, x, n, h)
<1>1. \E h \in s.harbors \ E : f = [found |-> h # n, scene |-> Now(s, x, Bend(s, x, n, h))]
  BY Zenon DEF FindHarborForUnloading, Bend
<1>2. PICK h \in s.harbors \ E : f = [found |-> h # n, scene |-> Now(s, x, Bend(s, x, n, h))]
  BY <1>1
<1>3. h # n
  OBVIOUS
<1>4. Bend(s, x, n, h) = [s.ship[x] EXCEPT !.goal = h, !.route = Route(n, h)]
  BY <1>3 DEF Bend
<1>5. Now(s, x, Bend(s, x, n, h)) = Rerouted(s, x, n, h)
  BY <1>4 DEF Rerouted
<1>6. f.found = TRUE /\ f.scene = Now(s, x, Bend(s, x, n, h))
  BY <1>2, <1>3
<1> QED BY <1>5, <1>6

LEMMA SailsElsewhere ==
  ASSUME NEW s, GoodBut(s, Ships, {}), NEW x \in Ships, NEW h \in s.harbors,
         ShipOK(s.ship[x], s.harbors), Copes(s.ship[x], s.harbors, h),
         s.ship[x].goal = h, s.ship[x].state = "transport_driving",
         NEW t \in HarborDestroyed(s, x, h)
  PROVE  Told(s, t, x, h)
<1> DEFINE u == s.ship[x]
           n == u.step
           T(f) == {Informed(z, x) : z \in TurnsRound(f.scene, x)}
           U(f) == IF f.found THEN T(f) ELSE {f.scene}
           F == FindHarborForUnloading(s, x, n, {h})
<1>1. s \in Scenes /\ u \in Vessel /\ s.harbors \subseteq Points
  BY Fields DEF GoodBut
<1>2. Course(u)
  BY DEF ShipOK
<1>3. n # None /\ n \in Nodes /\ n \notin s.harbors \ {h}
  BY <1>2, Names DEF Course, Copes, Nodes
<1>4. t \in UNION {U(f) : f \in F}
  BY <1>3, Zenon DEF HarborDestroyed, Transporting
<1>5. PICK f \in F : t \in U(f)
  <2> HIDE DEF U, F
  <2> QED BY <1>4
<1>6. CASE s.harbors \ {h} = {}
  <2>1. f = [found |-> FALSE, scene |-> s]
    BY <1>5, <1>6 DEF FindHarborForUnloading
  <2>2. t = s
    BY <1>5, <2>1
  <2>3. ShipOK(u, s.harbors \ {h})
    BY <1>2, <1>6 DEF ShipOK, Transporting, Expeditions, Explorations
  <2> QED BY <2>2, <2>3 DEF Told
<1>7. CASE s.harbors \ {h} # {}
  <2>1. f.found /\ \E k \in s.harbors \ {h} : f.scene = Rerouted(s, x, n, k)
    <3> HIDE DEF n
    <3> QED BY <1>1, <1>3, <1>5, <1>7, FindsHarbor
  <2>2. PICK k \in s.harbors \ {h} : f.scene = Rerouted(s, x, n, k)
    BY <2>1
  <2> DEFINE R == Route(n, k)
             w == [u EXCEPT !.goal = k, !.route = R]
             v == [w EXCEPT !.pos = 0]
             r == Now(s, x, w)
  <2>3. f.scene = r
    BY <2>2, Zenon DEF Rerouted
  <2>4. k \in Points /\ n # k
    BY <1>1, <1>3
  <2>5. R \in Seq(Nodes) /\ Len(R) \in Nat /\ Len(R) > 0
    BY <1>3, <2>4, RouteIs
  <2>6. t \in T(f)
    BY <1>5, <2>1
  <2> HIDE DEF u, R
  <2>7. w \in Vessel /\ w.state = "transport_driving" /\ w.goal = k /\ w.route = R
        /\ w.step = u.step /\ w.tasks = u.tasks /\ w.lost = u.lost /\ w.hold = u.hold
    BY <1>1, <2>4, <2>5 DEF Vessel, Coasts, u
  <2> HIDE DEF w
  <2>8. v \in Vessel /\ v.state = "transport_driving" /\ v.goal = k /\ v.route = R /\ v.pos = 0
        /\ v.step = u.step /\ v.tasks = u.tasks /\ v.lost = u.lost /\ v.hold = u.hold
    BY <2>7 DEF Vessel
  <2>9. r.ship[x] = w
    BY <1>1, <2>7, NowShips
  <2>10. Now(r, x, v) = Now(s, x, v)
    BY <1>1, <2>7, <2>8, NowTwice
  <2>11. TurnsRound(r, x) = {Now(r, x, v)}
    BY <2>7, <2>9 DEF TurnsRound
  <2> HIDE DEF r, v
  <2>12. t = Informed(Now(s, x, v), x)
    BY <2>3, <2>6, <2>10, <2>11
  <2>13. Course(v)
    BY <1>2, <1>3, <2>4, <2>5, <2>8 DEF Course, n
  <2>14. ShipOK(v, s.harbors \ {h})
    BY <2>2, <2>8, <2>13 DEF ShipOK, Transporting, Expeditions, Explorations
  <2>15. ~v.lost
    BY <2>13 DEF Course
  <2> QED BY <2>4, <2>8, <2>12, <2>14, <2>15, ToldShip DEF u, Transporting
<1> QED BY <1>6, <1>7

LEMMA SailsAgain ==
  ASSUME NEW s, GoodBut(s, Ships, {}), NEW x \in Ships, NEW h \in s.harbors,
         ShipOK(s.ship[x], s.harbors), Copes(s.ship[x], s.harbors, h),
         s.ship[x].goal = h, s.ship[x].state = "transport_unloading",
         NEW t \in HarborDestroyed(s, x, h)
  PROVE  Told(s, t, x, h)
<1> DEFINE u == s.ship[x]
           n == u.at
           T(f) == {Informed(z, x) : z \in TurnsRound(f.scene, x)}
           U(f) == IF f.found THEN T(f) ELSE {f.scene}
           F == FindHarborForUnloading(s, x, n, {h})
<1>1. s \in Scenes /\ u \in Vessel /\ s.harbors \subseteq Points /\ ~s.failed
  BY Fields DEF GoodBut
<1>2. Anchored(u, 1) /\ s.harbors # {h}
  BY DEF ShipOK, Copes
<1>3. n = h /\ n \in Nodes /\ n \notin s.harbors \ {h} /\ s.harbors \ {h} # {}
  BY <1>1, <1>2 DEF Anchored, Moored, Nodes
<1>4. t \in UNION {U(f) : f \in F}
  BY Zenon DEF HarborDestroyed, Transporting
<1>5. PICK f \in F : t \in U(f)
  <2> HIDE DEF U, F
  <2> QED BY <1>4
<1>6. f.found /\ \E k \in s.harbors \ {h} : f.scene = Rerouted(s, x, n, k)
  <2> HIDE DEF n
  <2> QED BY <1>1, <1>3, <1>5, FindsHarbor
<1>7. PICK k \in s.harbors \ {h} : f.scene = Rerouted(s, x, n, k)
  BY <1>6
<1> DEFINE R == Route(n, k)
           w == [u EXCEPT !.goal = k, !.route = R]
           v == [w EXCEPT !.pos = 0, !.state = "transport_driving", !.tasks = 0]
           r == Now(s, x, w)
<1>8. f.scene = r
  BY <1>7, Zenon DEF Rerouted
<1>9. k \in Points /\ n # k /\ k \in s.harbors
  BY <1>1, <1>3
<1>10. R \in Seq(Nodes) /\ Len(R) \in Nat /\ Len(R) > 0
  BY <1>3, <1>9, RouteIs
<1>11. t \in T(f)
  BY <1>5, <1>6
<1> HIDE DEF u, R
<1>12. w \in Vessel /\ w.state = "transport_unloading" /\ w.goal = k /\ w.route = R /\ w.at = n
       /\ w.step = u.step /\ w.lost = u.lost /\ w.hold = u.hold
  BY <1>1, <1>9, <1>10 DEF Vessel, Coasts, u, n
<1> HIDE DEF w
<1>13. v \in Vessel /\ v.state = "transport_driving" /\ v.goal = k /\ v.route = R /\ v.pos = 0
       /\ v.step = u.step /\ v.tasks = 0 /\ v.lost = u.lost /\ v.hold = u.hold /\ v.at = n
  BY <1>12 DEF Vessel, States, Transporting
<1>14. r.ship[x] = w
  BY <1>1, <1>12, NowShips
<1>15. Now(r, x, v) = Now(s, x, v)
  BY <1>1, <1>12, <1>13, NowTwice
<1>16. TurnsRound(r, x) = TransportDriving(Now(r, x, v), x)
  BY <1>12, <1>14 DEF TurnsRound
<1> HIDE DEF r, v
<1> DEFINE q == Now(s, x, v)
<1>17. q \in Scenes /\ q.ship[x] = v /\ q.harbors = s.harbors /\ q.failed = s.failed
  <2>1. s \in Scenes /\ v \in Vessel
    BY <1>1, <1>13
  <2>2. Now(s, x, v) \in Scenes /\ Now(s, x, v).harbors = s.harbors /\ Now(s, x, v).failed = s.failed
    BY <2>1, NowIs, ZenonT(30)
  <2>3. Now(s, x, v).ship[x] = v
    BY <2>1, NowShips
  <2> QED BY <2>2, <2>3
<1>18. q = Now(s, x, v)
  OBVIOUS
<1> HIDE DEF q
<1>19. Afloat(v)
  BY <1>2, <1>9, <1>10, <1>13 DEF Afloat, Anchored, Moored
<1>20. /\ DriveToHarbour(q, x).result # "gone"
       /\ \E y : /\ Carries(DriveToHarbour(q, x), x) = Now(q, x, y)
                 /\ y \in Vessel /\ y.hold = q.ship[x].hold /\ y.goal = q.ship[x].goal
                 /\ y.state \in {"transport_driving", "transport_unloading"}
                 /\ ~y.lost /\ ShipOK(y, q.harbors)
  BY <1>1, <1>9, <1>13, <1>17, <1>19, Carrying
<1>21. PICK y : /\ Carries(DriveToHarbour(q, x), x) = Now(q, x, y)
                /\ y \in Vessel /\ y.hold = q.ship[x].hold /\ y.goal = q.ship[x].goal
                /\ y.state \in {"transport_driving", "transport_unloading"}
                /\ ~y.lost /\ ShipOK(y, q.harbors)
  BY <1>20
<1>22. TransportDriving(q, x) = {Carries(DriveToHarbour(q, x), x)}
  BY <1>20 DEF TransportDriving
<1>23. Now(q, x, y) = Now(s, x, y)
  BY <1>1, <1>13, <1>18, <1>21, NowTwice
<1>24. t = Informed(Now(s, x, y), x)
  BY <1>8, <1>11, <1>15, <1>16, <1>18, <1>21, <1>22, <1>23
<1>25. ShipOK(y, s.harbors \ {h})
  <2>1. ShipOK(y, s.harbors) /\ y.goal = k
    BY <1>13, <1>17, <1>21
  <2>2. CASE y.state = "transport_driving"
    <3>1. Course(y)
      BY <1>9, <1>21, <2>1, <2>2 DEF ShipOK
    <3> QED BY <1>7, <2>1, <2>2, <3>1 DEF ShipOK, Transporting, Expeditions, Explorations
  <2>3. CASE y.state = "transport_unloading"
    <3>1. Anchored(y, 1)
      BY <2>1, <2>3 DEF ShipOK
    <3> QED BY <1>7, <2>1, <2>3, <3>1 DEF ShipOK, Transporting, Expeditions, Explorations
  <2> QED BY <1>21, <2>2, <2>3
<1>26. y.hold = s.ship[x].hold /\ y.goal \in Points /\ y.state \in Transporting
       /\ s.ship[x].state \in Transporting
  BY <1>9, <1>13, <1>17, <1>21 DEF u, Transporting
<1> QED BY <1>21, <1>24, <1>25, <1>26, ToldShip

LEMMA LearnsOfEnd ==
  ASSUME NEW s, GoodBut(s, Ships, {}), NEW x \in Ships, NEW h \in s.harbors,
         ShipOK(s.ship[x], s.harbors), Copes(s.ship[x], s.harbors, h),
         NEW t \in HarborDestroyed(s, x, h)
  PROVE  Told(s, t, x, h)
<1>1. CASE s.ship[x].goal # h \/ s.ship[x].state \notin Transporting
  <2>1. HarborDestroyed(s, x, h) = {s}
    BY <1>1, Zenon DEF HarborDestroyed
  <2>2. ShipOK(s.ship[x], s.harbors \ {h})
    BY <1>1, UnconcernedShip
  <2> QED BY <2>1, <2>2 DEF Told
<1>2. CASE s.ship[x].goal = h /\ s.ship[x].state \in Transporting
  <2>1. s.ship[x].state \in {"transport_loading", "transport_driving", "transport_unloading"}
    BY <1>2 DEF Transporting
  <2> QED BY <1>2, <2>1, LandsAgain, SailsElsewhere, SailsAgain
<1> QED BY <1>1, <1>2

(* All ships have learnt of it. *)
LEMMA AllTold ==
  ASSUME NEW s, Good(s), NEW h \in s.harbors, \A x \in Ships : Copes(s.ship[x], s.harbors, h),
         NEW t \in TellOfEnd(s, h)
  PROVE  /\ GoodBut(t, Ships, {}) /\ t.harbors = s.harbors /\ t.queue = s.queue
         /\ Fleet(t, s.harbors \ {h}, Ships)
<1>1. /\ s \in Scenes /\ GoodBut(s, {}, {}) /\ GoodBut(s, Ships, {})
      /\ \A x \in Ships : ShipOK(s.ship[x], s.harbors)
  BY Excepted DEF Good, GoodBut, Fleet
<1>2. PICK q \in SetToSeqs(Ships) : t \in Warned(s, h, q)
  BY DEF TellOfEnd, ForEach, Warned, InOrder
<1>3. /\ Len(q) \in Nat /\ q \in [1..Len(q) -> Ships]
      /\ \A e \in Ships : \E n \in 1..Len(q) : q[n] = e
      /\ \A n, k \in 1..Len(q) : q[n] = q[k] => n = k
  BY <1>2, ShipsAssumption, Ordered
<1> DEFINE Fine(r, n) ==
             /\ GoodBut(r, Ships, {}) /\ r.harbors = s.harbors /\ r.queue = s.queue
             /\ \A k \in 1..Len(q) : IF k <= n THEN ShipOK(r.ship[q[k]], s.harbors \ {h})
                                     ELSE r.ship[q[k]] = s.ship[q[k]]
           R == [n \in 0..Len(q) |-> {r \in Scenes : Fine(r, n)}]
<1>4. \A n \in 0..Len(q) : R[n] = {r \in Scenes : Fine(r, n)}
  OBVIOUS
<1>5. s \in R[0]
  <2>1. Fine(s, 0)
    BY <1>1, <1>3
  <2> HIDE DEF Fine
  <2> QED BY <1>1, <1>3, <2>1
<1> HIDE DEF R
<1>6. ASSUME NEW n \in 1..Len(q), NEW r \in R[n - 1] PROVE HarborDestroyed(r, q[n], h) \subseteq R[n]
  <2>1. n - 1 \in 0..Len(q) /\ n \in 0..Len(q) /\ q[n] \in Ships
    BY <1>3
  <2>2. Fine(r, n - 1)
    <3> HIDE DEF Fine
    <3> QED BY <1>4, <2>1
  <2> DEFINE x == q[n]
  <2>3. r.ship[x] = s.ship[x] /\ r.harbors = s.harbors /\ GoodBut(r, Ships, {}) /\ x \in Ships
    BY <1>3, <2>1, <2>2
  <2>4. ShipOK(r.ship[x], r.harbors) /\ Copes(r.ship[x], r.harbors, h) /\ h \in r.harbors
    BY <1>1, <2>3
  <2>5. ASSUME NEW z \in HarborDestroyed(r, x, h) PROVE z \in R[n]
    <3>1. Told(r, z, x, h)
      <4> HIDE DEF x
      <4> QED BY <2>3, <2>4, <2>5, LearnsOfEnd
    <3>2. /\ GoodBut(z, Ships, {}) /\ z.harbors = s.harbors /\ z.queue = s.queue
          /\ (\A y \in Ships \ {x} : z.ship[y] = r.ship[y])
          /\ ShipOK(z.ship[x], s.harbors \ {h})
      BY <2>2, <2>3, <3>1 DEF Told
    <3>3. ASSUME NEW k \in 1..Len(q)
          PROVE  IF k <= n THEN ShipOK(z.ship[q[k]], s.harbors \ {h})
                 ELSE z.ship[q[k]] = s.ship[q[k]]
      <4>1. CASE k = n
        BY <3>2, <4>1
      <4>2. CASE k # n
        <5>1. q[k] \in Ships \ {x}
          BY <1>3, <4>2
        <5>2. z.ship[q[k]] = r.ship[q[k]]
          BY <3>2, <5>1
        <5>3. k <= n <=> k <= n - 1
          BY <1>3, <4>2
        <5> QED BY <2>2, <5>2, <5>3
      <4> QED BY <4>1, <4>2
    <3>4. Fine(z, n) /\ z \in Scenes
      BY <3>2, <3>3 DEF GoodBut
    <3> HIDE DEF Fine
    <3> QED BY <1>4, <2>1, <3>4
  <2> QED BY <2>5
<1>7. t \in R[Len(q)]
  <2> HIDE DEF Fine
  <2> QED BY <1>2, <1>3, <1>5, <1>6, WarnedAll
<1>8. Fine(t, Len(q))
  <2> HIDE DEF Fine
  <2> QED BY <1>3, <1>4, <1>7
<1>9. Fleet(t, s.harbors \ {h}, Ships)
  <2> SUFFICES ASSUME NEW x \in Ships PROVE ShipOK(t.ship[x], s.harbors \ {h})
    BY DEF Fleet
  <2>1. PICK n \in 1..Len(q) : q[n] = x
    BY <1>3
  <2>2. n <= Len(q)
    BY <1>3
  <2>3. IF n <= Len(q) THEN ShipOK(t.ship[q[n]], s.harbors \ {h}) ELSE t.ship[q[n]] = s.ship[q[n]]
    BY <1>8
  <2> QED BY <2>1, <2>2, <2>3
<1> QED BY <1>8, <1>9

(* All is well after a harbour has gone, but for those who waited to go there. *)
Bereft(s, d, h) ==
  /\ d \in Scenes /\ ~d.failed /\ d.harbors = s.harbors \ {h} /\ Fleet(d, d.harbors, Ships)
  /\ (\A i \in Items : Placed(d, i)) /\ Bound(d, s.harbors) /\ d.queue[h] = {}
  /\ (\A x \in Ships : Aware(d, x)) /\ Supplied(d)
  /\ \A a \in Points : d.queue[a] \subseteq s.queue[a]

(* Its materials are burnt. *)
Burnt(s, h, a, b) ==
  /\ GoodBut(a, Ships, {}) /\ a.harbors = s.harbors /\ a.ship = s.ship
  /\ a.queue[h] = {} /\ (\A p \in Points : a.queue[p] \subseteq s.queue[p])
  /\ b \in Scenes /\ b.harbors = s.harbors \ {h} /\ b.item = a.item /\ b.queue = a.queue
  /\ b.ship = s.ship /\ b.failed = s.failed /\ Supplied(b)

LEMMA FallsIs ==
  ASSUME NEW s, GoodBut(s, Ships, {}), NEW h \in s.harbors,
         NEW a, a = Leaves(s, s.queue[h]), NEW b, b = Falls(s, h)
  PROVE  Burnt(s, h, a, b)
<1> DEFINE hs == s.harbors \ {h}
           e == [s.expedition EXCEPT ![h] = "off"]
           o == [s.exploration EXCEPT ![h] = "off"]
           g == [s.stock EXCEPT ![h] = 0]
           n == IF s.expedition[h] = "ready" THEN 1 ELSE 0
           k == s.supply - s.stock[h] - n
           Q == s.queue[h]
           w == [a EXCEPT !.harbors = hs, !.expedition = e, !.exploration = o, !.stock = g]
<1>1. /\ s \in Scenes /\ s.expedition \in [Points -> Stages] /\ s.exploration \in [Points -> Stages]
      /\ s.stock \in [Points -> Nat] /\ s.harbors \in SUBSET Points /\ h \in Points
      /\ s.queue \in [Points -> SUBSET Items] /\ (\A i \in Items \ {} : Placed(s, i)) /\ Supplied(s)
  BY Fields DEF GoodBut
<1>2. Q \subseteq Items /\ {} \subseteq Items /\ {} \ Q = {}
  BY <1>1
<1>3. \A i \in Q \cap Items : InHold(s, i) = {}
  <2> SUFFICES ASSUME NEW i \in Q, i \in Items PROVE InHold(s, i) = {}
    OBVIOUS
  <2>1. h \in InQueue(s, i) /\ Placed(s, i)
    BY <1>1 DEF InQueue
  <2> QED BY <2>1 DEF Placed
<1>4. a = Leaves(s, Q)
  OBVIOUS
<1>5. /\ GoodBut(a, Ships, {} \ Q) /\ a.harbors = s.harbors /\ a.ship = s.ship
      /\ a.queue = Remaining(s, Q)
  <2> HIDE DEF Q
  <2> QED BY <1>2, <1>3, <1>4, MayLeave
<1>6. a.queue[h] = {} /\ \A p \in Points : a.queue[p] \subseteq s.queue[p]
  BY <1>1, <1>5 DEF Remaining
<1> HIDE DEF Q
<1>7. /\ a \in Scenes /\ a.expedition = s.expedition /\ a.exploration = s.exploration
      /\ a.stock = s.stock /\ a.supply = s.supply /\ a.failed = s.failed /\ a.sites = s.sites
  <2>1. a = Rearranged(s, Departed(s, Q), Remaining(s, Q))
        /\ Departed(s, Q) \in [Items -> Item] /\ Remaining(s, Q) \in [Points -> SUBSET Items]
    BY <1>1, <1>4, LeavesAre
  <2> DEFINE z == Rearranged(s, Departed(s, Q), Remaining(s, Q))
  <2>2. /\ z \in Scenes /\ z.expedition = s.expedition /\ z.exploration = s.exploration
        /\ z.stock = s.stock /\ z.supply = s.supply /\ z.failed = s.failed /\ z.sites = s.sites
    BY <1>1, <2>1, Rearranges
  <2> QED BY <2>1, <2>2
<1>8. hs \in SUBSET Points /\ e \in [Points -> Stages] /\ o \in [Points -> Stages] /\ g \in [Points -> Nat]
  BY <1>1 DEF Stages
<1>9. b = [w EXCEPT !.supply = k]
  BY <1>1, <1>4, <1>5, <1>7 DEF Falls, Scenes, Q
<1> HIDE DEF hs, e, o, g, k
<1>10. /\ w \in Scenes /\ w.harbors = hs /\ w.expedition = e /\ w.stock = g /\ w.item = a.item
       /\ w.queue = a.queue /\ w.ship = a.ship /\ w.failed = a.failed /\ w.sites = a.sites
       /\ w.supply = a.supply
  BY <1>7, <1>8 DEF Scenes
<1> HIDE DEF w
<1>11. Cardinality(Stored(w)) = Cardinality(Stored(s)) - s.stock[h]
  BY <1>1, <1>10, StoredGone DEF g
<1>12. Cardinality(Ready(w)) = Cardinality(Ready(s)) - n
  BY <1>1, <1>10, ReadyLess DEF e
<1>13. Abroad(w) = Abroad(s) /\ w.sites = s.sites
  BY <1>5, <1>7, <1>10 DEF Abroad
<1>14. /\ Cardinality(Stored(s)) \in Nat /\ Cardinality(s.sites) \in Nat
       /\ Cardinality(Ready(s)) \in Nat /\ Cardinality(Abroad(s)) \in Nat
  BY <1>1, Countable
<1>15. /\ Cardinality(Stored(w)) \in Nat /\ Cardinality(Ready(w)) \in Nat
  BY <1>10, Countable
<1>16. s.supply \in 0..Sets /\ Sets \in Nat /\ s.stock[h] \in Nat /\ n \in 0..1
  BY <1>1, Fields, ShipsAssumption
<1> DEFINE c1 == Cardinality(Stored(s))
           c2 == Cardinality(Ready(s))
           c3 == Cardinality(Abroad(s))
           c4 == Cardinality(s.sites)
           d1 == Cardinality(Stored(w))
           d2 == Cardinality(Ready(w))
           m == s.stock[h]
<1>17. s.supply = c1 + c4 + c2 + c3 /\ d1 = c1 - m /\ d2 = c2 - n
  BY <1>1, <1>11, <1>12 DEF Supplied
<1>18. k = d1 + c4 + d2 + c3 /\ k \in 0..Sets
  <2>1. k = s.supply - m - n
    BY DEF k
  <2>2. c1 \in Nat /\ c2 \in Nat /\ c3 \in Nat /\ c4 \in Nat /\ d1 \in Nat /\ d2 \in Nat /\ m \in Nat
    BY <1>14, <1>15, <1>16
  <2> HIDE DEF c1, c2, c3, c4, d1, d2, m, n
  <2> QED BY <1>16, <1>17, <2>1, <2>2
<1>19. /\ b \in Scenes /\ b.harbors = hs /\ b.expedition = e /\ b.stock = g /\ b.item = a.item
       /\ b.queue = a.queue /\ b.ship = a.ship /\ b.failed = a.failed /\ b.sites = w.sites
       /\ b.supply = k
  BY <1>9, <1>10, <1>18 DEF Scenes
<1>20. Supplied(b)
  <2>1. Stored(b) = Stored(w) /\ Ready(b) = Ready(w) /\ Abroad(b) = Abroad(w)
    BY <1>10, <1>19 DEF Stored, Ready, Abroad
  <2> QED BY <1>13, <1>18, <1>19, <2>1 DEF Supplied
<1> QED BY <1>2, <1>5, <1>6, <1>7, <1>19, <1>20 DEF Burnt, hs

LEMMA GoneIs ==
  ASSUME NEW s, GoodBut(s, Ships, {}), NEW h \in s.harbors, Fleet(s, s.harbors \ {h}, Ships),
         NEW d, d = Gone(s, h)
  PROVE  Bereft(s, d, h)
<1> DEFINE a == Leaves(s, s.queue[h])
           b == Falls(s, h)
           S == {i \in Wares : b.item[i].goal = h}
           c == LosesGoal(a, S)
<1>1. /\ GoodBut(a, Ships, {}) /\ a.harbors = s.harbors /\ a.ship = s.ship
      /\ a.queue[h] = {} /\ (\A p \in Points : a.queue[p] \subseteq s.queue[p])
      /\ b \in Scenes /\ b.harbors = s.harbors \ {h} /\ b.item = a.item /\ b.queue = a.queue
      /\ b.ship = s.ship /\ b.failed = s.failed /\ Supplied(b)
  <2>1. a = Leaves(s, s.queue[h]) /\ b = Falls(s, h)
    OBVIOUS
  <2> HIDE DEF a, b
  <2>2. Burnt(s, h, a, b)
    BY <2>1, FallsIs
  <2> QED BY <2>2 DEF Burnt
<1>2. d = LosesGoal(b, S) /\ c = LosesGoal(a, S)
  BY DEF Gone
<1>3. S \in SUBSET Items
  BY DEF Items
<1>30. h \in Points
  BY Fields DEF GoodBut
<1> HIDE DEF a, b, c, S
<1>4. GoodBut(c, Ships, {}) /\ c.harbors = a.harbors /\ c.ship = a.ship
      /\ \A p \in Points : c.queue[p] \subseteq a.queue[p]
  BY <1>1, <1>2, <1>3, LosesGoals
<1> DEFINE A == {i \in S : a.item[i].onship \/ \E x \in Ships : i \in a.ship[x].hold}
           f == Aimless(a, A)
           D == S \ A
           ra == [a EXCEPT !.item = f]
           rb == [b EXCEPT !.item = f]
           I == Departed(ra, D)
           Q == Remaining(ra, D)
<1>5. a \in Scenes
  BY <1>1 DEF GoodBut
<1>6. c = Leaves(ra, D)
  BY <1>2 DEF LosesGoal, Aimless
<1>7. A = {i \in S : b.item[i].onship \/ \E x \in Ships : i \in b.ship[x].hold}
  BY <1>1
<1>8. f = Aimless(b, A)
  BY <1>1 DEF Aimless
<1>9. d = Leaves(rb, D)
  BY <1>2, <1>7, <1>8 DEF LosesGoal, Aimless
<1> HIDE DEF A
<1>10. f \in [Items -> Item]
  BY <1>5, AimlessIs
<1> HIDE DEF f, D
<1>11. ra \in Scenes /\ ra.item = f /\ ra.queue = a.queue
  BY <1>5, <1>10 DEF Scenes
<1>12. /\ rb \in Scenes /\ rb.item = f /\ rb.queue = b.queue /\ rb.harbors = b.harbors
       /\ rb.ship = b.ship /\ rb.failed = b.failed /\ rb.supply = b.supply /\ rb.stock = b.stock
       /\ rb.sites = b.sites /\ rb.expedition = b.expedition
  BY <1>1, <1>10 DEF Scenes
<1> HIDE DEF ra, rb
<1>13. c = Rearranged(ra, I, Q) /\ I \in [Items -> Item] /\ Q \in [Points -> SUBSET Items]
  BY <1>6, <1>11, LeavesAre
<1>14. c.item = I /\ c.queue = Q
  <2> HIDE DEF I, Q
  <2>1. Rearranged(ra, I, Q).item = I /\ Rearranged(ra, I, Q).queue = Q
    BY <1>11, <1>13, Rearranges
  <2> QED BY <1>13, <2>1
<1>15. Departed(rb, D) = I /\ Remaining(rb, D) = Q
  BY <1>1, <1>11, <1>12 DEF Departed, Remaining
<1> HIDE DEF I, Q
<1>16. d = Rearranged(rb, I, Q)
  BY <1>9, <1>12, <1>15, LeavesAre
<1>17. LET z == Rearranged(rb, I, Q)
       IN  /\ z \in Scenes /\ z.item = I /\ z.queue = Q /\ z.harbors = rb.harbors /\ z.ship = rb.ship
           /\ z.failed = rb.failed /\ z.supply = rb.supply /\ z.stock = rb.stock
           /\ z.sites = rb.sites /\ z.expedition = rb.expedition
  BY <1>12, <1>13, Rearranges
<1>18. /\ d \in Scenes /\ d.item = c.item /\ d.queue = c.queue /\ d.harbors = s.harbors \ {h}
       /\ d.ship = s.ship /\ c.ship = s.ship /\ d.failed = s.failed
       /\ d.supply = b.supply /\ d.stock = b.stock
       /\ d.sites = b.sites /\ d.expedition = b.expedition /\ d.ship = b.ship
  BY <1>1, <1>4, <1>12, <1>14, <1>16, <1>17
<1>19. Supplied(d)
  BY <1>1, <1>18 DEF Supplied, Stored, Ready, Abroad
<1>20. \A i \in Items : Placed(d, i)
  <2>1. \A i \in Items \ {} : Placed(c, i)
    BY <1>4 DEF GoodBut
  <2> QED BY <1>18, <2>1 DEF Placed, InQueue, InHold
<1>21. Bound(d, s.harbors)
  <2>1. Bound(c, s.harbors)
    BY <1>1, <1>4 DEF GoodBut
  <2> QED BY <1>18, <2>1 DEF Bound, BoundOK
<1>22. \A x \in Ships : Aware(d, x)
  <2>1. \A x \in Ships : Aware(c, x)
    BY <1>4 DEF GoodBut
  <2> QED BY <1>18, <2>1 DEF Aware, AwareOf
<1>23. Fleet(d, d.harbors, Ships) /\ ~d.failed
  BY <1>18 DEF Fleet, GoodBut
<1>24. d.queue[h] = {} /\ \A p \in Points : d.queue[p] \subseteq s.queue[p]
  BY <1>1, <1>4, <1>18, <1>30
<1> QED BY <1>18, <1>19, <1>20, <1>21, <1>22, <1>23, <1>24 DEF Bereft

(* A way is found to a harbour that stands, or not over the sea. *)
WayFrom(d, a, w) == w = Ashore \/ (w \in Item /\ w.spot \in d.harbors \ {a})

LEMMA RecalculatesRoute ==
  ASSUME NEW d \in Scenes, NEW a, NEW i \in Items, d.harbors \ {a} # {},
         NEW w \in RecalcRoute(d, a, i)
  PROVE  WayFrom(d, a, w)
<1> DEFINE u == d.item[i]
           O == OverSea(d, a, u.goal)
           stores == d.harbors \ {a}
           E(e) == [u EXCEPT !.spot = e]
           K(h) == IF ByLand(a, h) THEN Ashore ELSE [u EXCEPT !.goal = h, !.spot = h]
           v == [u EXCEPT !.goal = None]
<1>1. u \in Item /\ d.harbors \subseteq Points
  BY Fields
<1>2. w \in IF u.goal = None \/ ByLand(a, u.goal) THEN {Ashore}
            ELSE IF O # {} THEN {E(e) : e \in O}
            ELSE IF stores = {} THEN {v}
            ELSE {K(h) : h \in stores}
  BY Zenon DEF RecalcRoute
<1>3. \A e \in O : e \in d.harbors /\ e # a
  BY SeaWays
<1> HIDE DEF u, O, E, K, v
<1>4. CASE w = Ashore
  BY <1>4 DEF WayFrom
<1>5. CASE O # {} /\ w \in {E(e) : e \in O}
  <2>1. PICK e \in O : w = E(e)
    BY <1>5
  <2>2. e \in d.harbors \ {a} /\ e \in Points
    BY <1>1, <1>3
  <2>3. w \in Item /\ w.spot = e
    BY <1>1, <2>1, <2>2 DEF Item, Coasts, E
  <2> QED BY <2>2, <2>3 DEF WayFrom
<1>6. CASE w \in {K(h) : h \in stores}
  <2>1. PICK h \in stores : w = K(h)
    BY <1>6
  <2>2. h \in d.harbors \ {a} /\ h \in Points
    BY <1>1
  <2>3. CASE w = [u EXCEPT !.goal = h, !.spot = h]
    <3>1. w \in Item /\ w.spot = h
      BY <1>1, <2>2, <2>3 DEF Item, Coasts
    <3> QED BY <2>2, <3>1 DEF WayFrom
  <2> QED BY <1>4, <2>1, <2>3 DEF K
<1>7. stores # {}
  OBVIOUS
<1> HIDE DEF stores
<1> QED BY <1>2, <1>4, <1>5, <1>6, <1>7

LEMMA ExaminesRoute ==
  ASSUME NEW d \in Scenes, NEW a, NEW i \in Items, NEW w \in ExamineShipRoute(d, a, i)
  PROVE  WayFrom(d, a, w)
<1> DEFINE u == d.item[i]
           O == OverSea(d, a, u.goal)
<1>1. u \in Item /\ d.harbors \subseteq Points
  BY Fields
<1>2. w \in IF O = {} THEN {Ashore} ELSE {[u EXCEPT !.spot = e] : e \in O}
  BY Zenon DEF ExamineShipRoute
<1>3. \A e \in O : e \in d.harbors /\ e # a
  BY SeaWays
<1> HIDE DEF u, O
<1>4. CASE w = Ashore
  BY <1>4 DEF WayFrom
<1>5. CASE w \in {[u EXCEPT !.spot = e] : e \in O}
  <2>1. PICK e \in O : w = [u EXCEPT !.spot = e]
    BY <1>5
  <2>2. e \in d.harbors \ {a} /\ e \in Points
    BY <1>1, <1>3
  <2>3. w \in Item /\ w.spot = e
    BY <1>1, <2>1, <2>2 DEF Item, Coasts
  <2> QED BY <2>2, <2>3 DEF WayFrom
<1> QED BY <1>2, <1>4, <1>5

(* All who wait look at their ways again. *)
Waiting(d) == {i \in Items : \E p \in Points : i \in d.queue[p]}
Look(d, c) == [i \in Items |-> IF i \in Waiting(d) THEN c[i] ELSE d.item[i]]
Off(d, c) == {i \in Waiting(d) : c[i] = Ashore}
Place(d, i) == CHOOSE h \in Points : i \in d.queue[h]
WaysOf(d, i) == IF i \in Wares THEN RecalcRoute(d, Place(d, i), i)
                ELSE ExamineShipRoute(d, Place(d, i), i)

LEMMA LooksAre ==
  ASSUME NEW d, NEW t \in RoadDestroyed(d)
  PROVE  \E c : /\ \A i \in Waiting(d) : c[i] \in WaysOf(d, i)
                /\ t = Leaves([d EXCEPT !.item = Look(d, c)], Off(d, c))
<1> DEFINE C == {c \in [Waiting(d) -> UNION {WaysOf(d, i) : i \in Waiting(d)}] :
                    \A i \in Waiting(d) : c[i] \in WaysOf(d, i)}
           T(c) == Leaves([d EXCEPT !.item = Look(d, c)], Off(d, c))
<1>1. t \in {T(c) : c \in C}
  BY Zenon DEF RoadDestroyed, LookAgain, Waiting, WaysOf, Place, Look, Off
<1>2. PICK c \in C : t = T(c)
  <2> HIDE DEF C, T
  <2> QED BY <1>1
<1>3. \A i \in Waiting(d) : c[i] \in WaysOf(d, i)
  BY <1>2
<1> QED BY <1>2, <1>3

LEMMA Ways ==
  ASSUME NEW s, NEW h \in s.harbors, NEW d, Bereft(s, d, h), s.harbors \subseteq Points,
         \A a \in s.harbors \ {h} : \A i \in Wares : i \in s.queue[a] => s.harbors # {a, h},
         NEW i \in Waiting(d), NEW w \in WaysOf(d, i)
  PROVE  /\ \E a \in Points : InQueue(d, i) = {a} /\ WayFrom(d, a, w)
         /\ InHold(d, i) = {} /\ w \in Item
<1> DEFINE a == Place(d, i)
<1>1. i \in Items /\ \E p \in Points : i \in d.queue[p]
  BY DEF Waiting
<1>2. a \in Points /\ i \in d.queue[a]
  BY <1>1 DEF Place
<1> HIDE DEF a
<1>3. d \in Scenes /\ d.harbors = s.harbors \ {h} /\ Placed(d, i) /\ Bound(d, s.harbors)
      /\ d.queue[h] = {} /\ d.queue[a] \subseteq s.queue[a]
  BY <1>1, <1>2 DEF Bereft
<1>4. InQueue(d, i) = {a} /\ InHold(d, i) = {}
  <2>1. a \in InQueue(d, i)
    BY <1>2 DEF InQueue
  <2> QED BY <1>3, <2>1 DEF Placed
<1>5. a \in s.harbors \ {h}
  BY <1>2, <1>3 DEF Bound, BoundOK
<1>6. i \in Wares => d.harbors \ {a} # {}
  <2> SUFFICES ASSUME i \in Wares, d.harbors \ {a} = {} PROVE FALSE
    OBVIOUS
  <2>1. s.harbors # {a, h}
    BY <1>2, <1>3, <1>5
  <2> QED BY <1>3, <1>5, <2>1
<1>7. WayFrom(d, a, w)
  <2>1. CASE i \in Wares
    <3>1. w \in RecalcRoute(d, a, i)
      BY <2>1 DEF WaysOf, a
    <3> QED BY <1>1, <1>3, <1>6, <2>1, <3>1, RecalculatesRoute
  <2>2. CASE i \notin Wares
    <3>1. w \in ExamineShipRoute(d, a, i)
      BY <2>2 DEF WaysOf, a
    <3> QED BY <1>1, <1>3, <3>1, ExaminesRoute
  <2> QED BY <2>1, <2>2
<1>8. w \in Item
  <2>1. Ashore \in Item
    BY DEF Ashore, Item, Coasts
  <2>2. CASE w = Ashore
    BY <2>1, <2>2
  <2>3. CASE w # Ashore
    BY <1>7, <2>3 DEF WayFrom
  <2> QED BY <2>2, <2>3
<1> QED BY <1>2, <1>4, <1>7, <1>8

(* Who waited to go where a harbour was goes elsewhere. *)
LEMMA LooksAgain ==
  ASSUME NEW s, NEW h \in s.harbors, NEW d, Bereft(s, d, h), s.harbors \subseteq Points,
         \A a \in s.harbors \ {h} : \A i \in Wares : i \in s.queue[a] => s.harbors # {a, h},
         NEW t \in RoadDestroyed(d)
  PROVE  Good(t)
<1>1. PICK c : /\ \A i \in Waiting(d) : c[i] \in WaysOf(d, i)
               /\ t = Leaves([d EXCEPT !.item = Look(d, c)], Off(d, c))
  BY LooksAre
<1>2. /\ d \in Scenes /\ ~d.failed /\ d.harbors = s.harbors \ {h} /\ Fleet(d, d.harbors, Ships)
      /\ (\A i \in Items : Placed(d, i)) /\ (\A x \in Ships : Aware(d, x)) /\ Supplied(d)
      /\ Bound(d, s.harbors)
  BY DEF Bereft
<1>3. d.item \in [Items -> Item] /\ d.queue \in [Points -> SUBSET Items]
  BY <1>2, Fields
<1>4. \A i \in Waiting(d) : /\ \E a \in Points : InQueue(d, i) = {a} /\ WayFrom(d, a, c[i])
                            /\ InHold(d, i) = {} /\ c[i] \in Item
  BY <1>1, Ways
<1> DEFINE f == Look(d, c)
           O == Off(d, c)
           e == [d EXCEPT !.item = f]
           F == Departed(e, O)
           Q == Remaining(e, O)
<1>5. f \in [Items -> Item] /\ \A i \in Items : f[i] = IF i \in Waiting(d) THEN c[i] ELSE d.item[i]
  BY <1>3, <1>4 DEF Look
<1>6. \A i \in Items : i \in O <=> i \in Waiting(d) /\ f[i] = Ashore
  BY <1>5 DEF Off
<1>60. t = Leaves(e, O)
  BY <1>1
<1> HIDE DEF f, O
<1>7. e \in Scenes /\ e.item = f /\ e.queue = d.queue
      /\ e.harbors = d.harbors /\ e.ship = d.ship /\ e.failed = d.failed /\ e.supply = d.supply
      /\ e.stock = d.stock /\ e.sites = d.sites /\ e.expedition = d.expedition
  BY <1>2, <1>5 DEF Scenes
<1> HIDE DEF e
<1>8. t = Rearranged(e, F, Q) /\ F \in [Items -> Item] /\ Q \in [Points -> SUBSET Items]
  BY <1>7, <1>60, LeavesAre
<1>9. \A i \in Items : F[i] = IF i \in O THEN Ashore ELSE f[i]
  BY <1>7 DEF Departed
<1>10. \A p \in Points : Q[p] = d.queue[p] \ O
  BY <1>7 DEF Remaining
<1> HIDE DEF F, Q
<1>11. LET z == Rearranged(e, F, Q)
       IN  /\ z \in Scenes /\ z.item = F /\ z.queue = Q /\ z.harbors = e.harbors /\ z.ship = e.ship
           /\ z.failed = e.failed /\ z.supply = e.supply /\ z.stock = e.stock
           /\ z.sites = e.sites /\ z.expedition = e.expedition
  BY <1>7, <1>8, Rearranges
<1>12. /\ t \in Scenes /\ t.item = F /\ t.queue = Q /\ t.harbors = d.harbors /\ t.ship = d.ship
       /\ t.failed = d.failed /\ t.supply = d.supply /\ t.stock = d.stock
       /\ t.sites = d.sites /\ t.expedition = d.expedition
  BY <1>7, <1>8, <1>11
<1>13. Supplied(t)
  BY <1>2, <1>12 DEF Supplied, Stored, Ready, Abroad
<1>14. \A i \in Items : InHold(t, i) = InHold(d, i) /\ (i \notin O => InQueue(t, i) = InQueue(d, i))
  BY <1>10, <1>12 DEF InHold, InQueue
<1>15. \A i \in O : InQueue(t, i) = {}
  BY <1>10, <1>12 DEF InQueue
<1>16. \A i \in Items : Placed(t, i)
  <2> SUFFICES ASSUME NEW i \in Items PROVE Placed(t, i)
    OBVIOUS
  <2>1. CASE i \notin Waiting(d)
    <3>1. i \notin O /\ F[i] = d.item[i]
      BY <1>5, <1>6, <1>9, <2>1
    <3> QED BY <1>2, <1>12, <1>14, <3>1 DEF Placed
  <2>2. CASE i \in O
    <3>1. InHold(d, i) = {} /\ F[i] = Ashore
      BY <1>4, <1>6, <1>9, <2>2
    <3> QED BY <1>12, <1>14, <1>15, <2>2, <3>1 DEF Placed
  <2>3. CASE i \in Waiting(d) /\ i \notin O
    <3>1. PICK a \in Points : InQueue(d, i) = {a} /\ WayFrom(d, a, c[i])
      BY <1>4, <2>3
    <3>2. F[i] = c[i] /\ c[i] # Ashore
      BY <1>5, <1>6, <1>9, <2>3
    <3>3. c[i].spot \in Points
      BY <1>2, <3>1, <3>2 DEF WayFrom
    <3>4. InHold(d, i) = {}
      BY <1>4, <2>3
    <3> QED BY <1>12, <1>14, <2>3, <3>1, <3>2, <3>3, <3>4 DEF Placed
  <2> QED BY <2>1, <2>2, <2>3
<1>17. Bound(t, t.harbors)
  <2> SUFFICES ASSUME NEW p \in Points, NEW i \in t.queue[p]
               PROVE  BoundOK(t, p, i, t.harbors)
    BY DEF Bound
  <2>1. i \in d.queue[p] /\ i \notin O /\ i \in Items
    BY <1>3, <1>10, <1>12
  <2>2. i \in Waiting(d) /\ p \in InQueue(d, i)
    BY <2>1 DEF Waiting, InQueue
  <2>3. PICK a \in Points : InQueue(d, i) = {a} /\ WayFrom(d, a, c[i])
    BY <1>4, <2>2
  <2>4. F[i] = c[i] /\ c[i] # Ashore /\ p = a
    BY <1>5, <1>6, <1>9, <2>1, <2>2, <2>3
  <2>5. t.item[i].spot \in d.harbors \ {p}
    BY <1>12, <2>3, <2>4 DEF WayFrom
  <2>6. p \in d.harbors
    <3>1. p \in s.harbors
      BY <1>2, <2>1 DEF Bound, BoundOK
    <3>2. p # h
      BY <2>1 DEF Bereft
    <3> QED BY <1>2, <3>1, <3>2
  <2> QED BY <1>12, <2>5, <2>6 DEF BoundOK
<1>18. \A x \in Ships : Aware(t, x)
  <2> SUFFICES ASSUME NEW x \in Ships, NEW i \in d.ship[x].hold \cap Figures
               PROVE  t.item[i] = d.item[i]
    BY <1>2, <1>12 DEF Aware, AwareOf
  <2>1. i \in Items /\ InHold(d, i) # {}
    BY DEF InHold, Items
  <2>2. i \notin Waiting(d)
    BY <1>4, <2>1
  <2> QED BY <1>5, <1>6, <1>9, <1>12, <2>1, <2>2
<1>19. Fleet(t, t.harbors, Ships \ {})
  BY <1>2, <1>12 DEF Fleet
<1> QED BY <1>2, <1>12, <1>13, <1>16, <1>17, <1>18, <1>19 DEF Good, GoodBut

(* A harbour is pulled down. *)
Razed(s) == [s EXCEPT !.razed = @ + 1]
LEMMA PullsDown ==
  ASSUME NEW s, Good(s), NEW h \in s.harbors, s.razed < MaxRazed,
         \A x \in Ships : Copes(s.ship[x], s.harbors, h),
         \A a \in s.harbors \ {h} : \A i \in Wares : i \in s.queue[a] => s.harbors # {a, h},
         NEW r, r = Razed(s), NEW t \in Destroy(r, h)
  PROVE  Good(t)
<1> USE DEF Razed
<1>1. s \in Scenes /\ Supplied(s)
  BY DEF Good, GoodBut
<1>2. s.razed + 1 \in 0..MaxRazed
  BY <1>1, Fields, ShipsAssumption
<1>3. /\ r \in Scenes /\ r.harbors = s.harbors /\ r.queue = s.queue /\ r.item = s.item
      /\ r.ship = s.ship /\ r.failed = s.failed /\ r.supply = s.supply /\ r.stock = s.stock
      /\ r.sites = s.sites /\ r.expedition = s.expedition
  BY <1>1, <1>2 DEF Scenes
<1>4. Supplied(r)
  BY <1>1, <1>3 DEF Supplied, Stored, Ready, Abroad
<1>5. Good(r)
  BY <1>3, <1>4, Provides
<1>6. PICK d \in TellOfEnd(r, h) : t \in RoadDestroyed(Gone(d, h))
  BY Zenon DEF Destroy
<1>7. /\ GoodBut(d, Ships, {}) /\ d.harbors = s.harbors /\ d.queue = s.queue
      /\ Fleet(d, s.harbors \ {h}, Ships)
  <2>1. h \in r.harbors /\ \A x \in Ships : Copes(r.ship[x], r.harbors, h)
    BY <1>3
  <2>2. GoodBut(d, Ships, {}) /\ d.harbors = r.harbors /\ d.queue = r.queue
        /\ Fleet(d, r.harbors \ {h}, Ships)
    BY <1>5, <1>6, <2>1, AllTold
  <2> QED BY <1>3, <2>2
<1>8. Bereft(d, Gone(d, h), h)
  BY <1>7, GoneIs
<1>9. s.harbors \subseteq Points
  BY <1>1, Fields
<1> QED BY <1>6, <1>7, <1>8, <1>9, LooksAgain

(* A harbour is built: who has lost his way finds it, nobody else minds. *)
CopesWith(u, hs, h) ==
  /\ u.state = "transport_driving" /\ ~u.lost => u.goal \in hs
  /\ u.lost /\ u.at = h => u.pos = Len(u.route)

LEMMA MayLie ==
  ASSUME NEW u \in Vessel, NEW hs, NEW h, ShipOK(u, hs), CopesWith(u, hs, h)
  PROVE  /\ ~u.lost => ShipOK(u, hs \cup {h})
         /\ u.lost => u.state = "transport_driving" /\ u.step = None /\ u.tasks = 0
<1>1. u.lost => u.state = "transport_driving"
  <2> SUFFICES ASSUME u.lost, u.state # "transport_driving" PROVE FALSE
    OBVIOUS
  <2>1. u.state # "unbuilt"
    BY DEF ShipOK, Unbuilt
  <2>2. u.state \notin Expeditions \cup Explorations \cup {"idle", "to_harbour"}
    BY DEF ShipOK, Course, Moored, Anchored, Expeditions, Explorations
  <2>3. u.state \notin {"transport_loading", "transport_unloading"}
    BY DEF ShipOK, Moored, Anchored
  <2>4. u.state \in States
    BY VesselFields
  <2> QED BY <2>1, <2>2, <2>3, <2>4 DEF States, Transporting
<1>2. u.lost => u.step = None /\ u.tasks = 0
  BY <1>1 DEF ShipOK, Course
<1>3. ASSUME ~u.lost PROVE ShipOK(u, hs \cup {h})
  <2> DEFINE ks == hs \cup {h}
  <2>2. u.state = "transport_driving" => u.goal \in ks /\ Course(u)
    BY <1>3 DEF ShipOK, CopesWith
  <2>3. u.state \in Expeditions \cup Explorations => u.home \in ks
    BY DEF ShipOK
  <2>4. u.state = "transport_driving" => Course(u) /\ (u.goal \notin ks => ks = {})
    BY <2>2
  <2>5. u.state = "transport_loading" =>
          Moored(u, 1) /\ u.at = u.home /\ u.goal \in ks \ {u.home}
    BY DEF ShipOK
  <2>6. u.state = "transport_unloading" => Anchored(u, 1) /\ u.goal \in ks
    BY DEF ShipOK
  <2> HIDE DEF ks
  <2>7. ShipOK(u, ks)
    BY <2>3, <2>4, <2>5, <2>6 DEF ShipOK
  <2> QED BY <2>7 DEF ks
<1> QED BY <1>1, <1>2, <1>3

Opened(s, h) == [s EXCEPT !.harbors = @ \cup {h}, !.sites = @ \ {h},
                          !.supply = IF h \in s.sites THEN @ - 1 ELSE @]
LEMMA Opens ==
  ASSUME NEW s, Good(s), NEW h \in Points, \A x \in Ships : CopesWith(s.ship[x], s.harbors, h),
         NEW r, r = Opened(s, h)
  PROVE  /\ GoodBut(r, {x \in Ships : s.ship[x].lost}, {}) /\ r.ship = s.ship
         /\ r.harbors = s.harbors \cup {h}
<1>1. /\ s \in Scenes /\ Supplied(s) /\ ~s.failed /\ Bound(s, s.harbors)
      /\ (\A x \in Ships : ShipOK(s.ship[x], s.harbors)) /\ (\A i \in Items : Placed(s, i))
      /\ (\A x \in Ships : Aware(s, x))
  BY DEF Good, GoodBut, Fleet
<1> DEFINE H == s.harbors \cup {h}
           S == s.sites \ {h}
           n == IF h \in s.sites THEN s.supply - 1 ELSE s.supply
<1>2. IsFiniteSet(s.sites) /\ Cardinality(s.sites) \in Nat
  BY <1>1, Countable
<1>3. Cardinality(S) = Cardinality(s.sites) - (IF h \in s.sites THEN 1 ELSE 0)
  <2>1. CASE h \in s.sites
    BY <1>2, <2>1, FS_RemoveElement
  <2>2. CASE h \notin s.sites
    <3>1. S = s.sites
      BY <2>2
    <3> QED BY <1>2, <2>2, <3>1
  <2> QED BY <2>1, <2>2
<1>4. /\ Cardinality(Stored(s)) \in Nat /\ Cardinality(Ready(s)) \in Nat
      /\ Cardinality(Abroad(s)) \in Nat
  BY <1>1, Countable
<1>5. IsFiniteSet(S) /\ Cardinality(S) \in Nat
  BY <1>2, FS_Subset, FS_CardinalityType
<1>6. s.supply = Cardinality(Stored(s)) + Cardinality(s.sites)
                 + Cardinality(Ready(s)) + Cardinality(Abroad(s))
  BY <1>1 DEF Supplied
<1>7. n = Cardinality(Stored(s)) + Cardinality(S) + Cardinality(Ready(s)) + Cardinality(Abroad(s))
  BY <1>2, <1>3, <1>4, <1>6
<1>8. n \in 0..Sets
  <2>1. s.supply \in 0..Sets /\ Sets \in Nat
    BY <1>1, Fields, ShipsAssumption
  <2>2. n \in Nat
    BY <1>4, <1>5, <1>7
  <2> QED BY <2>1, <2>2
<1>9. H \in SUBSET Points /\ S \in SUBSET Points
  BY <1>1, Fields
<1>10. r = [s EXCEPT !.harbors = H, !.sites = S, !.supply = n]
  BY DEF Opened
<1>11. S = s.sites \ {h} /\ H = s.harbors \cup {h}
  OBVIOUS
<1> HIDE DEF H, S, n
<1>12. /\ r \in Scenes /\ r.harbors = H /\ r.sites = S /\ r.supply = n /\ r.queue = s.queue
       /\ r.item = s.item /\ r.ship = s.ship /\ r.failed = s.failed /\ r.stock = s.stock
       /\ r.expedition = s.expedition
  BY <1>1, <1>8, <1>9, <1>10 DEF Scenes
<1>13. Supplied(r)
  BY <1>7, <1>12 DEF Supplied, Stored, Ready, Abroad
<1>14. \A i \in Items : Placed(r, i)
  BY <1>1, <1>12 DEF Placed, InQueue, InHold
<1>15. Bound(r, r.harbors)
  BY <1>1, <1>11, <1>12 DEF Bound, BoundOK
<1>16. \A x \in Ships : Aware(r, x)
  BY <1>1, <1>12 DEF Aware, AwareOf
<1>17. Fleet(r, r.harbors, Ships \ {x \in Ships : s.ship[x].lost})
  <2>1. \A x \in Ships : s.ship[x] \in Vessel
    BY <1>1, Fields
  <2>2. \A x \in Ships : ~s.ship[x].lost => ShipOK(s.ship[x], s.harbors \cup {h})
    BY <1>1, <2>1, MayLie
  <2> QED BY <1>11, <1>12, <2>2 DEF Fleet
<1> QED BY <1>1, <1>11, <1>12, <1>13, <1>14, <1>15, <1>16, <1>17 DEF GoodBut

LEMMA HearsOfNew ==
  ASSUME NEW X, NEW r, GoodBut(r, X, {}), NEW x \in Ships, r.ship[x].lost,
         r.ship[x].state = "transport_driving", r.ship[x].step = None, r.ship[x].tasks = 0,
         NEW h \in r.harbors, r.ship[x].at = h => r.ship[x].pos = Len(r.ship[x].route),
         NEW t \in NewHarborBuilt(r, x, h)
  PROVE  GoodBut(t, X \ {x}, {}) /\ Alone(r, t, x)
<1> DEFINE u == r.ship[x]
           w == [u EXCEPT !.home = h, !.goal = h, !.lost = FALSE]
           b == Now(r, x, w)
<1>1. /\ r \in Scenes /\ ~r.failed /\ h \in Points /\ u \in Vessel
      /\ r.harbors \subseteq Points
  BY Fields DEF GoodBut
<1>2. h \in Coasts
  BY <1>1 DEF Coasts
<1>3. /\ w \in Vessel /\ w.state = "transport_driving" /\ w.goal = h /\ w.home = h /\ ~w.lost
      /\ w.hold = u.hold /\ w.step = None /\ w.tasks = 0
      /\ (w.at = h => w.pos = Len(w.route))
  BY <1>1, <1>2 DEF Vessel
<1>4. t \in Driven(StartDrivingToHarborPlace(b, x), x)
  BY DEF NewHarborBuilt
<1>5. AwareOf(r, u)
  BY DEF GoodBut, Aware
<1> HIDE DEF u, w
<1>6. b \in Scenes /\ b.ship[x] = w /\ b.harbors = r.harbors /\ ~b.failed
  <2>1. Now(r, x, w) \in Scenes /\ Now(r, x, w).harbors = r.harbors
        /\ Now(r, x, w).failed = r.failed
    BY <1>1, <1>3, NowIs, ZenonT(30)
  <2>2. Now(r, x, w).ship[x] = w
    BY <1>1, <1>3, NowShips
  <2>3. ~Now(r, x, w).failed
    BY <1>1, <2>1, Zenon
  <2> QED BY <2>1, <2>2, <2>3, Zenon DEF b
<1> HIDE DEF b
<1>7. PICK v : /\ StartDrivingToHarborPlace(b, x) = Now(b, x, v) /\ v \in Vessel /\ Afloat(v)
               /\ v.goal = h /\ v.state = "transport_driving" /\ v.hold = u.hold
  <2>1. CASE w.at # h
    <3>1. /\ b.ship[x].step = None /\ b.ship[x].tasks = 0 /\ ~b.ship[x].lost
          /\ b.ship[x].goal \in Points /\ b.ship[x].at # b.ship[x].goal
      BY <1>1, <1>3, <1>6, <2>1
    <3> QED BY <1>3, <1>6, <3>1, SetsOut
  <2>2. CASE w.at = h
    <3>1. StartDrivingToHarborPlace(b, x) = b
      BY <1>3, <1>6, <2>2 DEF StartDrivingToHarborPlace
    <3>2. b = Now(b, x, w)
      BY <1>1, <1>3, NowTwice DEF b
    <3>3. w.pos = Len(w.route) /\ w.pos \in Nat
      BY <1>3, <2>2, VesselFields
    <3>4. Afloat(w)
      BY <1>1, <1>3, <2>2, <3>3 DEF Afloat
    <3> QED BY <1>3, <3>1, <3>2, <3>4
  <2> QED BY <2>1, <2>2
<1>8. Now(b, x, v) = Now(r, x, v)
  BY <1>1, <1>3, <1>7, NowTwice DEF b
<1> DEFINE c == Now(r, x, v)
<1>9. c.ship[x] = v /\ c.harbors = r.harbors /\ c \in Scenes
  <2>1. Now(r, x, v) \in Scenes /\ Now(r, x, v).harbors = r.harbors
    BY <1>1, <1>7, NowIs, ZenonT(30)
  <2>2. Now(r, x, v).ship[x] = v
    BY <1>1, <1>7, NowShips
  <2> QED BY <2>1, <2>2
<1>10. GoodBut(c, X \cup {x}, {})
  <2>1. v.state \notin Expeditions /\ u.state \notin Expeditions
    BY <1>7 DEF Expeditions, u
  <2>2. AwareOf(r, v)
    <3>1. ~v.lost
      BY <1>7 DEF Afloat
    <3>2. \A i \in u.hold \cap Figures : r.item[i].goal = None
      BY <1>5 DEF AwareOf, u
    <3> QED BY <1>7, <3>1, <3>2 DEF AwareOf
  <2> QED BY <1>7, <2>1, <2>2, Changes DEF u
<1> HIDE DEF c
<1>11. t \in TransportDriving(c, x)
  BY <1>4, <1>7, <1>8, <1>9 DEF Driven, c
<1>12. GoodBut(t, (X \cup {x}) \ {x}, {}) /\ Alone(c, t, x)
  <2>1. c.ship[x].state = "transport_driving" /\ Afloat(c.ship[x]) /\ c.ship[x].goal \in c.harbors
    BY <1>7, <1>9
  <2> QED BY <1>10, <1>11, <2>1, TransportDrives
<1>13. (X \cup {x}) \ {x} = X \ {x}
  OBVIOUS
<1>14. Alone(r, t, x)
  <2>1. Alone(r, c, x)
    BY <1>1, <1>7, NowAlone DEF c
  <2> QED BY <1>12, <2>1 DEF Alone
<1> QED BY <1>12, <1>13, <1>14

LEMMA IsBuilt ==
  ASSUME NEW s, Good(s), NEW h \in Points, \A x \in Ships : CopesWith(s.ship[x], s.harbors, h),
         NEW r, r = Opened(s, h),
         NEW t \in TellOfNew(r, h)
  PROVE  Good(t)
<1> DEFINE L == {x \in Ships : s.ship[x].lost}
<1>1. GoodBut(r, L, {}) /\ r.ship = s.ship /\ h \in r.harbors /\ r \in Scenes
  <2>1. GoodBut(r, L, {}) /\ r.ship = s.ship /\ r.harbors = s.harbors \cup {h}
    BY Opens
  <2> HIDE DEF L
  <2>2. r \in Scenes
    BY <2>1 DEF GoodBut
  <2> QED BY <2>1, <2>2
<1>2. \A x \in L : /\ r.ship[x].state = "transport_driving" /\ r.ship[x].step = None
                   /\ r.ship[x].tasks = 0 /\ r.ship[x].lost
                   /\ (r.ship[x].at = h => r.ship[x].pos = Len(r.ship[x].route))
  <2> SUFFICES ASSUME NEW x \in L
               PROVE  /\ s.ship[x].state = "transport_driving" /\ s.ship[x].step = None
                      /\ s.ship[x].tasks = 0 /\ s.ship[x].lost
                      /\ (s.ship[x].at = h => s.ship[x].pos = Len(s.ship[x].route))
    BY <1>1
  <2>1. ShipOK(s.ship[x], s.harbors) /\ s.ship[x] \in Vessel
    BY Fields DEF Good, GoodBut, Fleet
  <2> QED BY <2>1, MayLie DEF CopesWith
<1>3. PICK q \in SetToSeqs(Ships) : t \in Hailed(r, h, q)
  BY DEF TellOfNew, ForEach, Hailed, InOrder
<1>4. /\ Len(q) \in Nat /\ q \in [1..Len(q) -> Ships]
      /\ \A e \in Ships : \E n \in 1..Len(q) : q[n] = e
      /\ \A n, k \in 1..Len(q) : q[n] = q[k] => n = k
  BY <1>3, ShipsAssumption, Ordered
<1> DEFINE X(n) == {x \in L : \A k \in 1..n : q[k] # x}
           Fine(d, n) ==
             /\ GoodBut(d, X(n), {}) /\ d.harbors = r.harbors
             /\ \A k \in 1..Len(q) : k > n => d.ship[q[k]] = r.ship[q[k]]
           R == [n \in 0..Len(q) |-> {d \in Scenes : Fine(d, n)}]
<1>5. \A n \in 0..Len(q) : R[n] = {d \in Scenes : Fine(d, n)}
  OBVIOUS
<1>6. r \in R[0]
  <2>1. X(0) = L
    OBVIOUS
  <2>2. Fine(r, 0)
    BY <1>1, <2>1
  <2> HIDE DEF Fine
  <2> QED BY <1>1, <1>4, <2>2
<1> HIDE DEF R
<1>7. ASSUME NEW n \in 1..Len(q), NEW d \in R[n - 1] PROVE NewHarborBuilt(d, q[n], h) \subseteq R[n]
  <2>1. n - 1 \in 0..Len(q) /\ n \in 0..Len(q) /\ q[n] \in Ships
    BY <1>4
  <2>2. Fine(d, n - 1) /\ d \in Scenes
    <3> HIDE DEF Fine
    <3> QED BY <1>5, <2>1
  <2> DEFINE x == q[n]
  <2>3. d.ship[x] = r.ship[x]
    BY <1>4, <2>2
  <2>4. X(n) = X(n - 1) \ {x}
    <3>1. \A k \in Int : k \in 1..n <=> k \in 1..(n - 1) \/ k = n
      BY <1>4
    <3>2. \A e : (\A k \in 1..n : q[k] # e) <=> (\A k \in 1..(n - 1) : q[k] # e) /\ q[n] # e
      BY <3>1
    <3> QED BY <3>2
  <2>5. \A k \in 1..Len(q) : k > n => k > n - 1 /\ q[k] # x
    BY <1>4
  <2> HIDE DEF X
  <2>6. ASSUME NEW z \in NewHarborBuilt(d, x, h), x \notin L PROVE z \in R[n]
    <3>1. z = d
      <4>1. ~d.ship[x].lost
        BY <1>1, <2>1, <2>3, <2>6
      <4> QED BY <2>6, <4>1 DEF NewHarborBuilt
    <3>2. X(n) = X(n - 1)
      BY <2>4, <2>6 DEF X
    <3>3. Fine(z, n)
      BY <2>2, <2>5, <3>1, <3>2
    <3> HIDE DEF Fine
    <3> QED BY <1>5, <2>1, <2>2, <3>1, <3>3
  <2>7. ASSUME NEW z \in NewHarborBuilt(d, x, h), x \in L PROVE z \in R[n]
    <3>1. /\ d.ship[x].state = "transport_driving" /\ d.ship[x].step = None
          /\ d.ship[x].tasks = 0 /\ d.ship[x].lost /\ h \in d.harbors
          /\ (d.ship[x].at = h => d.ship[x].pos = Len(d.ship[x].route))
      BY <1>1, <1>2, <2>2, <2>3, <2>7
    <3>2. GoodBut(z, X(n - 1) \ {x}, {}) /\ Alone(d, z, x)
      <4> HIDE DEF x
      <4>1. x \in Ships /\ GoodBut(d, X(n - 1), {})
        BY <2>2, <2>7
      <4> QED BY <2>7, <3>1, <4>1, HearsOfNew
    <3>3. Fine(z, n)
      <4>1. z.harbors = r.harbors
        BY <2>2, <3>2 DEF Alone
      <4>2. \A k \in 1..Len(q) : k > n => z.ship[q[k]] = r.ship[q[k]]
        BY <1>4, <2>2, <2>5, <3>2 DEF Alone
      <4> QED BY <2>4, <3>2, <4>1, <4>2
    <3> HIDE DEF Fine
    <3>4. z \in Scenes
      BY <3>2 DEF GoodBut
    <3> QED BY <1>5, <2>1, <3>3, <3>4
  <2> QED BY <2>6, <2>7
<1> HIDE DEF Fine
<1>8. t \in R[Len(q)]
  BY <1>3, <1>4, <1>6, <1>7, HailedAll
<1>9. Fine(t, Len(q))
  BY <1>4, <1>5, <1>8
<1>10. X(Len(q)) = {}
  BY <1>4
<1> QED BY <1>9, <1>10 DEF Fine, Good

-----------------------------------------------------------------------------
(* The state as a scene, and every action as a step from scene to scene.     *)
LEMMA SceneIs ==
  /\ Scene.harbors = harbors /\ Scene.works = works /\ Scene.sites = sites
  /\ Scene.expedition = expedition /\ Scene.exploration = exploration /\ Scene.stock = stock
  /\ Scene.queue = queue /\ Scene.item = item /\ Scene.ship = ship /\ Scene.failed = failed
  /\ Scene.supply = supply /\ Scene.razed = razed /\ Scene.letdown = letdown
BY DEF Scene

LEMMA Follows ==
  ASSUME NEW t, Good(t), Becomes(t)
  PROVE  IInv'
<1>1. t \in Scenes
  BY DEF Good, GoodBut
<1>2. Scene' = t
  BY <1>1 DEF Becomes, Scene, Scenes
<1>3. Good(Scene')
  BY <1>2
<1> QED BY <1>3 DEF IInv

LEMMA WalkKeeps ==
  ASSUME IInv, NEW x \in Ships, Walk(x)
  PROVE  IInv'
<1>1. Scene.ship = ship /\ GoodBut(Scene, {}, {}) /\ ship[x].step # None
  BY SceneIs DEF IInv, Good, Walk
<1>2. PICK t \in Driven(Stepped(Scene, x), x) : Becomes(t)
  BY <1>1, Zenon DEF Walk, Stepped
<1>3. Good(t)
  BY <1>1, <1>2, Driving
<1> QED BY <1>2, <1>3, Follows

LEMMA HandleEventKeeps ==
  ASSUME IInv, NEW x \in Ships, HandleEvent(x)
  PROVE  IInv'
<1>1. PICK t \in Handled(Now(Scene, x, [ship[x] EXCEPT !.tasks = ship[x].tasks - 1]), x) :
        Becomes(t)
  BY DEF HandleEvent
<1>2. Good(Scene) /\ Scene.ship = ship /\ ship[x].tasks > 0
  BY SceneIs DEF IInv, HandleEvent
<1>3. Good(t)
  BY <1>1, <1>2, Handling
<1> QED BY <1>1, <1>3, Follows

LEMMA LaunchKeeps ==
  ASSUME IInv, NEW x \in Ships, Launch(x)
  PROVE  IInv'
<1>1. PICK t \in LooksForJob(Scene, x) : Becomes(t)
  BY DEF Launch
<1>2. Good(Scene) /\ Scene.ship = ship /\ ship[x] = Unbuilt
  BY SceneIs DEF IInv, Launch
<1>3. Good(t)
  BY <1>1, <1>2, Launched
<1> QED BY <1>1, <1>3, Follows

LEMMA FoundColonyKeeps ==
  ASSUME IInv, NEW x \in Ships, FoundColony(x)
  PROVE  IInv'
<1>1. PICK t \in LooksForJob(Founding(Scene, x), x) : Becomes(t)
  BY SceneIs, Zenon DEF FoundColony, Founding
<1>2. /\ Good(Scene) /\ Scene.ship = ship /\ ship[x].state = "expedition_waiting"
      /\ ship[x].goal \notin Scene.sites
  BY SceneIs DEF IInv, FoundColony, IsHarborPointFree
<1>3. Good(t)
  BY <1>1, <1>2, FoundsColony
<1> QED BY <1>1, <1>3, Follows

LEMMA ContinueExpeditionKeeps ==
  ASSUME IInv, NEW x \in Ships, NEW p \in Points, ContinueExpedition(x, p)
  PROVE  IInv'
<1>1. /\ Scene.ship = ship /\ Good(Scene)
      /\ ship[x].state = "expedition_waiting" /\ p # ship[x].goal
  BY SceneIs DEF IInv, ContinueExpedition
<1>2. Becomes(Continued(Scene, x, p))
  BY <1>1, Zenon DEF ContinueExpedition, Continued
<1>3. Good(Continued(Scene, x, p))
  BY <1>1, ContinuesExpedition
<1> QED BY <1>2, <1>3, Follows

LEMMA CancelExpeditionKeeps ==
  ASSUME Careful, IInv, NEW x \in Ships, CancelExpedition(x)
  PROVE  IInv'
<1>1. Scene.ship = ship /\ Good(Scene)
  BY SceneIs DEF IInv
<1>2. ship[x].state = "expedition_waiting"
  BY Zenon DEF CancelExpedition
<1>3. CASE ship[x].goal = ship[x].home
  <2>1. Becomes(Recalled(Scene, x))
    BY <1>1, <1>3, Zenon DEF CancelExpedition, Recalled
  <2>2. Good(Recalled(Scene, x))
    BY <1>1, <1>2, <1>3, CallsBack
  <2> QED BY <2>1, <2>2, Follows
<1>4. CASE ship[x].goal # ship[x].home
  <2>1. Becomes(SentHome(Scene, x))
    BY <1>1, <1>4, Zenon DEF CancelExpedition, SentHome
  <2>2. Good(SentHome(Scene, x))
    BY <1>1, <1>2, SendsHome
  <2> QED BY <2>1, <2>2, Follows
<1> QED BY <1>3, <1>4

LEMMA StartExpeditionKeeps ==
  ASSUME IInv, NEW h \in Points, StartExpedition(h)
  PROVE  IInv'
<1>1. /\ Good(Scene) /\ Scene.expedition = expedition /\ Scene.stock = stock
      /\ h \in Scene.harbors /\ expedition[h] \in Stages /\ stock[h] \in Nat
  <2>1. Good(Scene) /\ Scene \in Scenes
    BY DEF IInv, Good, GoodBut
  <2> QED BY <2>1, SceneIs, Fields DEF StartExpedition
<1>2. CASE expedition[h] = "off" /\ Becomes(Gathering(Scene, h))
  BY <1>1, <1>2, Gathers, Follows
<1>3. CASE /\ expedition[h] = "off" /\ stock[h] > 0
           /\ \E t \in OrderShip(Equipped(Scene, h), h) : Becomes(t)
  <2>1. PICK t \in OrderShip(Equipped(Scene, h), h) : Becomes(t)
    BY <1>3
  <2>2. Good(t)
    BY <1>1, <1>3, <2>1, Equips
  <2> QED BY <2>1, <2>2, Follows
<1>4. CASE expedition[h] = "gathering" /\ Becomes(Stopped(Scene, h))
  BY <1>1, <1>4, Stops, Follows
<1>5. CASE expedition[h] = "ready" /\ Becomes(CalledOff(Scene, h))
  BY <1>1, <1>5, CallsOff, Follows
<1> QED BY <1>2, <1>3, <1>4, <1>5, Zenon
        DEF StartExpedition, Gathering, Equipped, Stopped, CalledOff

LEMMA ExpeditionReadyKeeps ==
  ASSUME IInv, NEW h \in Points, ExpeditionReady(h)
  PROVE  IInv'
<1>1. /\ Good(Scene) /\ Scene.expedition = expedition /\ Scene.supply = supply
      /\ h \in Scene.harbors /\ expedition[h] = "gathering" /\ supply < Sets
  BY SceneIs DEF IInv, ExpeditionReady
<1>2. PICK t \in OrderShip(Completed(Scene, h), h) : Becomes(t)
  BY Zenon DEF ExpeditionReady, Completed
<1>3. Good(t)
  BY <1>1, <1>2, Completes
<1> QED BY <1>2, <1>3, Follows

Outfitting(h, e) == [Scene EXCEPT !.exploration[h] = e]
Abandoning(h, l) == [Scene EXCEPT !.exploration[h] = "off", !.letdown = l]
LEMMA ExplorationIs ==
  ASSUME NEW h \in Points, NEW e \in Stages, NEW l \in BOOLEAN, Good(Scene)
  PROVE  /\ Abandoning(h, l) = Exploring(Scene, h, "off", l)
         /\ Outfitting(h, e) = Exploring(Scene, h, e, letdown)
         /\ letdown \in BOOLEAN
<1>1. Scene \in Scenes /\ Scene.letdown = letdown
  BY SceneIs DEF Good, GoodBut
<1> DEFINE s == Scene
           f == [s.exploration EXCEPT ![h] = e]
<1>2. [s EXCEPT !.exploration[h] = e] = [s EXCEPT !.exploration = f]
  OBVIOUS
<1>3. Abandoning(h, l) = Exploring(Scene, h, "off", l)
  BY Zenon DEF Abandoning, Exploring
<1>4. f = [s.exploration EXCEPT ![h] = e]
  OBVIOUS
<1> HIDE DEF f
<1>5. [s EXCEPT !.exploration = f] = [s EXCEPT !.exploration = f, !.letdown = s.letdown]
  <2> HIDE DEF s
  <2> QED BY <1>1 DEF Scenes, s
<1>6. letdown \in BOOLEAN
  BY <1>1, Fields
<1>7. Outfitting(h, e) = Exploring(Scene, h, e, letdown)
  <2> HIDE DEF s
  <2> QED BY <1>1, <1>2, <1>4, <1>5, Zenon DEF Exploring, Outfitting, s
<1> QED BY <1>3, <1>6, <1>7

LEMMA StartExplorationExpeditionKeeps ==
  ASSUME IInv, NEW h \in Points, StartExplorationExpedition(h)
  PROVE  IInv'
<1>1. Good(Scene)
  BY DEF IInv
<1>2. "gathering" \in Stages /\ "off" \in Stages
  BY DEF Stages
<1>3. CASE Becomes(Outfitting(h, "gathering"))
  <2>1. letdown \in BOOLEAN /\ Becomes(Exploring(Scene, h, "gathering", letdown))
    BY <1>1, <1>2, <1>3, ExplorationIs
  <2> QED BY <1>1, <1>2, <2>1, Explored, Follows
<1>4. CASE Becomes(Abandoning(h, letdown \/ exploration[h] = "ready"))
  <2> DEFINE l == letdown \/ exploration[h] = "ready"
  <2>1. Becomes(Abandoning(h, l))
    BY <1>4
  <2>2. l \in BOOLEAN
    OBVIOUS
  <2> HIDE DEF l
  <2>3. Becomes(Exploring(Scene, h, "off", l))
    BY <1>1, <1>2, <2>1, <2>2, ExplorationIs
  <2> QED BY <1>1, <1>2, <2>2, <2>3, Explored, Follows
<1> QED BY <1>3, <1>4, SceneIs, Zenon DEF StartExplorationExpedition, Outfitting, Abandoning

LEMMA ExplorationReadyKeeps ==
  ASSUME IInv, NEW h \in Points, ExplorationReady(h)
  PROVE  IInv'
<1>1. Good(Scene) /\ h \in Scene.harbors /\ "ready" \in Stages
  BY SceneIs DEF IInv, ExplorationReady, Stages
<1> DEFINE q == Outfitting(h, "ready")
<1>2. letdown \in BOOLEAN /\ q = Exploring(Scene, h, "ready", letdown)
  BY <1>1, ExplorationIs
<1>3. PICK t \in OrderShip(q, h) : Becomes(t)
  BY Zenon DEF ExplorationReady, Outfitting
<1> HIDE DEF q
<1>4. Good(q) /\ h \in q.harbors
  BY <1>1, <1>2, Explored
<1>5. Good(t)
  <2>1. GoodBut(q, {}, {})
    BY <1>4 DEF Good
  <2>2. GoodBut(t, {}, {})
    BY <1>3, <1>4, <2>1, OrdersShips
  <2> QED BY <2>2 DEF Good
<1> QED BY <1>3, <1>5, Follows

LEMMA EmbarkKeeps ==
  ASSUME IInv, NEW h \in Points, NEW i \in Items, Embark(i, h)
  PROVE  IInv'
<1>1. /\ Good(Scene) /\ Scene.item = item /\ Scene.harbors = harbors /\ item[i] = Ashore
      /\ harbors \subseteq Points /\ works \subseteq Works
  <2>1. Good(Scene) /\ Scene \in Scenes
    BY DEF IInv, Good, GoodBut
  <2> QED BY <2>1, SceneIs, Fields DEF Embark
<1>2. PICK g \in works \cup IF i \in Wares THEN harbors ELSE {} :
        \E d \in OverSea(Scene, h, g) :
        \E t \in OrderShip(Waits([Scene EXCEPT !.item[i].goal = g], i, h, d), h) : Becomes(t)
  BY DEF Embark
<1>3. PICK d \in OverSea(Scene, h, g) :
        \E t \in OrderShip(Waits(Engaged(Scene, i, g), i, h, d), h) : Becomes(t)
  BY <1>2, Zenon DEF Engaged
<1>4. PICK t \in OrderShip(Waits(Engaged(Scene, i, g), i, h, d), h) : Becomes(t)
  BY <1>3
<1>5. g \in Points \cup Works
  BY <1>1
<1> DEFINE r == Engaged(Scene, i, g)
<1>6. GoodBut(r, {}, {i}) /\ r.harbors = harbors
  BY <1>1, <1>5, Engages
<1>7. h \in r.harbors /\ d \in r.harbors /\ d # h
  BY <1>1, <1>3, <1>6, SeaWays
<1> HIDE DEF r
<1>8. Good(t)
  <2>1. t \in OrderShip(Waits(r, i, h, d), h)
    BY <1>4 DEF r
  <2> QED BY <1>6, <1>7, <2>1, Embarks
<1> QED BY <1>4, <1>8, Follows

LEMMA WorkDestroyedKeeps ==
  ASSUME IInv, NEW g \in Works, WorkDestroyed(g)
  PROVE  IInv'
<1>1. Good(Scene) /\ Scene.item = item
  BY SceneIs DEF IInv
<1> DEFINE t == LosesGoal(Worn(Scene, g), {i \in Items : Scene.item[i].goal = g})
<1>2. Becomes(t)
  BY <1>1, Zenon DEF WorkDestroyed, Worn
<1>3. Good(t)
  BY <1>1, Forgets
<1> QED BY <1>2, <1>3, Follows

LEMMA PullDownKeeps ==
  ASSUME Careful, IInv, NEW h \in Points, PullDown(h)
  PROVE  IInv'
<1>1. /\ Good(Scene) /\ Scene.harbors = harbors /\ Scene.razed = razed /\ Scene.ship = ship
      /\ Scene.queue = queue
  BY SceneIs DEF IInv
<1>2. h \in Scene.harbors /\ Scene.razed < MaxRazed /\ CopeWithout(h)
  BY <1>1 DEF PullDown
<1>3. PICK t \in Destroy(Razed(Scene), h) : Becomes(t)
  BY Zenon DEF PullDown, Razed
<1>4. \A x \in Ships : Copes(Scene.ship[x], Scene.harbors, h)
  BY <1>1, <1>2 DEF CopeWithout, Copes
<1>5. \A a \in Scene.harbors \ {h} : \A i \in Wares :
        i \in Scene.queue[a] => Scene.harbors # {a, h}
  BY <1>1, <1>2 DEF CopeWithout
<1>6. Good(t)
  BY <1>1, <1>2, <1>3, <1>4, <1>5, PullsDown
<1> QED BY <1>3, <1>6, Follows

LEMMA HarborBuiltKeeps ==
  ASSUME Careful, IInv, NEW h \in Points, HarborBuilt(h)
  PROVE  IInv'
<1>1. Good(Scene) /\ Scene.harbors = harbors /\ Scene.ship = ship /\ Scene.sites = sites
  BY SceneIs DEF IInv
<1>2. CopeWith(h)
  BY DEF HarborBuilt
<1>3. \A x \in Ships : CopesWith(Scene.ship[x], Scene.harbors, h)
  BY <1>1, <1>2 DEF CopeWith, CopesWith
<1>4. PICK t \in TellOfNew(Opened(Scene, h), h) : Becomes(t)
  BY <1>1, Zenon DEF HarborBuilt, Opened
<1>5. Good(t)
  BY <1>1, <1>3, <1>4, IsBuilt
<1> QED BY <1>4, <1>5, Follows

-----------------------------------------------------------------------------
LEMMA InitIInv ==
  ASSUME Init
  PROVE  IInv
<1> DEFINE s == Scene
<1>1. /\ s.harbors = FirstHarbors /\ s.works = Works /\ s.sites = {}
      /\ s.expedition = [h \in Points |-> "off"] /\ s.exploration = [h \in Points |-> "off"]
      /\ s.stock = [h \in Points |-> 0] /\ s.queue = [h \in Points |-> {}]
      /\ s.item = [i \in Items |-> Ashore] /\ s.ship = [x \in Ships |-> Unbuilt]
      /\ s.failed = FALSE /\ s.supply = 0 /\ s.razed = 0 /\ s.letdown = FALSE
  BY SceneIs DEF Init
<1>2. Unbuilt \in Vessel
  BY DEF Unbuilt, Vessel, Coasts, Nodes, States
<1>3. Ashore \in Item
  BY DEF Ashore, Item, Coasts
<1>4. s \in Scenes
  <2>1. "off" \in Stages
    BY DEF Stages
  <2>2. FirstHarbors \subseteq Points /\ Sets \in Nat /\ MaxRazed \in Nat
    BY ShipsAssumption
  <2>3. /\ [h \in Points |-> "off"] \in [Points -> Stages]
        /\ [h \in Points |-> 0] \in [Points -> Nat]
        /\ [h \in Points |-> {}] \in [Points -> SUBSET Items]
        /\ [i \in Items |-> Ashore] \in [Items -> Item]
        /\ [x \in Ships |-> Unbuilt] \in [Ships -> Vessel]
        /\ 0 \in 0..Sets /\ 0 \in 0..MaxRazed
    BY <1>2, <1>3, <2>1, <2>2
  <2> QED BY <2>2, <2>3 DEF Scene, Scenes, Init
<1> HIDE DEF s
<1>5. \A x \in Ships : s.ship[x] = Unbuilt
  BY <1>1
<1>6. /\ Unbuilt.state = "unbuilt" /\ Unbuilt.hold = {} /\ ~Unbuilt.lost
  BY DEF Unbuilt
<1>7. ShipOK(Unbuilt, s.harbors)
  BY <1>6 DEF ShipOK, Expeditions, Explorations, Transporting
<1>8. Fleet(s, s.harbors, Ships \ {})
  BY <1>5, <1>7 DEF Fleet
<1>9. \A i \in Items : Placed(s, i)
  BY <1>1, <1>5, <1>6 DEF Placed, InQueue, InHold
<1>10. Bound(s, s.harbors)
  BY <1>1 DEF Bound
<1>11. \A x \in Ships : Aware(s, x)
  BY <1>5, <1>6 DEF Aware, AwareOf
<1>12. Supplied(s)
  <2>1. Stored(s) = {}
    BY <1>1 DEF Stored
  <2>2. Ready(s) = {}
    BY <1>1 DEF Ready
  <2>3. Abroad(s) = {}
    BY <1>5, <1>6 DEF Abroad, Expeditions
  <2>4. Cardinality({}) = 0
    BY FS_EmptySet
  <2> QED BY <1>1, <2>1, <2>2, <2>3, <2>4 DEF Supplied
<1>13. ~s.failed
  BY <1>1
<1>14. Good(s)
  BY <1>4, <1>8, <1>9, <1>10, <1>11, <1>12, <1>13 DEF Good, GoodBut
<1> QED BY <1>14 DEF IInv, s

LEMMA NextIInv ==
  ASSUME Careful, IInv, Next
  PROVE  IInv'
<1>1. ASSUME NEW x \in Ships,
             \/ Walk(x) \/ HandleEvent(x) \/ Launch(x) \/ FoundColony(x) \/ CancelExpedition(x)
             \/ \E p \in Points : ContinueExpedition(x, p)
      PROVE  IInv'
  BY <1>1, WalkKeeps, HandleEventKeeps, LaunchKeeps, FoundColonyKeeps, CancelExpeditionKeeps,
     ContinueExpeditionKeeps
<1>2. ASSUME NEW h \in Points,
             \/ StartExpedition(h) \/ ExpeditionReady(h)
             \/ StartExplorationExpedition(h) \/ ExplorationReady(h)
             \/ PullDown(h) \/ HarborBuilt(h) \/ \E i \in Items : Embark(i, h)
      PROVE  IInv'
  BY <1>2, StartExpeditionKeeps, ExpeditionReadyKeeps, StartExplorationExpeditionKeeps,
     ExplorationReadyKeeps, PullDownKeeps, HarborBuiltKeeps, EmbarkKeeps
<1>3. ASSUME NEW g \in Works, WorkDestroyed(g)
      PROVE  IInv'
  BY <1>3, WorkDestroyedKeeps
<1> QED BY <1>1, <1>2, <1>3 DEF Next

(* The inductive invariant: after any walk, event, order, loss of a goal, and *)
(* after the end or the building of a harbour (HarborDestroyed, HarborBuilt), *)
(* every ship, everybody under way and all materials are as Good says.        *)
THEOREM Invariant ==
  ASSUME Careful
  PROVE  Spec => []IInv
<1>1. ASSUME IInv, [Next]_vars PROVE IInv'
  <2>1. CASE Next
    BY <1>1, <2>1, NextIInv
  <2>2. CASE UNCHANGED vars
    <3>1. Scene' = Scene
      BY <2>2 DEF vars, Scene
    <3> QED BY <1>1, <3>1 DEF IInv
  <2> QED BY <1>1, <2>1, <2>2
<1> QED BY <1>1, InitIInv, PTL DEF Spec

LEMMA AtWork ==
  ASSUME NEW u \in Vessel, NEW hs, ShipOK(u, hs)
  PROVE  /\ u.state \in {"transport_unloading", "expedition_unloading", "exploration_unloading",
                         "expedition_waiting", "exploration_waiting"} => u.at = u.goal
         /\ (IF u.step = None THEN 0 ELSE 1) + u.tasks =
              IF u.lost \/ u.state \in {"unbuilt", "idle", "expedition_waiting"} THEN 0 ELSE 1
<1>1. u.state \in {"transport_unloading", "expedition_unloading", "exploration_unloading",
                   "expedition_waiting", "exploration_waiting"} => u.at = u.goal
  BY DEF ShipOK, Anchored
<1>2. CASE u.state = "unbuilt"
  <2>1. u.step = None /\ u.tasks = 0
    BY <1>2 DEF ShipOK, Unbuilt
  <2> QED BY <1>1, <1>2, <2>1
<1>3. CASE u.state \in {"idle", "expedition_waiting"}
  <2>1. u.step = None /\ u.tasks = 0
    BY <1>3 DEF ShipOK, Anchored, Moored
  <2> QED BY <1>1, <1>3, <2>1
<1>4. CASE u.state \in {"to_harbour", "expedition_driving", "exploration_driving"}
  <2>1. Course(u)
    BY <1>4 DEF ShipOK
  <2>2. u.step # None /\ u.tasks = 0 /\ ~u.lost
    BY <2>1, Names DEF Course, Nodes
  <2> QED BY <1>1, <1>4, <2>2
<1>5. CASE u.state = "transport_driving"
  <2>1. Course(u) \/ (u.lost /\ u.step = None /\ u.tasks = 0)
    BY <1>5 DEF ShipOK
  <2>2. Course(u) => u.step # None /\ u.tasks = 0 /\ ~u.lost
    BY Names DEF Course, Nodes
  <2> QED BY <1>1, <1>5, <2>1, <2>2
<1>6. CASE u.state \in Tasks
  <2>1. Moored(u, 1)
    BY <1>6 DEF ShipOK, Anchored, Tasks
  <2>2. u.step = None /\ u.tasks = 1 /\ ~u.lost
    BY <2>1 DEF Moored
  <2> QED BY <1>1, <1>6, <2>2 DEF Tasks
<1>7. u.state \in {"unbuilt", "idle", "expedition_waiting", "to_harbour", "expedition_driving",
                   "exploration_driving", "transport_driving"} \cup Tasks
  BY VesselFields DEF States, Tasks, Transporting, Expeditions, Explorations
<1> QED BY <1>2, <1>3, <1>4, <1>5, <1>6, <1>7

LEMMA ImpliesShipsAtWork ==
  ASSUME IInv
  PROVE  ShipsAtWork
<1>1. Scene \in Scenes /\ ~Scene.failed /\ Fleet(Scene, Scene.harbors, Ships)
  BY DEF IInv, Good, GoodBut
<1>2. TypeOK
  BY <1>1, SceneIs, Fields DEF TypeOK, Item, Coasts
<1>3. ~failed
  BY <1>1, SceneIs
<1>4. \A x \in Ships : ShipOK(ship[x], harbors) /\ ship[x] \in Vessel
  BY <1>1, SceneIs, Fields DEF Fleet
<1> QED BY <1>2, <1>3, <1>4, AtWork DEF ShipsAtWork

(* Who is placed is in one place. *)
LEMMA OneOrNone ==
  ASSUME NEW s, NEW i \in Items, Placed(s, i)
  PROVE  Cardinality(InQueue(s, i)) + Cardinality(InHold(s, i)) = IF s.item[i] = Ashore THEN 0 ELSE 1
<1> DEFINE Q == InQueue(s, i)
           H == InHold(s, i)
<1>1. \/ s.item[i] = Ashore /\ Q = {} /\ H = {}
      \/ s.item[i].spot \in Points /\ (\E h \in Points : Q = {h}) /\ H = {}
      \/ s.item[i].spot \in Points /\ Q = {} /\ \E x \in Ships : H = {x}
  BY DEF Placed
<1> HIDE DEF Q, H
<1>2. Cardinality({}) = 0 /\ \A e : Cardinality({e}) = 1
  BY FS_EmptySet, FS_Singleton
<1>3. s.item[i].spot \in Points => s.item[i] # Ashore
  BY Names DEF Ashore
<1>4. Cardinality(Q) \in {0, 1} /\ Cardinality(H) \in {0, 1}
  BY <1>1, <1>2
<1>5. CASE s.item[i] = Ashore
  <2>1. Q = {} /\ H = {}
    BY <1>1, <1>3, <1>5
  <2> QED BY <1>2, <1>5, <2>1 DEF Q, H
<1>6. CASE s.item[i] # Ashore
  <2>1. \/ Cardinality(Q) = 1 /\ Cardinality(H) = 0
        \/ Cardinality(Q) = 0 /\ Cardinality(H) = 1
    BY <1>1, <1>2, <1>6
  <2> QED BY <1>6, <2>1 DEF Q, H
<1> QED BY <1>5, <1>6

LEMMA ImpliesNothingLost ==
  ASSUME IInv
  PROVE  NothingLost
<1>1. /\ Scene \in Scenes /\ Fleet(Scene, Scene.harbors, Ships) /\ Supplied(Scene)
      /\ \A i \in Items : Placed(Scene, i)
  BY DEF IInv, Good, GoodBut
<1>2. \A x \in Ships : ship[x].state \notin Transporting => ship[x].hold = {}
  BY <1>1, SceneIs DEF Fleet, ShipOK
<1>3. \A i \in Items :
        Cardinality({h \in Points : i \in queue[h]})
        + Cardinality({x \in Ships : i \in ship[x].hold}) = IF item[i] = Ashore THEN 0 ELSE 1
  BY <1>1, SceneIs, OneOrNone DEF InQueue, InHold
<1>4. supply = Cardinality(UNION {{h} \X (1..stock[h]) : h \in Points}) + Cardinality(sites)
               + Cardinality({h \in Points : expedition[h] = "ready"})
               + Cardinality({x \in Ships : ship[x].state \in Expeditions})
  BY <1>1, SceneIs, Zenon DEF Supplied, Stored, Ready, Abroad
<1> QED BY <1>2, <1>3, <1>4, Zenon DEF NothingLost

LEMMA ImpliesBoundForHarbours ==
  ASSUME IInv
  PROVE  BoundForHarbours
<1>1. Bound(Scene, Scene.harbors) /\ \A x \in Ships : Aware(Scene, x)
  BY DEF IInv, Good, GoodBut
<1>2. \A h \in Points : \A i \in queue[h] : h \in harbors /\ item[i].spot \in harbors \ {h}
  BY <1>1, SceneIs DEF Bound, BoundOK
<1>3. \A x \in Ships : \A i \in ship[x].hold \cap Figures :
        item[i].goal # None => item[i].spot = ship[x].goal
  BY <1>1, SceneIs DEF Aware, AwareOf
<1> QED BY <1>2, <1>3 DEF BoundForHarbours

(* No ship stops for ever or is moved twice, and each lands its load where it *)
(* was to go: StartDriving, HandleEvent and NewHarborBuilt of noShip, however *)
(* many ships there are.                                                      *)
THEOREM ShipsAtWorkAlways ==
  ASSUME Careful
  PROVE  Spec => []ShipsAtWork
BY Invariant, ImpliesShipsAtWork, PTL

(* Nobody who goes by ship is lost or in two places, and no set of boards,   *)
(* stones and a builder vanishes or is used twice.                           *)
THEOREM NothingLostAlways ==
  ASSUME Careful
  PROVE  Spec => []NothingLost
BY Invariant, ImpliesNothingLost, PTL

(* Who waits for a ship does so where one may come from and go to, and who is *)
(* aboard knows where he will land.                                           *)
THEOREM BoundForHarboursAlways ==
  ASSUME Careful
  PROVE  Spec => []BoundForHarbours
BY Invariant, ImpliesBoundForHarbours, PTL
=============================================================================
