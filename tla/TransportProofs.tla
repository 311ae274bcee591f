--------------------------- MODULE TransportProofs ---------------------------
(***************************************************************************)
(* Proofs about Transport, for any roads, flags, warehouses and wares: a   *)
(* ware is in one place, the one its state names, whatever the handlers do *)
(* to each other.  Most of what a handler calls is quiet: it wakes, sends  *)
(* or redirects, and moves no ware.  The few steps that move one are shown *)
(* to take it from the one place it was in and to put it into one other.   *)
(***************************************************************************)
EXTENDS Transport, FiniteSetTheorems, WellFoundedInduction, TLAPS

-----------------------------------------------------------------------------
(* Kinds.                                                                  *)

WareKind == [st : {"stock", "waiting", "flag", "carried", "lost"},
             goal : Houses \cup {NoGoal}, dir : Roads \cup {Door, NoDir}]
CarKind == [st : CarrierStates, pos : Int, to : {1, 2}, hand : Wares \cup {NoWare}]
HouseKind == [waiting : Seq(Wares), awake : BOOLEAN, queued : Nat, fetching : Nat,
              out : SUBSET Wares, back : SUBSET Wares, in : SUBSET Wares, dontfetch : BOOLEAN]
NetKind == [roads : SUBSET Roads, ware : [Wares -> WareKind], lying : [Flags -> SUBSET Wares],
            car : [Carriers -> CarKind], house : [Houses -> HouseKind]]

(* A carrier is on its road; it has a ware in its hands in the states in    *)
(* which it carries one, goes into a house only where there is one, and has *)
(* no work when its road does not stand.                                    *)
CarOK(c, k, rs) ==
  /\ c.pos \in 0..Length[k[1]]
  /\ c.st \in {"middle", "fetch", "carry", "back", "space", "wait"} => c.pos < Length[k[1]]
  /\ c.st = "wait" => c.pos > 0
  /\ (c.hand # NoWare) <=> (c.st \in {"carry", "space", "back", "tohouse"})
  /\ c.st = "tohouse" => Ends[k[1]][c.to] \in Houses
  /\ k[1] \notin rs => c.st = "none"

(* Ware w is at place p of this kind and at no other: lying at a flag, in    *)
(* the hands of a carrier, waiting in a house, or with a worker of a house.  *)
Where(s, w, kind, p) ==
  /\ \A f \in Flags : w \in s.lying[f] <=> (kind = "flag" /\ f = p)
  /\ \A k \in Carriers : s.car[k].hand = w <=> (kind = "hand" /\ k = p)
  /\ \A h \in Houses : /\ w \in ToSet(s.house[h].waiting) <=> (kind = "waiting" /\ h = p)
                       /\ w \in s.house[h].out <=> (kind = "out" /\ h = p)
                       /\ w \in s.house[h].back <=> (kind = "back" /\ h = p)
                       /\ w \in s.house[h].in <=> (kind = "in" /\ h = p)

(* A ware is in one place, the one its state names.  One in stock has the   *)
(* house it is in as its goal.                                              *)
PlacedAt(s, w) ==
  LET st == s.ware[w].st IN
  /\ st \in {"stock", "lost"} => Where(s, w, "gone", NoWare)
  /\ st = "stock" => s.ware[w].goal \in Houses
  /\ st = "flag" => \E f \in Flags : Where(s, w, "flag", f)
  /\ st = "waiting" => \E h \in Houses : Where(s, w, "waiting", h)
  /\ st = "carried" => \/ \E k \in Carriers : Where(s, w, "hand", k)
                       \/ \E h \in Houses : \E kind \in {"waiting", "out", "back", "in"} :
                            Where(s, w, kind, h)

NotTwice(q) == \A i, j \in 1..Len(q) : q[i] = q[j] => i = j
Fits(S) == IsFiniteSet(S) /\ Cardinality(S) <= Capacity

(* Everything but what is said of the carriers outside K. *)
GoodFor(s, K) ==
  /\ s \in NetKind
  /\ \A k \in K : CarOK(s.car[k], k, s.roads)
  /\ \A f \in Flags : Fits(s.lying[f])
  /\ \A h \in Houses : NotTwice(s.house[h].waiting)
  /\ \A w \in Wares : PlacedAt(s, w)

Good(s) == GoodFor(s, Carriers)

(* What is assumed of every step: the net is good. *)
IInv == Good(Net) /\ orders \in 0..MaxOrders /\ cuts \in 0..MaxCuts

-----------------------------------------------------------------------------
(* Quiet calls: what they may do to a carrier, a house and the wares.      *)

Wakeable == {"wait", "middle", "space", "fetch"}

CarCalm(c, d, k, rs) ==
  /\ d.hand = c.hand
  /\ CarOK(c, k, rs) => CarOK(d, k, rs)
  /\ c.st \notin Wakeable => d = c

HouseCalm(b, c) == c.waiting = b.waiting /\ c.out = b.out /\ c.back = b.back /\ c.in = b.in

WareCalm(v, u) == u.st = v.st /\ (v.st = "stock" => u.goal = v.goal)

(* Nothing said of the wares and the flags, nor of the carriers outside K. *)
Hush(s, t, K) ==
  /\ t \in NetKind /\ t.roads = s.roads
  /\ \A k \in K : CarCalm(s.car[k], t.car[k], k, s.roads)
  /\ \A h \in Houses : HouseCalm(s.house[h], t.house[h])

WaresCalm(s, t) == \A w \in Wares : WareCalm(s.ware[w], t.ware[w])

Quiet(s, t) == Hush(s, t, Carriers) /\ t.lying = s.lying /\ WaresCalm(s, t)

LEMMA CarTrans ==
  ASSUME NEW c, NEW d, NEW e, NEW k, NEW rs, CarCalm(c, d, k, rs), CarCalm(d, e, k, rs)
  PROVE  CarCalm(c, e, k, rs)
BY Zenon DEF CarCalm

LEMMA HushTrans ==
  ASSUME NEW s, NEW t, NEW u, NEW K, Hush(s, t, K), Hush(t, u, K)
  PROVE  Hush(s, u, K)
<1>1. \A k \in K : CarCalm(s.car[k], u.car[k], k, s.roads)
  BY CarTrans DEF Hush
<1>2. \A h \in Houses : HouseCalm(s.house[h], u.house[h])
  BY DEF Hush, HouseCalm
<1> QED BY <1>1, <1>2 DEF Hush

LEMMA WaresTrans ==
  ASSUME NEW s, NEW t, NEW u, WaresCalm(s, t), WaresCalm(t, u)
  PROVE  WaresCalm(s, u)
BY DEF WaresCalm, WareCalm

LEMMA QuietTrans ==
  ASSUME NEW s, NEW t, NEW u, Quiet(s, t), Quiet(t, u)
  PROVE  Quiet(s, u)
BY HushTrans, WaresTrans, Zenon DEF Quiet

LEMMA QuietSame ==
  ASSUME NEW s \in NetKind
  PROVE  Quiet(s, s)
BY DEF Quiet, Hush, WaresCalm, WareCalm, HouseCalm, CarCalm

LEMMA Fields ==
  ASSUME NEW s \in NetKind
  PROVE  /\ s.roads \subseteq Roads
         /\ s.ware \in [Wares -> WareKind] /\ s.lying \in [Flags -> SUBSET Wares]
         /\ s.car \in [Carriers -> CarKind] /\ s.house \in [Houses -> HouseKind]
         /\ \A w \in Wares : s.ware[w] \in WareKind
         /\ \A f \in Flags : s.lying[f] \subseteq Wares
         /\ \A k \in Carriers : s.car[k] \in CarKind
         /\ \A h \in Houses : s.house[h] \in HouseKind
BY DEF NetKind

LEMMA RoadEnds ==
  ASSUME NEW r \in Roads
  PROVE  /\ \A e \in {1, 2} : Ends[r][e] \in Flags
         /\ Length[r] \in Nat /\ Length[r] >= 2
BY TransportAssumption

LEMMA CarrierEnds ==
  ASSUME NEW k \in Carriers
  PROVE  /\ k[1] \in Roads /\ Length[k[1]] \in Nat /\ Length[k[1]] >= 2
         /\ Ends[k[1]][1] \in Flags /\ Ends[k[1]][2] \in Flags
<1>1. k[1] \in Roads
  BY TransportAssumption DEF Carriers
<1> QED BY <1>1, RoadEnds


(* One carrier changes; one ware does. *)
OnlyCar(s, t, k) ==
  /\ t \in NetKind
  /\ t.roads = s.roads /\ t.lying = s.lying /\ t.ware = s.ware /\ t.house = s.house
  /\ \A j \in Carriers \ {k} : t.car[j] = s.car[j]

OnlyWare(s, t, w) ==
  /\ t \in NetKind
  /\ t.roads = s.roads /\ t.lying = s.lying /\ t.car = s.car /\ t.house = s.house
  /\ \A v \in Wares \ {w} : t.ware[v] = s.ware[v]

LEMMA CarSet ==
  ASSUME NEW s \in NetKind, NEW k \in Carriers, NEW c \in CarKind
  PROVE  OnlyCar(s, [s EXCEPT !.car[k] = c], k) /\ [s EXCEPT !.car[k] = c].car[k] = c
<1>1. [s EXCEPT !.car[k] = c].car = [s.car EXCEPT ![k] = c]
  BY DEF NetKind
<1>2. s.car \in [Carriers -> CarKind]
  BY Fields
<1>3. [s.car EXCEPT ![k] = c] \in [Carriers -> CarKind]
  BY <1>2
<1>4. [s EXCEPT !.car[k] = c] \in NetKind
  BY <1>1, <1>3 DEF NetKind
<1> QED BY <1>1, <1>2, <1>4 DEF OnlyCar, NetKind

LEMMA EntersField ==
  ASSUME NEW s \in NetKind, NEW k \in Carriers, NEW st \in CarrierStates
  PROVE  /\ OnlyCar(s, Enters(s, k, st), k)
         /\ Enters(s, k, st).car[k].st = st
         /\ Enters(s, k, st).car[k].pos = s.car[k].pos
         /\ Enters(s, k, st).car[k].to = s.car[k].to
         /\ Enters(s, k, st).car[k].hand = s.car[k].hand
<1>1. s.car[k] \in CarKind
  BY Fields
<1>2. [s.car[k] EXCEPT !.st = st] \in CarKind
  BY <1>1 DEF CarKind
<1>3. Enters(s, k, st) = [s EXCEPT !.car[k] = [s.car[k] EXCEPT !.st = st]]
  BY DEF Enters
<1>4. OnlyCar(s, Enters(s, k, st), k) /\ Enters(s, k, st).car[k] = [s.car[k] EXCEPT !.st = st]
  BY <1>2, <1>3, CarSet
<1> QED BY <1>1, <1>4 DEF CarKind

LEMMA OneCar ==
  ASSUME NEW s, NEW t, NEW k \in Carriers, OnlyCar(s, t, k),
         CarCalm(s.car[k], t.car[k], k, s.roads)
  PROVE  Quiet(s, t)
<1>1. \A j \in Carriers : CarCalm(s.car[j], t.car[j], j, s.roads)
  BY DEF CarCalm, OnlyCar
<1> QED BY <1>1 DEF Quiet, Hush, WaresCalm, WareCalm, HouseCalm, OnlyCar

-----------------------------------------------------------------------------
(* Ware::RecalcRoute. *)

LEMMA WareSet ==
  ASSUME NEW s \in NetKind, NEW w \in Wares, NEW v \in WareKind
  PROVE  OnlyWare(s, [s EXCEPT !.ware[w] = v], w) /\ [s EXCEPT !.ware[w] = v].ware[w] = v
<1>1. [s EXCEPT !.ware[w] = v].ware = [s.ware EXCEPT ![w] = v]
  BY DEF NetKind
<1>2. s.ware \in [Wares -> WareKind]
  BY Fields
<1>3. [s.ware EXCEPT ![w] = v] \in [Wares -> WareKind]
  BY <1>2
<1>4. [s EXCEPT !.ware[w] = v] \in NetKind
  BY <1>1, <1>3 DEF NetKind
<1> QED BY <1>1, <1>2, <1>4 DEF OnlyWare, NetKind

LEMMA RoutedField ==
  ASSUME NEW s \in NetKind, NEW w \in Wares, NEW g \in Houses \cup {NoGoal},
         NEW d \in Roads \cup {Door, NoDir}
  PROVE  OnlyWare(s, Routed(s, w, g, d), w) /\ Routed(s, w, g, d).ware[w].st = s.ware[w].st
<1>1. s.ware[w] \in WareKind
  BY Fields
<1>2. [s.ware[w] EXCEPT !.goal = g, !.dir = d] \in WareKind
  BY <1>1 DEF WareKind
<1>3. Routed(s, w, g, d) = [s EXCEPT !.ware[w] = [s.ware[w] EXCEPT !.goal = g, !.dir = d]]
  BY DEF Routed, NetKind
<1>4. /\ OnlyWare(s, Routed(s, w, g, d), w)
      /\ Routed(s, w, g, d).ware[w] = [s.ware[w] EXCEPT !.goal = g, !.dir = d]
  BY <1>2, <1>3, WareSet
<1> QED BY <1>1, <1>4 DEF WareKind

LEMMA RoutedQuiet ==
  ASSUME NEW s \in NetKind, NEW w \in Wares, NEW g \in Houses \cup {NoGoal},
         NEW d \in Roads \cup {Door, NoDir}, s.ware[w].st # "stock"
  PROVE  Quiet(s, Routed(s, w, g, d)) /\ Routed(s, w, g, d).car = s.car
<1> DEFINE t == Routed(s, w, g, d)
<1>1. OnlyWare(s, t, w) /\ t.ware[w].st = s.ware[w].st
  BY RoutedField
<1> HIDE DEF t
<1>2. Quiet(s, t) /\ t.car = s.car
  BY <1>1 DEF OnlyWare, Quiet, Hush, WaresCalm, WareCalm, HouseCalm, CarCalm
<1> QED BY <1>2 DEF t

LEMMA PathKind ==
  ASSUME NEW rs \in SUBSET Roads, NEW f, NEW goal, NEW d \in FindPathForWare(rs, f, goal)
  PROVE  d \in Roads \cup {Door, NoDir}
BY DEF FindPathForWare, RoadsAt

LEMMA RecalcQuiet ==
  ASSUME NEW s \in NetKind, NEW w \in Wares, NEW f, s.ware[w].st # "stock",
         NEW t \in RecalcRoute(s, w, f)
  PROVE  Quiet(s, t) /\ t.car = s.car
<1>1. PICK g \in Houses \cup {NoGoal}, d \in Roads \cup {Door, NoDir} : t = Routed(s, w, g, d)
  <2>1. s.ware[w].goal \in Houses \cup {NoGoal}
    BY Fields DEF WareKind
  <2>2. s.roads \in SUBSET Roads
    BY Fields
  <2> QED BY <2>1, <2>2, PathKind DEF RecalcRoute
<1> QED BY <1>1, RoutedQuiet

-----------------------------------------------------------------------------
(* Jobs of a road are given and taken back. *)

LEMMA RemovedQuiet ==
  ASSUME NEW s \in NetKind, NEW k \in Carriers
  PROVE  /\ Quiet(s, RemoveWareJob(s, k))
         /\ \A j \in Carriers \ {k} : RemoveWareJob(s, k).car[j] = s.car[j]
<1> DEFINE t == Enters(s, k, "middle")
<1>1. CASE s.car[k].st = "fetch" /\ RemoveWareJob(s, k) = t
  <2>1. /\ OnlyCar(s, t, k)
        /\ t.car[k].st = "middle" /\ t.car[k].pos = s.car[k].pos
        /\ t.car[k].to = s.car[k].to /\ t.car[k].hand = s.car[k].hand
    BY EntersField DEF CarrierStates
  <2> HIDE DEF t
  <2>2. CarCalm(s.car[k], t.car[k], k, s.roads)
    BY <1>1, <2>1 DEF CarCalm, CarOK, Wakeable
  <2> QED BY <1>1, <2>1, <2>2, OneCar DEF OnlyCar
<1>2. CASE RemoveWareJob(s, k) = s
  BY <1>2, QuietSame
<1> QED BY <1>1, <1>2 DEF RemoveWareJob

LEMMA JobRemovedQuiet ==
  ASSUME NEW s \in NetKind, NEW r, NEW x
  PROVE  /\ Quiet(s, WareJobRemoved(s, r, x))
         /\ x \in Carriers => WareJobRemoved(s, r, x).car[x] = s.car[x]
<1> DEFINE Told(t, k) == IF k \in Carriers \ {x} THEN RemoveWareJob(t, k) ELSE t
<1>1. ASSUME NEW t \in NetKind, NEW k
      PROVE  Quiet(t, Told(t, k)) /\ (x \in Carriers => Told(t, k).car[x] = t.car[x])
  BY RemovedQuiet, QuietSame
<1>2. WareJobRemoved(s, r, x) = Told(Told(s, <<r, 1>>), <<r, 2>>)
  BY DEF WareJobRemoved
<1> DEFINE t == Told(s, <<r, 1>>)
           u == Told(t, <<r, 2>>)
<1>3. Quiet(s, t) /\ (x \in Carriers => t.car[x] = s.car[x])
  BY <1>1
<1>4. t \in NetKind
  BY <1>3 DEF Quiet, Hush
<1> HIDE DEF t
<1>5. Quiet(t, u) /\ (x \in Carriers => u.car[x] = t.car[x])
  BY <1>1, <1>4
<1> HIDE DEF u, Told
<1>6. WareJobRemoved(s, r, x) = u
  BY <1>2 DEF u, t
<1> QED BY <1>3, <1>5, <1>6, QuietTrans

LEMMA AddedField ==
  ASSUME NEW s \in NetKind, NEW k \in Carriers, NEW e \in {1, 2}
  PROVE  /\ OnlyCar(s, CarrierAddWareJob(s, k, e), k)
         /\ CarrierAddWareJob(s, k, e).car[k].st =
              IF s.car[k].st = "space" THEN "carry" ELSE "fetch"
         /\ CarrierAddWareJob(s, k, e).car[k].pos =
              IF s.car[k].to = e THEN s.car[k].pos ELSE Length[k[1]] - s.car[k].pos
         /\ CarrierAddWareJob(s, k, e).car[k].to = e
         /\ CarrierAddWareJob(s, k, e).car[k].hand = s.car[k].hand
<1> DEFINE c == s.car[k]
           st == IF c.st = "space" THEN "carry" ELSE "fetch"
           pos == IF c.to = e THEN c.pos ELSE Length[k[1]] - c.pos
           d == [c EXCEPT !.st = st, !.to = e, !.pos = pos]
<1>1. c \in CarKind
  BY Fields
<1>2. Length[k[1]] \in Nat
  BY CarrierEnds
<1>3. st \in CarrierStates /\ pos \in Int
  BY <1>1, <1>2 DEF CarKind, CarrierStates
<1>4. CarrierAddWareJob(s, k, e) = [s EXCEPT !.car[k] = d]
  BY <1>1 DEF CarrierAddWareJob, CarKind
<1> HIDE DEF st, pos
<1>5. d \in CarKind
  BY <1>1, <1>3 DEF CarKind
<1>6. d.st = st /\ d.pos = pos /\ d.to = e /\ d.hand = c.hand
  BY <1>1 DEF CarKind
<1> HIDE DEF d
<1>7. OnlyCar(s, CarrierAddWareJob(s, k, e), k) /\ CarrierAddWareJob(s, k, e).car[k] = d
  BY <1>4, <1>5, CarSet
<1> QED BY <1>6, <1>7 DEF st, pos

LEMMA AddedQuiet ==
  ASSUME NEW s \in NetKind, NEW k \in Carriers, NEW e \in {1, 2}, TakesJob(s.car[k], e)
  PROVE  Quiet(s, CarrierAddWareJob(s, k, e))
<1> DEFINE t == CarrierAddWareJob(s, k, e)
           c == s.car[k]
           d == t.car[k]
           L == Length[k[1]]
<1>1. /\ OnlyCar(s, t, k)
      /\ d.st = IF c.st = "space" THEN "carry" ELSE "fetch"
      /\ d.pos = IF c.to = e THEN c.pos ELSE L - c.pos
      /\ d.to = e /\ d.hand = c.hand
  BY AddedField
<1>2. L \in Nat
  BY CarrierEnds
<1> HIDE DEF t
<1>3. c.st = "wait" \/ (c.st \in {"middle", "space"} /\ c.to = e)
  BY DEF TakesJob
<1>4. CarOK(c, k, s.roads) => CarOK(d, k, s.roads)
  BY <1>1, <1>2, <1>3 DEF CarOK
<1>5. CarCalm(c, d, k, s.roads)
  BY <1>1, <1>3, <1>4 DEF CarCalm, Wakeable
<1>6. Quiet(s, t)
  BY <1>1, <1>5, OneCar
<1> QED BY <1>6 DEF t

LEMMA RoadAddedQuiet ==
  ASSUME NEW s \in NetKind, NEW r, NEW e \in {1, 2}, NEW t \in RoadAddWareJob(s, r, e)
  PROVE  Quiet(s, t)
BY AddedQuiet, QuietSame DEF RoadAddWareJob

-----------------------------------------------------------------------------
(* A warehouse is told; a flag gets a ware, or a place of it gets free. *)

OnlyHouse(s, t, h) ==
  /\ t \in NetKind
  /\ t.roads = s.roads /\ t.lying = s.lying /\ t.car = s.car /\ t.ware = s.ware
  /\ \A g \in Houses \ {h} : t.house[g] = s.house[g]

WithHouse(s, h, b) == [s EXCEPT !.house[h] = b]

LEMMA HouseSet ==
  ASSUME NEW s \in NetKind, NEW h \in Houses, NEW b \in HouseKind
  PROVE  OnlyHouse(s, WithHouse(s, h, b), h) /\ WithHouse(s, h, b).house[h] = b
<1>1. WithHouse(s, h, b).house = [s.house EXCEPT ![h] = b]
  BY DEF NetKind, WithHouse
<1>2. s.house \in [Houses -> HouseKind]
  BY Fields
<1>3. [s.house EXCEPT ![h] = b] \in [Houses -> HouseKind]
  BY <1>2
<1>4. WithHouse(s, h, b) \in NetKind
  BY <1>1, <1>3 DEF NetKind, WithHouse
<1>5. /\ WithHouse(s, h, b).roads = s.roads /\ WithHouse(s, h, b).lying = s.lying
      /\ WithHouse(s, h, b).car = s.car /\ WithHouse(s, h, b).ware = s.ware
  BY DEF NetKind, WithHouse
<1> QED BY <1>1, <1>2, <1>4, <1>5 DEF OnlyHouse

(* What is said to a flag without a house is heard by nobody. *)
LEMMA NoHouse ==
  ASSUME NEW s \in NetKind, NEW h, h \notin Houses, NEW b
  PROVE  WithHouse(s, h, b) = s
<1>1. s.house \in [Houses -> HouseKind]
  BY Fields
<1>2. [s.house EXCEPT ![h] = b] = s.house
  BY <1>1
<1>3. WithHouse(s, h, b) = [s EXCEPT !.house = [s.house EXCEPT ![h] = b]]
  BY DEF NetKind, WithHouse
<1> QED BY <1>2, <1>3 DEF NetKind

LEMMA OneHouse ==
  ASSUME NEW s \in NetKind, NEW h, NEW b, h \in Houses => b \in HouseKind /\ HouseCalm(s.house[h], b)
  PROVE  Quiet(s, WithHouse(s, h, b)) /\ WithHouse(s, h, b).car = s.car
<1> DEFINE t == WithHouse(s, h, b)
<1>1. CASE h \notin Houses
  BY <1>1, NoHouse, QuietSame
<1>2. CASE h \in Houses
  <2>1. OnlyHouse(s, t, h) /\ t.house[h] = b
    BY <1>2, HouseSet
  <2> HIDE DEF t
  <2>2. Quiet(s, t) /\ t.car = s.car
    BY <1>2, <2>1 DEF OnlyHouse, Quiet, Hush, WaresCalm, WareCalm, HouseCalm, CarCalm
  <2> QED BY <2>2 DEF t
<1> QED BY <1>1, <1>2

LEMMA HouseFetchQuiet ==
  ASSUME NEW s \in NetKind, NEW h
  PROVE  Quiet(s, HouseFetchWare(s, h)) /\ HouseFetchWare(s, h).car = s.car
<1> DEFINE b == s.house[h]
           c == [b EXCEPT !.dontfetch = FALSE]
           n == b.queued + 1
           d == [b EXCEPT !.queued = n, !.awake = TRUE]
<1>1. h \in Houses => b \in HouseKind
  BY Fields
<1>2. h \in Houses => c \in HouseKind /\ HouseCalm(b, c)
  BY <1>1 DEF HouseKind, HouseCalm
<1>3. h \in Houses => n \in Nat
  BY <1>1 DEF HouseKind
<1>4. h \in Houses => d \in HouseKind /\ HouseCalm(b, d)
  <2> HIDE DEF n
  <2> QED BY <1>1, <1>3 DEF HouseKind, HouseCalm
<1>5. HouseFetchWare(s, h) \in {WithHouse(s, h, c), WithHouse(s, h, d)}
  <2>1. [s EXCEPT !.house[h].dontfetch = FALSE] = WithHouse(s, h, c)
    BY DEF WithHouse
  <2>2. [s EXCEPT !.house[h].queued = @ + 1, !.house[h].awake = TRUE] = WithHouse(s, h, d)
    <3>1. s.house \in [Houses -> HouseKind]
      BY Fields
    <3>2. [s EXCEPT !.house[h].queued = @ + 1, !.house[h].awake = TRUE] =
             [s EXCEPT !.house = [[s.house EXCEPT ![h].queued = s.house[h].queued + 1] EXCEPT ![h].awake = TRUE]]
      BY DEF NetKind
    <3>3. [[s.house EXCEPT ![h].queued = s.house[h].queued + 1] EXCEPT ![h].awake = TRUE] = [s.house EXCEPT ![h] = d]
      BY <3>1 DEF HouseKind
    <3>4. WithHouse(s, h, d) = [s EXCEPT !.house = [s.house EXCEPT ![h] = d]]
      BY DEF WithHouse
    <3> HIDE DEF d
    <3> QED BY <3>2, <3>3, <3>4
  <2> QED BY <2>1, <2>2 DEF HouseFetchWare
<1> HIDE DEF c, d
<1> QED BY <1>2, <1>4, <1>5, OneHouse

LEMMA DontFetchQuiet ==
  ASSUME NEW s \in NetKind, NEW h
  PROVE  Quiet(s, DontFetchNextWare(s, h))
<1> DEFINE c == [s.house[h] EXCEPT !.dontfetch = TRUE]
<1>1. h \in Houses => c \in HouseKind /\ HouseCalm(s.house[h], c)
  BY Fields DEF HouseKind, HouseCalm
<1>2. DontFetchNextWare(s, h) = WithHouse(s, h, c)
  BY DEF DontFetchNextWare, WithHouse
<1> HIDE DEF c
<1> QED BY <1>1, <1>2, OneHouse

LEMMA AddJobQuiet ==
  ASSUME NEW s \in NetKind, NEW w \in Wares, NEW f, NEW t \in AddWareJob(s, w, f)
  PROVE  Quiet(s, t)
<1> DEFINE d == s.ware[w].dir
<1>1. CASE d = NoDir
  <2>1. t = s
    BY <1>1, TransportAssumption DEF AddWareJob
  <2> QED BY <2>1, QuietSame
<1>2. CASE d # NoDir /\ d = Door
  <2>1. t = HouseFetchWare(s, f)
    BY <1>2 DEF AddWareJob
  <2> QED BY <2>1, HouseFetchQuiet
<1>3. CASE d # NoDir /\ d # Door
  <2>1. EndAt(d, f) \in {1, 2}
    BY DEF EndAt
  <2>2. t \in RoadAddWareJob(s, d, EndAt(d, f))
    BY <1>3 DEF AddWareJob
  <2> QED BY <2>1, <2>2, RoadAddedQuiet
<1> QED BY <1>1, <1>2, <1>3

LEMMA CurrentDirQuiet ==
  ASSUME NEW s \in NetKind, NEW f, NEW d
  PROVE  Quiet(s, RemoveWareJobForCurrentDir(s, f, d))
BY JobRemovedQuiet, DontFetchQuiet, QuietSame DEF RemoveWareJobForCurrentDir

LEMMA LyingSet ==
  ASSUME NEW s \in NetKind, NEW f \in Flags, NEW S \in SUBSET Wares
  PROVE  /\ [s EXCEPT !.lying[f] = S] \in NetKind
         /\ [s EXCEPT !.lying[f] = S].lying = [s.lying EXCEPT ![f] = S]
         /\ [s EXCEPT !.lying[f] = S].roads = s.roads /\ [s EXCEPT !.lying[f] = S].car = s.car
         /\ [s EXCEPT !.lying[f] = S].ware = s.ware /\ [s EXCEPT !.lying[f] = S].house = s.house
<1>1. [s.lying EXCEPT ![f] = S] \in [Flags -> SUBSET Wares]
  BY Fields
<1>2. [s EXCEPT !.lying[f] = S].lying = [s.lying EXCEPT ![f] = S]
  BY DEF NetKind
<1> QED BY <1>1, <1>2 DEF NetKind

(* As Quiet, but the wares at flag f have become S. *)
QuietAt(s, t, f, S) ==
  /\ Hush(s, t, Carriers) /\ WaresCalm(s, t)
  /\ t.lying = [s.lying EXCEPT ![f] = S]

LEMMA QuietAfter ==
  ASSUME NEW s, NEW t, NEW u, NEW f, NEW S, QuietAt(s, t, f, S), Quiet(t, u)
  PROVE  QuietAt(s, u, f, S)
BY HushTrans, WaresTrans, Zenon DEF QuietAt, Quiet

LEMMA LyingQuiet ==
  ASSUME NEW s \in NetKind, NEW f \in Flags, NEW S \in SUBSET Wares
  PROVE  QuietAt(s, [s EXCEPT !.lying[f] = S], f, S)
<1> DEFINE t == [s EXCEPT !.lying[f] = S]
<1>1. /\ t \in NetKind /\ t.lying = [s.lying EXCEPT ![f] = S]
      /\ t.roads = s.roads /\ t.car = s.car /\ t.ware = s.ware /\ t.house = s.house
  BY LyingSet
<1> HIDE DEF t
<1>2. QuietAt(s, t, f, S)
  BY <1>1 DEF QuietAt, Hush, WaresCalm, WareCalm, HouseCalm, CarCalm
<1> QED BY <1>2 DEF t

LEMMA FlagAddQuiet ==
  ASSUME NEW s \in NetKind, NEW w \in Wares, NEW f \in Flags, Space(s, f),
         NEW t \in FlagAddWare(s, w, f)
  PROVE  QuietAt(s, t, f, s.lying[f] \cup {w})
<1> DEFINE S == s.lying[f] \cup {w}
           u == [s EXCEPT !.lying[f] = S]
<1>1. S \in SUBSET Wares
  BY Fields
<1>2. t \in AddWareJob(u, w, f)
  BY DEF FlagAddWare
<1> HIDE DEF S
<1>3. QuietAt(s, u, f, S)
  BY <1>1, LyingQuiet
<1>4. u \in NetKind
  BY <1>1, LyingSet
<1> HIDE DEF u
<1>5. QuietAt(s, t, f, S)
  BY <1>2, <1>3, <1>4, AddJobQuiet, QuietAfter
<1> QED BY <1>5 DEF S

(* Who waits for room at the flag goes on; nobody else hears of it. *)
LEMMA PlaceFreeQuiet ==
  ASSUME NEW s \in NetKind, NEW f \in Flags
  PROVE  /\ Quiet(s, PlaceFree(s, f))
         /\ \A k \in Carriers : s.car[k].st # "space" => PlaceFree(s, f).car[k] = s.car[k]
<1> DEFINE waits == f \in Houses /\ s.house[f].waiting # <<>>
           told == {r \in RoadsAt(s.roads, f) : waits => <<r, EndAt(r, f)>> \in Early}
           InSpace(r, i) == /\ <<r, i>> \in Carriers
                            /\ s.car[<<r, i>>].st = "space" /\ s.car[<<r, i>>].to = EndAt(r, f)
           woken == {k \in told \X {1, 2} : InSpace(k[1], k[2]) /\ (k[2] = 2 => ~InSpace(k[1], 1))}
           cars == [k \in Carriers |-> IF k \in woken THEN [s.car[k] EXCEPT !.st = "carry"] ELSE s.car[k]]
           hs == IF waits THEN [s.house EXCEPT ![f].awake = TRUE] ELSE s.house
           t == [s EXCEPT !.car = cars, !.house = hs]
<1>1. PlaceFree(s, f) = t
  BY DEF PlaceFree
<1>2. \A k \in woken : k \in Carriers /\ s.car[k].st = "space"
  OBVIOUS
<1> HIDE DEF woken
<1>3. \A k \in Carriers : /\ cars[k] \in CarKind
                          /\ CarCalm(s.car[k], cars[k], k, s.roads)
                          /\ s.car[k].st # "space" => cars[k] = s.car[k]
  <2> SUFFICES ASSUME NEW k \in Carriers
               PROVE  /\ cars[k] \in CarKind
                      /\ CarCalm(s.car[k], cars[k], k, s.roads)
                      /\ s.car[k].st # "space" => cars[k] = s.car[k]
    OBVIOUS
  <2> DEFINE c == s.car[k]
             d == [c EXCEPT !.st = "carry"]
  <2>1. c \in CarKind
    BY Fields
  <2>2. CASE k \notin woken
    BY <2>1, <2>2 DEF CarCalm
  <2>3. CASE k \in woken
    <3>1. cars[k] = d /\ c.st = "space"
      BY <2>3, <1>2
    <3>2. d \in CarKind
      BY <2>1 DEF CarKind, CarrierStates
    <3>3. d.st = "carry" /\ d.pos = c.pos /\ d.to = c.to /\ d.hand = c.hand
      BY <2>1 DEF CarKind
    <3> HIDE DEF d
    <3>4. CarCalm(c, d, k, s.roads)
      BY <3>1, <3>3 DEF CarCalm, CarOK, Wakeable
    <3> QED BY <3>1, <3>2, <3>4
  <2> QED BY <2>2, <2>3
<1>4. cars \in [Carriers -> CarKind]
  BY <1>3
<1>5. hs \in [Houses -> HouseKind] /\ \A h \in Houses : HouseCalm(s.house[h], hs[h])
  <2>1. s.house \in [Houses -> HouseKind]
    BY Fields
  <2> QED BY <2>1 DEF HouseKind, HouseCalm
<1> HIDE DEF cars, hs
<1>6. t \in NetKind /\ t.car = cars /\ t.house = hs
      /\ t.roads = s.roads /\ t.lying = s.lying /\ t.ware = s.ware
  BY <1>4, <1>5 DEF NetKind
<1> HIDE DEF t
<1>7. Quiet(s, t)
  BY <1>3, <1>5, <1>6 DEF Quiet, Hush, WaresCalm, WareCalm
<1>8. \A k \in Carriers : s.car[k].st # "space" => t.car[k] = s.car[k]
  BY <1>3, <1>6
<1> QED BY <1>1, <1>7, <1>8

(* noFlag::SelectWare: the ware is gone from the flag; the carrier who asks *)
(* is not told.                                                             *)
LEMMA SelectQuiet ==
  ASSUME NEW s \in NetKind, NEW f \in Flags, NEW d, NEW w, NEW swap, NEW k
  PROVE  /\ QuietAt(s, SelectWare(s, f, d, w, swap, k), f, s.lying[f] \ {w})
         /\ k \in Carriers /\ s.car[k].st # "space" =>
              SelectWare(s, f, d, w, swap, k).car[k] = s.car[k]
<1> DEFINE S == s.lying[f] \ {w}
           removed == [s EXCEPT !.lying[f] = S]
           told == IF d = Door THEN removed ELSE WareJobRemoved(removed, d, k)
           t == IF swap THEN told ELSE PlaceFree(told, f)
<1>1. SelectWare(s, f, d, w, swap, k) = t
  BY DEF SelectWare
<1>2. S \in SUBSET Wares
  BY Fields
<1> HIDE DEF S
<1>3. QuietAt(s, removed, f, S) /\ removed \in NetKind /\ removed.car = s.car
  BY <1>2, LyingQuiet, LyingSet
<1> HIDE DEF removed
<1>4. Quiet(removed, told) /\ (k \in Carriers => told.car[k] = s.car[k])
  BY <1>3, JobRemovedQuiet, QuietSame
<1>5. told \in NetKind
  BY <1>4 DEF Quiet, Hush
<1> HIDE DEF told
<1>6. Quiet(told, t) /\ (k \in Carriers /\ s.car[k].st # "space" => t.car[k] = s.car[k])
  BY <1>4, <1>5, PlaceFreeQuiet, QuietSame
<1> HIDE DEF t
<1>7. QuietAt(s, t, f, S)
  BY <1>3, <1>4, <1>6, QuietAfter
<1> QED BY <1>1, <1>6, <1>7 DEF S

-----------------------------------------------------------------------------
(* Loud steps: a carrier takes a ware from a flag, and puts one down. *)

(* As it was for ware v. *)
Stays(s, t, v) ==
  /\ WareCalm(s.ware[v], t.ware[v])
  /\ \A f \in Flags : v \in t.lying[f] <=> v \in s.lying[f]
  /\ \A k \in Carriers : t.car[k].hand = v <=> s.car[k].hand = v
  /\ \A h \in Houses : /\ v \in ToSet(t.house[h].waiting) <=> v \in ToSet(s.house[h].waiting)
                       /\ v \in t.house[h].out <=> v \in s.house[h].out
                       /\ v \in t.house[h].back <=> v \in s.house[h].back
                       /\ v \in t.house[h].in <=> v \in s.house[h].in

LEMMA StaysWhere ==
  ASSUME NEW s, NEW t, NEW v, Stays(s, t, v), NEW kind, NEW p, Where(s, v, kind, p)
  PROVE  Where(t, v, kind, p)
BY DEF Stays, Where

LEMMA StaysPlaced ==
  ASSUME NEW s, NEW t, NEW v, Stays(s, t, v), PlacedAt(s, v)
  PROVE  PlacedAt(t, v)
<1>1. WareCalm(s.ware[v], t.ware[v])
  BY DEF Stays
<1> QED BY <1>1, StaysWhere DEF PlacedAt, WareCalm

LEMMA FitsLess ==
  ASSUME NEW S, NEW T, T \subseteq S, Fits(S)
  PROVE  Fits(T)
<1>1. IsFiniteSet(T) /\ Cardinality(T) <= Cardinality(S)
  BY FS_Subset DEF Fits
<1>2. Cardinality(T) \in Nat /\ Cardinality(S) \in Nat /\ Capacity \in Nat
  BY <1>1, FS_CardinalityType, TransportAssumption DEF Fits
<1> QED BY <1>1, <1>2 DEF Fits

LEMMA FitsMore ==
  ASSUME NEW S, NEW w, IsFiniteSet(S), Cardinality(S) < Capacity
  PROVE  Fits(S \cup {w})
<1>1. IsFiniteSet(S \cup {w}) /\ Cardinality(S \cup {w}) \in {Cardinality(S), Cardinality(S) + 1}
  BY FS_AddElement, Zenon
<1>2. Cardinality(S) \in Nat /\ Cardinality(S \cup {w}) \in Nat /\ Capacity \in Nat
  BY <1>1, FS_CardinalityType, TransportAssumption
<1> QED BY <1>1, <1>2 DEF Fits

(* Quiet calls keep the net good. *)
LEMMA QuietGood ==
  ASSUME NEW s, NEW t, NEW K, K \subseteq Carriers, GoodFor(s, K), Quiet(s, t)
  PROVE  GoodFor(t, K)
<1>1. \A v \in Wares : Stays(s, t, v)
  BY DEF Quiet, Hush, WaresCalm, CarCalm, HouseCalm, Stays
<1>2. \A v \in Wares : PlacedAt(t, v)
  BY <1>1, StaysPlaced DEF GoodFor
<1>3. \A k \in K : CarOK(t.car[k], k, t.roads)
  BY DEF GoodFor, Quiet, Hush, CarCalm
<1>4. \A h \in Houses : NotTwice(t.house[h].waiting)
  BY DEF GoodFor, Quiet, Hush, HouseCalm
<1> QED BY <1>2, <1>3, <1>4 DEF GoodFor, Quiet, Hush

(* nofCarrier::FetchWare. *)
Fetched(s, t, k, w) ==
  /\ Hush(s, t, Carriers \ {k})
  /\ w \in s.lying[FacedFlag(s, k)]
  /\ t.lying = [s.lying EXCEPT ![FacedFlag(s, k)] = @ \ {w}]
  /\ t.ware[w].st = "carried" /\ \A v \in Wares \ {w} : WareCalm(s.ware[v], t.ware[v])
  /\ t.car[k].st = "carry" /\ t.car[k].pos = 0 /\ t.car[k].hand = w

Stranded(s, t, k) ==
  /\ Hush(s, t, Carriers \ {k}) /\ t.lying = s.lying /\ WaresCalm(s, t)
  /\ t.car[k].st = "stranded" /\ t.car[k].pos = s.car[k].pos /\ t.car[k].hand = s.car[k].hand

LEMMA TurnedField ==
  ASSUME NEW c \in CarKind, NEW st \in CarrierStates, NEW pos \in Int
  PROVE  /\ Turned(c, st, pos) \in CarKind
         /\ Turned(c, st, pos).st = st /\ Turned(c, st, pos).pos = pos
         /\ Turned(c, st, pos).to = Opposite(c.to) /\ Turned(c, st, pos).hand = c.hand
<1> DEFINE e == Opposite(c.to)
<1>1. e \in {1, 2}
  BY DEF Opposite, CarKind
<1>2. Turned(c, st, pos) = [c EXCEPT !.st = st, !.to = e, !.pos = pos]
  BY DEF Turned, CarKind
<1> HIDE DEF e
<1>3. [c EXCEPT !.st = st, !.to = e, !.pos = pos] \in CarKind
  BY <1>1 DEF CarKind
<1>4. Turned(c, st, pos).st = st /\ Turned(c, st, pos).pos = pos
      /\ Turned(c, st, pos).to = e /\ Turned(c, st, pos).hand = c.hand
  BY <1>2 DEF CarKind
<1> QED BY <1>2, <1>3, <1>4 DEF e

LEMMA TakesField ==
  ASSUME NEW s \in NetKind, NEW k \in Carriers, NEW w \in Wares
  PROVE  /\ Takes(s, k, w) \in NetKind
         /\ Takes(s, k, w).roads = s.roads /\ Takes(s, k, w).lying = s.lying
         /\ Takes(s, k, w).house = s.house
         /\ \A v \in Wares \ {w} : Takes(s, k, w).ware[v] = s.ware[v]
         /\ Takes(s, k, w).ware[w].st = "carried"
         /\ \A j \in Carriers \ {k} : Takes(s, k, w).car[j] = s.car[j]
         /\ Takes(s, k, w).car[k].st = "carry" /\ Takes(s, k, w).car[k].pos = 0
         /\ Takes(s, k, w).car[k].hand = w
<1> DEFINE c == s.car[k]
           e == Turned(c, "carry", 0)
           d == [e EXCEPT !.hand = w]
           v == [s.ware[w] EXCEPT !.st = "carried"]
           u == [s EXCEPT !.ware[w] = v]
           t == [u EXCEPT !.car[k] = d]
<1>1. c \in CarKind /\ s.ware[w] \in WareKind
  BY Fields
<1>2. e \in CarKind /\ e.st = "carry" /\ e.pos = 0
  <2>1. "carry" \in CarrierStates /\ 0 \in Int
    BY DEF CarrierStates
  <2> QED BY <1>1, <2>1, TurnedField
<1>3. d \in CarKind /\ d.st = "carry" /\ d.pos = 0 /\ d.hand = w
  <2> HIDE DEF e
  <2> QED BY <1>2 DEF CarKind
<1>4. v \in WareKind /\ v.st = "carried"
  BY <1>1 DEF WareKind
<1>5. Takes(s, k, w) = t
  BY <1>1 DEF Takes, NetKind, CarKind
<1> HIDE DEF d, v
<1>6. OnlyWare(s, u, w) /\ u.ware[w] = v
  BY <1>4, WareSet
<1>7. u \in NetKind
  BY <1>6 DEF OnlyWare
<1> HIDE DEF u
<1>8. OnlyCar(u, t, k) /\ t.car[k] = d
  BY <1>3, <1>7, CarSet
<1> HIDE DEF t
<1> QED BY <1>3, <1>4, <1>5, <1>6, <1>8 DEF OnlyWare, OnlyCar

LEMMA FacedIsFlag ==
  ASSUME NEW s \in NetKind, NEW k \in Carriers
  PROVE  FacedFlag(s, k) \in Flags
<1>1. s.car[k].to \in {1, 2}
  BY Fields DEF CarKind
<1> QED BY <1>1, CarrierEnds DEF FacedFlag

LEMMA FetchOutcome ==
  ASSUME NEW s \in NetKind, NEW k \in Carriers, s.car[k].st # "space", NEW swap,
         NEW t \in FetchWare(s, k, swap)
  PROVE  \/ WaresForRoad(s, FacedFlag(s, k), k[1]) = {} /\ Stranded(s, t, k)
         \/ \E w \in WaresForRoad(s, FacedFlag(s, k), k[1]) : Fetched(s, t, k, w)
<1> DEFINE f == FacedFlag(s, k)
           jobs == WaresForRoad(s, f, k[1])
           X(w) == SelectWare(s, f, k[1], w, swap, k)
<1>1. f \in Flags
  BY FacedIsFlag
<1>2. s.lying[f] \subseteq Wares
  BY <1>1, Fields
<1>3. ASSUME NEW w
      PROVE  QuietAt(s, X(w), f, s.lying[f] \ {w}) /\ X(w).car[k] = s.car[k] /\ X(w) \in NetKind
  <2>1. QuietAt(s, X(w), f, s.lying[f] \ {w}) /\ X(w).car[k] = s.car[k]
    BY <1>1, SelectQuiet
  <2>2. X(w) \in NetKind
    BY <2>1 DEF QuietAt, Hush
  <2> QED BY <2>1, <2>2
<1>4. CASE jobs = {}
  <2> DEFINE u == X(NoWare)
  <2>1. t = Enters(u, k, "stranded")
    BY <1>4 DEF FetchWare
  <2>2. s.lying[f] \ {NoWare} = s.lying[f]
    BY <1>2, TransportAssumption
  <2>3. QuietAt(s, u, f, s.lying[f]) /\ u.car[k] = s.car[k] /\ u \in NetKind
    BY <1>3, <2>2
  <2> HIDE DEF u, X, f
  <2>4. u.lying = s.lying
    <3>1. s.lying \in [Flags -> SUBSET Wares]
      BY Fields
    <3> QED BY <1>1, <2>3, <3>1 DEF QuietAt
  <2>5. "stranded" \in CarrierStates
    BY DEF CarrierStates
  <2>6. /\ OnlyCar(u, t, k) /\ t.car[k].st = "stranded"
        /\ t.car[k].pos = u.car[k].pos /\ t.car[k].hand = u.car[k].hand
    BY <2>1, <2>3, <2>5, EntersField
  <2>7. Stranded(s, t, k)
    BY <2>3, <2>4, <2>6 DEF Stranded, QuietAt, Hush, OnlyCar, WaresCalm
  <2> QED BY <1>4, <2>7 DEF f
<1>5. CASE jobs # {}
  <2>1. PICK w \in jobs : t = Takes(X(w), k, w)
    BY <1>5 DEF FetchWare
  <2>2. w \in Wares /\ w \in s.lying[f]
    BY <1>2 DEF WaresForRoad
  <2> DEFINE u == X(w)
  <2>3. QuietAt(s, u, f, s.lying[f] \ {w}) /\ u.car[k] = s.car[k] /\ u \in NetKind
    BY <1>3
  <2>4. t = Takes(u, k, w)
    BY <2>1
  <2> HIDE DEF u, X
  <2>5. /\ t \in NetKind
        /\ t.roads = u.roads /\ t.lying = u.lying /\ t.house = u.house
        /\ \A v \in Wares \ {w} : t.ware[v] = u.ware[v]
        /\ t.ware[w].st = "carried"
        /\ \A j \in Carriers \ {k} : t.car[j] = u.car[j]
        /\ t.car[k].st = "carry" /\ t.car[k].pos = 0 /\ t.car[k].hand = w
    BY <2>2, <2>3, <2>4, TakesField
  <2>6. Hush(s, t, Carriers \ {k})
    BY <2>3, <2>5 DEF QuietAt, Hush
  <2>7. \A v \in Wares \ {w} : WareCalm(s.ware[v], t.ware[v])
    BY <2>3, <2>5 DEF QuietAt, WaresCalm
  <2>8. t.lying = [s.lying EXCEPT ![f] = @ \ {w}]
    BY <2>3, <2>5 DEF QuietAt
  <2>9. Fetched(s, t, k, w)
    BY <2>2, <2>5, <2>6, <2>7, <2>8 DEF Fetched
  <2> QED BY <2>9
<1> QED BY <1>4, <1>5

LEMMA FlagWhere ==
  ASSUME NEW s \in NetKind, NEW w \in Wares, PlacedAt(s, w), NEW f \in Flags, w \in s.lying[f]
  PROVE  s.ware[w].st = "flag" /\ Where(s, w, "flag", f)
<1>1. s.ware[w].st \in {"stock", "waiting", "flag", "carried", "lost"}
  BY Fields DEF WareKind
<1> QED BY <1>1 DEF PlacedAt, Where

LEMMA HandWhere ==
  ASSUME NEW s \in NetKind, NEW w \in Wares, PlacedAt(s, w), NEW k \in Carriers, s.car[k].hand = w
  PROVE  s.ware[w].st = "carried" /\ Where(s, w, "hand", k)
<1>1. s.ware[w].st \in {"stock", "waiting", "flag", "carried", "lost"}
  BY Fields DEF WareKind
<1> QED BY <1>1 DEF PlacedAt, Where

(* Carrier k is at work on its road with nothing in its hands. *)
Free(s, k) ==
  /\ GoodFor(s, Carriers \ {k}) /\ k[1] \in s.roads
  /\ s.car[k].hand = NoWare /\ s.car[k].st # "space" /\ s.car[k].pos \in 0..Length[k[1]]

LEMMA FetchedGood ==
  ASSUME NEW s, NEW t, NEW k \in Carriers, NEW w \in Wares, Free(s, k), Fetched(s, t, k, w)
  PROVE  Good(t)
<1> DEFINE f == FacedFlag(s, k)
<1>0. s \in NetKind /\ t \in NetKind /\ f \in Flags
  BY FacedIsFlag DEF Free, GoodFor, Fetched, Hush
<1>1. \A j \in Carriers : CarOK(t.car[j], j, t.roads)
  <2>1. \A j \in Carriers \ {k} : CarOK(t.car[j], j, t.roads)
    BY DEF Free, GoodFor, Fetched, Hush, CarCalm
  <2>2. CarOK(t.car[k], k, t.roads)
    BY CarrierEnds, TransportAssumption DEF Free, Fetched, Hush, CarOK
  <2> QED BY <2>1, <2>2
<1>2. s.lying \in [Flags -> SUBSET Wares] /\ t.lying = [s.lying EXCEPT ![f] = @ \ {w}]
  BY <1>0, Fields DEF Fetched
<1>3. \A g \in Flags : Fits(t.lying[g])
  <2>1. \A g \in Flags : t.lying[g] \subseteq s.lying[g]
    BY <1>2
  <2> QED BY <2>1, FitsLess DEF Free, GoodFor
<1>4. \A h \in Houses : NotTwice(t.house[h].waiting)
  BY DEF Free, GoodFor, Fetched, Hush, HouseCalm
<1>5. \A v \in Wares \ {w} : PlacedAt(t, v)
  <2> SUFFICES ASSUME NEW v \in Wares \ {w} PROVE PlacedAt(t, v)
    OBVIOUS
  <2>1. \A g \in Flags : v \in t.lying[g] <=> v \in s.lying[g]
    BY <1>2
  <2>2. \A j \in Carriers : t.car[j].hand = v <=> s.car[j].hand = v
    BY TransportAssumption DEF Free, Fetched, Hush, CarCalm
  <2>3. Stays(s, t, v)
    BY <2>1, <2>2 DEF Stays, Fetched, Hush, HouseCalm
  <2> QED BY <2>3, StaysPlaced DEF Free, GoodFor
<1>6. PlacedAt(t, w)
  <2>1. Where(s, w, "flag", f)
    BY <1>0, FlagWhere DEF Free, GoodFor, Fetched
  <2>2. \A g \in Flags : w \notin t.lying[g]
    BY <1>2, <2>1 DEF Where
  <2>3. \A j \in Carriers : t.car[j].hand = w <=> j = k
    BY <2>1, TransportAssumption DEF Where, Free, Fetched, Hush, CarCalm
  <2>4. Where(t, w, "hand", k)
    BY <2>1, <2>2, <2>3 DEF Where, Fetched, Hush, HouseCalm
  <2>5. t.ware[w].st = "carried"
    BY DEF Fetched
  <2> QED BY <2>4, <2>5 DEF PlacedAt
<1> QED BY <1>0, <1>1, <1>3, <1>4, <1>5, <1>6 DEF Good, GoodFor

LEMMA StrandedGood ==
  ASSUME NEW s, NEW t, NEW k \in Carriers, Free(s, k), Stranded(s, t, k)
  PROVE  Good(t)
<1>1. \A j \in Carriers : CarOK(t.car[j], j, t.roads)
  <2>1. \A j \in Carriers \ {k} : CarOK(t.car[j], j, t.roads)
    BY DEF Free, GoodFor, Stranded, Hush, CarCalm
  <2>2. CarOK(t.car[k], k, t.roads)
    BY DEF Free, Stranded, Hush, CarOK
  <2> QED BY <2>1, <2>2
<1>2. \A v \in Wares : Stays(s, t, v)
  BY DEF Stays, Stranded, Hush, WaresCalm, CarCalm, HouseCalm
<1>3. \A v \in Wares : PlacedAt(t, v)
  BY <1>2, StaysPlaced DEF Free, GoodFor
<1>4. \A h \in Houses : NotTwice(t.house[h].waiting)
  BY DEF Free, GoodFor, Stranded, Hush, HouseCalm
<1> QED BY <1>1, <1>3, <1>4 DEF Good, GoodFor, Free, Stranded, Hush

LEMMA FetchWareGood ==
  ASSUME NEW s, NEW k \in Carriers, Free(s, k), NEW swap, NEW t \in FetchWare(s, k, swap)
  PROVE  Good(t)
<1>1. s \in NetKind /\ s.car[k].st # "space"
  BY DEF Free, GoodFor
<1>2. CASE Stranded(s, t, k)
  BY <1>2, StrandedGood
<1>3. ASSUME NEW w \in WaresForRoad(s, FacedFlag(s, k), k[1]), Fetched(s, t, k, w)
      PROVE  Good(t)
  <2>1. w \in Wares
    BY <1>1, FacedIsFlag, Fields DEF WaresForRoad
  <2> QED BY <1>3, <2>1, FetchedGood
<1> QED BY <1>1, <1>2, <1>3, FetchOutcome

(* A carrier gets another state, position or direction. *)
LEMMA CarGood ==
  ASSUME NEW s, NEW t, NEW k \in Carriers, GoodFor(s, Carriers \ {k}), OnlyCar(s, t, k),
         t.car[k].hand = s.car[k].hand, CarOK(t.car[k], k, s.roads)
  PROVE  Good(t)
<1>1. \A j \in Carriers : CarOK(t.car[j], j, t.roads)
  BY DEF GoodFor, OnlyCar
<1>2. \A v \in Wares : Stays(s, t, v)
  BY DEF Stays, OnlyCar, WareCalm
<1>3. \A v \in Wares : PlacedAt(t, v)
  BY <1>2, StaysPlaced DEF GoodFor
<1> QED BY <1>1, <1>3 DEF Good, GoodFor, OnlyCar

LEMMA TurnsField ==
  ASSUME NEW s \in NetKind, NEW k \in Carriers, NEW st \in CarrierStates, NEW pos \in Int
  PROVE  /\ OnlyCar(s, Turns(s, k, st, pos), k)
         /\ Turns(s, k, st, pos).car[k].st = st /\ Turns(s, k, st, pos).car[k].pos = pos
         /\ Turns(s, k, st, pos).car[k].to = Opposite(s.car[k].to)
         /\ Turns(s, k, st, pos).car[k].hand = s.car[k].hand
<1> DEFINE d == Turned(s.car[k], st, pos)
<1>1. s.car[k] \in CarKind
  BY Fields
<1>2. /\ d \in CarKind /\ d.st = st /\ d.pos = pos
      /\ d.to = Opposite(s.car[k].to) /\ d.hand = s.car[k].hand
  BY <1>1, TurnedField
<1>3. Turns(s, k, st, pos) = [s EXCEPT !.car[k] = d]
  BY DEF Turns
<1> HIDE DEF d
<1>4. OnlyCar(s, Turns(s, k, st, pos), k) /\ Turns(s, k, st, pos).car[k] = d
  BY <1>2, <1>3, CarSet
<1> QED BY <1>2, <1>4

(* nofCarrier::LookForWares. *)
LEMMA LookGood ==
  ASSUME NEW s, NEW k \in Carriers, Free(s, k), NEW t \in LookForWares(s, k)
  PROVE  Good(t)
<1>1. s \in NetKind
  BY DEF Free, GoodFor
<1>2. CASE t \in FetchWare(s, k, FALSE)
  BY <1>2, FetchWareGood
<1>3. ASSUME NEW st \in {"fetch", "middle"}, t = Turns(s, k, st, 0)
      PROVE  Good(t)
  <2>1. st \in CarrierStates /\ 0 \in Int
    BY DEF CarrierStates
  <2>2. OnlyCar(s, t, k) /\ t.car[k].st = st /\ t.car[k].pos = 0 /\ t.car[k].hand = s.car[k].hand
    BY <1>1, <1>3, <2>1, TurnsField
  <2>3. CarOK(t.car[k], k, s.roads)
    BY <1>3, <2>2, CarrierEnds DEF CarOK, Free
  <2> QED BY <2>2, <2>3, CarGood DEF Free
<1> QED BY <1>2, <1>3 DEF LookForWares

(* Ware w is put down at flag f. *)
Put(s, t, w, f) ==
  /\ Hush(s, t, Carriers)
  /\ t.lying = [s.lying EXCEPT ![f] = @ \cup {w}]
  /\ t.ware[w].st = "flag" /\ \A v \in Wares \ {w} : WareCalm(s.ware[v], t.ware[v])

LEMMA LieField ==
  ASSUME NEW s \in NetKind, NEW w \in Wares
  PROVE  OnlyWare(s, LieAtFlag(s, w), w) /\ LieAtFlag(s, w).ware[w].st = "flag"
<1> DEFINE v == [s.ware[w] EXCEPT !.st = "flag"]
<1>1. s.ware[w] \in WareKind
  BY Fields
<1>2. v \in WareKind /\ v.st = "flag"
  BY <1>1 DEF WareKind
<1>3. LieAtFlag(s, w) = [s EXCEPT !.ware[w] = v]
  BY DEF LieAtFlag
<1> HIDE DEF v
<1> QED BY <1>2, <1>3, WareSet

LEMMA PutFrom ==
  ASSUME NEW s \in NetKind, NEW w \in Wares, NEW f \in Flags, Space(s, f),
         NEW u, Quiet(LieAtFlag(s, w), u), NEW t \in FlagAddWare(u, w, f)
  PROVE  Put(s, t, w, f)
<1> DEFINE l == LieAtFlag(s, w)
<1>1. OnlyWare(s, l, w) /\ l.ware[w].st = "flag" /\ Quiet(l, u)
  BY LieField
<1> HIDE DEF l
<1>2. u \in NetKind /\ u.lying = s.lying /\ Space(u, f)
  BY <1>1 DEF Quiet, Hush, OnlyWare, Space
<1>3. QuietAt(u, t, f, u.lying[f] \cup {w})
  BY <1>2, FlagAddQuiet
<1>4. t.lying = [s.lying EXCEPT ![f] = @ \cup {w}]
  BY <1>2, <1>3 DEF QuietAt
<1>5. Hush(s, l, Carriers)
  BY <1>1 DEF OnlyWare, Hush, CarCalm, HouseCalm
<1>6. Hush(s, t, Carriers)
  BY <1>1, <1>3, <1>5, HushTrans, Zenon DEF Quiet, QuietAt
<1>7. WaresCalm(l, t)
  BY <1>1, <1>3, WaresTrans, Zenon DEF Quiet, QuietAt
<1>8. t.ware[w].st = "flag" /\ \A v \in Wares \ {w} : WareCalm(s.ware[v], t.ware[v])
  BY <1>1, <1>7 DEF WaresCalm, WareCalm, OnlyWare
<1> QED BY <1>4, <1>6, <1>8 DEF Put

LEMMA RecalcPut ==
  ASSUME NEW s \in NetKind, NEW w \in Wares, NEW f \in Flags, Space(s, f),
         NEW u \in RecalcRoute(LieAtFlag(s, w), w, f), NEW t \in FlagAddWare(u, w, f)
  PROVE  Put(s, t, w, f)
<1> DEFINE l == LieAtFlag(s, w)
<1>1. l \in NetKind /\ l.ware[w].st # "stock"
  BY LieField DEF OnlyWare
<1> HIDE DEF l
<1>2. u \in RecalcRoute(l, w, f)
  BY DEF l
<1>3. Quiet(l, u)
  BY <1>1, <1>2, RecalcQuiet
<1> QED BY <1>3, PutFrom DEF l

LEMMA PutDownOutcome ==
  ASSUME NEW s \in NetKind, NEW w \in Wares, NEW f \in Flags, Space(s, f), NEW t \in PutDown(s, w, f)
  PROVE  Put(s, t, w, f)
<1> DEFINE l == LieAtFlag(s, w)
<1>1. Quiet(l, l)
  BY LieField, QuietSame DEF OnlyWare
<1>2. CASE f \in Houses
  <2>1. t \in FlagAddWare(l, w, f)
    BY <1>2 DEF PutDown
  <2> QED BY <1>1, <2>1, PutFrom
<1>3. CASE f \notin Houses
  <2>1. PICK u \in RecalcRoute(l, w, f) : t \in FlagAddWare(u, w, f)
    BY <1>3 DEF PutDown
  <2> QED BY <2>1, RecalcPut
<1> QED BY <1>2, <1>3

(* Carrier k is on its road with a ware in its hands. *)
Carrying(s, k) ==
  /\ GoodFor(s, Carriers \ {k}) /\ k[1] \in s.roads
  /\ s.car[k].hand \in Wares /\ s.car[k].st = "carry" /\ s.car[k].pos \in 0..Length[k[1]]

LEMMA EmptyField ==
  ASSUME NEW s \in NetKind, NEW k \in Carriers
  PROVE  /\ OnlyCar(s, EmptyHanded(s, k), k)
         /\ EmptyHanded(s, k).car[k].st = s.car[k].st
         /\ EmptyHanded(s, k).car[k].pos = s.car[k].pos
         /\ EmptyHanded(s, k).car[k].to = s.car[k].to
         /\ EmptyHanded(s, k).car[k].hand = NoWare
<1> DEFINE d == [s.car[k] EXCEPT !.hand = NoWare]
<1>1. s.car[k] \in CarKind
  BY Fields
<1>2. /\ d \in CarKind /\ d.st = s.car[k].st /\ d.pos = s.car[k].pos
      /\ d.to = s.car[k].to /\ d.hand = NoWare
  BY <1>1 DEF CarKind
<1>3. EmptyHanded(s, k) = [s EXCEPT !.car[k] = d]
  BY DEF EmptyHanded
<1> HIDE DEF d
<1>4. OnlyCar(s, EmptyHanded(s, k), k) /\ EmptyHanded(s, k).car[k] = d
  BY <1>2, <1>3, CarSet
<1> QED BY <1>2, <1>4

(* A ware that is put down where there is room lies there and nowhere else. *)
LEMMA DropFree ==
  ASSUME NEW s, NEW u, NEW k \in Carriers, NEW f \in Flags, Carrying(s, k), Space(s, f),
         Put(s, u, s.car[k].hand, f)
  PROVE  Free(EmptyHanded(u, k), k)
<1> DEFINE w == s.car[k].hand
           t == EmptyHanded(u, k)
<1>0. s \in NetKind /\ u \in NetKind /\ w \in Wares
  BY DEF Carrying, GoodFor, Put, Hush
<1>1. /\ OnlyCar(u, t, k) /\ t.car[k].st = u.car[k].st
      /\ t.car[k].pos = u.car[k].pos /\ t.car[k].hand = NoWare
  BY <1>0, EmptyField
<1> HIDE DEF t
<1>2. u.car[k] = s.car[k]
  BY DEF Put, Hush, CarCalm, Carrying, Wakeable
<1>3. s.lying \in [Flags -> SUBSET Wares] /\ t.lying = [s.lying EXCEPT ![f] = @ \cup {w}]
  BY <1>0, <1>1, Fields DEF Put, OnlyCar
<1>4. \A g \in Flags : Fits(t.lying[g])
  <2>1. Fits(t.lying[f])
    <3>1. t.lying[f] = s.lying[f] \cup {w}
      BY <1>3
    <3>2. IsFiniteSet(s.lying[f]) /\ Cardinality(s.lying[f]) < Capacity
      BY DEF Carrying, GoodFor, Fits, Space
    <3> QED BY <3>1, <3>2, FitsMore
  <2>2. \A g \in Flags \ {f} : t.lying[g] = s.lying[g]
    BY <1>3
  <2> QED BY <2>1, <2>2 DEF Carrying, GoodFor
<1>5. \A j \in Carriers \ {k} : CarOK(t.car[j], j, t.roads)
  BY <1>1 DEF Carrying, GoodFor, Put, Hush, CarCalm, OnlyCar
<1>6. \A h \in Houses : NotTwice(t.house[h].waiting)
  BY <1>1 DEF Carrying, GoodFor, Put, Hush, HouseCalm, OnlyCar
<1>7. Where(s, w, "hand", k)
  BY <1>0, HandWhere DEF Carrying, GoodFor
<1>8. \A j \in Carriers \ {k} : t.car[j].hand = s.car[j].hand
  BY <1>1 DEF Put, Hush, CarCalm, OnlyCar
<1>9. \A h \in Houses : HouseCalm(s.house[h], t.house[h])
  BY <1>1 DEF Put, Hush, OnlyCar
<1>10. \A v \in Wares \ {w} : PlacedAt(t, v)
  <2> SUFFICES ASSUME NEW v \in Wares \ {w} PROVE PlacedAt(t, v)
    OBVIOUS
  <2>1. \A g \in Flags : v \in t.lying[g] <=> v \in s.lying[g]
    BY <1>3
  <2>2. \A j \in Carriers : t.car[j].hand = v <=> s.car[j].hand = v
    BY <1>1, <1>8, TransportAssumption
  <2>3. WareCalm(s.ware[v], t.ware[v])
    BY <1>1 DEF Put, OnlyCar
  <2>4. Stays(s, t, v)
    BY <1>9, <2>1, <2>2, <2>3 DEF Stays, HouseCalm
  <2> QED BY <2>4, StaysPlaced DEF Carrying, GoodFor
<1>11. PlacedAt(t, w)
  <2>1. \A g \in Flags : w \in t.lying[g] <=> g = f
    BY <1>3, <1>7 DEF Where
  <2>2. \A j \in Carriers : t.car[j].hand # w
    BY <1>0, <1>1, <1>7, <1>8, TransportAssumption DEF Where
  <2>3. Where(t, w, "flag", f)
    BY <1>7, <1>9, <2>1, <2>2 DEF Where, HouseCalm
  <2>4. t.ware[w].st = "flag"
    BY <1>1 DEF Put, OnlyCar
  <2> QED BY <2>3, <2>4 DEF PlacedAt
<1>12. /\ t \in NetKind /\ k[1] \in t.roads
       /\ t.car[k].hand = NoWare /\ t.car[k].st # "space" /\ t.car[k].pos \in 0..Length[k[1]]
  BY <1>1, <1>2 DEF Carrying, OnlyCar, Put, Hush
<1>13. Free(t, k)
  BY <1>4, <1>5, <1>6, <1>10, <1>11, <1>12 DEF Free, GoodFor
<1> QED BY <1>13 DEF t

LEMMA CardinalityLess ==
  ASSUME NEW S, Fits(S), NEW x \in S
  PROVE  IsFiniteSet(S \ {x}) /\ Cardinality(S \ {x}) < Capacity
<1>1. IsFiniteSet(S \ {x}) /\ Cardinality(S \ {x}) = Cardinality(S) - 1
  BY FS_RemoveElement, Zenon DEF Fits
<1>2. Cardinality(S) \in Nat /\ Capacity \in Nat
  BY FS_CardinalityType, TransportAssumption DEF Fits
<1> QED BY <1>1, <1>2 DEF Fits

(* At a full flag a carrier takes a ware and puts his own in its place. *)
LEMMA SwapGood ==
  ASSUME NEW s, NEW u, NEW t, NEW k \in Carriers, Carrying(s, k), NEW x \in Wares,
         Fetched(s, u, k, x), Put(u, t, s.car[k].hand, FacedFlag(s, k))
  PROVE  Good(t)
<1> DEFINE w == s.car[k].hand
           f == FacedFlag(s, k)
<1>0. s \in NetKind /\ u \in NetKind /\ t \in NetKind /\ w \in Wares /\ f \in Flags
  BY FacedIsFlag DEF Carrying, GoodFor, Fetched, Put, Hush
<1>1. /\ s.lying \in [Flags -> SUBSET Wares] /\ x \in s.lying[f]
      /\ u.lying = [s.lying EXCEPT ![f] = @ \ {x}]
      /\ t.lying = [u.lying EXCEPT ![f] = @ \cup {w}]
  BY <1>0, Fields DEF Fetched, Put
<1>2. Where(s, w, "hand", k) /\ Where(s, x, "flag", f)
  BY <1>0, <1>1, HandWhere, FlagWhere DEF Carrying, GoodFor
<1>3. x # w
  BY <1>1, <1>2 DEF Where
<1>4. t.car[k] = u.car[k] /\ u.car[k].st = "carry" /\ u.car[k].pos = 0 /\ u.car[k].hand = x
  BY DEF Fetched, Put, Hush, CarCalm, Wakeable
<1>5. \A j \in Carriers \ {k} : t.car[j].hand = s.car[j].hand
  BY DEF Fetched, Put, Hush, CarCalm
<1>6. \A h \in Houses : HouseCalm(s.house[h], t.house[h])
  BY DEF Fetched, Put, Hush, HouseCalm
<1>7. t.lying[f] = (s.lying[f] \ {x}) \cup {w} /\ \A g \in Flags \ {f} : t.lying[g] = s.lying[g]
  BY <1>0, <1>1
<1>8. \A g \in Flags : Fits(t.lying[g])
  <2>1. Fits(t.lying[f])
    <3>1. Fits(s.lying[f])
      BY <1>0 DEF Carrying, GoodFor
    <3>2. IsFiniteSet(s.lying[f] \ {x}) /\ Cardinality(s.lying[f] \ {x}) < Capacity
      BY <1>1, <3>1, CardinalityLess
    <3> QED BY <1>7, <3>2, FitsMore
  <2> QED BY <1>7, <2>1 DEF Carrying, GoodFor
<1>9. \A j \in Carriers : CarOK(t.car[j], j, t.roads)
  <2>1. \A j \in Carriers \ {k} : CarOK(t.car[j], j, t.roads)
    BY DEF Carrying, GoodFor, Fetched, Put, Hush, CarCalm
  <2>2. CarOK(t.car[k], k, t.roads)
    BY <1>4, CarrierEnds, TransportAssumption DEF CarOK, Carrying, Fetched, Put, Hush
  <2> QED BY <2>1, <2>2
<1>10. \A h \in Houses : NotTwice(t.house[h].waiting)
  BY <1>6 DEF Carrying, GoodFor, HouseCalm
<1>11. \A v \in Wares \ {w, x} : PlacedAt(t, v)
  <2> SUFFICES ASSUME NEW v \in Wares \ {w, x} PROVE PlacedAt(t, v)
    OBVIOUS
  <2>1. \A g \in Flags : v \in t.lying[g] <=> v \in s.lying[g]
    BY <1>7
  <2>2. \A j \in Carriers : t.car[j].hand = v <=> s.car[j].hand = v
    BY <1>4, <1>5
  <2>3. WareCalm(s.ware[v], t.ware[v])
    BY DEF Fetched, Put, WareCalm
  <2>4. Stays(s, t, v)
    BY <1>6, <2>1, <2>2, <2>3 DEF Stays, HouseCalm
  <2> QED BY <2>4, StaysPlaced DEF Carrying, GoodFor
<1>12. PlacedAt(t, w)
  <2>1. \A g \in Flags : w \in t.lying[g] <=> g = f
    BY <1>2, <1>7 DEF Where
  <2>2. \A j \in Carriers : t.car[j].hand # w
    BY <1>2, <1>3, <1>4, <1>5 DEF Where
  <2>3. Where(t, w, "flag", f)
    BY <1>2, <1>6, <2>1, <2>2 DEF Where, HouseCalm
  <2>4. t.ware[w].st = "flag"
    BY DEF Put
  <2> QED BY <1>0, <2>3, <2>4 DEF PlacedAt
<1>13. PlacedAt(t, x)
  <2>1. \A g \in Flags : x \notin t.lying[g]
    BY <1>2, <1>3, <1>7 DEF Where
  <2>2. \A j \in Carriers : t.car[j].hand = x <=> j = k
    BY <1>2, <1>4, <1>5 DEF Where
  <2>3. Where(t, x, "hand", k)
    BY <1>2, <1>6, <2>1, <2>2 DEF Where, HouseCalm
  <2>4. t.ware[x].st = "carried"
    BY <1>3 DEF Fetched, Put, WareCalm
  <2> QED BY <2>3, <2>4 DEF PlacedAt
<1> QED BY <1>0, <1>8, <1>9, <1>10, <1>11, <1>12, <1>13 DEF Good, GoodFor

(* The route that is looked up in front of a house moves nothing. *)
LEMMA RouteCarrying ==
  ASSUME NEW s, NEW k \in Carriers, Carrying(s, k), NEW t \in WithRoute(s, k)
  PROVE  Carrying(t, k) /\ t.car = s.car /\ t.roads = s.roads /\ t.lying = s.lying
<1> DEFINE w == s.car[k].hand
<1>1. s \in NetKind /\ w \in Wares
  BY DEF Carrying, GoodFor
<1>2. s.ware[w].st # "stock"
  BY <1>1, HandWhere DEF Carrying, GoodFor
<1>3. Quiet(s, t) /\ t.car = s.car
  BY <1>1, <1>2, RecalcQuiet, QuietSame DEF WithRoute
<1>4. GoodFor(t, Carriers \ {k})
  BY <1>3, QuietGood DEF Carrying
<1> QED BY <1>3, <1>4 DEF Carrying, Quiet, Hush

LEMMA JobsNow ==
  ASSUME NEW s, NEW k, AreWareJobs(s, k, s.car[k].to, TRUE)
  PROVE  WaresForRoad(s, FacedFlag(s, k), k[1]) # {}
<1>1. Cardinality(WaresForRoad(s, FacedFlag(s, k), k[1])) > 0
  BY DEF AreWareJobs, FacedFlag
<1> QED BY <1>1, FS_EmptySet

(* A carrier at the flag. *)
LEMMA AtFlagGood ==
  ASSUME NEW s, NEW k \in Carriers, Carrying(s, k), NEW u \in AtFlag(s, k)
  PROVE  Good(u)
<1> DEFINE f == FacedFlag(s, k)
           w == s.car[k].hand
           Drop(t) == UNION {LookForWares(EmptyHanded(v, k), k) : v \in PutDown(t, w, f)}
           Swap(t) == UNION {PutDown(v, w, f) : v \in FetchWare(t, k, TRUE)}
<1>1. PICK t \in WithRoute(s, k) :
        \/ WantInBuilding(t, k) /\ u = Enters(t, k, "tohouse")
        \/ Space(t, f) /\ u \in Drop(t)
        \/ AreWareJobs(t, k, t.car[k].to, TRUE) /\ u \in Swap(t)
        \/ u = Turns(t, k, "back", 0)
  BY DEF AtFlag
<1>2. Carrying(t, k) /\ t.car = s.car
  BY RouteCarrying
<1>3. t \in NetKind /\ f = FacedFlag(t, k) /\ w = t.car[k].hand /\ f \in Flags /\ w \in Wares
  BY <1>2, FacedIsFlag DEF Carrying, GoodFor, FacedFlag
<1>4. CASE WantInBuilding(t, k) /\ u = Enters(t, k, "tohouse")
  <2>1. "tohouse" \in CarrierStates
    BY DEF CarrierStates
  <2>2. /\ OnlyCar(t, u, k) /\ u.car[k].st = "tohouse" /\ u.car[k].pos = t.car[k].pos
        /\ u.car[k].to = t.car[k].to /\ u.car[k].hand = t.car[k].hand
    BY <1>3, <1>4, <2>1, EntersField
  <2>3. CarOK(u.car[k], k, t.roads)
    BY <1>2, <1>4, <2>2, TransportAssumption DEF CarOK, Carrying, WantInBuilding, FacedFlag
  <2> QED BY <1>2, <2>2, <2>3, CarGood DEF Carrying
<1>5. CASE Space(t, f) /\ u \in Drop(t)
  <2>1. PICK v \in PutDown(t, w, f) : u \in LookForWares(EmptyHanded(v, k), k)
    BY <1>5
  <2>2. Put(t, v, w, f)
    BY <1>3, <1>5, PutDownOutcome
  <2>3. Free(EmptyHanded(v, k), k)
    BY <1>2, <1>3, <1>5, <2>2, DropFree
  <2> QED BY <2>1, <2>3, LookGood
<1>6. CASE AreWareJobs(t, k, t.car[k].to, TRUE) /\ u \in Swap(t)
  <2>1. PICK v \in FetchWare(t, k, TRUE) : u \in PutDown(v, w, f)
    BY <1>6
  <2>2. t.car[k].st # "space"
    BY <1>2 DEF Carrying
  <2>3. PICK x \in WaresForRoad(t, f, k[1]) : Fetched(t, v, k, x)
    BY <1>3, <1>6, <2>2, JobsNow, FetchOutcome
  <2>4. x \in Wares
    BY <1>3, Fields DEF WaresForRoad
  <2>5. v \in NetKind /\ Space(v, f)
    <3>1. v \in NetKind /\ v.lying = [t.lying EXCEPT ![f] = @ \ {x}] /\ x \in t.lying[f]
      BY <1>3, <2>3 DEF Fetched, Hush
    <3>2. v.lying[f] = t.lying[f] \ {x}
      BY <1>3, <3>1, Fields
    <3>3. Fits(t.lying[f])
      BY <1>2, <1>3 DEF Carrying, GoodFor
    <3> QED BY <3>1, <3>2, <3>3, CardinalityLess DEF Space
  <2>6. Put(v, u, w, f)
    BY <1>3, <2>1, <2>5, PutDownOutcome
  <2> QED BY <1>2, <1>3, <2>3, <2>4, <2>6, SwapGood
<1>7. CASE u = Turns(t, k, "back", 0)
  <2>1. "back" \in CarrierStates /\ 0 \in Int
    BY DEF CarrierStates
  <2>2. OnlyCar(t, u, k) /\ u.car[k].st = "back" /\ u.car[k].pos = 0 /\ u.car[k].hand = w
    BY <1>3, <1>7, <2>1, TurnsField
  <2>3. CarOK(u.car[k], k, t.roads)
    BY <1>2, <1>3, <2>2, CarrierEnds, TransportAssumption DEF CarOK, Carrying
  <2> QED BY <1>2, <1>3, <2>2, <2>3, CarGood DEF Carrying
<1> QED BY <1>1, <1>4, <1>5, <1>6, <1>7

(* A carrier with a ware, after a field of the road. *)
LEMMA CarryOnGood ==
  ASSUME NEW s, NEW k \in Carriers, Carrying(s, k), NEW t \in CarryOn(s, k)
  PROVE  Good(t)
<1> DEFINE L == Length[k[1]]
           pos == s.car[k].pos
<1>1. L \in Nat /\ L >= 2 /\ pos \in 0..L
  BY CarrierEnds DEF Carrying
<1>2. CASE t \in AtFlag(s, k)
  BY <1>2, AtFlagGood
<1>3. ASSUME Carrying(t, k), t.car = s.car, pos < L
      PROVE  Good(t)
  <2>1. CarOK(t.car[k], k, t.roads)
    BY <1>1, <1>3, TransportAssumption DEF CarOK, Carrying
  <2> QED BY <1>3, <2>1 DEF Carrying, GoodFor, Good
<1>4. CASE pos = L - 1 /\ t \in AlmostThere(s, k)
  <2>1. CASE t = s
    BY <1>1, <1>3, <1>4, <2>1
  <2>2. CASE t # s
    <3>1. PICK u \in WithRoute(s, k) : t = u \/ t = Enters(u, k, "space")
      BY <1>4, <2>2 DEF AlmostThere
    <3>2. Carrying(u, k) /\ u.car = s.car /\ u \in NetKind
      BY RouteCarrying DEF Carrying, GoodFor
    <3>3. CASE t = u
      BY <1>1, <1>3, <1>4, <3>2, <3>3
    <3>4. CASE t = Enters(u, k, "space")
      <4>1. "space" \in CarrierStates
        BY DEF CarrierStates
      <4>2. /\ OnlyCar(u, t, k) /\ t.car[k].st = "space" /\ t.car[k].pos = pos
            /\ t.car[k].hand = u.car[k].hand
        BY <3>2, <3>4, <4>1, EntersField
      <4>3. CarOK(t.car[k], k, u.roads)
        BY <1>1, <1>4, <3>2, <4>2, TransportAssumption DEF CarOK, Carrying
      <4> QED BY <3>2, <4>2, <4>3, CarGood DEF Carrying
    <3> QED BY <3>1, <3>3, <3>4
  <2> QED BY <2>1, <2>2
<1>5. CASE pos # L /\ t = s
  BY <1>1, <1>3, <1>5
<1>6. \/ pos = L /\ t \in AtFlag(s, k)
      \/ pos = L - 1 /\ t \in AlmostThere(s, k)
      \/ pos # L /\ t = s
  BY <1>1 DEF CarryOn
<1> QED BY <1>2, <1>4, <1>5, <1>6

(* A carrier on the way to the middle, after a field. *)
LEMMA ToMiddleGood ==
  ASSUME NEW s, NEW k \in Carriers, Free(s, k), s.car[k].st = "middle", s.car[k].pos > 0,
         NEW t \in ToMiddle(s, k)
  PROVE  Good(t)
<1> DEFINE L == Length[k[1]]
           pos == s.car[k].pos
           half == L \div 2
<1>1. L \in Nat /\ L >= 2 /\ pos \in 1..L /\ s \in NetKind
  BY CarrierEnds DEF Free, GoodFor
<1>2. half \in Nat /\ half >= 1 /\ half < L /\ half + (L % 2) < L /\ L % 2 \in {0, 1}
  BY <1>1
<1>3. ASSUME NEW st \in {"fetch", "middle"}, t = Turns(s, k, st, L - pos)
      PROVE  Good(t)
  <2>1. st \in CarrierStates /\ L - pos \in Int
    BY <1>1 DEF CarrierStates
  <2>2. OnlyCar(s, t, k) /\ t.car[k].st = st /\ t.car[k].pos = L - pos /\ t.car[k].hand = NoWare
    BY <1>1, <1>3, <2>1, TurnsField DEF Free
  <2>3. CarOK(t.car[k], k, s.roads)
    <3>1. k[1] \in s.roads
      BY DEF Free
    <3>2. L - pos \in 0..L /\ L - pos < L
      BY <1>1
    <3> HIDE DEF L, pos
    <3>3. t.car[k].pos \in 0..Length[k[1]] /\ t.car[k].pos < Length[k[1]]
      BY <2>2, <3>2 DEF L
    <3>4. t.car[k].st \in {"fetch", "middle"} /\ t.car[k].hand = NoWare
      BY <1>3, <2>2
    <3> HIDE DEF L, pos
    <3> QED BY <3>1, <3>3, <3>4 DEF CarOK
  <2> QED BY <2>2, <2>3, CarGood DEF Free
<1>4. CASE pos \in {half, half + (L % 2)} /\ t = Enters(s, k, "wait")
  <2>1. "wait" \in CarrierStates
    BY DEF CarrierStates
  <2>2. OnlyCar(s, t, k) /\ t.car[k].st = "wait" /\ t.car[k].pos = pos /\ t.car[k].hand = NoWare
    BY <1>1, <1>4, <2>1, EntersField DEF Free
  <2> HIDE DEF half
  <2>3. CarOK(t.car[k], k, s.roads)
    BY <1>1, <1>2, <1>4, <2>2 DEF CarOK, Free
  <2> QED BY <2>2, <2>3, CarGood DEF Free
<1>5. CASE ~(pos > half) /\ t = s
  <2>1. CarOK(s.car[k], k, s.roads)
    <3> HIDE DEF half
    <3> QED BY <1>1, <1>2, <1>5 DEF CarOK, Free
  <2> QED BY <1>5, <2>1 DEF Free, GoodFor, Good
<1> QED BY <1>3, <1>4, <1>5 DEF ToMiddle

(* The ware is in the stock of house h. *)
LEMMA StoredField ==
  ASSUME NEW s \in NetKind, NEW w \in Wares, NEW h \in Houses
  PROVE  /\ OnlyWare(s, Stored(s, w, h), w)
         /\ Stored(s, w, h).ware[w].st = "stock" /\ Stored(s, w, h).ware[w].goal = h
<1> DEFINE v == [st |-> "stock", goal |-> h, dir |-> NoDir]
<1>1. v \in WareKind /\ v.st = "stock" /\ v.goal = h
  BY DEF WareKind
<1>2. Stored(s, w, h) = [s EXCEPT !.ware[w] = v]
  BY DEF Stored
<1> HIDE DEF v
<1> QED BY <1>1, <1>2, WareSet

LEMMA CarGoodFor ==
  ASSUME NEW s, NEW t, NEW k \in Carriers, GoodFor(s, Carriers \ {k}), OnlyCar(s, t, k),
         t.car[k].hand = s.car[k].hand
  PROVE  GoodFor(t, Carriers \ {k})
<1>1. \A v \in Wares : Stays(s, t, v)
  BY DEF Stays, OnlyCar, WareCalm
<1>2. \A v \in Wares : PlacedAt(t, v)
  BY <1>1, StaysPlaced DEF GoodFor
<1> QED BY <1>2 DEF GoodFor, OnlyCar

(* A carrier brings its ware into the house and is on its way back. *)
LEMMA BroughtInGood ==
  ASSUME NEW s, NEW k \in Carriers, Good(s), s.car[k].st = "tohouse",
         NEW t, t = EmptyHanded(Enters(Stored(s, s.car[k].hand, FacedFlag(s, k)), k, "leaving"), k)
  PROVE  Good(t)
<1> DEFINE w == s.car[k].hand
           f == FacedFlag(s, k)
           u == Stored(s, w, f)
           v == Enters(u, k, "leaving")
<1>0. s \in NetKind /\ s.car[k].hand \in Wares \cup {NoWare}
  BY Fields DEF Good, GoodFor, CarKind
<1>1. w \in Wares /\ f \in Houses
  BY <1>0 DEF Good, GoodFor, CarOK, FacedFlag
<1>2. OnlyWare(s, u, w) /\ u.ware[w].st = "stock" /\ u.ware[w].goal = f
  BY <1>0, <1>1, StoredField
<1>3. t = EmptyHanded(v, k)
  OBVIOUS
<1> HIDE DEF u
<1>4. /\ OnlyCar(u, v, k) /\ v.car[k].st = "leaving" /\ v.car[k].pos = s.car[k].pos
  <2>1. u \in NetKind /\ u.car = s.car /\ "leaving" \in CarrierStates
    BY <1>2 DEF OnlyWare, CarrierStates
  <2> QED BY <2>1, EntersField
<1> HIDE DEF v
<1>5. /\ OnlyCar(v, t, k) /\ t.car[k].st = "leaving" /\ t.car[k].pos = s.car[k].pos
      /\ t.car[k].hand = NoWare
  <2>1. v \in NetKind
    BY <1>4 DEF OnlyCar
  <2> QED BY <1>3, <1>4, <2>1, EmptyField
<1>6. /\ t \in NetKind /\ t.roads = s.roads /\ t.lying = s.lying /\ t.house = s.house
      /\ \A j \in Carriers \ {k} : t.car[j] = s.car[j]
      /\ \A x \in Wares \ {w} : t.ware[x] = s.ware[x]
      /\ t.ware[w].st = "stock" /\ t.ware[w].goal = f
  <2>1. /\ u.roads = s.roads /\ u.lying = s.lying /\ u.house = s.house /\ u.car = s.car
        /\ \A x \in Wares \ {w} : u.ware[x] = s.ware[x]
    BY <1>2 DEF OnlyWare
  <2>2. /\ v.roads = u.roads /\ v.lying = u.lying /\ v.house = u.house /\ v.ware = u.ware
        /\ \A j \in Carriers \ {k} : v.car[j] = u.car[j]
    BY <1>4 DEF OnlyCar
  <2>3. /\ t \in NetKind /\ t.roads = v.roads /\ t.lying = v.lying /\ t.house = v.house /\ t.ware = v.ware
        /\ \A j \in Carriers \ {k} : t.car[j] = v.car[j]
    BY <1>5 DEF OnlyCar
  <2> QED BY <1>2, <2>1, <2>2, <2>3
<1>7. \A j \in Carriers : CarOK(t.car[j], j, t.roads)
  <2>1. CarOK(t.car[k], k, t.roads)
    BY <1>5, <1>6 DEF Good, GoodFor, CarOK
  <2> QED BY <1>6, <2>1 DEF Good, GoodFor
<1>8. Where(s, w, "hand", k)
  BY <1>0, <1>1, HandWhere DEF Good, GoodFor
<1>9. \A x \in Wares \ {w} : PlacedAt(t, x)
  <2> SUFFICES ASSUME NEW x \in Wares \ {w} PROVE PlacedAt(t, x)
    OBVIOUS
  <2>1. \A j \in Carriers : t.car[j].hand = x <=> s.car[j].hand = x
    BY <1>5, <1>6, TransportAssumption
  <2>2. Stays(s, t, x)
    BY <1>6, <2>1 DEF Stays, WareCalm
  <2> QED BY <2>2, StaysPlaced DEF Good, GoodFor
<1>10. PlacedAt(t, w)
  <2>1. \A j \in Carriers : t.car[j].hand # w
    <3>1. w # NoWare
      BY <1>1, TransportAssumption
    <3>2. \A j \in Carriers \ {k} : s.car[j].hand # w
      BY <1>8 DEF Where
    <3> QED BY <1>5, <1>6, <3>1, <3>2
  <2>2. Where(t, w, "gone", NoWare)
    BY <1>6, <1>8, <2>1 DEF Where
  <2> QED BY <1>1, <1>6, <2>2 DEF PlacedAt
<1> QED BY <1>6, <1>7, <1>9, <1>10 DEF Good, GoodFor

LEMMA SteppedField ==
  ASSUME NEW s \in NetKind, NEW k \in Carriers, NEW n \in Int
  PROVE  /\ OnlyCar(s, [s EXCEPT !.car[k].pos = @ + n], k)
         /\ [s EXCEPT !.car[k].pos = @ + n].car[k].pos = s.car[k].pos + n
         /\ [s EXCEPT !.car[k].pos = @ + n].car[k].st = s.car[k].st
         /\ [s EXCEPT !.car[k].pos = @ + n].car[k].to = s.car[k].to
         /\ [s EXCEPT !.car[k].pos = @ + n].car[k].hand = s.car[k].hand
<1> DEFINE p == s.car[k].pos + n
           d == [s.car[k] EXCEPT !.pos = p]
<1>1. s.car[k] \in CarKind
  BY Fields
<1>2. p \in Int
  BY <1>1 DEF CarKind
<1>3. [s EXCEPT !.car[k].pos = @ + n] = [s EXCEPT !.car[k] = d]
  OBVIOUS
<1>4. /\ d \in CarKind /\ d.pos = p /\ d.st = s.car[k].st
      /\ d.to = s.car[k].to /\ d.hand = s.car[k].hand
  <2> HIDE DEF p
  <2> QED BY <1>1, <1>2 DEF CarKind
<1> HIDE DEF d
<1>5. OnlyCar(s, [s EXCEPT !.car[k] = d], k) /\ [s EXCEPT !.car[k] = d].car[k] = d
  BY <1>4, CarSet
<1> QED BY <1>3, <1>4, <1>5

Walking == {"middle", "fetch", "carry", "back", "tohouse", "leaving"}

(* The next event of carrier k comes, a field further when it is on the road. *)
Stepped(n, s, k) ==
  /\ Good(n) /\ OnlyCar(n, s, k)
  /\ n.car[k].st \in Walking
  /\ s.car[k].st = n.car[k].st /\ s.car[k].to = n.car[k].to /\ s.car[k].hand = n.car[k].hand
  /\ s.car[k].pos = n.car[k].pos + IF n.car[k].st \in {"tohouse", "leaving"} THEN 0 ELSE 1

LEMMA WalkedGood ==
  ASSUME NEW n, NEW s, NEW k \in Carriers, Stepped(n, s, k), NEW t \in Walked(s, k)
  PROVE  Good(t)
<1> DEFINE c == s.car[k]
           L == Length[k[1]]
           f == FacedFlag(s, k)
<1>1. GoodFor(n, Carriers \ {k}) /\ OnlyCar(n, s, k) /\ c.hand = n.car[k].hand
  BY DEF Stepped, Good, GoodFor
<1>2. GoodFor(s, Carriers \ {k}) /\ s \in NetKind
  BY <1>1, CarGoodFor DEF GoodFor
<1>3. CarOK(n.car[k], k, n.roads) /\ L \in Nat /\ L >= 2
  BY CarrierEnds DEF Stepped, Good, GoodFor
<1>4. k[1] \in s.roads
  BY <1>1, <1>3 DEF CarOK, Stepped, Walking, OnlyCar
<1>5. c.hand \in Wares \cup {NoWare}
  BY <1>2, Fields DEF CarKind
<1>6. CASE c.st = "middle"
  <2>1. c.pos \in 1..L /\ c.hand = NoWare
    BY <1>3, <1>6 DEF CarOK, Stepped
  <2>2. Free(s, k)
    BY <1>2, <1>3, <1>4, <1>6, <2>1 DEF Free
  <2>3. t \in ToMiddle(s, k) /\ c.pos > 0
    BY <1>3, <1>6, <2>1 DEF Walked
  <2> QED BY <1>6, <2>2, <2>3, ToMiddleGood
<1>7. CASE c.st = "fetch"
  <2>1. c.pos \in 1..L /\ c.hand = NoWare
    BY <1>3, <1>7 DEF CarOK, Stepped
  <2>2. Free(s, k)
    BY <1>2, <1>3, <1>4, <1>7, <2>1 DEF Free
  <2>3. CASE c.pos = L
    <3>1. t \in FetchWare(s, k, FALSE)
      BY <1>7, <2>3 DEF Walked
    <3> QED BY <2>2, <3>1, FetchWareGood
  <2>4. CASE c.pos # L
    <3>1. t = s
      BY <1>7, <2>4 DEF Walked
    <3>2. CarOK(s.car[k], k, s.roads)
      BY <1>3, <1>4, <1>7, <2>1, <2>4 DEF CarOK
    <3> QED BY <1>2, <3>1, <3>2 DEF Good, GoodFor
  <2> QED BY <2>3, <2>4
<1>8. CASE c.st = "carry"
  <2>1. c.pos \in 1..L /\ c.hand \in Wares
    BY <1>3, <1>5, <1>8 DEF CarOK, Stepped
  <2>2. Carrying(s, k)
    BY <1>2, <1>3, <1>4, <1>8, <2>1 DEF Carrying
  <2>3. t \in CarryOn(s, k)
    BY <1>8 DEF Walked
  <2> QED BY <2>2, <2>3, CarryOnGood
<1>9. CASE c.st = "back"
  <2>1. c.pos \in 1..L /\ c.hand \in Wares
    BY <1>3, <1>5, <1>9 DEF CarOK, Stepped
  <2> DEFINE pos == L - c.pos
             u == Turns(s, k, "carry", pos)
  <2>2. pos \in 0..L /\ pos \in Int /\ "carry" \in CarrierStates
    BY <1>3, <2>1 DEF CarrierStates
  <2>3. t \in CarryOn(u, k)
    BY <1>9 DEF Walked
  <2> HIDE DEF pos
  <2>4. OnlyCar(s, u, k) /\ u.car[k].st = "carry" /\ u.car[k].pos = pos /\ u.car[k].hand = c.hand
    BY <1>2, <2>2, TurnsField
  <2> HIDE DEF u
  <2>5. GoodFor(u, Carriers \ {k})
    BY <1>2, <2>4, CarGoodFor
  <2>6. Carrying(u, k)
    BY <1>4, <2>1, <2>2, <2>4, <2>5 DEF Carrying, OnlyCar
  <2> QED BY <2>3, <2>6, CarryOnGood
<1>10. CASE c.st = "tohouse"
  <2>1. t = EmptyHanded(Enters(Stored(s, c.hand, f), k, "leaving"), k)
    BY <1>10 DEF Walked
  <2>2. c.pos = n.car[k].pos
    <3>1. n.car[k].pos \in Int
      BY <1>3 DEF CarOK
    <3> QED BY <1>10, <3>1 DEF Stepped
  <2>3. CarOK(c, k, s.roads)
    BY <1>1, <1>3, <1>10, <2>2 DEF CarOK, Stepped, OnlyCar
  <2>4. Good(s)
    BY <1>2, <2>3 DEF Good, GoodFor
  <2> QED BY <1>10, <2>1, <2>4, BroughtInGood
<1>11. CASE c.st = "leaving"
  <2>1. c.pos \in 0..L /\ c.hand = NoWare
    BY <1>3, <1>11 DEF CarOK, Stepped
  <2>2. Free(s, k)
    BY <1>2, <1>4, <1>11, <2>1 DEF Free
  <2>3. t \in LookForWares(s, k)
    BY <1>11 DEF Walked
  <2> QED BY <2>2, <2>3, LookGood
<1>12. c.st \in Walking
  BY DEF Stepped
<1> QED BY <1>6, <1>7, <1>8, <1>9, <1>10, <1>11, <1>12 DEF Walking

(* Taking a step of the net as a whole. *)
LEMMA NetIs ==
  ASSUME NEW s \in NetKind, s.roads = roads', s.ware = ware', s.lying = lying', s.car = car', s.house = house'
  PROVE  Net' = s
BY DEF Net, NetKind

LEMMA BecomesGood ==
  ASSUME NEW s, Good(s), Becomes(s)
  PROVE  Good(Net)'
<1>1. Net' = s
  BY NetIs DEF Becomes, Good, GoodFor
<1> QED BY <1>1 DEF Good, GoodFor

LEMMA WalkGood ==
  ASSUME Good(Net), NEW k \in Carriers, Walk(k)
  PROVE  Good(Net)'
<1> DEFINE steps == IF car[k].st \in {"tohouse", "leaving"} THEN 0 ELSE 1
           s == [Net EXCEPT !.car[k].pos = @ + steps]
<1>1. PICK t \in Walked(s, k) : Becomes(t)
  BY DEF Walk
<1>2. Net.car = car /\ Net \in NetKind /\ steps \in Int /\ car[k].st \in Walking
  BY DEF Net, Good, GoodFor, Walk, Walking
<1> DEFINE n == steps
<1>3. /\ OnlyCar(Net, s, k)
      /\ s.car[k].pos = Net.car[k].pos + steps
      /\ s.car[k].st = Net.car[k].st /\ s.car[k].to = Net.car[k].to /\ s.car[k].hand = Net.car[k].hand
  <2> HIDE DEF n, steps
  <2> QED BY <1>2, SteppedField
<1> HIDE DEF s
<1>4. Stepped(Net, s, k)
  BY <1>2, <1>3 DEF Stepped
<1> QED BY <1>1, <1>4, WalkedGood, BecomesGood

(* A new carrier comes to its road. *)
LEMMA ArriveGood ==
  ASSUME Good(Net), NEW k \in Carriers, NEW e \in 1..2, Arrive(k, e)
  PROVE  Good(Net)'
<1> DEFINE c == [st |-> "middle", pos |-> 0, to |-> e, hand |-> NoWare]
           there == [Net EXCEPT !.car[k] = c]
           onward == Turns(there, k, "middle", 0)
<1>1. PICK t : /\ Becomes(t)
               /\ \/ t \in FetchWare(there, k, FALSE)
                  \/ \E st \in {"fetch", "middle"} : t = Enters(onward, k, st)
  BY DEF Arrive
<1>2. Net \in NetKind /\ Net.car = car /\ Net.roads = roads /\ car[k].st = "coming"
  BY DEF Good, GoodFor, Net, Arrive
<1>3. k[1] \in roads /\ Net.car[k].hand = NoWare
  BY <1>2 DEF Good, GoodFor, CarOK
<1>4. c \in CarKind /\ c.st = "middle" /\ c.pos = 0 /\ c.hand = NoWare
  BY DEF CarKind, CarrierStates
<1> HIDE DEF c
<1>5. OnlyCar(Net, there, k) /\ there.car[k] = c
  BY <1>2, <1>4, CarSet
<1> HIDE DEF there
<1>6. GoodFor(there, Carriers \ {k}) /\ there \in NetKind
  <2>1. GoodFor(Net, Carriers \ {k})
    BY DEF Good, GoodFor
  <2>2. there.car[k].hand = Net.car[k].hand
    BY <1>3, <1>4, <1>5
  <2> QED BY <1>5, <2>1, <2>2, CarGoodFor DEF OnlyCar
<1>7. Free(there, k)
  BY <1>2, <1>3, <1>4, <1>5, <1>6, CarrierEnds DEF Free, OnlyCar
<1>8. CASE t \in FetchWare(there, k, FALSE)
  BY <1>1, <1>7, <1>8, FetchWareGood, BecomesGood
<1>9. ASSUME NEW st \in {"fetch", "middle"}, t = Enters(onward, k, st)
      PROVE  Good(Net)'
  <2>1. "middle" \in CarrierStates /\ 0 \in Int /\ st \in CarrierStates
    BY DEF CarrierStates
  <2>2. OnlyCar(there, onward, k) /\ onward.car[k].pos = 0 /\ onward.car[k].hand = NoWare
    BY <1>6, <1>7, <2>1, TurnsField DEF Free
  <2> HIDE DEF onward
  <2>3. onward \in NetKind
    BY <2>2 DEF OnlyCar
  <2>4. OnlyCar(onward, t, k) /\ t.car[k].st = st /\ t.car[k].pos = 0 /\ t.car[k].hand = NoWare
    BY <1>9, <2>1, <2>2, <2>3, EntersField
  <2>5. OnlyCar(there, t, k) /\ t.car[k].hand = there.car[k].hand
    BY <1>7, <2>2, <2>4 DEF OnlyCar, Free
  <2>6. CarOK(t.car[k], k, there.roads)
    BY <1>7, <2>4, CarrierEnds DEF CarOK, Free
  <2>7. Good(t)
    BY <1>6, <2>5, <2>6, CarGood
  <2> QED BY <1>1, <2>7, BecomesGood
<1> QED BY <1>1, <1>8, <1>9

-----------------------------------------------------------------------------
(* The wares that wait in a house. *)

LEMMA TailWaits ==
  ASSUME NEW q \in Seq(Wares), q # <<>>, NotTwice(q)
  PROVE  /\ Head(q) \in Wares /\ Head(q) \in ToSet(q)
         /\ Tail(q) \in Seq(Wares) /\ NotTwice(Tail(q)) /\ Head(q) \notin ToSet(Tail(q))
         /\ \A v \in Wares \ {Head(q)} : v \in ToSet(Tail(q)) <=> v \in ToSet(q)
<1>1. Len(q) \in Nat /\ Len(q) >= 1 /\ Head(q) = q[1]
  OBVIOUS
<1>2. /\ Tail(q) \in Seq(Wares) /\ Len(Tail(q)) = Len(q) - 1
      /\ \A i \in 1..(Len(q) - 1) : Tail(q)[i] = q[i + 1]
  BY <1>1
<1>3. DOMAIN q = 1..Len(q) /\ DOMAIN Tail(q) = 1..(Len(q) - 1)
  BY <1>1, <1>2
<1>4. NotTwice(Tail(q))
  BY <1>1, <1>2 DEF NotTwice
<1>5. Head(q) \notin ToSet(Tail(q))
  BY <1>1, <1>2, <1>3 DEF NotTwice, ToSet
<1>6. ASSUME NEW v \in Wares \ {Head(q)}
      PROVE  v \in ToSet(Tail(q)) <=> v \in ToSet(q)
  <2>1. ASSUME v \in ToSet(q) PROVE v \in ToSet(Tail(q))
    <3>1. PICK i \in 1..Len(q) : q[i] = v
      BY <1>3, <2>1 DEF ToSet
    <3>2. i - 1 \in 1..(Len(q) - 1) /\ Tail(q)[i - 1] = v
      BY <1>1, <1>2, <3>1
    <3> QED BY <1>3, <3>2 DEF ToSet
  <2>2. ASSUME v \in ToSet(Tail(q)) PROVE v \in ToSet(q)
    <3>1. PICK i \in 1..(Len(q) - 1) : Tail(q)[i] = v
      BY <1>3, <2>2 DEF ToSet
    <3>2. i + 1 \in 1..Len(q) /\ q[i + 1] = v
      BY <1>1, <1>2, <3>1
    <3> QED BY <1>3, <3>2 DEF ToSet
  <2> QED BY <2>1, <2>2
<1>7. Head(q) \in Wares /\ Head(q) \in ToSet(q)
  BY <1>1, <1>3 DEF ToSet
<1> QED BY <1>2, <1>4, <1>5, <1>6, <1>7

LEMMA AppendWaits ==
  ASSUME NEW q \in Seq(Wares), NotTwice(q), NEW w \in Wares, w \notin ToSet(q)
  PROVE  /\ Append(q, w) \in Seq(Wares) /\ NotTwice(Append(q, w)) /\ w \in ToSet(Append(q, w))
         /\ \A v \in Wares \ {w} : v \in ToSet(Append(q, w)) <=> v \in ToSet(q)
<1> DEFINE p == Append(q, w)
<1>1. /\ p \in Seq(Wares) /\ Len(p) = Len(q) + 1 /\ Len(q) \in Nat
      /\ \A i \in 1..Len(q) : p[i] = q[i]
      /\ p[Len(q) + 1] = w
  OBVIOUS
<1>2. DOMAIN q = 1..Len(q) /\ DOMAIN p = 1..(Len(q) + 1)
  BY <1>1
<1> HIDE DEF p
<1>3. \A i \in 1..Len(q) : q[i] # w
  BY <1>2 DEF ToSet
<1>4. NotTwice(p)
  BY <1>1, <1>3 DEF NotTwice
<1>5. w \in ToSet(p)
  BY <1>1, <1>2 DEF ToSet
<1>6. \A v \in Wares \ {w} : v \in ToSet(p) <=> v \in ToSet(q)
  BY <1>1, <1>2 DEF ToSet
<1> QED BY <1>1, <1>4, <1>5, <1>6 DEF p

LEMMA RemoveWaits ==
  ASSUME NEW q \in Seq(Wares), NotTwice(q), NEW k \in 1..Len(q)
  PROVE  /\ RemoveAt(q, k) \in Seq(Wares) /\ NotTwice(RemoveAt(q, k)) /\ q[k] \notin ToSet(RemoveAt(q, k))
         /\ \A v \in Wares \ {q[k]} : v \in ToSet(RemoveAt(q, k)) <=> v \in ToSet(q)
<1> DEFINE p == RemoveAt(q, k)
           n == Len(q)
<1>1. n \in Nat /\ \A i \in 1..n : q[i] \in Wares
  OBVIOUS
<1>2. /\ p \in Seq(Wares) /\ Len(p) = n - 1
      /\ \A i \in 1..(n - 1) : p[i] = q[IF i < k THEN i ELSE i + 1]
  <2> DEFINE a == SubSeq(q, 1, k - 1)
             b == SubSeq(q, k + 1, n)
  <2>1. /\ a \in Seq(Wares) /\ Len(a) = k - 1 /\ \A i \in 1..(k - 1) : a[i] = q[i]
    BY <1>1
  <2>2. /\ b \in Seq(Wares) /\ Len(b) = n - k /\ \A i \in 1..(n - k) : b[i] = q[k + i]
    BY <1>1
  <2>3. p = a \o b
    BY DEF RemoveAt
  <2> HIDE DEF a, b, p
  <2>4. p \in Seq(Wares) /\ Len(p) = n - 1
    BY <1>1, <2>1, <2>2, <2>3
  <2>5. ASSUME NEW i \in 1..(n - 1) PROVE p[i] = q[IF i < k THEN i ELSE i + 1]
    <3>1. CASE i < k
      <4>1. p[i] = a[i]
        BY <1>1, <2>1, <2>2, <2>3, <3>1
      <4> QED BY <2>1, <3>1, <4>1
    <3>2. CASE ~(i < k)
      <4>1. p[i] = b[i - (k - 1)] /\ i - (k - 1) \in 1..(n - k)
        BY <1>1, <2>1, <2>2, <2>3, <3>2
      <4> QED BY <2>2, <3>2, <4>1
    <3> QED BY <3>1, <3>2
  <2> QED BY <2>4, <2>5
<1>3. DOMAIN q = 1..n /\ DOMAIN p = 1..(n - 1)
  BY <1>1, <1>2
<1> HIDE DEF p
<1>4. NotTwice(p)
  BY <1>1, <1>2 DEF NotTwice
<1>5. q[k] \notin ToSet(p)
  BY <1>1, <1>2, <1>3 DEF NotTwice, ToSet
<1>6. ASSUME NEW v \in Wares \ {q[k]}
      PROVE  v \in ToSet(p) <=> v \in ToSet(q)
  <2>1. ASSUME v \in ToSet(q) PROVE v \in ToSet(p)
    <3>1. PICK i \in 1..n : q[i] = v
      BY <1>3, <2>1 DEF ToSet
    <3>2. i # k
      BY <3>1
    <3>3. CASE i < k
      BY <1>1, <1>2, <1>3, <3>1, <3>3 DEF ToSet
    <3>4. CASE i > k
      <4>1. i - 1 \in 1..(n - 1) /\ ~(i - 1 < k) /\ p[i - 1] = v
        <5>1. i - 1 \in 1..(n - 1) /\ ~(i - 1 < k)
          BY <1>1, <3>4
        <5>2. p[i - 1] = q[i - 1 + 1] /\ i - 1 + 1 = i
          BY <1>2, <5>1
        <5> QED BY <3>1, <5>1, <5>2
      <4> QED BY <1>3, <4>1 DEF ToSet
    <3> QED BY <3>2, <3>3, <3>4
  <2>2. ASSUME v \in ToSet(p) PROVE v \in ToSet(q)
    BY <1>1, <1>2, <1>3, <2>2 DEF ToSet
  <2> QED BY <2>1, <2>2
<1> QED BY <1>2, <1>4, <1>5, <1>6 DEF p

-----------------------------------------------------------------------------
(* A ware moves within a house, or between it and its workers. *)

(* The net is good but for what is said of ware w. *)
GoodExcept(s, w) ==
  /\ s \in NetKind
  /\ \A k \in Carriers : CarOK(s.car[k], k, s.roads)
  /\ \A f \in Flags : Fits(s.lying[f])
  /\ \A h \in Houses : NotTwice(s.house[h].waiting)
  /\ \A v \in Wares \ {w} : PlacedAt(s, v)

LEMMA ExceptGood ==
  ASSUME NEW s, NEW w, GoodExcept(s, w), w \in Wares => PlacedAt(s, w)
  PROVE  Good(s)
BY DEF GoodExcept, Good, GoodFor

(* The same of ware v in house states b and c. *)
HouseSame(b, c, v) ==
  /\ v \in ToSet(c.waiting) <=> v \in ToSet(b.waiting)
  /\ v \in c.out <=> v \in b.out
  /\ v \in c.back <=> v \in b.back
  /\ v \in c.in <=> v \in b.in

(* Only house h and ware w change. *)
OnlyIn(s, t, h, w) ==
  /\ t \in NetKind /\ t.roads = s.roads /\ t.lying = s.lying /\ t.car = s.car
  /\ \A g \in Houses \ {h} : t.house[g] = s.house[g]
  /\ \A x \in Wares \ {w} : t.ware[x] = s.ware[x]

(* Ware w is at the place of this kind of house state c. *)
InHouse(c, w, kind) ==
  /\ w \in ToSet(c.waiting) <=> kind = "waiting"
  /\ w \in c.out <=> kind = "out"
  /\ w \in c.back <=> kind = "back"
  /\ w \in c.in <=> kind = "in"

(* House state b becomes c: ware w gets to the place of this kind. *)
Moves(b, c, w, kind) ==
  /\ NotTwice(c.waiting)
  /\ InHouse(c, w, kind)
  /\ \A x \in Wares \ {w} : HouseSame(b, c, x)

HouseKinds == {"waiting", "out", "back", "in", "gone"}

(* What a ware at such a place says of itself. *)
Says(v, kind) ==
  IF kind = "gone" THEN v.st = "stock" /\ v.goal \in Houses
  ELSE IF kind = "waiting" THEN v.st \in {"waiting", "carried"}
  ELSE v.st = "carried"

(* Ware w is somewhere in house h, or nowhere. *)
WasInHouse(s, w, h) ==
  \E kind \in HouseKinds : \E p : Where(s, w, kind, p) /\ (kind = "gone" \/ p = h)

LEMMA WhereInHouse ==
  ASSUME NEW s, NEW t, NEW h \in Houses, NEW w, NEW kind \in HouseKinds,
         WasInHouse(s, w, h), OnlyIn(s, t, h, w), InHouse(t.house[h], w, kind)
  PROVE  Where(t, w, kind, h)
<1>0. PICK from \in HouseKinds : \E p : Where(s, w, from, p) /\ (from = "gone" \/ p = h)
  BY DEF WasInHouse
<1>1. PICK p : Where(s, w, from, p) /\ (from = "gone" \/ p = h)
  BY <1>0
<1>2. from # "flag" /\ from # "hand" /\ kind # "flag" /\ kind # "hand"
  BY DEF HouseKinds
<1>3. /\ \A f \in Flags : w \notin t.lying[f]
      /\ \A k \in Carriers : t.car[k].hand # w
  BY <1>1, <1>2 DEF Where, OnlyIn
<1>4. \A g \in Houses \ {h} : /\ w \notin ToSet(t.house[g].waiting) /\ w \notin t.house[g].out
                              /\ w \notin t.house[g].back /\ w \notin t.house[g].in
  BY <1>1 DEF Where, OnlyIn, HouseKinds
<1> QED BY <1>2, <1>3, <1>4 DEF Where, InHouse

LEMMA PlaceSaid ==
  ASSUME NEW s, NEW h \in Houses, NEW w, NEW kind \in HouseKinds,
         Where(s, w, kind, h), Says(s.ware[w], kind)
  PROVE  PlacedAt(s, w)
<1>1. CASE kind = "gone"
  <2>1. Where(s, w, "gone", NoWare)
    BY <1>1 DEF Where
  <2> QED BY <1>1, <2>1 DEF PlacedAt, Says
<1>2. CASE kind = "waiting"
  BY <1>2 DEF PlacedAt, Says
<1>3. CASE kind \in {"out", "back", "in"}
  BY <1>3 DEF PlacedAt, Says
<1> QED BY <1>1, <1>2, <1>3 DEF HouseKinds

LEMMA HouseMove ==
  ASSUME NEW s, Good(s), NEW t, NEW h \in Houses, NEW w \in Wares, NEW kind \in HouseKinds,
         WasInHouse(s, w, h), OnlyIn(s, t, h, w), Moves(s.house[h], t.house[h], w, kind)
  PROVE  GoodExcept(t, w) /\ Where(t, w, kind, h)
<1>1. \A v \in Wares \ {w} : PlacedAt(t, v)
  <2> SUFFICES ASSUME NEW v \in Wares \ {w} PROVE PlacedAt(t, v)
    OBVIOUS
  <2>1. \A g \in Houses : HouseSame(s.house[g], t.house[g], v)
    BY DEF Moves, OnlyIn, HouseSame
  <2>2. Stays(s, t, v)
    BY <2>1 DEF OnlyIn, HouseSame, Stays, WareCalm
  <2> QED BY <2>2, StaysPlaced DEF Good, GoodFor
<1>2. \A g \in Houses : NotTwice(t.house[g].waiting)
  BY DEF Good, GoodFor, Moves, OnlyIn
<1>3. Where(t, w, kind, h)
  BY WhereInHouse DEF Moves
<1> QED BY <1>1, <1>2, <1>3 DEF Good, GoodFor, GoodExcept, OnlyIn

LEMMA HouseMoveGood ==
  ASSUME NEW s, Good(s), NEW t, NEW h \in Houses, NEW w \in Wares, NEW kind \in HouseKinds,
         WasInHouse(s, w, h), OnlyIn(s, t, h, w), Moves(s.house[h], t.house[h], w, kind),
         Says(t.ware[w], kind)
  PROVE  Good(t)
BY HouseMove, PlaceSaid, ExceptGood

(* A ware that is nowhere is put down at a flag with room. *)
LEMMA PutGood ==
  ASSUME NEW s, NEW t, NEW w \in Wares, NEW f \in Flags, NEW p, GoodExcept(s, w), Where(s, w, "gone", p),
         Space(s, f), Put(s, t, w, f)
  PROVE  Good(t)
<1>1. s.lying \in [Flags -> SUBSET Wares] /\ t.lying = [s.lying EXCEPT ![f] = @ \cup {w}]
  BY Fields DEF GoodExcept, Put
<1>2. \A g \in Flags : Fits(t.lying[g])
  <2>1. Fits(t.lying[f])
    <3>1. t.lying[f] = s.lying[f] \cup {w}
      BY <1>1
    <3>2. IsFiniteSet(s.lying[f]) /\ Cardinality(s.lying[f]) < Capacity
      BY DEF GoodExcept, Fits, Space
    <3> QED BY <3>1, <3>2, FitsMore
  <2> QED BY <1>1, <2>1 DEF GoodExcept
<1>3. \A j \in Carriers : CarOK(t.car[j], j, t.roads)
  BY DEF GoodExcept, Put, Hush, CarCalm
<1>4. \A h \in Houses : NotTwice(t.house[h].waiting)
  BY DEF GoodExcept, Put, Hush, HouseCalm
<1>5. \A v \in Wares \ {w} : PlacedAt(t, v)
  <2> SUFFICES ASSUME NEW v \in Wares \ {w} PROVE PlacedAt(t, v)
    OBVIOUS
  <2>1. \A g \in Flags : v \in t.lying[g] <=> v \in s.lying[g]
    BY <1>1
  <2>2. Stays(s, t, v)
    BY <2>1 DEF Stays, Put, Hush, CarCalm, HouseCalm
  <2> QED BY <2>2, StaysPlaced DEF GoodExcept
<1>6. PlacedAt(t, w)
  <2>1. \A g \in Flags : w \in t.lying[g] <=> g = f
    BY <1>1 DEF Where
  <2>2. \A j \in Carriers : t.car[j].hand # w
    BY DEF Where, Put, Hush, CarCalm
  <2>3. Where(t, w, "flag", f)
    BY <2>1, <2>2 DEF Where, Put, Hush, HouseCalm
  <2> QED BY <2>3 DEF PlacedAt, Put
<1> QED BY <1>2, <1>3, <1>4, <1>5, <1>6, ExceptGood DEF GoodExcept, Put, Hush

LEMMA GonePlace ==
  ASSUME NEW s, NEW w, NEW p, Where(s, w, "gone", p)
  PROVE  Where(s, w, "gone", NoWare)
BY DEF Where

(* The workers who are sent, the one who wakes, and the like. *)
LEMMA HouseNextGood ==
  ASSUME Good(Net), NEW h \in Houses, NEW b, b \in HouseKind, HouseCalm(house[h], b),
         house' = [house EXCEPT ![h] = b], UNCHANGED <<roads, ware, lying, car>>
  PROVE  Good(Net)'
<1>1. Net \in NetKind /\ Net.house = house
  BY DEF Good, GoodFor, Net
<1>2. Quiet(Net, WithHouse(Net, h, b))
  BY <1>1, OneHouse
<1>3. Good(WithHouse(Net, h, b))
  BY <1>2, QuietGood DEF Good
<1>4. Becomes(WithHouse(Net, h, b))
  BY DEF Becomes, WithHouse, Net
<1> QED BY <1>3, <1>4, BecomesGood

WithWare(s, w, v) == [s EXCEPT !.ware[w] = v]

LEMMA WithWareSet ==
  ASSUME NEW s \in NetKind, NEW w \in Wares, NEW v \in WareKind
  PROVE  OnlyWare(s, WithWare(s, w, v), w) /\ WithWare(s, w, v).ware[w] = v
BY WareSet DEF WithWare

(* One house and one ware of it get other values. *)
LEMMA TwoSet ==
  ASSUME NEW s \in NetKind, NEW h \in Houses, NEW b \in HouseKind, NEW w \in Wares, NEW v \in WareKind,
         NEW t, t = WithWare(WithHouse(s, h, b), w, v)
  PROVE  OnlyIn(s, t, h, w) /\ t.house[h] = b /\ t.ware[w] = v
<1> DEFINE u == WithHouse(s, h, b)
<1>1. OnlyHouse(s, u, h) /\ u.house[h] = b
  BY HouseSet
<1>2. t = WithWare(u, w, v)
  OBVIOUS
<1> HIDE DEF u
<1>3. u \in NetKind
  BY <1>1 DEF OnlyHouse
<1>4. OnlyWare(u, t, w) /\ t.ware[w] = v
  BY <1>2, <1>3, WithWareSet
<1> QED BY <1>1, <1>4 DEF OnlyHouse, OnlyWare, OnlyIn

(* Where a ware in a house is, and that one in stock is nowhere. *)
LEMMA HouseWhere ==
  ASSUME NEW s, Good(s), NEW h \in Houses, NEW w \in Wares,
         \/ w \in ToSet(s.house[h].waiting)
         \/ w \in s.house[h].out \cup s.house[h].back \cup s.house[h].in
         \/ s.ware[w].st = "stock"
  PROVE  WasInHouse(s, w, h)
<1>1. PlacedAt(s, w) /\ s.ware[w].st \in {"stock", "waiting", "flag", "carried", "lost"}
  BY Fields DEF Good, GoodFor, WareKind
<1>5. PICK kind \in HouseKinds \cup {"flag", "hand"} : \E p : Where(s, w, kind, p)
  BY <1>1 DEF PlacedAt, HouseKinds
<1>2. PICK p : Where(s, w, kind, p)
  BY <1>5
<1>3. CASE s.ware[w].st = "stock"
  BY <1>1, <1>3 DEF PlacedAt, WasInHouse, HouseKinds
<1>4. CASE \/ w \in ToSet(s.house[h].waiting)
           \/ w \in s.house[h].out \cup s.house[h].back \cup s.house[h].in
  <2>1. kind \in {"waiting", "out", "back", "in"} /\ p = h
    BY <1>2, <1>4 DEF Where
  <2> QED BY <1>2, <2>1 DEF WasInHouse, HouseKinds
<1> QED BY <1>3, <1>4

(* In the house in one way, in no other. *)
LEMMA InOneWay ==
  ASSUME NEW s, Good(s), NEW h \in Houses, NEW w \in Wares
  PROVE  /\ w \in ToSet(s.house[h].waiting) => InHouse(s.house[h], w, "waiting")
         /\ w \in s.house[h].out => InHouse(s.house[h], w, "out")
         /\ w \in s.house[h].back => InHouse(s.house[h], w, "back")
         /\ w \in s.house[h].in => InHouse(s.house[h], w, "in")
         /\ s.ware[w].st = "stock" => InHouse(s.house[h], w, "gone")
<1>1. PlacedAt(s, w) /\ s.ware[w].st \in {"stock", "waiting", "flag", "carried", "lost"}
  BY Fields DEF Good, GoodFor, WareKind
<1>2. PICK kind, p : Where(s, w, kind, p)
  BY <1>1 DEF PlacedAt
<1>3. s.ware[w].st = "stock" => Where(s, w, "gone", NoWare)
  BY <1>1 DEF PlacedAt
<1> QED BY <1>2, <1>3 DEF Where, InHouse

(* A ware in stock or in a house that is not carried waits there. *)
LEMMA CarriedInHouse ==
  ASSUME NEW s, Good(s), NEW h \in Houses, NEW w \in Wares,
         w \in s.house[h].out \cup s.house[h].back \cup s.house[h].in
  PROVE  s.ware[w].st = "carried"
<1>1. PlacedAt(s, w) /\ s.ware[w].st \in {"stock", "waiting", "flag", "carried", "lost"}
  BY Fields DEF Good, GoodFor, WareKind
<1> QED BY <1>1 DEF PlacedAt, Where

-----------------------------------------------------------------------------
(* The actions of a warehouse. *)

LEMMA LeaveGood ==
  ASSUME Good(Net), NEW h \in Houses, Leave(h)
  PROVE  Good(Net)'
<1> DEFINE b == house[h]
           q == b.waiting
           More(c) == c.queued > 0 \/ c.waiting # <<>>
           Stay(c) == [c EXCEPT !.awake = More(c)]
           c1 == [b EXCEPT !.queued = b.queued - 1, !.fetching = b.fetching + 1]
           c2 == [b EXCEPT !.waiting = Tail(q), !.out = b.out \cup {Head(q)}]
           c3 == [b EXCEPT !.awake = FALSE]
<1>1. Net \in NetKind /\ Net.house = house /\ Net.ware = ware /\ b \in HouseKind
  <2>1. Net \in NetKind /\ Net.house = house /\ Net.ware = ware
    BY DEF Good, GoodFor, Net
  <2> QED BY <2>1, Fields
<1>2. \A c \in HouseKind : Stay(c) \in HouseKind /\ HouseCalm(c, Stay(c))
  BY DEF HouseKind, HouseCalm
<1>3. CASE b.queued > 0 /\ house' = [house EXCEPT ![h] = Stay(c1)] /\ UNCHANGED ware
  <2>1. b.queued - 1 \in Nat /\ b.fetching + 1 \in Nat
    BY <1>1, <1>3 DEF HouseKind
  <2>2. c1 \in HouseKind /\ HouseCalm(b, c1)
    BY <1>1, <2>1 DEF HouseKind, HouseCalm
  <2> HIDE DEF c1
  <2>3. Stay(c1) \in HouseKind /\ HouseCalm(b, Stay(c1))
    BY <1>2, <2>2 DEF HouseCalm
  <2> DEFINE c == Stay(c1)
  <2>4. house' = [house EXCEPT ![h] = c] /\ c \in HouseKind /\ HouseCalm(b, c)
    BY <1>3, <2>3
  <2> HIDE DEF c
  <2>5. UNCHANGED <<roads, ware, lying, car>>
    BY <1>3 DEF Leave
  <2> QED BY <2>4, <2>5, HouseNextGood
<1>4. CASE q # <<>> /\ house' = [house EXCEPT ![h] = Stay(c2)]
           /\ ware' = [ware EXCEPT ![Head(q)].st = "carried"]
  <2> DEFINE w == Head(q)
             v == [ware[w] EXCEPT !.st = "carried"]
  <2>1. q \in Seq(Wares) /\ NotTwice(q) /\ b.out \subseteq Wares
    BY <1>1 DEF Good, GoodFor, HouseKind
  <2>2. /\ w \in Wares /\ w \in ToSet(q)
        /\ Tail(q) \in Seq(Wares) /\ NotTwice(Tail(q)) /\ w \notin ToSet(Tail(q))
        /\ \A x \in Wares \ {w} : x \in ToSet(Tail(q)) <=> x \in ToSet(q)
    BY <1>4, <2>1, TailWaits
  <2>3. v \in WareKind /\ v.st = "carried" /\ ware' = [ware EXCEPT ![w] = v]
    <3>1. ware[w] \in WareKind
      BY <1>1, <2>2, Fields
    <3> QED BY <1>4, <3>1 DEF WareKind
  <2> HIDE DEF v
  <2> DEFINE W == Tail(q)
             O == b.out \cup {w}
  <2>4. W \in Seq(Wares) /\ O \in SUBSET Wares
    BY <2>1, <2>2
  <2>5. c2 \in HouseKind /\ c2.waiting = W /\ c2.out = O /\ c2.back = b.back /\ c2.in = b.in
    <3> HIDE DEF W, O
    <3>1. c2 = [b EXCEPT !.waiting = W, !.out = O]
      BY DEF W, O
    <3> QED BY <1>1, <2>4, <3>1 DEF HouseKind
  <2> HIDE DEF c2
  <2> DEFINE c == Stay(c2)
             t == WithWare(WithHouse(Net, h, c), w, v)
  <2>6. c \in HouseKind /\ c.waiting = Tail(q) /\ c.out = O /\ c.back = b.back /\ c.in = b.in
    BY <1>2, <2>5 DEF HouseCalm
  <2>7. house' = [house EXCEPT ![h] = c]
    BY <1>4
  <2> HIDE DEF c
  <2>8. OnlyIn(Net, t, h, w) /\ t.house[h] = c /\ t.ware[w] = v
    BY <1>1, <2>2, <2>3, <2>6, TwoSet
  <2>9. Becomes(t)
    BY <2>3, <2>7 DEF Becomes, WithWare, WithHouse, Net, Leave
  <2> HIDE DEF t
  <2>10. InHouse(b, w, "waiting")
    BY <1>1, <2>2, InOneWay
  <2>11. InHouse(c, w, "out")
    BY <2>2, <2>6, <2>10 DEF InHouse
  <2>12. Moves(b, c, w, "out")
    BY <2>2, <2>6, <2>11 DEF Moves, HouseSame
  <2>13. WasInHouse(Net, w, h)
    BY <1>1, <2>2, HouseWhere
  <2>14. Says(t.ware[w], "out") /\ "out" \in HouseKinds
    BY <2>3, <2>8 DEF Says, HouseKinds
  <2>15. Moves(Net.house[h], t.house[h], w, "out")
    BY <1>1, <2>8, <2>12
  <2>16. Good(t)
    BY <2>2, <2>8, <2>13, <2>14, <2>15, HouseMoveGood
  <2> QED BY <2>9, <2>16, BecomesGood
<1>5. CASE house' = [house EXCEPT ![h].awake = FALSE] /\ UNCHANGED ware
  <2>1. house' = [house EXCEPT ![h] = c3]
    BY <1>5
  <2>2. c3 \in HouseKind /\ HouseCalm(b, c3)
    BY <1>1 DEF HouseKind, HouseCalm
  <2> HIDE DEF c3
  <2>3. UNCHANGED <<roads, ware, lying, car>>
    BY <1>5 DEF Leave
  <2> QED BY <2>1, <2>2, <2>3, HouseNextGood
<1> QED BY <1>3, <1>4, <1>5 DEF Leave

LEMMA HouseOf ==
  ASSUME Good(Net), NEW h \in Houses
  PROVE  /\ Net \in NetKind /\ Net.roads = roads /\ Net.ware = ware /\ Net.lying = lying
         /\ Net.car = car /\ Net.house = house
         /\ house[h] \in HouseKind /\ house \in [Houses -> HouseKind] /\ NotTwice(house[h].waiting)
         /\ ware \in [Wares -> WareKind]
<1>1. Net \in NetKind /\ Net.roads = roads /\ Net.ware = ware /\ Net.lying = lying
      /\ Net.car = car /\ Net.house = house
  BY DEF Good, GoodFor, Net
<1>2. NotTwice(house[h].waiting)
  BY <1>1 DEF Good, GoodFor
<1> QED BY <1>1, <1>2, Fields

(* A worker goes out of the list of those who carry a ware to the flag. *)
LEMMA OutOf ==
  ASSUME NEW b \in HouseKind, NEW w, InHouse(b, w, "out"), NotTwice(b.waiting),
         NEW c, c = [b EXCEPT !.out = @ \ {w}]
  PROVE  c \in HouseKind /\ Moves(b, c, w, "gone") /\ c.back = b.back
<1>1. /\ c \in HouseKind /\ c.out = b.out \ {w} /\ c.waiting = b.waiting
      /\ c.back = b.back /\ c.in = b.in
  BY DEF HouseKind
<1> QED BY <1>1 DEF Moves, InHouse, HouseSame

LEMMA WorkerAtFlagGood ==
  ASSUME Good(Net), NEW h \in Houses, NEW w \in Wares, WorkerAtFlag(h, w)
  PROVE  Good(Net)'
<1> DEFINE b == house[h]
           c == [b EXCEPT !.out = @ \ {w}]
           s == WithHouse(Net, h, c)
           d == [c EXCEPT !.back = c.back \cup {w}]
<1>1. Net \in NetKind /\ Net.house = house /\ Net.ware = ware /\ b \in HouseKind /\ NotTwice(b.waiting)
  BY HouseOf
<1>2. w \in b.out /\ s = [Net EXCEPT !.house[h].out = @ \ {w}]
  BY <1>1 DEF WorkerAtFlag, WithHouse
<1>3. \/ /\ Space(s, h)
         /\ \E t \in RecalcRoute(LieAtFlag(s, w), w, h) : \E u \in FlagAddWare(t, w, h) : Becomes(u)
      \/ Becomes([s EXCEPT !.house[h].back = @ \cup {w}])
  <2> HIDE DEF s
  <2> QED BY <1>2 DEF WorkerAtFlag
<1>4. InHouse(b, w, "out") /\ ware[w].st = "carried" /\ WasInHouse(Net, w, h)
  BY <1>1, <1>2, InOneWay, CarriedInHouse, HouseWhere
<1>5. c \in HouseKind /\ Moves(b, c, w, "gone") /\ c.back = b.back
  BY <1>1, <1>4, OutOf
<1> HIDE DEF c
<1>6. OnlyHouse(Net, s, h) /\ s.house[h] = c
  BY <1>1, <1>5, HouseSet
<1>7. s \in NetKind
  BY <1>6 DEF OnlyHouse
<1>8. OnlyIn(Net, s, h, w)
  BY <1>6 DEF OnlyHouse, OnlyIn
<1>9. CASE Becomes([s EXCEPT !.house[h].back = @ \cup {w}])
  <2> DEFINE t == WithHouse(s, h, d)
  <2>1. Becomes(t)
    <3> HIDE DEF s
    <3>1. [s EXCEPT !.house[h].back = @ \cup {w}] = t
      BY <1>6 DEF WithHouse
    <3> HIDE DEF t
    <3> QED BY <1>9, <3>1
  <2> HIDE DEF s
  <2>2. d \in HouseKind /\ d.back = c.back \cup {w} /\ d.out = c.out /\ d.waiting = c.waiting /\ d.in = c.in
    <3> DEFINE B == c.back \cup {w}
    <3>1. B \in SUBSET Wares
      BY <1>5 DEF HouseKind
    <3> HIDE DEF B
    <3>2. d = [c EXCEPT !.back = B]
      BY DEF B
    <3>3. d.back = B /\ d \in HouseKind /\ d.out = c.out /\ d.waiting = c.waiting /\ d.in = c.in
      BY <1>5, <3>1, <3>2 DEF HouseKind
    <3> QED BY <3>3 DEF B
  <2> HIDE DEF d
  <2>3. OnlyHouse(s, t, h) /\ t.house[h] = d
    BY <1>7, <2>2, HouseSet
  <2> HIDE DEF t
  <2>4. OnlyIn(Net, t, h, w)
    BY <1>8, <2>3 DEF OnlyHouse, OnlyIn
  <2>5. Moves(b, d, w, "back")
    BY <1>4, <1>5, <2>2 DEF Moves, InHouse, HouseSame
  <2>6. t.ware[w].st = "carried"
    BY <1>1, <1>4, <1>6, <2>3 DEF OnlyHouse
  <2>7. Says(t.ware[w], "back") /\ "back" \in HouseKinds
    BY <2>6 DEF Says, HouseKinds
  <2>8. Moves(Net.house[h], t.house[h], w, "back")
    BY <1>1, <2>3, <2>5
  <2> QED BY <1>4, <2>1, <2>4, <2>7, <2>8, HouseMoveGood, BecomesGood
<1>10. CASE /\ Space(s, h)
            /\ \E t \in RecalcRoute(LieAtFlag(s, w), w, h) : \E u \in FlagAddWare(t, w, h) : Becomes(u)
  <2> HIDE DEF s
  <2>1. h \in Flags
    BY TransportAssumption
  <2>2. PICK t \in RecalcRoute(LieAtFlag(s, w), w, h) : \E u \in FlagAddWare(t, w, h) : Becomes(u)
    BY <1>10
  <2>3. PICK u \in FlagAddWare(t, w, h) : Becomes(u)
    BY <2>2
  <2>4. Put(s, u, w, h)
    BY <1>7, <1>10, <2>1, RecalcPut
  <2>5. Moves(Net.house[h], s.house[h], w, "gone") /\ "gone" \in HouseKinds
    BY <1>1, <1>5, <1>6 DEF HouseKinds
  <2>6. GoodExcept(s, w) /\ Where(s, w, "gone", h)
    BY <1>4, <1>8, <2>5, HouseMove
  <2>7. Good(u)
    BY <1>10, <2>1, <2>4, <2>6, PutGood
  <2> QED BY <2>3, <2>7, BecomesGood
<1> QED BY <1>3, <1>9, <1>10

LEMMA AddWaitingWareGood ==
  ASSUME Good(Net), NEW h \in Houses, NEW w \in Wares, AddWaitingWare(h, w)
  PROVE  Good(Net)'
<1> DEFINE b == house[h]
           W == Append(b.waiting, w)
           B == b.back \ {w}
           c == [b EXCEPT !.back = B, !.waiting = W, !.awake = TRUE]
           t == WithHouse(Net, h, c)
<1>1. Net \in NetKind /\ Net.house = house /\ Net.ware = ware /\ b \in HouseKind /\ NotTwice(b.waiting)
      /\ house \in [Houses -> HouseKind]
  BY HouseOf
<1>2. w \in b.back
  BY DEF AddWaitingWare
<1>3. InHouse(b, w, "back") /\ ware[w].st = "carried" /\ WasInHouse(Net, w, h)
  BY <1>1, <1>2, InOneWay, CarriedInHouse, HouseWhere
<1>4. b.waiting \in Seq(Wares) /\ b.back \subseteq Wares
  BY <1>1 DEF HouseKind
<1>5. w \notin ToSet(b.waiting)
  BY <1>3 DEF InHouse
<1>6. /\ W \in Seq(Wares) /\ NotTwice(W) /\ w \in ToSet(W) /\ B \in SUBSET Wares
      /\ \A v \in Wares \ {w} : v \in ToSet(W) <=> v \in ToSet(b.waiting)
  BY <1>1, <1>4, <1>5, AppendWaits
<1>7. w \notin B /\ \A v : v # w => (v \in B <=> v \in b.back)
  OBVIOUS
<1>8. house' = [house EXCEPT ![h].back = b.back \ {w}, ![h].waiting = Append(b.waiting, w), ![h].awake = TRUE]
  BY DEF AddWaitingWare
<1> HIDE DEF W, B
<1>9. house' = [house EXCEPT ![h].back = B, ![h].waiting = W, ![h].awake = TRUE]
  BY <1>8 DEF W, B
<1>10. house' = [house EXCEPT ![h] = c]
  BY <1>1, <1>9 DEF HouseKind
<1>11. c \in HouseKind /\ c.waiting = W /\ c.back = B /\ c.out = b.out /\ c.in = b.in
  BY <1>1, <1>6 DEF HouseKind
<1> HIDE DEF c
<1>12. Becomes(t)
  BY <1>10 DEF Becomes, WithHouse, Net, AddWaitingWare
<1>13. OnlyHouse(Net, t, h) /\ t.house[h] = c
  BY <1>1, <1>11, HouseSet
<1> HIDE DEF t
<1>14. OnlyIn(Net, t, h, w)
  BY <1>13 DEF OnlyHouse, OnlyIn
<1>15. Moves(b, c, w, "waiting")
  BY <1>3, <1>6, <1>7, <1>11 DEF Moves, InHouse, HouseSame
<1>16. Says(t.ware[w], "waiting") /\ "waiting" \in HouseKinds
  BY <1>1, <1>3, <1>13 DEF OnlyHouse, Says, HouseKinds
<1>17. Moves(Net.house[h], t.house[h], w, "waiting")
  BY <1>1, <1>13, <1>15
<1> QED BY <1>3, <1>12, <1>14, <1>16, <1>17, HouseMoveGood, BecomesGood

LEMMA AddWareGood ==
  ASSUME Good(Net), NEW h \in Houses, NEW w \in Wares, AddWare(h, w)
  PROVE  Good(Net)'
<1> DEFINE b == house[h]
           I == b.in \ {w}
           c == [b EXCEPT !.in = I]
           s == WithHouse(Net, h, c)
           t == Stored(s, w, h)
<1>1. Net \in NetKind /\ Net.house = house /\ b \in HouseKind /\ NotTwice(b.waiting)
  BY HouseOf
<1>2. w \in b.in /\ Becomes(t)
  <2>1. s = [Net EXCEPT !.house[h].in = @ \ {w}]
    BY <1>1 DEF WithHouse
  <2> HIDE DEF s
  <2> QED BY <2>1 DEF AddWare
<1>3. InHouse(b, w, "in") /\ WasInHouse(Net, w, h)
  BY <1>1, <1>2, InOneWay, HouseWhere
<1>4. I \in SUBSET Wares /\ w \notin I /\ \A v : v # w => (v \in I <=> v \in b.in)
  BY <1>1 DEF HouseKind
<1> HIDE DEF I
<1>5. c \in HouseKind /\ c.in = I /\ c.waiting = b.waiting /\ c.back = b.back /\ c.out = b.out
  BY <1>1, <1>4 DEF HouseKind
<1> HIDE DEF c
<1>6. OnlyHouse(Net, s, h) /\ s.house[h] = c
  BY <1>1, <1>5, HouseSet
<1> HIDE DEF s
<1>7. s \in NetKind
  BY <1>6 DEF OnlyHouse
<1>8. OnlyWare(s, t, w) /\ t.ware[w].st = "stock" /\ t.ware[w].goal = h
  BY <1>7, StoredField
<1> HIDE DEF t
<1>9. OnlyIn(Net, t, h, w) /\ t.house[h] = c
  BY <1>6, <1>8 DEF OnlyHouse, OnlyWare, OnlyIn
<1>10. Moves(b, c, w, "gone")
  BY <1>1, <1>3, <1>4, <1>5 DEF Moves, InHouse, HouseSame
<1>11. Says(t.ware[w], "gone") /\ "gone" \in HouseKinds
  BY <1>8 DEF Says, HouseKinds
<1>12. Moves(Net.house[h], t.house[h], w, "gone")
  BY <1>1, <1>9, <1>10
<1> QED BY <1>2, <1>3, <1>9, <1>11, <1>12, HouseMoveGood, BecomesGood

LEMMA OrderWareGood ==
  ASSUME Good(Net), NEW w \in Wares, NEW goal \in Houses, OrderWare(w, goal)
  PROVE  Good(Net)'
<1> DEFINE h == ware[w].goal
           b == house[h]
           W == Append(b.waiting, w)
           c == [b EXCEPT !.waiting = W, !.awake = TRUE]
           v == [st |-> "waiting", goal |-> goal, dir |-> NoDir]
           t == WithWare(WithHouse(Net, h, c), w, v)
<1>1. h \in Houses /\ ware[w].st = "stock"
  BY DEF Good, GoodFor, PlacedAt, OrderWare, Net
<1>2. Net \in NetKind /\ Net.house = house /\ Net.ware = ware /\ b \in HouseKind /\ NotTwice(b.waiting)
      /\ house \in [Houses -> HouseKind]
  BY <1>1, HouseOf
<1>3. house' = [house EXCEPT ![h].waiting = Append(b.waiting, w), ![h].awake = TRUE]
      /\ ware' = [ware EXCEPT ![w] = v]
  BY DEF OrderWare
<1>4. InHouse(b, w, "gone") /\ WasInHouse(Net, w, h)
  <2> HIDE DEF h
  <2> QED BY <1>1, <1>2, InOneWay, HouseWhere
<1> HIDE DEF h
<1>5. b.waiting \in Seq(Wares) /\ w \notin ToSet(b.waiting)
  BY <1>2, <1>4 DEF HouseKind, InHouse
<1>6. /\ W \in Seq(Wares) /\ NotTwice(W) /\ w \in ToSet(W)
      /\ \A x \in Wares \ {w} : x \in ToSet(W) <=> x \in ToSet(b.waiting)
  BY <1>2, <1>5, AppendWaits
<1>7. v \in WareKind /\ v.st = "waiting"
  BY DEF WareKind
<1> HIDE DEF v, W
<1>8. house' = [house EXCEPT ![h].waiting = W, ![h].awake = TRUE]
  BY <1>3 DEF W
<1>9. house' = [house EXCEPT ![h] = c]
  BY <1>1, <1>2, <1>8 DEF HouseKind
<1>10. c \in HouseKind /\ c.waiting = W /\ c.back = b.back /\ c.out = b.out /\ c.in = b.in
  BY <1>2, <1>6 DEF HouseKind
<1> HIDE DEF c
<1>11. OnlyIn(Net, t, h, w) /\ t.house[h] = c /\ t.ware[w] = v
  BY <1>1, <1>2, <1>7, <1>10, TwoSet
<1>12. Becomes(t)
  BY <1>3, <1>9 DEF Becomes, WithWare, WithHouse, Net, OrderWare
<1> HIDE DEF t
<1>13. Moves(b, c, w, "waiting")
  BY <1>4, <1>6, <1>10 DEF Moves, InHouse, HouseSame
<1>14. Says(t.ware[w], "waiting") /\ "waiting" \in HouseKinds
  BY <1>7, <1>11 DEF Says, HouseKinds
<1>15. Moves(Net.house[h], t.house[h], w, "waiting")
  BY <1>2, <1>11, <1>13
<1> QED BY <1>1, <1>4, <1>11, <1>12, <1>14, <1>15, HouseMoveGood, BecomesGood

(* A worker takes ware w, which lies at the flag f before its house. *)
FetchedIn(s, t, f, w) ==
  /\ t \in NetKind /\ t.roads = s.roads
  /\ \A k \in Carriers : CarCalm(s.car[k], t.car[k], k, s.roads)
  /\ t.lying = [s.lying EXCEPT ![f] = @ \ {w}]
  /\ t.ware[w].st = "carried" /\ \A v \in Wares \ {w} : WareCalm(s.ware[v], t.ware[v])
  /\ \A h \in Houses \ {f} : HouseCalm(s.house[h], t.house[h])
  /\ t.house[f].waiting = s.house[f].waiting /\ t.house[f].out = s.house[f].out
  /\ t.house[f].back = s.house[f].back /\ t.house[f].in = s.house[f].in \cup {w}

LEMMA FetchedInGood ==
  ASSUME NEW s, NEW t, Good(s), NEW f \in Houses, NEW w \in Wares, w \in s.lying[f], FetchedIn(s, t, f, w)
  PROVE  Good(t)
<1>0. s \in NetKind /\ f \in Flags
  BY TransportAssumption DEF Good, GoodFor
<1>1. s.lying \in [Flags -> SUBSET Wares] /\ t.lying = [s.lying EXCEPT ![f] = @ \ {w}]
  BY <1>0, Fields DEF FetchedIn
<1>2. \A g \in Flags : Fits(t.lying[g])
  <2>1. \A g \in Flags : t.lying[g] \subseteq s.lying[g]
    BY <1>1
  <2> QED BY <2>1, FitsLess DEF Good, GoodFor
<1>3. \A h \in Houses : NotTwice(t.house[h].waiting)
  BY DEF Good, GoodFor, FetchedIn, HouseCalm
<1>4. \A k \in Carriers : CarOK(t.car[k], k, t.roads)
  BY DEF Good, GoodFor, FetchedIn, CarCalm
<1>5. \A v \in Wares \ {w} : PlacedAt(t, v)
  <2> SUFFICES ASSUME NEW v \in Wares \ {w} PROVE PlacedAt(t, v)
    OBVIOUS
  <2>1. \A g \in Flags : v \in t.lying[g] <=> v \in s.lying[g]
    BY <1>1
  <2>2. \A h \in Houses : HouseSame(s.house[h], t.house[h], v)
    BY DEF FetchedIn, HouseCalm, HouseSame
  <2>3. Stays(s, t, v)
    BY <2>1, <2>2 DEF Stays, HouseSame, FetchedIn, CarCalm
  <2> QED BY <2>3, StaysPlaced DEF Good, GoodFor
<1>6. PlacedAt(t, w)
  <2>1. Where(s, w, "flag", f)
    BY <1>0, FlagWhere DEF Good, GoodFor
  <2>2. \A g \in Flags : w \notin t.lying[g]
    BY <1>1, <2>1 DEF Where
  <2>3. \A k \in Carriers : t.car[k].hand # w
    BY <2>1 DEF Where, FetchedIn, CarCalm
  <2>4. InHouse(t.house[f], w, "in") /\ \A h \in Houses \ {f} : InHouse(t.house[h], w, "gone")
    BY <2>1 DEF Where, FetchedIn, HouseCalm, InHouse
  <2>5. Where(t, w, "in", f)
    BY <2>2, <2>3, <2>4 DEF Where, InHouse
  <2> QED BY <2>5 DEF PlacedAt, FetchedIn
<1> QED BY <1>2, <1>3, <1>4, <1>5, <1>6 DEF Good, GoodFor, FetchedIn

LEMMA TakesInField ==
  ASSUME NEW u \in NetKind, NEW h \in Houses, NEW w \in Wares, NEW t, t = TakesIn(u, h, w)
  PROVE  /\ OnlyIn(u, t, h, w) /\ t.ware[w].st = "carried"
         /\ t.house[h].waiting = u.house[h].waiting /\ t.house[h].out = u.house[h].out
         /\ t.house[h].back = u.house[h].back /\ t.house[h].in = u.house[h].in \cup {w}
<1> DEFINE b == u.house[h]
           I == b.in \cup {w}
           c == [b EXCEPT !.in = I]
           v == [u.ware[w] EXCEPT !.st = "carried"]
<1>1. b \in HouseKind /\ u.ware[w] \in WareKind
  BY Fields
<1>2. v \in WareKind /\ v.st = "carried"
  BY <1>1 DEF WareKind
<1>3. t = WithWare(WithHouse(u, h, c), w, v)
  BY DEF TakesIn, WithWare, WithHouse, NetKind
<1>4. I \in SUBSET Wares
  BY <1>1 DEF HouseKind
<1> HIDE DEF v, I
<1>5. c \in HouseKind /\ c.waiting = b.waiting /\ c.out = b.out /\ c.back = b.back /\ c.in = I
  BY <1>1, <1>4 DEF HouseKind
<1> HIDE DEF c
<1>6. OnlyIn(u, t, h, w) /\ t.house[h] = c /\ t.ware[w] = v
  BY <1>2, <1>3, <1>5, TwoSet
<1> QED BY <1>2, <1>5, <1>6 DEF I

LEMMA WorkerFetchesGood ==
  ASSUME Good(Net), NEW h \in Houses, WorkerFetches(h)
  PROVE  Good(Net)'
<1> DEFINE b == house[h]
           n == b.fetching - 1
           c == [b EXCEPT !.fetching = n]
           s == WithHouse(Net, h, c)
           X(w) == SelectWare(s, h, Door, w, FALSE, h)
<1>1. Net \in NetKind /\ Net.house = house /\ b \in HouseKind /\ h \in Flags
  BY HouseOf, TransportAssumption
<1>2. s = [Net EXCEPT !.house[h].fetching = @ - 1] /\ b.fetching > 0
  BY <1>1 DEF WithHouse, WorkerFetches
<1>3. n \in Nat
  BY <1>1, <1>2 DEF HouseKind
<1>4. c \in HouseKind /\ HouseCalm(b, c)
  <2> HIDE DEF n
  <2> QED BY <1>1, <1>3 DEF HouseKind, HouseCalm
<1>5. \/ Becomes(X(NoWare))
      \/ \E w \in WaresForRoad(s, h, Door) : Becomes(TakesIn(X(w), h, w))
  <2> HIDE DEF s
  <2> QED BY <1>2 DEF WorkerFetches
<1> HIDE DEF c
<1>6. Quiet(Net, s)
  BY <1>1, <1>4, OneHouse
<1> HIDE DEF s
<1>7. Good(s) /\ s \in NetKind
  <2>1. Good(s)
    BY <1>6, QuietGood DEF Good
  <2> QED BY <2>1 DEF Good, GoodFor
<1>8. s.lying \in [Flags -> SUBSET Wares]
  BY <1>7, Fields
<1>9. CASE Becomes(X(NoWare))
  <2> DEFINE t == X(NoWare)
  <2>1. QuietAt(s, t, h, s.lying[h] \ {NoWare})
    BY <1>1, <1>7, SelectQuiet
  <2> HIDE DEF t
  <2>2. s.lying[h] \ {NoWare} = s.lying[h]
    BY <1>1, <1>8, TransportAssumption
  <2>3. t.lying = s.lying
    BY <1>1, <1>8, <2>1, <2>2 DEF QuietAt
  <2>4. Quiet(s, t)
    BY <2>1, <2>3 DEF Quiet, QuietAt
  <2>5. Good(t)
    BY <1>7, <2>4, QuietGood DEF Good
  <2> QED BY <1>9, <2>5, BecomesGood DEF t
<1>10. ASSUME NEW w \in WaresForRoad(s, h, Door), Becomes(TakesIn(X(w), h, w))
       PROVE  Good(Net)'
  <2>1. w \in s.lying[h] /\ w \in Wares
    BY <1>1, <1>8 DEF WaresForRoad
  <2> DEFINE u == X(w)
             t == TakesIn(u, h, w)
  <2>2. QuietAt(s, u, h, s.lying[h] \ {w})
    BY <1>1, <1>7, SelectQuiet
  <2> HIDE DEF u
  <2>3. u \in NetKind
    BY <2>2 DEF QuietAt, Hush
  <2>4. /\ OnlyIn(u, t, h, w) /\ t.ware[w].st = "carried"
        /\ t.house[h].waiting = u.house[h].waiting /\ t.house[h].out = u.house[h].out
        /\ t.house[h].back = u.house[h].back /\ t.house[h].in = u.house[h].in \cup {w}
    BY <2>1, <2>3, TakesInField
  <2> HIDE DEF t
  <2>5. \A g \in Houses : HouseCalm(s.house[g], u.house[g])
    BY <2>2 DEF QuietAt, Hush
  <2>6. FetchedIn(s, t, h, w)
    BY <1>8, <2>2, <2>4, <2>5 DEF FetchedIn, QuietAt, Hush, OnlyIn, WaresCalm, HouseCalm
  <2>7. Good(t)
    BY <1>7, <2>1, <2>6, FetchedInGood
  <2>8. Becomes(t)
    BY <1>10 DEF t, u
  <2> QED BY <2>7, <2>8, BecomesGood
<1> QED BY <1>5, <1>9, <1>10

-----------------------------------------------------------------------------
(* A road is pulled down or built: every ware takes a new route. *)

LEMMA RerouteGood ==
  ASSUME NEW s, Good(s), NEW w \in Wares, NEW t \in Reroute(s, w)
  PROVE  Good(t)
<1> DEFINE f == CHOOSE g \in Flags : w \in s.lying[g]
           h == CHOOSE g \in Houses : w \in ToSet(s.house[g].waiting)
           d == s.ware[w].dir
           q == s.house[h].waiting
           i == CHOOSE j \in 1..Len(q) : q[j] = w
           left == RemoveAt(q, i)
           c == [s.house[h] EXCEPT !.waiting = left]
           u == WithHouse(s, h, c)
<1>1. s \in NetKind /\ PlacedAt(s, w)
  BY DEF Good, GoodFor
<1>2. \/ t = s
      \/ /\ s.ware[w].st = "flag"
         /\ t \in UNION {AddWareJob(RemoveWareJobForCurrentDir(x, f, d), w, f) : x \in RecalcRoute(s, w, f)}
      \/ s.ware[w].st = "waiting" /\ t = Stored(u, w, h)
  <2>1. u = [s EXCEPT !.house[h].waiting = left]
    BY DEF WithHouse
  <2> HIDE DEF u
  <2> QED BY <2>1 DEF Reroute
<1>3. CASE /\ s.ware[w].st = "flag"
           /\ t \in UNION {AddWareJob(RemoveWareJobForCurrentDir(x, f, d), w, f) : x \in RecalcRoute(s, w, f)}
  <2> HIDE DEF f, d
  <2>1. PICK x \in RecalcRoute(s, w, f) : t \in AddWareJob(RemoveWareJobForCurrentDir(x, f, d), w, f)
    BY <1>3
  <2> DEFINE y == RemoveWareJobForCurrentDir(x, f, d)
  <2>2. Quiet(s, x)
    BY <1>1, <1>3, RecalcQuiet
  <2>3. x \in NetKind
    BY <2>2 DEF Quiet, Hush
  <2>4. Quiet(x, y)
    BY <2>3, CurrentDirQuiet
  <2>5. t \in AddWareJob(y, w, f)
    BY <2>1
  <2> HIDE DEF y
  <2>6. y \in NetKind
    BY <2>4 DEF Quiet, Hush
  <2>7. Quiet(y, t)
    BY <2>5, <2>6, AddJobQuiet
  <2>8. Quiet(s, t)
    BY <2>2, <2>4, <2>7, QuietTrans
  <2> QED BY <2>8, QuietGood DEF Good
<1>4. CASE s.ware[w].st = "waiting" /\ t = Stored(u, w, h)
  <2>1. PICK g \in Houses : Where(s, w, "waiting", g)
    BY <1>1, <1>4 DEF PlacedAt
  <2>2. \E x \in Houses : w \in ToSet(s.house[x].waiting)
    BY <2>1 DEF Where
  <2>3. h \in Houses /\ w \in ToSet(q)
    BY <2>2
  <2> HIDE DEF h
  <2>4. q \in Seq(Wares) /\ NotTwice(q) /\ s.house[h] \in HouseKind
    BY <1>1, <2>3, Fields DEF Good, GoodFor, HouseKind
  <2>5. \E j \in 1..Len(q) : q[j] = w
    BY <2>3, <2>4 DEF ToSet
  <2>6. i \in 1..Len(q) /\ q[i] = w
    BY <2>5
  <2> HIDE DEF i
  <2>7. /\ left \in Seq(Wares) /\ NotTwice(left) /\ w \notin ToSet(left)
        /\ \A v \in Wares \ {w} : v \in ToSet(left) <=> v \in ToSet(q)
    <3> DEFINE p == q
    <3>1. p \in Seq(Wares) /\ NotTwice(p) /\ i \in 1..Len(p) /\ p[i] = w /\ left = RemoveAt(p, i)
      BY <2>4, <2>6
    <3> HIDE DEF p, left
    <3>2. /\ left \in Seq(Wares) /\ NotTwice(left) /\ w \notin ToSet(left)
          /\ \A v \in Wares \ {w} : v \in ToSet(left) <=> v \in ToSet(p)
      BY <3>1, RemoveWaits
    <3> QED BY <3>2 DEF p
  <2> HIDE DEF left
  <2>8. /\ c \in HouseKind /\ c.waiting = left /\ c.out = s.house[h].out
        /\ c.back = s.house[h].back /\ c.in = s.house[h].in
    BY <2>4, <2>7 DEF HouseKind
  <2> HIDE DEF c
  <2>9. OnlyHouse(s, u, h) /\ u.house[h] = c
    BY <1>1, <2>3, <2>8, HouseSet
  <2> HIDE DEF u
  <2>10. u \in NetKind
    BY <2>9 DEF OnlyHouse
  <2>11. OnlyWare(u, t, w) /\ t.ware[w].st = "stock" /\ t.ware[w].goal = h
    BY <1>4, <2>3, <2>10, StoredField
  <2>12. OnlyIn(s, t, h, w) /\ t.house[h] = c
    BY <2>9, <2>11 DEF OnlyHouse, OnlyWare, OnlyIn
  <2>13. InHouse(s.house[h], w, "waiting") /\ WasInHouse(s, w, h)
    BY <2>3, InOneWay, HouseWhere
  <2>14. Moves(s.house[h], t.house[h], w, "gone")
    BY <2>7, <2>8, <2>12, <2>13 DEF Moves, InHouse, HouseSame
  <2>15. Says(t.ware[w], "gone") /\ "gone" \in HouseKinds
    BY <2>3, <2>11 DEF Says, HouseKinds
  <2> QED BY <2>3, <2>12, <2>13, <2>14, <2>15, HouseMoveGood
<1> QED BY <1>2, <1>3, <1>4

LEMMA FindRouteGood ==
  ASSUME NEW s, Good(s), NEW w \in Wares, NEW t \in FindRouteToWarehouse(s, w)
  PROVE  Good(t)
<1> DEFINE f == CHOOSE g \in Flags : w \in s.lying[g]
           Found(h) == {Routed(s, w, h, d) : d \in FindPathForWare(s.roads, f, h)}
           found == UNION {Found(h) : h \in Houses}
<1>1. s \in NetKind
  BY DEF Good, GoodFor
<1>2. \/ t = s
      \/ s.ware[w].st = "flag" /\ t \in UNION {AddWareJob(x, w, f) : x \in found}
  BY DEF FindRouteToWarehouse
<1> HIDE DEF f
<1>3. ASSUME s.ware[w].st = "flag", t \in UNION {AddWareJob(x, w, f) : x \in found}
      PROVE  Good(t)
  <2>1. PICK x \in found : t \in AddWareJob(x, w, f)
    BY <1>3
  <2>2. PICK h \in Houses : x \in Found(h)
    BY <2>1
  <2>3. PICK d \in FindPathForWare(s.roads, f, h) : x = Routed(s, w, h, d)
    BY <2>2
  <2>4. d \in Roads \cup {Door, NoDir}
    <3>1. s.roads \in SUBSET Roads
      BY <1>1, Fields
    <3> QED BY <2>3, <3>1, PathKind
  <2>5. s.ware[w].st # "stock" /\ h \in Houses \cup {NoGoal}
    BY <1>3
  <2>6. Quiet(s, x)
    BY <1>1, <2>3, <2>4, <2>5, RoutedQuiet
  <2>7. x \in NetKind
    BY <2>6 DEF Quiet, Hush
  <2>8. Quiet(x, t)
    BY <2>1, <2>7, AddJobQuiet
  <2>9. Quiet(s, t)
    BY <2>6, <2>8, QuietTrans
  <2> QED BY <2>9, QuietGood DEF Good
<1> QED BY <1>2, <1>3

(* One of the two calls, and all of them in the order q. *)
Call(lost, s, w) == IF lost THEN FindRouteToWarehouse(s, w) ELSE Reroute(s, w)

Calls(lost, s, q, n, g) ==
  g = [i \in 0..n |-> IF i = 0 THEN {s} ELSE UNION {Call(lost, t, q[i]) : t \in g[i - 1]}]

LEMMA CallGood ==
  ASSUME NEW lost, NEW s, Good(s), NEW w \in Wares, NEW t \in Call(lost, s, w)
  PROVE  Good(t)
BY RerouteGood, FindRouteGood DEF Call

(* A set of numbers has a least one. *)
LEMMA Least ==
  ASSUME NEW S, S \subseteq Nat, S # {}
  PROVE  \E x \in S : \A y \in S : x <= y
<1> DEFINE R == {ss \in Nat \X Nat : ss[1] < ss[2]}
<1>1. IsWellFoundedOn(R, Nat)
  BY NatLessThanWellFounded, Zenon DEF OpToRel
<1>2. \E x \in S : \A y \in S : <<y, x>> \notin R
  <2> HIDE DEF R
  <2> QED BY <1>1, WFMin, Zenon
<1>3. PICK x \in S : \A y \in S : <<y, x>> \notin R
  BY <1>2
<1>4. \A y \in S : ~(y < x)
  <2> SUFFICES ASSUME NEW y \in S, y < x PROVE FALSE
    OBVIOUS
  <2> QED BY <1>3
<1> QED BY <1>4

(* The recursion over the wares has a result. *)
LEMMA CallsEnd ==
  ASSUME NEW lost, NEW s, NEW q, NEW m \in Nat
  PROVE  \E g : Calls(lost, s, q, m, g)
<1> DEFINE S == {n \in Nat : ~\E g : Calls(lost, s, q, n, g)}
<1> SUFFICES ASSUME S # {} PROVE FALSE
  OBVIOUS
<1>1. PICK n \in S : \A y \in S : n <= y
  BY Least
<1>2. n \in Nat /\ ~\E g : Calls(lost, s, q, n, g)
  OBVIOUS
<1>3. CASE n = 0
  <2> DEFINE g == [i \in 0..0 |-> {s}]
  <2>1. \A i \in 0..0 : i = 0
    OBVIOUS
  <2>2. g = [i \in 0..0 |-> IF i = 0 THEN {s} ELSE UNION {Call(lost, t, q[i]) : t \in g[i - 1]}]
    BY <2>1
  <2> QED BY <1>2, <1>3, <2>2 DEF Calls
<1>4. CASE n # 0
  <2>1. n - 1 \in Nat /\ n - 1 \notin S
    BY <1>1, <1>2, <1>4
  <2>2. PICK g : Calls(lost, s, q, n - 1, g)
    BY <2>1
  <2> DEFINE X(a, i) == UNION {Call(lost, t, q[i]) : t \in a}
             h == [i \in 0..n |-> IF i = n THEN X(g[n - 1], n) ELSE g[i]]
  <2>3. g = [i \in 0..(n - 1) |-> IF i = 0 THEN {s} ELSE X(g[i - 1], i)]
    BY <2>2 DEF Calls
  <2> HIDE DEF X
  <2>4. \A i \in 0..(n - 1) : g[i] = IF i = 0 THEN {s} ELSE X(g[i - 1], i)
    BY <2>3
  <2>5. \A i \in 0..n : i # 0 => h[i - 1] = g[i - 1]
    BY <1>2
  <2>6. \A i \in 0..n : h[i] = IF i = 0 THEN {s} ELSE X(h[i - 1], i)
    <3> SUFFICES ASSUME NEW i \in 0..n PROVE h[i] = IF i = 0 THEN {s} ELSE X(h[i - 1], i)
      OBVIOUS
    <3>1. CASE i = n
      BY <1>2, <1>4, <2>5, <3>1
    <3>2. CASE i # n
      <4>1. i \in 0..(n - 1) /\ h[i] = g[i]
        BY <1>2, <3>2
      <4>2. i # 0 => h[i - 1] = g[i - 1]
        BY <2>5
      <4> HIDE DEF h
      <4> QED BY <2>4, <4>1, <4>2
    <3> QED BY <3>1, <3>2
  <2>7. h = [i \in 0..n |-> IF i = 0 THEN {s} ELSE X(h[i - 1], i)]
    <3>1. h = [i \in 0..n |-> h[i]]
      OBVIOUS
    <3> HIDE DEF h
    <3> QED BY <2>6, <3>1
  <2>8. Calls(lost, s, q, n, h)
    BY <2>7 DEF Calls, X
  <2> QED BY <1>2, <2>8
<1> QED BY <1>3, <1>4

(* Whatever the order, the nets it may leave are good. *)
LEMMA CallsGood ==
  ASSUME NEW lost, NEW s, Good(s), NEW m \in Nat, NEW q \in [1..m -> Wares], NEW g, Calls(lost, s, q, m, g)
  PROVE  \A t \in g[m] : Good(t)
<1> DEFINE S == {n \in 0..m : ~\A t \in g[n] : Good(t)}
<1> SUFFICES ASSUME S # {} PROVE FALSE
  OBVIOUS
<1>1. PICK n \in S : \A y \in S : n <= y
  <2>1. S \subseteq Nat
    OBVIOUS
  <2> HIDE DEF S
  <2> QED BY <2>1, Least
<1>2. n \in 0..m /\ ~\A t \in g[n] : Good(t)
  OBVIOUS
<1>3. g[n] = IF n = 0 THEN {s} ELSE UNION {Call(lost, t, q[n]) : t \in g[n - 1]}
  <2> DEFINE X(a, i) == UNION {Call(lost, t, q[i]) : t \in a}
  <2>1. g = [i \in 0..m |-> IF i = 0 THEN {s} ELSE X(g[i - 1], i)]
    BY DEF Calls
  <2> HIDE DEF X
  <2>2. g[n] = IF n = 0 THEN {s} ELSE X(g[n - 1], n)
    BY <1>2, <2>1
  <2> QED BY <2>2 DEF X
<1>4. n # 0
  BY <1>2, <1>3
<1>5. n - 1 \in 0..m /\ n - 1 \notin S
  BY <1>1, <1>2, <1>4
<1>6. \A t \in g[n - 1] : Good(t)
  BY <1>5
<1>7. q[n] \in Wares
  BY <1>2, <1>4
<1>8. \A t \in g[n] : Good(t)
  BY <1>3, <1>4, <1>6, <1>7, CallGood
<1> QED BY <1>2, <1>8

LEMMA OrderOfWares ==
  ASSUME NEW q \in SetToSeqs(Wares)
  PROVE  Len(q) \in Nat /\ q \in [1..Len(q) -> Wares]
<1> DEFINE n == Cardinality(Wares)
<1>1. n \in Nat
  BY FS_CardinalityType, TransportAssumption
<1> HIDE DEF n
<1>2. q \in [1..n -> Wares]
  BY DEF SetToSeqs, n
<1>3. q \in Seq(Wares) /\ Len(q) = n
  BY <1>1, <1>2
<1> QED BY <1>1, <1>2, <1>3

LEMMA RoadDestroyedGood ==
  ASSUME NEW s, Good(s), NEW t \in RoadDestroyed(s)
  PROVE  Good(t)
<1>1. PICK q \in SetToSeqs(Wares) : t \in AfterReroute(s, q)
  BY DEF RoadDestroyed
<1>2. Len(q) \in Nat /\ q \in [1..Len(q) -> Wares]
  BY OrderOfWares
<1> DEFINE P(g) == g = [i \in 0..Len(q) |-> IF i = 0 THEN {s} ELSE UNION {Reroute(x, q[i]) : x \in g[i - 1]}]
           nets == CHOOSE g : P(g)
<1>3. t \in nets[Len(q)]
  BY <1>1 DEF AfterReroute
<1>4. \A g : P(g) <=> Calls(FALSE, s, q, Len(q), g)
  BY DEF Calls, Call
<1>5. \E g : P(g)
  BY <1>2, <1>4, CallsEnd
<1> HIDE DEF P
<1>6. P(nets)
  BY <1>5
<1> HIDE DEF nets
<1>7. Calls(FALSE, s, q, Len(q), nets)
  BY <1>4, <1>6
<1> QED BY <1>2, <1>3, <1>7, CallsGood

LEMMA FindClientGood ==
  ASSUME NEW s, Good(s), NEW t \in FindClientForLostWares(s)
  PROVE  Good(t)
<1>1. PICK q \in SetToSeqs(Wares) : t \in AfterFindRoute(s, q)
  BY DEF FindClientForLostWares
<1>2. Len(q) \in Nat /\ q \in [1..Len(q) -> Wares]
  BY OrderOfWares
<1> DEFINE P(g) == g = [i \in 0..Len(q) |->
                          IF i = 0 THEN {s} ELSE UNION {FindRouteToWarehouse(x, q[i]) : x \in g[i - 1]}]
           nets == CHOOSE g : P(g)
<1>3. t \in nets[Len(q)]
  BY <1>1 DEF AfterFindRoute
<1>4. \A g : P(g) <=> Calls(TRUE, s, q, Len(q), g)
  BY DEF Calls, Call
<1>5. \E g : P(g)
  BY <1>2, <1>4, CallsEnd
<1> HIDE DEF P
<1>6. P(nets)
  BY <1>5
<1> HIDE DEF nets
<1>7. Calls(TRUE, s, q, Len(q), nets)
  BY <1>4, <1>6
<1> QED BY <1>2, <1>3, <1>7, CallsGood

(* Road r is gone, with its carrier and the ware in his hands; or it stands *)
(* again and waits for its carrier.                                         *)
RoadGone(s, r) ==
  LET k == <<r, 1>> held == car[k].hand IN
  /\ s \in NetKind /\ s.roads = roads \ {r} /\ s.lying = lying /\ s.house = house
  /\ k \in Carriers /\ s.car[k].st = "none" /\ \A j \in Carriers \ {k} : s.car[j] = car[j] /\ j[1] # r
  /\ \A v \in Wares \ {held} : s.ware[v] = ware[v]
  /\ held \in Wares => s.ware[held].st = "lost" /\ \A f \in Flags : held \notin lying[f]

RoadBuilt(s, r) ==
  LET k == <<r, 1>> IN
  /\ s \in NetKind /\ s.roads = roads \cup {r} /\ s.lying = lying /\ s.house = house /\ s.ware = ware
  /\ k \in Carriers /\ s.car[k].st = "coming" /\ \A j \in Carriers \ {k} : s.car[j] = car[j]

LEMMA DestroyRoadGone ==
  ASSUME Good(Net), NEW r \in Roads, DestroyRoad(r)
  PROVE  \E s : RoadGone(s, r) /\ Good(s) /\ \E t \in RoadDestroyed(s) : Becomes(t)
<1> DEFINE k == <<r, 1>>
           gone == [st |-> "none", pos |-> 0, to |-> 1, hand |-> NoWare]
           held == car[k].hand
           lost == [st |-> "lost", goal |-> NoGoal, dir |-> NoDir]
           R == roads \ {r}
           C == [car EXCEPT ![k] = gone]
           W == IF held = NoWare THEN ware ELSE [ware EXCEPT ![held] = lost]
           n1 == [Net EXCEPT !.roads = R]
           n2 == [n1 EXCEPT !.car = C]
           s == [n2 EXCEPT !.ware = W]
<1>1. /\ Net \in NetKind /\ Net.roads = roads /\ Net.ware = ware /\ Net.lying = lying
      /\ Net.car = car /\ Net.house = house
  BY DEF Good, GoodFor, Net
<1>2. r \in roads \cap Fragile /\ \E t \in RoadDestroyed(s) : Becomes(t)
  <2>1. /\ r \in roads \cap Fragile
        /\ \E t \in RoadDestroyed([Net EXCEPT !.roads = @ \ {r}, !.car[<<r, 1>>] = gone,
                    !.ware = IF held = NoWare THEN @ ELSE [@ EXCEPT ![held] = lost]]) : Becomes(t)
    BY Zenon DEF DestroyRoad
  <2>2. n1.car = car
    BY <1>1 DEF NetKind
  <2> HIDE DEF gone, lost, held
  <2>3. s = [Net EXCEPT !.roads = @ \ {r}, !.car[<<r, 1>>] = gone,
                        !.ware = IF held = NoWare THEN @ ELSE [@ EXCEPT ![held] = lost]]
    BY <1>1, <2>2, Zenon
  <2> HIDE DEF s
  <2> QED BY <2>1, <2>3
<1>3. /\ roads \subseteq Roads /\ ware \in [Wares -> WareKind] /\ lying \in [Flags -> SUBSET Wares]
      /\ car \in [Carriers -> CarKind] /\ house \in [Houses -> HouseKind]
  BY <1>1, Fields
<1>4. k \in Carriers /\ \A j \in Carriers \ {k} : j[1] # r
  BY TransportAssumption, <1>2 DEF Carriers
<1>5. gone \in CarKind /\ lost \in WareKind
      /\ gone.st = "none" /\ gone.pos = 0 /\ gone.hand = NoWare /\ lost.st = "lost"
  BY DEF CarKind, WareKind, CarrierStates
<1>6. held \in Wares \cup {NoWare} /\ NoWare \notin Wares
  BY <1>3, <1>4, TransportAssumption DEF CarKind
<1> HIDE DEF k, gone, lost, held, s, n1, n2, R
<1>7. C \in [Carriers -> CarKind] /\ C[k] = gone /\ \A j \in Carriers \ {k} : C[j] = car[j]
  BY <1>3, <1>4, <1>5
<1>8. W \in [Wares -> WareKind] /\ (held \in Wares => W[held] = lost) /\ \A v \in Wares \ {held} : W[v] = ware[v]
  BY <1>3, <1>5, <1>6
<1> HIDE DEF C, W
<1>9. /\ s.roads = R /\ s.ware = W /\ s.lying = lying /\ s.car = C /\ s.house = house
      /\ s \in NetKind
  <2>1. R \in SUBSET Roads
    BY <1>3 DEF R
  <2> QED BY <1>1, <1>3, <1>7, <1>8, <2>1 DEF NetKind, s, n1, n2
<1>10. \A j \in Carriers : CarOK(s.car[j], j, s.roads)
  <2>1. \A j \in Carriers : CarOK(car[j], j, roads)
    BY <1>1 DEF Good, GoodFor
  <2>2. CarOK(s.car[k], k, s.roads)
    BY <1>4, <1>5, <1>7, <1>9, CarrierEnds DEF CarOK, R
  <2>3. \A j \in Carriers \ {k} : CarOK(s.car[j], j, s.roads)
    BY <1>4, <1>7, <1>9, <2>1 DEF CarOK, R
  <2> QED BY <2>2, <2>3
<1>11. \A v \in Wares \ {held} : PlacedAt(s, v)
  <2> SUFFICES ASSUME NEW v \in Wares \ {held} PROVE PlacedAt(s, v)
    OBVIOUS
  <2>1. \A j \in Carriers : s.car[j].hand = v <=> car[j].hand = v
    BY <1>5, <1>6, <1>7, <1>9 DEF held
  <2>2. Stays(Net, s, v)
    BY <1>1, <1>8, <1>9, <2>1 DEF Stays, WareCalm
  <2> QED BY <2>2, StaysPlaced DEF Good, GoodFor
<1>12. held \in Wares => /\ PlacedAt(s, held) /\ s.ware[held].st = "lost"
                         /\ \A f \in Flags : held \notin lying[f]
  <2> SUFFICES ASSUME held \in Wares
               PROVE  PlacedAt(s, held) /\ s.ware[held].st = "lost" /\ \A f \in Flags : held \notin lying[f]
    OBVIOUS
  <2>1. Where(Net, held, "hand", k)
    <3>1. PlacedAt(Net, held) /\ Net.car[k].hand = held
      BY <1>1 DEF Good, GoodFor, held
    <3> QED BY <1>1, <1>4, <3>1, HandWhere
  <2>2. \A j \in Carriers : s.car[j].hand # held
    BY <1>1, <1>5, <1>6, <1>7, <1>9, <2>1 DEF Where
  <2>3. Where(s, held, "gone", NoWare)
    BY <1>1, <1>9, <2>1, <2>2 DEF Where
  <2>4. s.ware[held].st = "lost"
    BY <1>5, <1>8, <1>9
  <2>5. \A f \in Flags : held \notin lying[f]
    BY <1>1, <2>1 DEF Where
  <2> QED BY <2>3, <2>4, <2>5 DEF PlacedAt
<1>13. Good(s)
  BY <1>1, <1>9, <1>10, <1>11, <1>12 DEF Good, GoodFor
<1>14. RoadGone(s, r)
  <2>1. s.car[k].st = "none" /\ \A j \in Carriers \ {k} : s.car[j] = car[j] /\ j[1] # r
    BY <1>4, <1>5, <1>7, <1>9
  <2>2. \A v \in Wares \ {held} : s.ware[v] = ware[v]
    BY <1>8, <1>9
  <2> QED BY <1>4, <1>9, <1>12, <2>1, <2>2 DEF RoadGone, R, k, held
<1> QED BY <1>2, <1>13, <1>14

LEMMA DestroyRoadGood ==
  ASSUME Good(Net), NEW r \in Roads, DestroyRoad(r)
  PROVE  Good(Net)'
<1>1. PICK s : Good(s) /\ \E t \in RoadDestroyed(s) : Becomes(t)
  BY DestroyRoadGone
<1>2. PICK t \in RoadDestroyed(s) : Becomes(t)
  BY <1>1
<1> QED BY <1>1, <1>2, RoadDestroyedGood, BecomesGood

LEMMA BuildRoadStands ==
  ASSUME Good(Net), NEW r \in Roads, BuildRoad(r)
  PROVE  \E s : RoadBuilt(s, r) /\ Good(s) /\ \E t \in FindClientForLostWares(s) : Becomes(t)
<1> DEFINE k == <<r, 1>>
           R == roads \cup {r}
           u == Enters(Net, k, "coming")
           s == [u EXCEPT !.roads = R]
<1>1. r \notin roads /\ \E t \in FindClientForLostWares(s) : Becomes(t)
  <2>1. s = [Net EXCEPT !.roads = @ \cup {r}, !.car[<<r, 1>>].st = "coming"]
    BY DEF Net, Enters
  <2> HIDE DEF s
  <2> QED BY <2>1 DEF BuildRoad
<1>2. Net \in NetKind /\ Net.roads = roads /\ k \in Carriers /\ R \in SUBSET Roads
  BY Fields DEF Good, GoodFor, Net, Carriers
<1>3. Net.car[k].st = "none" /\ CarOK(Net.car[k], k, roads) /\ k[1] = r
  BY <1>1, <1>2 DEF Good, GoodFor, CarOK
<1> HIDE DEF k, R
<1>4. "coming" \in CarrierStates
  BY DEF CarrierStates
<1>5. /\ OnlyCar(Net, u, k) /\ u.car[k].st = "coming"
      /\ u.car[k].pos = Net.car[k].pos /\ u.car[k].hand = Net.car[k].hand
  BY <1>2, <1>4, EntersField
<1> HIDE DEF u
<1>6. /\ s.roads = R /\ s.ware = u.ware /\ s.lying = u.lying /\ s.car = u.car /\ s.house = u.house
      /\ s \in NetKind
  BY <1>2, <1>5 DEF NetKind, OnlyCar
<1> HIDE DEF s
<1>7. \A j \in Carriers : CarOK(s.car[j], j, s.roads)
  <2>1. CarOK(s.car[k], k, s.roads)
    BY <1>3, <1>5, <1>6 DEF CarOK, R
  <2>2. \A j \in Carriers \ {k} : CarOK(s.car[j], j, s.roads)
    BY <1>2, <1>5, <1>6 DEF CarOK, OnlyCar, Good, GoodFor, R
  <2> QED BY <2>1, <2>2
<1>8. \A v \in Wares : Stays(Net, s, v)
  BY <1>2, <1>5, <1>6 DEF Stays, OnlyCar, WareCalm
<1>9. \A v \in Wares : PlacedAt(s, v)
  BY <1>8, StaysPlaced DEF Good, GoodFor
<1>10. Good(s)
  BY <1>5, <1>6, <1>7, <1>9 DEF Good, GoodFor, OnlyCar
<1>11. RoadBuilt(s, r)
  <2>1. Net.ware = ware /\ Net.lying = lying /\ Net.car = car /\ Net.house = house
    BY DEF Net
  <2> QED BY <1>2, <1>5, <1>6, <2>1 DEF RoadBuilt, OnlyCar, R, k
<1> QED BY <1>1, <1>10, <1>11

LEMMA BuildRoadGood ==
  ASSUME Good(Net), NEW r \in Roads, BuildRoad(r)
  PROVE  Good(Net)'
<1>1. PICK s : Good(s) /\ \E t \in FindClientForLostWares(s) : Becomes(t)
  BY BuildRoadStands
<1>2. PICK t \in FindClientForLostWares(s) : Becomes(t)
  BY <1>1
<1> QED BY <1>1, <1>2, FindClientGood, BecomesGood

LEMMA InitGood == Init => IInv
<1> SUFFICES ASSUME Init PROVE IInv
  OBVIOUS
<1> USE TransportAssumption
<1>1. /\ roads = Roads /\ ware \in [Wares -> WareKind] /\ lying \in [Flags -> SUBSET Wares]
      /\ car \in [Carriers -> CarKind] /\ house \in [Houses -> HouseKind]
  <2>1. ware \in [Wares -> WareKind]
    BY DEF Init, WareKind
  <2>2. car \in [Carriers -> CarKind]
    BY DEF Init, CarKind, CarrierStates
  <2>3. house \in [Houses -> HouseKind]
    BY DEF Init, HouseKind
  <2> QED BY <2>1, <2>2, <2>3 DEF Init
<1>2. /\ Net.roads = Roads /\ Net.ware = ware /\ Net.lying = lying /\ Net.car = car
      /\ Net.house = house /\ Net \in NetKind
  BY <1>1 DEF Net, NetKind
<1>3. \A k \in Carriers : car[k].st = "coming" /\ car[k].pos = 0 /\ car[k].hand = NoWare
  BY DEF Init
<1>4. \A h \in Houses : /\ house[h].waiting = <<>> /\ house[h].out = {}
                        /\ house[h].back = {} /\ house[h].in = {}
  BY DEF Init
<1>5. \A w \in Wares : ware[w].st = "stock" /\ ware[w].goal \in Houses
  BY DEF Init
<1>6. \A f \in Flags : lying[f] = {}
  BY DEF Init
<1>7. \A k \in Carriers : CarOK(Net.car[k], k, Net.roads)
  BY <1>2, <1>3, CarrierEnds DEF CarOK
<1>8. \A f \in Flags : Fits(Net.lying[f])
  <2>1. IsFiniteSet({}) /\ Cardinality({}) = 0
    BY FS_EmptySet, Zenon
  <2>2. Fits({})
    <3> DEFINE n == Cardinality({})
    <3>1. n = 0
      BY <2>1
    <3> HIDE DEF n
    <3>2. n <= Capacity
      BY <3>1
    <3> QED BY <2>1, <3>2, Zenon DEF Fits, n
  <2> QED BY <1>2, <1>6, <2>2
<1>9. \A h \in Houses : NotTwice(Net.house[h].waiting)
  BY <1>2, <1>4 DEF NotTwice
<1>10. ToSet(<<>>) = {}
  BY DEF ToSet
<1>11. \A w \in Wares : Where(Net, w, "gone", NoWare)
  BY <1>2, <1>3, <1>4, <1>6, <1>10 DEF Where
<1>12. \A w \in Wares : PlacedAt(Net, w)
  BY <1>2, <1>5, <1>11 DEF PlacedAt
<1>13. orders \in 0..MaxOrders /\ cuts \in 0..MaxCuts
  BY DEF Init
<1> QED BY <1>2, <1>7, <1>8, <1>9, <1>12, <1>13 DEF IInv, Good, GoodFor

LEMMA StepGood == IInv /\ [Next]_vars => IInv'
<1> SUFFICES ASSUME IInv, [Next]_vars PROVE IInv'
  OBVIOUS
<1>0. Good(Net) /\ orders \in 0..MaxOrders /\ cuts \in 0..MaxCuts /\ MaxOrders \in Nat /\ MaxCuts \in Nat
  BY TransportAssumption DEF IInv
<1>1. CASE UNCHANGED vars
  BY <1>1 DEF vars, IInv, Good, GoodFor, Net
<1>12. ASSUME Good(Net)', UNCHANGED <<orders, cuts>> PROVE IInv'
  BY <1>0, <1>12 DEF IInv
<1>2. ASSUME NEW k \in Carriers, Walk(k) PROVE IInv'
  <2>1. UNCHANGED <<orders, cuts>>
    BY <1>2, Zenon DEF Walk
  <2>2. Good(Net)'
    BY <1>0, <1>2, WalkGood
  <2> QED BY <1>12, <2>1, <2>2
<1>3. ASSUME NEW k \in Carriers, NEW e \in 1..2, Arrive(k, e) PROVE IInv'
  <2>1. UNCHANGED <<orders, cuts>>
    BY <1>3, Zenon DEF Arrive
  <2>2. Good(Net)'
    BY <1>0, <1>3, ArriveGood
  <2> QED BY <1>12, <2>1, <2>2
<1>4. ASSUME NEW h \in Houses, Leave(h) PROVE IInv'
  <2>1. UNCHANGED <<orders, cuts>>
    BY <1>4, Zenon DEF Leave
  <2>2. Good(Net)'
    BY <1>0, <1>4, LeaveGood
  <2> QED BY <1>12, <2>1, <2>2
<1>5. ASSUME NEW h \in Houses, WorkerFetches(h) PROVE IInv'
  <2>1. UNCHANGED <<orders, cuts>>
    BY <1>5, Zenon DEF WorkerFetches
  <2>2. Good(Net)'
    BY <1>0, <1>5, WorkerFetchesGood
  <2> QED BY <1>12, <2>1, <2>2
<1>6. ASSUME NEW h \in Houses, NEW w \in Wares, WorkerAtFlag(h, w) PROVE IInv'
  <2>1. UNCHANGED <<orders, cuts>>
    BY <1>6, Zenon DEF WorkerAtFlag
  <2>2. Good(Net)'
    BY <1>0, <1>6, WorkerAtFlagGood
  <2> QED BY <1>12, <2>1, <2>2
<1>7. ASSUME NEW h \in Houses, NEW w \in Wares, AddWaitingWare(h, w) PROVE IInv'
  <2>1. UNCHANGED <<orders, cuts>>
    BY <1>7, Zenon DEF AddWaitingWare
  <2>2. Good(Net)'
    BY <1>0, <1>7, AddWaitingWareGood
  <2> QED BY <1>12, <2>1, <2>2
<1>8. ASSUME NEW h \in Houses, NEW w \in Wares, AddWare(h, w) PROVE IInv'
  <2>1. UNCHANGED <<orders, cuts>>
    BY <1>8, Zenon DEF AddWare
  <2>2. Good(Net)'
    BY <1>0, <1>8, AddWareGood
  <2> QED BY <1>12, <2>1, <2>2
<1>9. ASSUME NEW w \in Wares, NEW h \in Houses, OrderWare(w, h) PROVE IInv'
  <2>1. orders < MaxOrders /\ orders' = orders + 1 /\ cuts' = cuts
    BY <1>9, Zenon DEF OrderWare
  <2>2. Good(Net)'
    BY <1>0, <1>9, OrderWareGood
  <2> QED BY <1>0, <2>1, <2>2 DEF IInv
<1>10. ASSUME NEW r \in Roads, DestroyRoad(r) PROVE IInv'
  <2>1. cuts < MaxCuts /\ cuts' = cuts + 1 /\ orders' = orders
    BY <1>10, Zenon DEF DestroyRoad
  <2>2. Good(Net)'
    BY <1>0, <1>10, DestroyRoadGood
  <2> QED BY <1>0, <2>1, <2>2 DEF IInv
<1>11. ASSUME NEW r \in Roads, BuildRoad(r) PROVE IInv'
  <2>1. UNCHANGED <<orders, cuts>>
    BY <1>11, Zenon DEF BuildRoad
  <2>2. Good(Net)'
    BY <1>0, <1>11, BuildRoadGood
  <2> QED BY <1>12, <2>1, <2>2
<1> QED BY <1>1, <1>2, <1>3, <1>4, <1>5, <1>6, <1>7, <1>8, <1>9, <1>10, <1>11 DEF Next, HouseStep

-----------------------------------------------------------------------------
(* The theorems. *)

(* Every object keeps the kind of value the code gives it, whatever roads   *)
(* are pulled down: at no flag lie more wares than it has places for        *)
(* (noFlag::wares), and a carrier is never beyond an end of its road.       *)
LEMMA GoodTypes == IInv => TypeOK
<1> SUFFICES ASSUME IInv PROVE TypeOK
  OBVIOUS
<1>1. /\ Net \in NetKind /\ Net.roads = roads /\ Net.ware = ware /\ Net.lying = lying
      /\ Net.car = car /\ Net.house = house
  BY DEF IInv, Good, GoodFor, Net
<1>2. /\ roads \subseteq Roads /\ ware \in [Wares -> WareKind] /\ lying \in [Flags -> SUBSET Wares]
      /\ car \in [Carriers -> CarKind] /\ house \in [Houses -> HouseKind]
  BY <1>1, Fields
<1>3. \A f \in Flags : Cardinality(lying[f]) <= Capacity
  BY <1>1 DEF IInv, Good, GoodFor, Fits
<1>4. \A k \in Carriers : car[k] \in [st : CarrierStates, pos : 0..Length[k[1]], to : {1, 2},
                                      hand : Wares \cup {NoWare}]
  <2>1. \A k \in Carriers : car[k] \in CarKind /\ car[k].pos \in 0..Length[k[1]]
    BY <1>1, <1>2 DEF IInv, Good, GoodFor, CarOK
  <2> QED BY <2>1 DEF CarKind
<1>5. \A h \in Houses : LET b == house[h] IN
        /\ b.waiting \in Seq(Wares) /\ {b.out, b.back, b.in} \subseteq SUBSET Wares
        /\ b.queued \in Nat /\ b.fetching \in Nat
        /\ b.awake \in BOOLEAN /\ b.dontfetch \in BOOLEAN
  BY <1>2 DEF HouseKind
<1>6. DOMAIN car = Carriers /\ DOMAIN house = Houses
  BY <1>2
<1> QED BY <1>2, <1>3, <1>4, <1>5, <1>6 DEF TypeOK, IInv, WareKind

LEMMA GoodHolders == IInv => OnePlace
<1> SUFFICES ASSUME IInv, NEW w \in Wares
             PROVE  LET H == Holders(w) st == ware[w].st IN
                      IF st \in {"stock", "lost"} THEN H = {}
                      ELSE /\ Cardinality(H) = 1
                           /\ \A x \in H : (st = "flag") <=> (x[1] = "flag")
  BY GoodTypes DEF OnePlace
<1>1. /\ Net \in NetKind /\ Net.roads = roads /\ Net.ware = ware /\ Net.lying = lying
      /\ Net.car = car /\ Net.house = house
  BY DEF IInv, Good, GoodFor, Net
<1>2. PlacedAt(Net, w) /\ ware[w].st \in {"stock", "waiting", "flag", "carried", "lost"}
  BY <1>1, Fields DEF IInv, Good, GoodFor, WareKind
<1> DEFINE st == ware[w].st
<1>3. CASE st \in {"stock", "lost"}
  <2>1. Where(Net, w, "gone", NoWare)
    BY <1>1, <1>2, <1>3 DEF PlacedAt
  <2>2. Holders(w) = {}
    BY <1>1, <2>1 DEF Where, Holders
  <2> QED BY <1>3, <2>2
<1>4. ASSUME NEW x, Holders(w) = {x}, st \notin {"stock", "lost"}, (st = "flag") <=> (x[1] = "flag")
      PROVE  IF st \in {"stock", "lost"} THEN Holders(w) = {}
             ELSE /\ Cardinality(Holders(w)) = 1
                  /\ \A y \in Holders(w) : (st = "flag") <=> (y[1] = "flag")
  <2>1. Cardinality({x}) = 1
    BY FS_Singleton, Zenon
  <2> QED BY <1>4, <2>1
<1>5. CASE st = "flag"
  <2>1. PICK f \in Flags : Where(Net, w, "flag", f)
    BY <1>1, <1>2, <1>5 DEF PlacedAt
  <2> DEFINE x == <<"flag", f>>
  <2>2. Holders(w) = {x}
    BY <1>1, <2>1 DEF Where, Holders
  <2>3. x[1] = "flag"
    OBVIOUS
  <2> HIDE DEF x
  <2> QED BY <1>4, <1>5, <2>2, <2>3
<1>6. ASSUME NEW k \in Carriers, st = "carried", Where(Net, w, "hand", k)
      PROVE  \E x : Holders(w) = {x} /\ x[1] # "flag"
  <2> DEFINE x == <<"hand", k>>
  <2>1. Holders(w) = {x}
    BY <1>1, <1>6 DEF Where, Holders
  <2>2. x[1] # "flag"
    OBVIOUS
  <2> HIDE DEF x
  <2> QED BY <2>1, <2>2
<1>7. ASSUME NEW h \in Houses, Where(Net, w, "waiting", h)
      PROVE  \E x : Holders(w) = {x} /\ x[1] # "flag"
  <2> DEFINE x == <<"house", h>>
  <2>1. Holders(w) = {x}
    BY <1>1, <1>7 DEF Where, Holders
  <2>2. x[1] # "flag"
    OBVIOUS
  <2> HIDE DEF x
  <2> QED BY <2>1, <2>2
<1>8. ASSUME NEW h \in Houses, NEW kind \in {"out", "back", "in"}, Where(Net, w, kind, h)
      PROVE  \E x : Holders(w) = {x} /\ x[1] # "flag"
  <2> DEFINE x == <<"worker", h>>
  <2>1. Holders(w) = {x}
    BY <1>1, <1>8 DEF Where, Holders
  <2>2. x[1] # "flag"
    OBVIOUS
  <2> HIDE DEF x
  <2> QED BY <2>1, <2>2
<1>9. CASE st \in {"waiting", "carried"}
  <2>1. \E x : Holders(w) = {x} /\ x[1] # "flag"
    BY <1>1, <1>2, <1>6, <1>7, <1>8, <1>9 DEF PlacedAt
  <2>2. PICK x : Holders(w) = {x} /\ x[1] # "flag"
    BY <2>1
  <2> QED BY <1>4, <1>9, <2>2
<1> QED BY <1>2, <1>3, <1>5, <1>9

(* No handler of a flag, a carrier or a warehouse drops a ware or leaves it  *)
(* in two places (noFlag::AddWare would drop it at a full flag,              *)
(* nofCarrier::FetchWare and the rerouting of RoadDestroyed could double     *)
(* it): each is in the one place that its state names.                       *)
THEOREM WaresInOnePlace == Spec => []OnePlace
<1>1. IInv => OnePlace
  BY GoodHolders
<1> QED BY <1>1, InitGood, StepGood, PTL DEF Spec

=============================================================================
