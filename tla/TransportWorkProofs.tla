------------------------- MODULE TransportWorkProofs -------------------------
(***************************************************************************)
(* More about Transport, for any roads, flags, warehouses and wares: the    *)
(* routes of the wares stand although roads are destroyed and built, every *)
(* warehouse is at work while there is work for it, and no ware at a flag  *)
(* is overlooked by the carriers.  Each is an invariant of scenes beside   *)
(* the one of TransportProofs, which says where the wares are.             *)
(***************************************************************************)
EXTENDS TransportProofs

-----------------------------------------------------------------------------
(* Routes.  A ware at flag f leaves by the first road of a way to its goal, *)
(* or has no goal since there is no warehouse it could go to.               *)
NoHouseReached(rs, f) == ~\E h \in Houses : Connected(rs, f, h)

Leads(rs, v, f) ==
  IF v.goal = NoGoal THEN v.dir = NoDir /\ NoHouseReached(rs, f)
  ELSE v.dir \in FindPathForWare(rs, f, v.goal)

(* Wherever else it is, it has a goal, and as long as it waits for its first *)
(* way out there is one.                                                     *)
RouteOK(s, w) ==
  LET v == s.ware[w] IN
  /\ \A f \in Flags : w \in s.lying[f] => Leads(s.roads, v, f)
  /\ v.st \in {"waiting", "carried"} => v.goal \in Houses
  /\ v.st = "waiting" => \A h \in Houses :
       w \in ToSet(s.house[h].waiting) => FindPathForWare(s.roads, h, v.goal) # {}

RoutesOK(s) == \A w \in Wares : RouteOK(s, w)

(* Warehouses. *)
Doors(s, h) == WaresForRoad(s, h, Door)
Served(s, h) ==
  LET b == s.house[h] IN
  /\ b.queued + b.fetching = Cardinality(Doors(s, h))
  /\ ~b.dontfetch
AtWork(s, h) ==
  LET b == s.house[h] IN
  /\ b.queued > 0 => b.awake
  /\ b.waiting # <<>> => b.awake \/ ~Space(s, h)
WorkOK(s) == \A h \in Houses : Served(s, h) /\ AtWork(s, h)

(* Carriers.  Idle: nothing makes a carrier look for what lies at end e.     *)
Jobs(s, r, e) == WaresForRoad(s, Ends[r][e], r)
Idle(c, e) == c.st = "wait" \/ (c.st = "middle" /\ c.to = e)
Attended(s, r, e) ==
  Jobs(s, r, e) # {} =>
    /\ \E k \in Carriers : k[1] = r /\ ~Idle(s.car[k], e)
    /\ r \notin Donkeys => ~TakesJob(s.car[<<r, 1>>], e)
Finds(s, k) ==
  /\ s.car[k].st = "fetch" => Jobs(s, k[1], s.car[k].to) # {}
  /\ s.car[k].st # "stranded"
Watch(s, P, K) ==
  /\ \A p \in P : Attended(s, p[1], p[2])
  /\ \A k \in K : Finds(s, k)
Ways(s) == s.roads \X {1, 2}
WatchOK(s) == Watch(s, Ways(s), Carriers)

-----------------------------------------------------------------------------
(* What the calls leave alone, more exactly than TransportProofs has it:    *)
(* most speak to carriers only.                                             *)
OnlyCars(s, t) ==
  /\ t \in NetKind
  /\ t.roads = s.roads /\ t.lying = s.lying /\ t.ware = s.ware /\ t.house = s.house

LEMMA OnlyCarsTrans ==
  ASSUME NEW s, NEW t, NEW u, OnlyCars(s, t), OnlyCars(t, u)
  PROVE  OnlyCars(s, u)
BY DEF OnlyCars

LEMMA EntersOnlyCars ==
  ASSUME NEW s \in NetKind, NEW k \in Carriers, NEW st \in CarrierStates
  PROVE  OnlyCars(s, Enters(s, k, st))
BY EntersField DEF OnlyCar, OnlyCars

LEMMA TurnsOnlyCars ==
  ASSUME NEW s \in NetKind, NEW k \in Carriers, NEW st \in CarrierStates, NEW pos \in Int
  PROVE  OnlyCars(s, Turns(s, k, st, pos))
BY TurnsField DEF OnlyCar, OnlyCars

LEMMA RemovedOnlyCars ==
  ASSUME NEW s \in NetKind, NEW k \in Carriers
  PROVE  OnlyCars(s, RemoveWareJob(s, k))
<1>1. "middle" \in CarrierStates
  BY DEF CarrierStates
<1>2. OnlyCars(s, s)
  BY DEF OnlyCars
<1> QED BY <1>1, <1>2, EntersOnlyCars DEF RemoveWareJob

LEMMA JobRemovedOnlyCars ==
  ASSUME NEW s \in NetKind, NEW r, NEW x
  PROVE  OnlyCars(s, WareJobRemoved(s, r, x))
<1> DEFINE Told(t, k) == IF k \in Carriers \ {x} THEN RemoveWareJob(t, k) ELSE t
           t == Told(s, <<r, 1>>)
           u == Told(t, <<r, 2>>)
<1>1. ASSUME NEW v \in NetKind, NEW k PROVE OnlyCars(v, Told(v, k))
  BY RemovedOnlyCars DEF OnlyCars
<1>2. WareJobRemoved(s, r, x) = u
  BY DEF WareJobRemoved
<1>3. OnlyCars(s, t)
  BY <1>1
<1>4. t \in NetKind
  BY <1>3 DEF OnlyCars
<1> HIDE DEF t
<1>5. OnlyCars(t, u)
  BY <1>1, <1>4
<1> HIDE DEF u
<1> QED BY <1>2, <1>3, <1>5, OnlyCarsTrans

LEMMA RoadAddedOnlyCars ==
  ASSUME NEW s \in NetKind, NEW r, NEW e \in {1, 2}, NEW t \in RoadAddWareJob(s, r, e)
  PROVE  OnlyCars(s, t)
<1>1. \A k \in Carriers : OnlyCars(s, CarrierAddWareJob(s, k, e))
  BY AddedField DEF OnlyCar, OnlyCars
<1> QED BY <1>1 DEF RoadAddWareJob, OnlyCars

(* A house is told of a ware before it: it sends a worker, unless the word  *)
(* was not to fetch the next one.                                           *)
Sent(b, c) ==
  /\ HouseCalm(b, c) /\ c.fetching = b.fetching /\ ~c.dontfetch
  /\ IF b.dontfetch THEN c.queued = b.queued /\ c.awake = b.awake
     ELSE c.queued = b.queued + 1 /\ c.awake

LEMMA FetchTold ==
  ASSUME NEW s \in NetKind, NEW h
  PROVE  /\ HouseFetchWare(s, h) \in NetKind
         /\ HouseFetchWare(s, h).roads = s.roads /\ HouseFetchWare(s, h).lying = s.lying
         /\ HouseFetchWare(s, h).car = s.car /\ HouseFetchWare(s, h).ware = s.ware
         /\ \A g \in Houses : IF g = h THEN Sent(s.house[g], HouseFetchWare(s, h).house[g])
                              ELSE HouseFetchWare(s, h).house[g] = s.house[g]
<1> DEFINE b == s.house[h]
           c == [b EXCEPT !.dontfetch = FALSE]
           n == b.queued + 1
           d == [b EXCEPT !.queued = n, !.awake = TRUE]
           x == IF b.dontfetch THEN c ELSE d
           t == WithHouse(s, h, x)
<1>1. h \in Houses => b \in HouseKind
  BY Fields
<1>2. h \in Houses => n \in Nat
  BY <1>1 DEF HouseKind
<1>3. h \in Houses => x \in HouseKind
  <2> HIDE DEF n
  <2> QED BY <1>1, <1>2 DEF HouseKind
<1>4. h \in Houses => Sent(b, x)
  BY <1>1 DEF HouseKind, HouseCalm, Sent
<1>5. HouseFetchWare(s, h) = t
  <2>1. [s EXCEPT !.house[h].dontfetch = FALSE] = WithHouse(s, h, c)
    BY DEF WithHouse
  <2>2. [s EXCEPT !.house[h].queued = @ + 1, !.house[h].awake = TRUE] = WithHouse(s, h, d)
    <3>1. s.house \in [Houses -> HouseKind]
      BY Fields
    <3>2. [s EXCEPT !.house[h].queued = @ + 1, !.house[h].awake = TRUE] =
             [s EXCEPT !.house = [[s.house EXCEPT ![h].queued = s.house[h].queued + 1] EXCEPT ![h].awake = TRUE]]
      BY DEF NetKind
    <3>3. [[s.house EXCEPT ![h].queued = s.house[h].queued + 1] EXCEPT ![h].awake = TRUE] = [s.house EXCEPT ![h] = d]
      BY <3>1 DEF HouseKind
    <3>4. WithHouse(s, h, d) = [s EXCEPT !.house = [s.house EXCEPT ![h] = d]]
      BY DEF WithHouse
    <3> HIDE DEF d
    <3> QED BY <3>2, <3>3, <3>4
  <2> HIDE DEF c, d
  <2> QED BY <2>1, <2>2 DEF HouseFetchWare
<1> HIDE DEF x
<1>6. CASE h \notin Houses
  <2>1. t = s
    BY <1>6, NoHouse
  <2> QED BY <1>5, <1>6, <2>1
<1>7. CASE h \in Houses
  <2>1. OnlyHouse(s, t, h) /\ t.house[h] = x
    BY <1>3, <1>7, HouseSet
  <2> HIDE DEF t
  <2> QED BY <1>4, <1>5, <1>7, <2>1 DEF OnlyHouse
<1> QED BY <1>6, <1>7

LEMMA DontFetchTold ==
  ASSUME NEW s \in NetKind, NEW h \in Houses
  PROVE  /\ OnlyHouse(s, DontFetchNextWare(s, h), h)
         /\ DontFetchNextWare(s, h).house[h] = [s.house[h] EXCEPT !.dontfetch = TRUE]
<1> DEFINE c == [s.house[h] EXCEPT !.dontfetch = TRUE]
<1>1. c \in HouseKind
  <2>1. s.house[h] \in HouseKind
    BY Fields
  <2> QED BY <2>1 DEF HouseKind
<1>2. DontFetchNextWare(s, h) = WithHouse(s, h, c)
  <2>1. DontFetchNextWare(s, h) = [s EXCEPT !.house[h].dontfetch = TRUE]
    BY DEF DontFetchNextWare
  <2>2. WithHouse(s, h, c) = [s EXCEPT !.house[h] = [s.house[h] EXCEPT !.dontfetch = TRUE]]
    BY DEF WithHouse
  <2> QED BY <2>1, <2>2
<1> HIDE DEF c
<1>3. OnlyHouse(s, WithHouse(s, h, c), h) /\ WithHouse(s, h, c).house[h] = c
  BY <1>1, HouseSet
<1> QED BY <1>2, <1>3 DEF c

(* A job is given: a road or a house is told, or nobody. *)
LEMMA AddJobCases ==
  ASSUME NEW s \in NetKind, NEW w \in Wares, NEW f, NEW t \in AddWareJob(s, w, f)
  PROVE  LET d == s.ware[w].dir IN
         \/ d = NoDir /\ t = s
         \/ d = Door /\ t = HouseFetchWare(s, f)
         \/ d \in Roads /\ t \in RoadAddWareJob(s, d, EndAt(d, f)) /\ EndAt(d, f) \in {1, 2}
<1> DEFINE d == s.ware[w].dir
<1>1. d \in Roads \cup {Door, NoDir}
  BY Fields DEF WareKind
<1>2. EndAt(d, f) \in {1, 2}
  BY DEF EndAt
<1>3. CASE d = NoDir
  BY <1>3, TransportAssumption DEF AddWareJob
<1>4. CASE d = Door
  BY <1>4, TransportAssumption DEF AddWareJob
<1>5. CASE d \in Roads
  BY <1>2, <1>5, TransportAssumption DEF AddWareJob
<1> QED BY <1>1, <1>3, <1>4, <1>5

LEMMA AddJobFields ==
  ASSUME NEW s \in NetKind, NEW w \in Wares, NEW f, NEW t \in AddWareJob(s, w, f)
  PROVE  /\ t \in NetKind /\ t.roads = s.roads /\ t.lying = s.lying /\ t.ware = s.ware
         /\ \A h \in Houses : IF h = f /\ s.ware[w].dir = Door THEN Sent(s.house[h], t.house[h])
                              ELSE t.house[h] = s.house[h]
<1> DEFINE d == s.ware[w].dir
<1>1. CASE d = NoDir /\ t = s
  BY <1>1, TransportAssumption
<1>2. CASE d = Door /\ t = HouseFetchWare(s, f)
  BY <1>2, FetchTold
<1>3. CASE d \in Roads /\ t \in RoadAddWareJob(s, d, EndAt(d, f)) /\ EndAt(d, f) \in {1, 2}
  <2>1. OnlyCars(s, t)
    BY <1>3, RoadAddedOnlyCars
  <2>2. d # Door
    BY <1>3, TransportAssumption
  <2> QED BY <2>1, <2>2 DEF OnlyCars
<1> QED BY <1>1, <1>2, <1>3, AddJobCases

(* noFlag: a place is free.  A house that waits for one wakes, carriers may. *)
Prodded(b, c) ==
  /\ HouseCalm(b, c) /\ c.queued = b.queued /\ c.fetching = b.fetching
  /\ c.dontfetch = b.dontfetch /\ (b.awake => c.awake)

GoesOn(c, d) == c.st = "space" /\ d.st = "carry" /\ d.to = c.to /\ d.pos = c.pos /\ d.hand = c.hand

LEMMA PlaceFreeFields ==
  ASSUME NEW s \in NetKind, NEW f \in Flags
  PROVE  /\ PlaceFree(s, f) \in NetKind /\ PlaceFree(s, f).roads = s.roads
         /\ PlaceFree(s, f).lying = s.lying /\ PlaceFree(s, f).ware = s.ware
         /\ \A h \in Houses : Prodded(s.house[h], PlaceFree(s, f).house[h])
         /\ f \in Houses /\ s.house[f].waiting # <<>> => PlaceFree(s, f).house[f].awake
         /\ \A k \in Carriers : \/ PlaceFree(s, f).car[k] = s.car[k]
                                \/ GoesOn(s.car[k], PlaceFree(s, f).car[k])
<1> DEFINE waits == f \in Houses /\ s.house[f].waiting # <<>>
           told == {r \in RoadsAt(s.roads, f) : waits => <<r, EndAt(r, f)>> \in Early}
           InSpace(r, i) == /\ <<r, i>> \in Carriers
                            /\ s.car[<<r, i>>].st = "space" /\ s.car[<<r, i>>].to = EndAt(r, f)
           woken == {k \in told \X {1, 2} : InSpace(k[1], k[2]) /\ (k[2] = 2 => ~InSpace(k[1], 1))}
           cars == [k \in Carriers |-> IF k \in woken THEN [s.car[k] EXCEPT !.st = "carry"] ELSE s.car[k]]
           hs == IF waits THEN [s.house EXCEPT ![f].awake = TRUE] ELSE s.house
           t == [s EXCEPT !.car = cars, !.house = hs]
<1>1. PlaceFree(s, f) = t
  BY DEF PlaceFree
<1>2. \A k \in woken : k \in Carriers /\ s.car[k].st = "space"
  OBVIOUS
<1> HIDE DEF woken
<1>3. \A k \in Carriers : cars[k] \in CarKind /\ (cars[k] = s.car[k] \/ GoesOn(s.car[k], cars[k]))
  <2> SUFFICES ASSUME NEW k \in Carriers
               PROVE  cars[k] \in CarKind /\ (cars[k] = s.car[k] \/ GoesOn(s.car[k], cars[k]))
    OBVIOUS
  <2> DEFINE c == s.car[k]
             d == [c EXCEPT !.st = "carry"]
  <2>1. c \in CarKind
    BY Fields
  <2>2. CASE k \notin woken
    BY <2>1, <2>2
  <2>3. CASE k \in woken
    <3>1. cars[k] = d /\ c.st = "space"
      BY <2>3, <1>2
    <3>2. d \in CarKind
      BY <2>1 DEF CarKind, CarrierStates
    <3>3. d.st = "carry" /\ d.pos = c.pos /\ d.to = c.to /\ d.hand = c.hand
      BY <2>1 DEF CarKind
    <3> QED BY <3>1, <3>2, <3>3 DEF GoesOn
  <2> QED BY <2>2, <2>3
<1>4. cars \in [Carriers -> CarKind]
  BY <1>3
<1>5. /\ hs \in [Houses -> HouseKind] /\ \A h \in Houses : Prodded(s.house[h], hs[h])
      /\ waits => hs[f].awake
  <2>1. s.house \in [Houses -> HouseKind]
    BY Fields
  <2> QED BY <2>1 DEF HouseKind, HouseCalm, Prodded
<1> HIDE DEF cars, hs
<1>6. t \in NetKind /\ t.car = cars /\ t.house = hs
      /\ t.roads = s.roads /\ t.lying = s.lying /\ t.ware = s.ware
  BY <1>4, <1>5 DEF NetKind
<1> HIDE DEF t
<1> QED BY <1>1, <1>3, <1>5, <1>6

LEMMA SelectFields ==
  ASSUME NEW s \in NetKind, NEW f \in Flags, NEW d, NEW w, NEW swap, NEW k,
         NEW t, t = SelectWare(s, f, d, w, swap, k)
  PROVE  /\ t \in NetKind /\ t.roads = s.roads /\ t.ware = s.ware
         /\ t.lying = [s.lying EXCEPT ![f] = @ \ {w}]
         /\ \A h \in Houses : Prodded(s.house[h], t.house[h])
         /\ swap => t.house = s.house
         /\ ~swap /\ f \in Houses /\ s.house[f].waiting # <<>> => t.house[f].awake
<1> DEFINE S == s.lying[f] \ {w}
           removed == [s EXCEPT !.lying[f] = S]
           told == IF d = Door THEN removed ELSE WareJobRemoved(removed, d, k)
<1>1. t = IF swap THEN told ELSE PlaceFree(told, f)
  BY DEF SelectWare
<1>2. S \in SUBSET Wares
  BY Fields
<1> HIDE DEF S
<1>3. /\ removed \in NetKind /\ removed.lying = [s.lying EXCEPT ![f] = S]
      /\ removed.roads = s.roads /\ removed.ware = s.ware /\ removed.house = s.house
  BY <1>2, LyingSet
<1> HIDE DEF removed
<1>4. OnlyCars(removed, told)
  BY <1>3, JobRemovedOnlyCars DEF OnlyCars
<1> HIDE DEF told
<1>5. told \in NetKind /\ told.lying = [s.lying EXCEPT ![f] = @ \ {w}]
      /\ told.roads = s.roads /\ told.ware = s.ware /\ told.house = s.house
  BY <1>3, <1>4 DEF OnlyCars, S
<1>6. \A h \in Houses : Prodded(s.house[h], s.house[h])
  BY DEF Prodded, HouseCalm
<1>7. CASE swap
  BY <1>1, <1>5, <1>6, <1>7
<1>8. CASE ~swap
  <2>1. /\ t \in NetKind /\ t.roads = told.roads /\ t.ware = told.ware /\ t.lying = told.lying
        /\ \A h \in Houses : Prodded(told.house[h], t.house[h])
        /\ f \in Houses /\ told.house[f].waiting # <<>> => t.house[f].awake
    BY <1>1, <1>5, <1>8, PlaceFreeFields
  <2> QED BY <1>5, <1>8, <2>1
<1> QED BY <1>7, <1>8

(* nofCarrier::FetchWare takes a ware from flag f, which is told unless    *)
(* another ware takes its place.                                           *)
Drawn(s, t, f, w, swap) ==
  /\ t \in NetKind /\ t.roads = s.roads
  /\ t.lying = [s.lying EXCEPT ![f] = @ \ {w}]
  /\ \A v \in Wares \ {w} : t.ware[v] = s.ware[v]
  /\ t.ware[w].st = "carried" /\ t.ware[w].goal = s.ware[w].goal /\ t.ware[w].dir = s.ware[w].dir
  /\ \A h \in Houses : Prodded(s.house[h], t.house[h])
  /\ swap => t.house = s.house
  /\ ~swap /\ f \in Houses /\ s.house[f].waiting # <<>> => t.house[f].awake

LEMMA TakesMore ==
  ASSUME NEW s \in NetKind, NEW k \in Carriers, NEW w \in Wares
  PROVE  /\ Takes(s, k, w).ware[w].goal = s.ware[w].goal
         /\ Takes(s, k, w).ware[w].dir = s.ware[w].dir
         /\ Takes(s, k, w).car[k].to = Opposite(s.car[k].to)
<1> DEFINE c == s.car[k]
           e == Turned(c, "carry", 0)
           d == [e EXCEPT !.hand = w]
           v == [s.ware[w] EXCEPT !.st = "carried"]
           u == [s EXCEPT !.ware[w] = v]
           t == [u EXCEPT !.car[k] = d]
<1>1. c \in CarKind /\ s.ware[w] \in WareKind
  BY Fields
<1>2. e \in CarKind /\ e.to = Opposite(c.to)
  <2>1. "carry" \in CarrierStates /\ 0 \in Int
    BY DEF CarrierStates
  <2> QED BY <1>1, <2>1, TurnedField
<1>3. d \in CarKind /\ d.to = Opposite(c.to)
  <2> HIDE DEF e
  <2> QED BY <1>2 DEF CarKind
<1>4. v \in WareKind /\ v.goal = s.ware[w].goal /\ v.dir = s.ware[w].dir
  BY <1>1 DEF WareKind
<1>5. Takes(s, k, w) = t
  BY <1>1 DEF Takes, NetKind, CarKind
<1> HIDE DEF d, v
<1>6. OnlyWare(s, u, w) /\ u.ware[w] = v
  BY <1>4, WareSet
<1>7. u \in NetKind
  BY <1>6 DEF OnlyWare
<1> HIDE DEF u
<1>8. OnlyCar(u, t, k) /\ t.car[k] = d
  BY <1>3, <1>7, CarSet
<1> HIDE DEF t
<1> QED BY <1>3, <1>4, <1>5, <1>6, <1>8 DEF OnlyWare, OnlyCar

LEMMA FetchDraws ==
  ASSUME NEW s \in NetKind, NEW k \in Carriers, NEW swap, NEW t \in FetchWare(s, k, swap),
         WaresForRoad(s, FacedFlag(s, k), k[1]) # {}
  PROVE  \E w \in WaresForRoad(s, FacedFlag(s, k), k[1]) : Drawn(s, t, FacedFlag(s, k), w, swap)
<1> DEFINE f == FacedFlag(s, k)
           jobs == WaresForRoad(s, f, k[1])
           X(w) == SelectWare(s, f, k[1], w, swap, k)
<1>1. f \in Flags
  BY FacedIsFlag
<1>2. PICK w \in jobs : t = Takes(X(w), k, w)
  BY DEF FetchWare
<1>3. w \in Wares
  BY <1>1, Fields DEF WaresForRoad
<1> DEFINE u == X(w)
<1>4. /\ u \in NetKind /\ u.roads = s.roads /\ u.ware = s.ware
      /\ u.lying = [s.lying EXCEPT ![f] = @ \ {w}]
      /\ \A h \in Houses : Prodded(s.house[h], u.house[h])
      /\ swap => u.house = s.house
      /\ ~swap /\ f \in Houses /\ s.house[f].waiting # <<>> => u.house[f].awake
  BY <1>1, SelectFields
<1>5. t = Takes(u, k, w)
  BY <1>2
<1> HIDE DEF u, X
<1>6. /\ t \in NetKind
      /\ t.roads = u.roads /\ t.lying = u.lying /\ t.house = u.house
      /\ \A v \in Wares \ {w} : t.ware[v] = u.ware[v]
      /\ t.ware[w].st = "carried" /\ t.ware[w].goal = u.ware[w].goal /\ t.ware[w].dir = u.ware[w].dir
  BY <1>3, <1>4, <1>5, TakesField, TakesMore
<1>7. Drawn(s, t, f, w, swap)
  BY <1>4, <1>6 DEF Drawn
<1> QED BY <1>7

-----------------------------------------------------------------------------
(* Paths. *)

LEMMA ConnectedMore ==
  ASSUME NEW rs, NEW rt, rs \subseteq rt, NEW a, NEW b, Connected(rs, a, b)
  PROVE  Connected(rt, a, b)
BY DEF Connected

LEMMA PathsMore ==
  ASSUME NEW rs, NEW rt, rs \subseteq rt, NEW f, NEW goal
  PROVE  FindPathForWare(rs, f, goal) \subseteq FindPathForWare(rt, f, goal)
<1>1. RoadsAt(rs, f) \subseteq RoadsAt(rt, f)
  BY DEF RoadsAt
<1>2. rs \ RoadsAt(rs, f) \subseteq rt \ RoadsAt(rt, f)
  BY DEF RoadsAt
<1> QED BY <1>1, <1>2, ConnectedMore DEF FindPathForWare

(* Where a flag can be reached, some road is the first of a way that does   *)
(* not come back: the flags from which the goal is reached without it are   *)
(* not cut off from it.                                                     *)
LEMMA WayLeadsOut ==
  ASSUME NEW rs \in SUBSET Roads, NEW f \in Flags, NEW h \in Flags, Connected(rs, f, h)
  PROVE  FindPathForWare(rs, f, h) # {}
<1>1. CASE h = f
  BY <1>1 DEF FindPathForWare
<1>2. CASE h # f
  <2> SUFFICES ASSUME FindPathForWare(rs, f, h) = {} PROVE FALSE
    OBVIOUS
  <2> DEFINE far == rs \ RoadsAt(rs, f)
             S == {x \in Flags : ~Connected(far, x, h)}
  <2>1. ~Connected(far, f, h)
    <3>1. \A r \in far : Ends[r][1] \in {f} <=> Ends[r][2] \in {f}
      BY DEF RoadsAt
    <3>2. {f} \in SUBSET Flags
      OBVIOUS
    <3> HIDE DEF far
    <3> QED BY <1>2, <3>1, <3>2 DEF Connected
  <2>2. Connected(far, h, h)
    BY DEF Connected
  <2>3. \A r \in rs : Ends[r][1] \in Flags /\ Ends[r][2] \in Flags
    BY RoadEnds
  <2>4. ASSUME NEW r \in far PROVE Ends[r][1] \in S <=> Ends[r][2] \in S
    <3>1. \A T \in SUBSET Flags : (\A x \in far : Ends[x][1] \in T <=> Ends[x][2] \in T) =>
             (Ends[r][1] \in T <=> Ends[r][2] \in T)
      OBVIOUS
    <3>2. Connected(far, Ends[r][1], h) <=> Connected(far, Ends[r][2], h)
      <4> HIDE DEF far
      <4> QED BY <3>1 DEF Connected
    <3>3. r \in rs
      OBVIOUS
    <3> HIDE DEF far
    <3> QED BY <2>3, <3>2, <3>3
  <2>5. ASSUME NEW r \in RoadsAt(rs, f) PROVE Ends[r][1] \in S /\ Ends[r][2] \in S
    <3>1. ~Connected(far, Ends[r][Opposite(EndAt(r, f))], h)
      BY <1>2 DEF FindPathForWare
    <3>2. Opposite(EndAt(r, f)) = IF Ends[r][1] = f THEN 2 ELSE 1
      BY DEF Opposite, EndAt
    <3>3. f \in {Ends[r][1], Ends[r][2]} /\ r \in rs
      BY DEF RoadsAt
    <3> HIDE DEF far
    <3> QED BY <2>1, <2>3, <3>1, <3>2, <3>3
  <2>6. \A r \in rs : Ends[r][1] \in S <=> Ends[r][2] \in S
    <3> HIDE DEF S
    <3> QED BY <2>4, <2>5
  <2>7. f \in S /\ S \in SUBSET Flags
    BY <2>1
  <2>8. h \in S
    <3> HIDE DEF S
    <3> QED BY <2>6, <2>7 DEF Connected
  <2> QED BY <2>2, <2>8
<1> QED BY <1>1, <1>2

LEMMA NoPathToNowhere ==
  ASSUME NEW rs \in SUBSET Roads, NEW f \in Flags
  PROVE  FindPathForWare(rs, f, NoGoal) = {}
<1>1. NoGoal \notin Flags
  BY TransportAssumption
<1>2. \A r \in rs : Ends[r][1] \in Flags /\ Ends[r][2] \in Flags
  BY RoadEnds
<1>3. ASSUME NEW rt \in SUBSET rs, NEW a \in Flags PROVE ~Connected(rt, a, NoGoal)
  <2>1. \A r \in rt : Ends[r][1] \in Flags <=> Ends[r][2] \in Flags
    BY <1>2
  <2>2. Flags \in SUBSET Flags
    OBVIOUS
  <2> QED BY <1>1, <2>1, <2>2 DEF Connected
<1>4. ASSUME NEW r \in RoadsAt(rs, f) PROVE Ends[r][Opposite(EndAt(r, f))] \in Flags
  BY <1>2 DEF RoadsAt, Opposite, EndAt
<1>5. rs \ RoadsAt(rs, f) \in SUBSET rs
  OBVIOUS
<1> QED BY <1>1, <1>3, <1>4, <1>5 DEF FindPathForWare

LEMMA ReachesItself ==
  ASSUME NEW rs, NEW f
  PROVE  Connected(rs, f, f)
BY DEF Connected

-----------------------------------------------------------------------------
(* Routes: what a ware at a flag is told. *)

LEMMA RoutedMore ==
  ASSUME NEW s \in NetKind, NEW w \in Wares, NEW g, NEW d
  PROVE  Routed(s, w, g, d).ware[w].goal = g /\ Routed(s, w, g, d).ware[w].dir = d
<1>1. s.ware[w] \in WareKind
  BY Fields
<1>2. s.ware \in [Wares -> WareKind]
  BY Fields
<1>3. Routed(s, w, g, d).ware[w] = [s.ware[w] EXCEPT !.goal = g, !.dir = d]
  BY <1>2 DEF Routed, NetKind
<1> QED BY <1>1, <1>3 DEF WareKind

LEMMA LeadsTo ==
  ASSUME NEW rs \in SUBSET Roads, NEW v, NEW f \in Flags, Leads(rs, v, f)
  PROVE  /\ v.dir = Door <=> v.goal = f
         /\ v.dir = NoDir <=> v.goal = NoGoal
         /\ v.dir \in rs \cup {Door, NoDir}
BY TransportAssumption DEF Leads, FindPathForWare, RoadsAt

LEMMA Recalculated ==
  ASSUME NEW s \in NetKind, NEW w \in Wares, NEW f \in Flags,
         s.ware[w].goal = NoGoal => NoHouseReached(s.roads, f), NEW t \in RecalcRoute(s, w, f)
  PROVE  /\ OnlyWare(s, t, w) /\ t.ware[w].st = s.ware[w].st
         /\ Leads(s.roads, t.ware[w], f)
         /\ f \in Houses /\ s.ware[w].goal # NoGoal => t.ware[w].goal # NoGoal
         /\ s.ware[w].goal = f => t.ware[w].goal = f
<1> DEFINE goal == s.ware[w].goal
           rs == s.roads
           P(g) == FindPathForWare(rs, f, g)
           To(g) == {Routed(s, w, g, d) : d \in P(g)}
           warehouses == IF goal = NoGoal THEN {} ELSE {h \in Houses : Connected(rs, f, h)}
<1>1. rs \in SUBSET Roads /\ goal \in Houses \cup {NoGoal}
  BY Fields DEF WareKind
<1>2. NoGoal \notin Houses /\ Houses \subseteq Flags
  BY TransportAssumption
<1>3. ASSUME NEW g \in Houses \cup {NoGoal}, NEW d \in P(g), t = Routed(s, w, g, d)
      PROVE  /\ OnlyWare(s, t, w) /\ t.ware[w].st = s.ware[w].st
             /\ Leads(rs, t.ware[w], f) /\ t.ware[w].goal = g /\ g # NoGoal
  <2>1. d \in Roads \cup {Door, NoDir}
    BY <1>1, PathKind
  <2>2. OnlyWare(s, t, w) /\ t.ware[w].st = s.ware[w].st
    BY <1>3, <2>1, RoutedField
  <2>3. t.ware[w].goal = g /\ t.ware[w].dir = d
    BY <1>3, RoutedMore
  <2>4. g # NoGoal
    BY <1>1, NoPathToNowhere
  <2> QED BY <2>2, <2>3, <2>4 DEF Leads
<1>4. CASE t \in To(goal)
  BY <1>1, <1>3, <1>4
<1>5. P(f) # {}
  BY DEF FindPathForWare
<1>6. CASE To(goal) = {} /\ warehouses # {}
  <2>1. t \in UNION {To(h) : h \in warehouses}
    BY <1>6 DEF RecalcRoute
  <2>2. PICK h \in Houses : t \in To(h) /\ goal # NoGoal
    BY <2>1
  <2>3. goal # f
    BY <1>5, <1>6
  <2> QED BY <1>2, <1>3, <2>2, <2>3
<1>7. CASE To(goal) = {} /\ warehouses = {}
  <2>1. t = Routed(s, w, NoGoal, NoDir)
    BY <1>7 DEF RecalcRoute
  <2>2. OnlyWare(s, t, w) /\ t.ware[w].st = s.ware[w].st
    BY <2>1, RoutedField
  <2>3. t.ware[w].goal = NoGoal /\ t.ware[w].dir = NoDir
    BY <2>1, RoutedMore
  <2>4. NoHouseReached(rs, f)
    BY <1>7 DEF NoHouseReached
  <2>5. goal # f
    BY <1>5, <1>7
  <2>6. ~(f \in Houses /\ goal # NoGoal)
    BY <1>7, ReachesItself
  <2> QED BY <2>2, <2>3, <2>4, <2>5, <2>6 DEF Leads
<1>8. t \in To(goal) \/ (To(goal) = {} /\ warehouses # {}) \/ (To(goal) = {} /\ warehouses = {})
  BY DEF RecalcRoute
<1> QED BY <1>4, <1>6, <1>7, <1>8

(* A step that leaves a ware alone leaves its route. *)
RouteSame(s, t, w) ==
  /\ t.roads = s.roads /\ t.ware[w] = s.ware[w]
  /\ \A f \in Flags : w \in t.lying[f] => w \in s.lying[f]
  /\ \A h \in Houses : w \in ToSet(t.house[h].waiting) => w \in ToSet(s.house[h].waiting)

LEMMA RouteKept ==
  ASSUME NEW s, NEW t, NEW w, RouteSame(s, t, w), RouteOK(s, w)
  PROVE  RouteOK(t, w)
BY DEF RouteSame, RouteOK

LEMMA CarsRoutes ==
  ASSUME NEW s, NEW t, OnlyCars(s, t), RoutesOK(s)
  PROVE  RoutesOK(t)
<1>1. \A w \in Wares : RouteSame(s, t, w)
  BY DEF OnlyCars, RouteSame
<1> QED BY <1>1, RouteKept DEF RoutesOK

LEMMA DrawnRoutes ==
  ASSUME NEW s \in NetKind, NEW t, NEW f \in Flags, NEW w \in Wares, NEW swap, RoutesOK(s), Drawn(s, t, f, w, swap),
         w \in s.lying[f], s.ware[w].dir # NoDir
  PROVE  RoutesOK(t)
<1>1. s.lying \in [Flags -> SUBSET Wares]
  BY Fields
<1>2. \A v \in Wares \ {w} : RouteSame(s, t, v)
  BY <1>1 DEF Drawn, RouteSame, Prodded, HouseCalm
<1>3. \A v \in Wares \ {w} : RouteOK(t, v)
  BY <1>2, RouteKept DEF RoutesOK
<1>4. s.ware[w].goal \in Houses
  <2>1. Leads(s.roads, s.ware[w], f)
    BY DEF RoutesOK, RouteOK
  <2>2. s.roads \in SUBSET Roads /\ s.ware[w].goal \in Houses \cup {NoGoal}
    BY Fields DEF WareKind
  <2> QED BY <2>1, <2>2, LeadsTo
<1>5. \A g \in Flags : w \in t.lying[g] => w \in s.lying[g]
  BY <1>1 DEF Drawn
<1>6. RouteOK(t, w)
  BY <1>4, <1>5 DEF RoutesOK, RouteOK, Drawn, Leads
<1> QED BY <1>3, <1>6 DEF RoutesOK

LEMMA FetchRoutes ==
  ASSUME NEW s \in NetKind, NEW k \in Carriers, NEW swap, NEW t \in FetchWare(s, k, swap), RoutesOK(s)
  PROVE  RoutesOK(t)
<1> DEFINE f == FacedFlag(s, k)
<1>1. f \in Flags
  BY FacedIsFlag
<1>2. CASE WaresForRoad(s, f, k[1]) = {}
  <2> DEFINE u == SelectWare(s, f, k[1], NoWare, swap, k)
  <2>1. t = Enters(u, k, "stranded")
    BY <1>2 DEF FetchWare
  <2>2. /\ u \in NetKind /\ u.roads = s.roads /\ u.ware = s.ware
        /\ u.lying = [s.lying EXCEPT ![f] = @ \ {NoWare}]
        /\ \A h \in Houses : Prodded(s.house[h], u.house[h])
    BY <1>1, SelectFields
  <2> HIDE DEF u
  <2>3. s.lying \in [Flags -> SUBSET Wares]
    BY Fields
  <2>4. \A w \in Wares : RouteSame(s, u, w)
    BY <2>2, <2>3 DEF RouteSame, Prodded, HouseCalm
  <2>5. RoutesOK(u)
    BY <2>4, RouteKept DEF RoutesOK
  <2>6. OnlyCars(u, t)
    BY <2>1, <2>2, EntersOnlyCars DEF CarrierStates
  <2> QED BY <2>5, <2>6, CarsRoutes
<1>3. CASE WaresForRoad(s, f, k[1]) # {}
  <2>1. PICK w \in WaresForRoad(s, f, k[1]) : Drawn(s, t, f, w, swap)
    BY <1>3, FetchDraws
  <2>2. w \in Wares /\ w \in s.lying[f] /\ s.ware[w].dir = k[1]
    BY <1>1, Fields DEF WaresForRoad
  <2>3. k[1] # NoDir
    BY CarrierEnds, TransportAssumption
  <2> QED BY <1>1, <2>1, <2>2, <2>3, DrawnRoutes
<1> QED BY <1>2, <1>3

LEMMA LookRoutes ==
  ASSUME NEW s \in NetKind, NEW k \in Carriers, NEW t \in LookForWares(s, k), RoutesOK(s)
  PROVE  RoutesOK(t)
<1>1. \A st \in {"fetch", "middle"} : OnlyCars(s, Turns(s, k, st, 0))
  BY TurnsOnlyCars DEF CarrierStates
<1>2. CASE t \in FetchWare(s, k, FALSE)
  BY <1>2, FetchRoutes
<1>3. CASE \E st \in {"fetch", "middle"} : t = Turns(s, k, st, 0)
  BY <1>1, <1>3, CarsRoutes
<1>4. \/ t \in FetchWare(s, k, FALSE)
      \/ \E st \in {"fetch", "middle"} : t = Turns(s, k, st, 0)
  BY DEF LookForWares
<1> QED BY <1>2, <1>3, <1>4

(* A ware is put down at a flag, with a route. *)
Laid(s, t, w, f) ==
  /\ t \in NetKind /\ t.roads = s.roads
  /\ t.lying = [s.lying EXCEPT ![f] = @ \cup {w}]
  /\ \A v \in Wares \ {w} : t.ware[v] = s.ware[v]
  /\ t.ware[w].st = "flag" /\ Leads(s.roads, t.ware[w], f)
  /\ \A h \in Houses : IF h = f /\ t.ware[w].dir = Door THEN Sent(s.house[h], t.house[h])
                       ELSE t.house[h] = s.house[h]

LEMMA FlagAddFields ==
  ASSUME NEW s \in NetKind, NEW w \in Wares, NEW f \in Flags, Space(s, f), NEW t \in FlagAddWare(s, w, f)
  PROVE  /\ t \in NetKind /\ t.roads = s.roads /\ t.ware = s.ware
         /\ t.lying = [s.lying EXCEPT ![f] = @ \cup {w}]
         /\ \A h \in Houses : IF h = f /\ s.ware[w].dir = Door THEN Sent(s.house[h], t.house[h])
                              ELSE t.house[h] = s.house[h]
<1> DEFINE S == s.lying[f] \cup {w}
           u == [s EXCEPT !.lying[f] = S]
<1>1. S \in SUBSET Wares
  BY Fields
<1>2. t \in AddWareJob(u, w, f)
  BY DEF FlagAddWare
<1> HIDE DEF S
<1>3. /\ u \in NetKind /\ u.lying = [s.lying EXCEPT ![f] = S]
      /\ u.roads = s.roads /\ u.ware = s.ware /\ u.house = s.house
  BY <1>1, LyingSet
<1> HIDE DEF u
<1>4. /\ t \in NetKind /\ t.roads = u.roads /\ t.lying = u.lying /\ t.ware = u.ware
      /\ \A h \in Houses : IF h = f /\ u.ware[w].dir = Door THEN Sent(u.house[h], t.house[h])
                           ELSE t.house[h] = u.house[h]
  BY <1>2, <1>3, AddJobFields
<1> QED BY <1>3, <1>4 DEF S

LEMMA LieMore ==
  ASSUME NEW s \in NetKind, NEW w \in Wares
  PROVE  LieAtFlag(s, w).ware[w].goal = s.ware[w].goal /\ LieAtFlag(s, w).ware[w].dir = s.ware[w].dir
<1>1. s.ware \in [Wares -> WareKind] /\ s.ware[w] \in WareKind
  BY Fields
<1>2. LieAtFlag(s, w).ware[w] = [s.ware[w] EXCEPT !.st = "flag"]
  BY <1>1 DEF LieAtFlag, NetKind
<1> QED BY <1>1, <1>2 DEF WareKind

LEMMA RouteLaid ==
  ASSUME NEW s \in NetKind, NEW w \in Wares, NEW f \in Flags, Space(s, f), s.ware[w].goal # NoGoal,
         NEW u \in RecalcRoute(LieAtFlag(s, w), w, f), NEW t \in FlagAddWare(u, w, f)
  PROVE  Laid(s, t, w, f)
<1> DEFINE l == LieAtFlag(s, w)
<1>1. OnlyWare(s, l, w) /\ l.ware[w].st = "flag" /\ l.ware[w].goal = s.ware[w].goal
  BY LieField, LieMore
<1> HIDE DEF l
<1>2. l \in NetKind /\ l.roads = s.roads
  BY <1>1 DEF OnlyWare
<1>3. OnlyWare(l, u, w) /\ u.ware[w].st = "flag" /\ Leads(l.roads, u.ware[w], f)
  <2>1. u \in RecalcRoute(l, w, f)
    BY DEF l
  <2> QED BY <1>1, <1>2, <2>1, Recalculated
<1>4. u \in NetKind /\ Space(u, f) /\ u.lying = s.lying
  BY <1>1, <1>3 DEF OnlyWare, Space
<1>5. /\ t \in NetKind /\ t.roads = u.roads /\ t.ware = u.ware
      /\ t.lying = [u.lying EXCEPT ![f] = @ \cup {w}]
      /\ \A h \in Houses : IF h = f /\ u.ware[w].dir = Door THEN Sent(u.house[h], t.house[h])
                           ELSE t.house[h] = u.house[h]
  BY <1>4, FlagAddFields
<1> QED BY <1>1, <1>2, <1>3, <1>4, <1>5 DEF Laid, OnlyWare

LEMMA PutDownLaid ==
  ASSUME NEW s \in NetKind, NEW w \in Wares, NEW f \in Flags, Space(s, f), s.ware[w].goal # NoGoal,
         f \in Houses => Leads(s.roads, s.ware[w], f), NEW t \in PutDown(s, w, f)
  PROVE  Laid(s, t, w, f)
<1> DEFINE l == LieAtFlag(s, w)
<1>1. CASE f \in Houses
  <2>1. t \in FlagAddWare(l, w, f)
    BY <1>1 DEF PutDown
  <2>2. OnlyWare(s, l, w) /\ l.ware[w].st = "flag" /\ l.ware[w].goal = s.ware[w].goal /\ l.ware[w].dir = s.ware[w].dir
    BY LieField, LieMore
  <2> HIDE DEF l
  <2>3. l \in NetKind /\ Space(l, f) /\ l.lying = s.lying
    BY <2>2 DEF OnlyWare, Space
  <2>4. /\ t \in NetKind /\ t.roads = l.roads /\ t.ware = l.ware
        /\ t.lying = [l.lying EXCEPT ![f] = @ \cup {w}]
        /\ \A h \in Houses : IF h = f /\ l.ware[w].dir = Door THEN Sent(l.house[h], t.house[h])
                             ELSE t.house[h] = l.house[h]
    BY <2>1, <2>3, FlagAddFields
  <2>5. Leads(s.roads, t.ware[w], f)
    BY <1>1, <2>2, <2>4 DEF Leads
  <2> QED BY <2>2, <2>3, <2>4, <2>5 DEF Laid, OnlyWare
<1>2. CASE f \notin Houses
  <2>1. PICK u \in RecalcRoute(l, w, f) : t \in FlagAddWare(u, w, f)
    BY <1>2 DEF PutDown
  <2> QED BY <2>1, RouteLaid
<1> QED BY <1>1, <1>2

LEMMA LaidRoutes ==
  ASSUME NEW s \in NetKind, NEW t, NEW w \in Wares, NEW f \in Flags, Laid(s, t, w, f),
         \A v \in Wares \ {w} : RouteOK(s, v), \A g \in Flags : w \notin s.lying[g]
  PROVE  RoutesOK(t)
<1>1. s.lying \in [Flags -> SUBSET Wares]
  BY Fields
<1>2. \A v \in Wares \ {w} : RouteSame(s, t, v)
  BY <1>1 DEF Laid, RouteSame, Sent, HouseCalm
<1>3. \A v \in Wares \ {w} : RouteOK(t, v)
  BY <1>2, RouteKept
<1>4. \A g \in Flags : w \in t.lying[g] => g = f
  BY <1>1 DEF Laid
<1>5. RouteOK(t, w)
  BY <1>4 DEF RouteOK, Laid
<1> QED BY <1>3, <1>5 DEF RoutesOK

-----------------------------------------------------------------------------
(* Carriers: who looks at which end of a road. *)

LEMMA CountJobs ==
  ASSUME NEW s \in NetKind, NEW f \in Flags, NEW d
  PROVE  /\ WaresForRoad(s, f, d) \subseteq Wares /\ IsFiniteSet(WaresForRoad(s, f, d))
         /\ Cardinality(WaresForRoad(s, f, d)) \in Nat
         /\ Cardinality(WaresForRoad(s, f, d)) > 0 <=> WaresForRoad(s, f, d) # {}
<1> DEFINE J == WaresForRoad(s, f, d)
<1>1. J \subseteq Wares
  BY Fields DEF WaresForRoad
<1> HIDE DEF J
<1>2. IsFiniteSet(J)
  BY <1>1, FS_Subset, TransportAssumption
<1>3. Cardinality(J) \in Nat /\ (Cardinality(J) = 0 <=> J = {})
  BY <1>2, FS_CardinalityType, FS_EmptySet
<1> QED BY <1>1, <1>2, <1>3 DEF J

(* Nothing lies at end e for the road of carrier k, or his partner is at it. *)
Covered(s, k, e) ==
  LET partner == <<k[1], 3 - k[2]>> IN
  \/ Jobs(s, k[1], e) = {}
  \/ partner \in Carriers /\ ~Idle(s.car[partner], e)

LEMMA LeftAlone ==
  ASSUME NEW s \in NetKind, NEW k \in Carriers, NEW e \in {1, 2}, NEW now, ~AreWareJobs(s, k, e, now)
  PROVE  Covered(s, k, e)
<1> DEFINE J == WaresForRoad(s, Ends[k[1]][e], k[1])
           partner == <<k[1], 3 - k[2]>>
<1>1. Ends[k[1]][e] \in Flags
  BY CarrierEnds
<1>2. Cardinality(J) > 0 <=> J # {}
  BY <1>1, CountJobs
<1> HIDE DEF J
<1>3. CASE J = {}
  BY <1>3 DEF Covered, Jobs, J
<1>4. CASE Cardinality(J) > 0
  <2>1. /\ partner \in Carriers
        /\ s.car[partner].st \in {"fetch", "carry", "space", "back", "tohouse", "leaving"}
    BY <1>4 DEF AreWareJobs, J
  <2>2. ~Idle(s.car[partner], e)
    BY <2>1 DEF Idle
  <2> QED BY <2>1, <2>2 DEF Covered
<1> QED BY <1>2, <1>3, <1>4

LEMMA JobsThere ==
  ASSUME NEW s \in NetKind, NEW k \in Carriers, NEW e \in {1, 2}, NEW now, AreWareJobs(s, k, e, now)
  PROVE  Jobs(s, k[1], e) # {}
<1>1. Ends[k[1]][e] \in Flags
  BY CarrierEnds
<1> QED BY <1>1, CountJobs DEF AreWareJobs, Jobs

LEMMA CarrierIndex ==
  ASSUME NEW k \in Carriers
  PROVE  /\ k[2] \in {1, 2} /\ k = <<k[1], k[2]>> /\ k[1] \in Roads
         /\ <<k[1], 3 - k[2]>> \in Carriers => k[1] \in Donkeys
         /\ k[1] \notin Donkeys => k = <<k[1], 1>>
         /\ <<k[1], 3 - k[2]>> # k
BY TransportAssumption DEF Carriers

(* One carrier changes: if nothing lies at an end that nobody else would look *)
(* at, or he does, then the ends of his road are watched whatever was before. *)
Away(P, k) == {p \in P : p[1] # k[1]}

LEMMA CarWatched ==
  ASSUME NEW s \in NetKind, NEW t, NEW k \in Carriers, OnlyCar(s, t, k), NEW P, P \subseteq Roads \X {1, 2}, NEW K,
         Watch(s, Away(P, k), K \ {k}), \A e \in {1, 2} : Covered(s, k, e) \/ ~TakesJob(t.car[k], e),
         Finds(t, k), K \subseteq Carriers
  PROVE  Watch(t, P, K)
<1>1. \A r, e : Jobs(t, r, e) = Jobs(s, r, e)
  BY DEF Jobs, WaresForRoad, OnlyCar
<1>2. \A j \in Carriers \ {k} : t.car[j] = s.car[j]
  BY DEF OnlyCar
<1>3. ASSUME NEW j \in K PROVE Finds(t, j)
  <2>1. CASE j = k
    BY <2>1
  <2>2. CASE j # k
    BY <1>1, <1>2, <2>2 DEF Finds, Watch
  <2> QED BY <2>1, <2>2
<1>4. ASSUME NEW p \in P PROVE Attended(t, p[1], p[2])
  <2> DEFINE r == p[1]
             e == p[2]
             partner == <<k[1], 3 - k[2]>>
  <2>1. r \in Roads /\ e \in {1, 2} /\ (r # k[1] => Attended(s, r, e))
    BY DEF Watch, Away
  <2>2. CASE r # k[1]
    <3>1. \A j \in Carriers : j[1] = r => t.car[j] = s.car[j]
      BY <1>2, <2>2
    <3>2. <<r, 1>> \in Carriers
      BY <2>1 DEF Carriers
    <3>3. t.car[<<r, 1>>] = s.car[<<r, 1>>]
      BY <3>1, <3>2
    <3> QED BY <1>1, <2>1, <2>2, <3>1, <3>3 DEF Attended
  <2>3. CASE r = k[1] /\ Jobs(t, r, e) # {}
    <3>1. CASE ~TakesJob(t.car[k], e)
      <4>1. ~Idle(t.car[k], e)
        BY <3>1 DEF Idle, TakesJob
      <4> QED BY <2>3, <3>1, <4>1, CarrierIndex DEF Attended
    <3>2. CASE Covered(s, k, e)
      <4>1. partner \in Carriers /\ ~Idle(s.car[partner], e)
        BY <1>1, <2>3, <3>2 DEF Covered
      <4>2. t.car[partner] = s.car[partner] /\ r \in Donkeys
        BY <1>2, <2>3, <4>1, CarrierIndex
      <4> QED BY <2>3, <4>1, <4>2 DEF Attended
    <3> QED BY <2>1, <3>1, <3>2
  <2>4. CASE Jobs(t, r, e) = {}
    BY <2>4 DEF Attended
  <2> QED BY <2>2, <2>3, <2>4
<1> QED BY <1>3, <1>4 DEF Watch

(* Busy carriers take no job. *)
LEMMA BusyWatched ==
  ASSUME NEW s \in NetKind, NEW t, NEW k \in Carriers, OnlyCar(s, t, k), NEW P, P \subseteq Roads \X {1, 2}, NEW K,
         Watch(s, Away(P, k), K \ {k}), t.car[k].st \in {"none", "coming", "carry", "back", "tohouse", "leaving"}, K \subseteq Carriers
  PROVE  Watch(t, P, K)
<1>1. \A e \in {1, 2} : ~TakesJob(t.car[k], e)
  BY DEF TakesJob
<1>2. Finds(t, k)
  BY DEF Finds
<1> QED BY <1>1, <1>2, CarWatched

(* The jobs of a net whose flags and wares stand as before are the same; a  *)
(* carrier who goes on with his ware is still not idle.                     *)
LEMMA GoOnWatched ==
  ASSUME NEW s \in NetKind, NEW t, NEW P, P \subseteq Roads \X {1, 2}, NEW K, K \subseteq Carriers, Watch(s, P, K),
         t.lying = s.lying, t.ware = s.ware,
         \A k \in Carriers : t.car[k] = s.car[k] \/ GoesOn(s.car[k], t.car[k])
  PROVE  Watch(t, P, K)
<1>1. \A r, e : Jobs(t, r, e) = Jobs(s, r, e)
  BY DEF Jobs, WaresForRoad
<1>2. \A k \in K : Finds(t, k)
  BY <1>1 DEF Watch, Finds, GoesOn
<1>3. \A k \in Carriers, e \in {1, 2} :
        /\ Idle(t.car[k], e) => Idle(s.car[k], e)
        /\ TakesJob(t.car[k], e) => TakesJob(s.car[k], e)
  BY DEF Idle, TakesJob, GoesOn
<1>4. ASSUME NEW p \in P PROVE Attended(t, p[1], p[2])
  <2>1. p[1] \in Roads /\ p[2] \in {1, 2} /\ Attended(s, p[1], p[2])
    BY DEF Watch
  <2>2. <<p[1], 1>> \in Carriers
    BY <2>1 DEF Carriers
  <2> QED BY <1>1, <1>3, <2>1, <2>2 DEF Attended
<1> QED BY <1>2, <1>4 DEF Watch

(* A carrier is told that a ware is taken: he turns back if it was the last. *)
LEMMA RemovedWatch ==
  ASSUME NEW s \in NetKind, NEW k \in Carriers, NEW P, P \subseteq Roads \X {1, 2}, NEW K, K \subseteq Carriers,
         Watch(s, P, K), s.car[k].st # "stranded"
  PROVE  Watch(RemoveWareJob(s, k), P, K \cup {k})
<1> DEFINE e == s.car[k].to
           t == Enters(s, k, "middle")
<1>1. e \in {1, 2}
  BY Fields DEF CarKind
<1>2. CASE s.car[k].st = "fetch" /\ ~AreWareJobs(s, k, e, FALSE)
  <2>1. OnlyCar(s, t, k) /\ t.car[k].st = "middle" /\ t.car[k].to = e
    BY EntersField DEF CarrierStates
  <2>2. RemoveWareJob(s, k) = t
    BY <1>2 DEF RemoveWareJob
  <2> HIDE DEF t
  <2>3. Finds(t, k)
    BY <2>1 DEF Finds
  <2>4. \A x \in {1, 2} : Covered(s, k, x) \/ ~TakesJob(t.car[k], x)
    BY <1>1, <1>2, <2>1, LeftAlone DEF TakesJob
  <2>5. Watch(s, Away(P, k), (K \cup {k}) \ {k})
    BY DEF Watch, Away
  <2> QED BY <2>1, <2>2, <2>3, <2>4, <2>5, CarWatched
<1>3. CASE ~(s.car[k].st = "fetch" /\ ~AreWareJobs(s, k, e, FALSE))
  <2>1. RemoveWareJob(s, k) = s
    BY <1>3 DEF RemoveWareJob
  <2>2. Finds(s, k)
    BY <1>1, <1>3, JobsThere DEF Finds
  <2> QED BY <2>1, <2>2 DEF Watch
<1> QED BY <1>2, <1>3

LEMMA RemovedNotStranded ==
  ASSUME NEW s \in NetKind, NEW k \in Carriers, NEW j \in Carriers, s.car[j].st # "stranded"
  PROVE  RemoveWareJob(s, k).car[j].st # "stranded"
<1> DEFINE t == Enters(s, k, "middle")
<1>1. OnlyCar(s, t, k) /\ t.car[k].st = "middle"
  BY EntersField DEF CarrierStates
<1> HIDE DEF t
<1>2. t.car[j].st # "stranded"
  BY <1>1 DEF OnlyCar
<1>3. RemoveWareJob(s, k) \in {s, t}
  BY DEF RemoveWareJob, t
<1> QED BY <1>2, <1>3

OnRoad(r, x) == {<<r, 1>>, <<r, 2>>} \cap (Carriers \ {x})

LEMMA JobRemovedWatch ==
  ASSUME NEW s \in NetKind, NEW r, NEW x, NEW P, P \subseteq Roads \X {1, 2}, NEW K, K \subseteq Carriers,
         Watch(s, P, K), \A k \in OnRoad(r, x) : s.car[k].st # "stranded"
  PROVE  Watch(WareJobRemoved(s, r, x), P, K \cup OnRoad(r, x))
<1> DEFINE Told(t, k) == IF k \in Carriers \ {x} THEN RemoveWareJob(t, k) ELSE t
           t == Told(s, <<r, 1>>)
           u == Told(t, <<r, 2>>)
           M == K \cup ({<<r, 1>>} \cap (Carriers \ {x}))
<1>1. WareJobRemoved(s, r, x) = u
  BY DEF WareJobRemoved
<1>2. t \in NetKind
  BY RemovedOnlyCars DEF OnlyCars
<1>3. Watch(t, P, M)
  <2>1. CASE <<r, 1>> \in Carriers \ {x}
    <3>1. M = K \cup {<<r, 1>>} /\ t = RemoveWareJob(s, <<r, 1>>)
      BY <2>1
    <3>2. s.car[<<r, 1>>].st # "stranded"
      BY <2>1 DEF OnRoad
    <3> HIDE DEF M, t
    <3> QED BY <2>1, <3>1, <3>2, RemovedWatch
  <2>2. CASE <<r, 1>> \notin Carriers \ {x}
    BY <2>2 DEF Watch
  <2> QED BY <2>1, <2>2
<1>4. <<r, 2>> \in Carriers \ {x} => t.car[<<r, 2>>].st # "stranded"
  BY RemovedNotStranded DEF OnRoad
<1>5. M \subseteq Carriers /\ K \cup OnRoad(r, x) = M \cup ({<<r, 2>>} \cap (Carriers \ {x}))
  BY DEF OnRoad
<1> HIDE DEF M, t
<1>6. Watch(u, P, M \cup ({<<r, 2>>} \cap (Carriers \ {x})))
  <2>1. CASE <<r, 2>> \in Carriers \ {x}
    <3>1. M \cup ({<<r, 2>>} \cap (Carriers \ {x})) = M \cup {<<r, 2>>} /\ u = RemoveWareJob(t, <<r, 2>>)
      BY <2>1
    <3> QED BY <1>2, <1>3, <1>4, <1>5, <2>1, <3>1, RemovedWatch
  <2>2. CASE <<r, 2>> \notin Carriers \ {x}
    <3>1. u = t
      BY <2>2
    <3> HIDE DEF u
    <3> QED BY <1>3, <2>2, <3>1 DEF Watch
  <2> QED BY <2>1, <2>2
<1> QED BY <1>1, <1>5, <1>6

LEMMA WaysKind ==
  ASSUME NEW s \in NetKind
  PROVE  Ways(s) \subseteq Roads \X {1, 2}
BY Fields DEF Ways

(* A ware is taken from flag f for road d, or goes out by the door: whoever *)
(* comes for one still finds one.                                           *)
LEMMA SelectWatch ==
  ASSUME NEW s \in NetKind, NEW f \in Flags, NEW w, NEW d, w \in s.lying[f] => s.ware[w].dir = d, NEW swap, NEW k,
         NEW P, P \subseteq Roads \X {1, 2}, Watch(s, P, Carriers \ {k}),
         NEW t, t = SelectWare(s, f, d, w, swap, k), d # NoDir
  PROVE  Watch(t, P, Carriers \ {k})
<1> DEFINE S == s.lying[f] \ {w}
           u == [s EXCEPT !.lying[f] = S]
           told == IF d = Door THEN u ELSE WareJobRemoved(u, d, k)
           K == {j \in Carriers \ {k} : j[1] # d}
<1>1. t = IF swap THEN told ELSE PlaceFree(told, f)
  BY DEF SelectWare
<1>2. S \in SUBSET Wares
  BY Fields
<1>3. K \subseteq Carriers
  OBVIOUS
<1> HIDE DEF S
<1>4. /\ u \in NetKind /\ u.lying = [s.lying EXCEPT ![f] = S] /\ u.ware = s.ware /\ u.car = s.car
  BY <1>2, LyingSet
<1> HIDE DEF u
<1>5. s.lying \in [Flags -> SUBSET Wares]
  BY Fields
<1>6. ASSUME NEW r \in Roads, NEW e \in {1, 2}
      PROVE  /\ Jobs(u, r, e) \subseteq Jobs(s, r, e)
             /\ r # d => Jobs(u, r, e) = Jobs(s, r, e)
  <2>1. Ends[r][e] \in Flags
    BY RoadEnds
  <2>2. u.lying[Ends[r][e]] = IF Ends[r][e] = f THEN s.lying[f] \ {w} ELSE s.lying[Ends[r][e]]
    BY <1>4, <1>5, <2>1 DEF S
  <2> QED BY <1>4, <2>2 DEF Jobs, WaresForRoad
<1>7. ASSUME NEW p \in P PROVE Attended(u, p[1], p[2])
  <2>1. p[1] \in Roads /\ p[2] \in {1, 2} /\ Attended(s, p[1], p[2])
    BY <1>3 DEF Watch
  <2> QED BY <1>4, <1>6, <2>1 DEF Attended
<1>8. ASSUME NEW j \in Carriers \ {k}, j[1] # d PROVE Finds(u, j)
  <2>1. j[1] \in Roads /\ s.car[j].to \in {1, 2} /\ Finds(s, j)
    BY CarrierIndex, Fields DEF CarKind, Watch
  <2> QED BY <1>4, <1>6, <1>8, <2>1 DEF Finds
<1>9. Watch(u, P, K)
  BY <1>7, <1>8 DEF Watch
<1>10. Watch(told, P, Carriers \ {k}) /\ told \in NetKind
  <2>1. CASE d = Door
    <3>1. \A j \in Carriers : j[1] # d
      BY <2>1, CarrierIndex, TransportAssumption
    <3> QED BY <1>4, <1>9, <2>1, <3>1 DEF Watch
  <2>2. CASE d # Door
    <3>1. \A j \in OnRoad(d, k) : u.car[j].st # "stranded"
      BY <1>4 DEF OnRoad, Watch, Finds
    <3>2. Watch(told, P, K \cup OnRoad(d, k))
      BY <1>3, <1>4, <1>9, <2>2, <3>1, JobRemovedWatch
    <3>3. \A j \in Carriers \ {k} : j \in K \cup OnRoad(d, k)
      BY CarrierIndex DEF OnRoad
    <3>4. told \in NetKind
      BY <1>4, <2>2, JobRemovedOnlyCars DEF OnlyCars
    <3> HIDE DEF told, K
    <3> QED BY <3>2, <3>3, <3>4 DEF Watch
  <2> QED BY <2>1, <2>2
<1> HIDE DEF told
<1>11. CASE swap
  BY <1>1, <1>10, <1>11
<1>12. CASE ~swap
  <2>1. /\ t.lying = told.lying /\ t.ware = told.ware
        /\ \A j \in Carriers : t.car[j] = told.car[j] \/ GoesOn(told.car[j], t.car[j])
    BY <1>1, <1>10, <1>12, PlaceFreeFields
  <2> QED BY <1>3, <1>10, <2>1, GoOnWatched
<1> QED BY <1>11, <1>12

LEMMA TakesWatch ==
  ASSUME NEW s \in NetKind, NEW k \in Carriers, NEW w \in Wares, NEW P, P \subseteq Roads \X {1, 2},
         Watch(s, Away(P, k), Carriers \ {k}), NEW t, t = Takes(s, k, w)
  PROVE  Watch(t, P, Carriers)
<1>1. /\ t \in NetKind /\ t.roads = s.roads /\ t.lying = s.lying /\ t.house = s.house
      /\ \A v \in Wares \ {w} : t.ware[v] = s.ware[v]
      /\ t.ware[w].dir = s.ware[w].dir
      /\ \A j \in Carriers \ {k} : t.car[j] = s.car[j]
      /\ t.car[k].st = "carry"
  BY TakesField, TakesMore
<1> DEFINE u == [s EXCEPT !.ware = t.ware]
<1>2. t.ware \in [Wares -> WareKind]
  BY <1>1, Fields
<1>3. u \in NetKind /\ u.roads = s.roads /\ u.lying = s.lying /\ u.house = s.house /\ u.car = s.car /\ u.ware = t.ware
  BY <1>2 DEF NetKind
<1> HIDE DEF u
<1>4. OnlyCar(u, t, k)
  BY <1>1, <1>3 DEF OnlyCar
<1>5. ASSUME NEW r \in Roads, NEW e \in {1, 2} PROVE Jobs(u, r, e) = Jobs(s, r, e)
  <2>1. Ends[r][e] \in Flags
    BY RoadEnds
  <2>2. s.lying[Ends[r][e]] \subseteq Wares
    BY <2>1, Fields
  <2> QED BY <1>1, <1>3, <2>2 DEF Jobs, WaresForRoad
<1>6. ASSUME NEW p \in Away(P, k) PROVE Attended(u, p[1], p[2])
  <2>1. p[1] \in Roads /\ p[2] \in {1, 2} /\ Attended(s, p[1], p[2])
    BY DEF Watch, Away
  <2> QED BY <1>3, <1>5, <2>1 DEF Attended
<1>7. ASSUME NEW j \in Carriers \ {k} PROVE Finds(u, j)
  <2>1. j[1] \in Roads /\ s.car[j].to \in {1, 2} /\ Finds(s, j)
    BY CarrierIndex, Fields DEF CarKind, Watch
  <2> QED BY <1>3, <1>5, <2>1 DEF Finds
<1>8. Watch(u, Away(P, k), Carriers \ {k})
  BY <1>6, <1>7 DEF Watch
<1> QED BY <1>1, <1>3, <1>4, <1>8, BusyWatched

LEMMA FetchWatch ==
  ASSUME NEW s \in NetKind, NEW k \in Carriers, NEW swap, NEW t \in FetchWare(s, k, swap),
         WaresForRoad(s, FacedFlag(s, k), k[1]) # {}, Watch(s, Away(Ways(s), k), Carriers \ {k})
  PROVE  Watch(t, Ways(s), Carriers)
<1> DEFINE f == FacedFlag(s, k)
           X(w) == SelectWare(s, f, k[1], w, swap, k)
<1>1. f \in Flags
  BY FacedIsFlag
<1>2. PICK w \in WaresForRoad(s, f, k[1]) : t = Takes(X(w), k, w)
  BY DEF FetchWare
<1>3. w \in Wares /\ w \in s.lying[f] /\ s.ware[w].dir = k[1]
  BY <1>1, Fields DEF WaresForRoad
<1>8. Away(Ways(s), k) \subseteq Roads \X {1, 2}
  BY WaysKind DEF Away
<1>4. k[1] # NoDir /\ Ways(s) \subseteq Roads \X {1, 2}
  BY CarrierIndex, WaysKind, TransportAssumption
<1> DEFINE u == X(w)
<1>5. u \in NetKind
  BY <1>1, SelectFields
<1>6. Watch(u, Away(Ways(s), k), Carriers \ {k})
  BY <1>1, <1>3, <1>4, <1>8, SelectWatch
<1>7. t = Takes(u, k, w)
  BY <1>2
<1> HIDE DEF u
<1> QED BY <1>3, <1>4, <1>5, <1>6, <1>7, TakesWatch

(* A job is given, for a ware that lies at flag f with a way from there:    *)
(* until then nobody has heard of it.                                       *)
Unheard(s, v, f) == Ways(s) \ {<<v.dir, EndAt(v.dir, f)>>}

LEMMA LeadsByRoad ==
  ASSUME NEW rs \in SUBSET Roads, NEW v, NEW f \in Flags, Leads(rs, v, f), v.dir \in Roads
  PROVE  v.dir \in rs /\ EndAt(v.dir, f) \in {1, 2} /\ Ends[v.dir][EndAt(v.dir, f)] = f
BY TransportAssumption DEF Leads, FindPathForWare, RoadsAt, EndAt

LEMMA RoadAddedWatch ==
  ASSUME NEW s \in NetKind, NEW d \in Roads, NEW e \in {1, 2}, NEW P, P \subseteq Roads \X {1, 2}, Jobs(s, d, e) # {},
         Watch(s, P \ {<<d, e>>}, Carriers), NEW t \in RoadAddWareJob(s, d, e)
  PROVE  Watch(t, P, Carriers)
<1> DEFINE takers == {k \in Carriers : k[1] = d /\ TakesJob(s.car[k], e)}
           P0 == P \ {<<d, e>>}
<1>1. <<d, 1>> \in Carriers
  BY DEF Carriers
<1>2. P0 \subseteq Roads \X {1, 2}
  OBVIOUS
<1>3. ASSUME Watch(t, P0, Carriers), Attended(t, d, e) PROVE Watch(t, P, Carriers)
  <2>1. ASSUME NEW p \in P PROVE Attended(t, p[1], p[2])
    <3>1. CASE p = <<d, e>>
      BY <1>3, <3>1
    <3>2. CASE p # <<d, e>>
      BY <1>3, <3>2 DEF Watch
    <3> QED BY <3>1, <3>2
  <2> QED BY <1>3, <2>1 DEF Watch
<1>4. CASE takers = {}
  <2>1. t = s
    BY <1>4 DEF RoadAddWareJob
  <2>2. ~TakesJob(s.car[<<d, 1>>], e)
    BY <1>1, <1>4
  <2>3. Attended(s, d, e)
    BY <1>1, <2>2 DEF Attended, TakesJob, Idle
  <2> QED BY <1>3, <2>1, <2>3
<1>5. CASE takers # {}
  <2>1. PICK k \in takers : t = CarrierAddWareJob(s, k, e)
    BY <1>5 DEF RoadAddWareJob
  <2>2. /\ OnlyCar(s, t, k) /\ t.car[k].st \in {"carry", "fetch"} /\ t.car[k].to = e
    BY <2>1, AddedField
  <2>3. k \in Carriers /\ k[1] = d
    OBVIOUS
  <2>4. Jobs(t, d, e) = Jobs(s, d, e)
    BY <2>2 DEF OnlyCar, Jobs, WaresForRoad
  <2>5. Finds(t, k)
    BY <2>2, <2>3, <2>4 DEF Finds
  <2>6. \A x \in {1, 2} : ~TakesJob(t.car[k], x) /\ ~Idle(t.car[k], x)
    BY <2>2 DEF TakesJob, Idle
  <2>7. Watch(s, Away(P0, k), Carriers \ {k})
    BY DEF Watch, Away
  <2>8. Watch(t, P0, Carriers)
    BY <1>2, <2>2, <2>3, <2>5, <2>6, <2>7, CarWatched
  <2>9. Attended(t, d, e)
    BY <2>3, <2>6, CarrierIndex DEF Attended
  <2> QED BY <1>3, <2>8, <2>9
<1> QED BY <1>4, <1>5

LEMMA AddJobWatch ==
  ASSUME NEW s \in NetKind, NEW w \in Wares, NEW f \in Flags, w \in s.lying[f], Leads(s.roads, s.ware[w], f),
         Watch(s, Unheard(s, s.ware[w], f), Carriers), NEW t \in AddWareJob(s, w, f)
  PROVE  Watch(t, Ways(s), Carriers)
<1> DEFINE d == s.ware[w].dir
           e == EndAt(d, f)
<1>1. Ways(s) \subseteq Roads \X {1, 2}
  BY Fields DEF Ways
<1>2. CASE d \notin Roads
  <2>1. Unheard(s, s.ware[w], f) = Ways(s)
    BY <1>1, <1>2 DEF Unheard
  <2>2. t = s \/ t = HouseFetchWare(s, f)
    BY <1>2, AddJobCases
  <2>3. t.lying = s.lying /\ t.ware = s.ware /\ t.car = s.car
    BY <2>2, FetchTold
  <2> QED BY <1>1, <2>1, <2>3, GoOnWatched
<1>3. CASE d \in Roads
  <2>1. t \in RoadAddWareJob(s, d, e) /\ e \in {1, 2}
    BY <1>3, AddJobCases, TransportAssumption
  <2>2. Ends[d][e] = f
    <3>1. s.roads \in SUBSET Roads
      BY Fields
    <3> QED BY <1>3, <3>1, LeadsByRoad
  <2>3. Jobs(s, d, e) # {}
    BY <2>2 DEF Jobs, WaresForRoad
  <2>4. Watch(s, Ways(s) \ {<<d, e>>}, Carriers)
    BY DEF Unheard
  <2> HIDE DEF e, d
  <2> QED BY <1>1, <1>3, <2>1, <2>3, <2>4, RoadAddedWatch
<1> QED BY <1>2, <1>3

(* A ware that lies nowhere is nobody's job. *)
LEMMA WareUnseen ==
  ASSUME NEW s \in NetKind, NEW u, NEW w \in Wares, OnlyWare(s, u, w), \A g \in Flags : w \notin s.lying[g],
         NEW P, P \subseteq Roads \X {1, 2}, NEW K, K \subseteq Carriers, Watch(s, P, K)
  PROVE  Watch(u, P, K)
<1>1. u.lying = s.lying /\ u.car = s.car
  BY DEF OnlyWare
<1>2. ASSUME NEW r \in Roads, NEW e \in {1, 2} PROVE Jobs(u, r, e) = Jobs(s, r, e)
  <2>1. Ends[r][e] \in Flags
    BY RoadEnds
  <2>2. s.lying[Ends[r][e]] \subseteq Wares \ {w}
    BY <2>1, Fields
  <2> QED BY <2>2 DEF Jobs, WaresForRoad, OnlyWare
<1>3. ASSUME NEW p \in P PROVE Attended(u, p[1], p[2])
  <2>1. p[1] \in Roads /\ p[2] \in {1, 2} /\ Attended(s, p[1], p[2])
    BY DEF Watch
  <2> QED BY <1>1, <1>2, <2>1 DEF Attended
<1>4. ASSUME NEW j \in K PROVE Finds(u, j)
  <2>1. j[1] \in Roads /\ s.car[j].to \in {1, 2} /\ Finds(s, j)
    BY CarrierIndex, Fields DEF CarKind, Watch
  <2> QED BY <1>1, <1>2, <2>1 DEF Finds
<1> QED BY <1>3, <1>4 DEF Watch

LEMMA FlagAddWatch ==
  ASSUME NEW s \in NetKind, NEW w \in Wares, NEW f \in Flags, Space(s, f), \A g \in Flags : w \notin s.lying[g],
         Leads(s.roads, s.ware[w], f), Watch(s, Ways(s), Carriers), NEW t \in FlagAddWare(s, w, f)
  PROVE  Watch(t, Ways(s), Carriers)
<1> DEFINE S == s.lying[f] \cup {w}
           u == [s EXCEPT !.lying[f] = S]
           P == Unheard(s, s.ware[w], f)
<1>1. S \in SUBSET Wares
  BY Fields
<1>2. t \in AddWareJob(u, w, f)
  BY DEF FlagAddWare
<1> HIDE DEF S
<1>3. /\ u \in NetKind /\ u.lying = [s.lying EXCEPT ![f] = S]
      /\ u.roads = s.roads /\ u.ware = s.ware /\ u.car = s.car
  BY <1>1, LyingSet
<1> HIDE DEF u
<1>4. s.lying \in [Flags -> SUBSET Wares] /\ Ways(s) \subseteq Roads \X {1, 2} /\ s.roads \in SUBSET Roads
  BY Fields DEF Ways
<1>5. ASSUME NEW r \in Roads, NEW e \in {1, 2}
      PROVE  /\ Jobs(s, r, e) \subseteq Jobs(u, r, e)
             /\ ~(r = s.ware[w].dir /\ Ends[r][e] = f) => Jobs(u, r, e) = Jobs(s, r, e)
  <2>1. Ends[r][e] \in Flags
    BY RoadEnds
  <2>2. u.lying[Ends[r][e]] = IF Ends[r][e] = f THEN s.lying[f] \cup {w} ELSE s.lying[Ends[r][e]]
    BY <1>3, <1>4, <2>1 DEF S
  <2> QED BY <1>3, <2>2 DEF Jobs, WaresForRoad
<1>6. ASSUME NEW p \in P PROVE Attended(u, p[1], p[2])
  <2>1. p[1] \in Roads /\ p[2] \in {1, 2} /\ Attended(s, p[1], p[2]) /\ p = <<p[1], p[2]>>
    BY <1>4 DEF Watch, Unheard
  <2>2. ~(p[1] = s.ware[w].dir /\ Ends[p[1]][p[2]] = f)
    <3>1. SUFFICES ASSUME p[1] = s.ware[w].dir, Ends[p[1]][p[2]] = f PROVE FALSE
      OBVIOUS
    <3>2. EndAt(p[1], f) \in {1, 2} /\ Ends[p[1]][EndAt(p[1], f)] = f
      BY <1>4, <2>1, <3>1, LeadsByRoad
    <3>3. Ends[p[1]][1] # Ends[p[1]][2]
      BY <2>1, TransportAssumption
    <3>4. p[2] = EndAt(p[1], f)
      BY <2>1, <3>1, <3>2, <3>3
    <3>5. p = <<s.ware[w].dir, EndAt(s.ware[w].dir, f)>>
      BY <2>1, <3>1, <3>4
    <3> QED BY <3>5 DEF Unheard
  <2> QED BY <1>3, <1>5, <2>1, <2>2 DEF Attended
<1>7. ASSUME NEW j \in Carriers PROVE Finds(u, j)
  <2>1. j[1] \in Roads /\ s.car[j].to \in {1, 2} /\ Finds(s, j)
    BY CarrierIndex, Fields DEF CarKind, Watch
  <2> QED BY <1>3, <1>5, <2>1 DEF Finds
<1>8. Unheard(u, u.ware[w], f) = P /\ Ways(u) = Ways(s)
  BY <1>3 DEF Unheard, Ways
<1>9. Watch(u, P, Carriers)
  BY <1>6, <1>7 DEF Watch
<1>10. w \in u.lying[f]
  BY <1>3, <1>4 DEF S
<1> HIDE DEF P
<1> QED BY <1>2, <1>3, <1>8, <1>9, <1>10, AddJobWatch

LEMMA RouteLaidWatch ==
  ASSUME NEW s \in NetKind, NEW w \in Wares, NEW f \in Flags, Space(s, f), s.ware[w].goal # NoGoal,
         \A g \in Flags : w \notin s.lying[g], Watch(s, Ways(s), Carriers),
         NEW u \in RecalcRoute(LieAtFlag(s, w), w, f), NEW t \in FlagAddWare(u, w, f)
  PROVE  Watch(t, Ways(s), Carriers)
<1> DEFINE l == LieAtFlag(s, w)
<1>1. OnlyWare(s, l, w) /\ l.ware[w].goal = s.ware[w].goal
  BY LieField, LieMore
<1>2. u \in RecalcRoute(l, w, f)
  OBVIOUS
<1> HIDE DEF l
<1>3. l \in NetKind /\ l.roads = s.roads
  BY <1>1 DEF OnlyWare
<1>4. OnlyWare(l, u, w) /\ Leads(l.roads, u.ware[w], f)
  BY <1>1, <1>2, <1>3, Recalculated
<1>5. OnlyWare(s, u, w)
  BY <1>1, <1>4 DEF OnlyWare
<1>6. u \in NetKind /\ u.roads = s.roads /\ u.lying = s.lying /\ Space(u, f) /\ Ways(u) = Ways(s)
  BY <1>5 DEF OnlyWare, Space, Ways
<1>7. Watch(u, Ways(s), Carriers)
  <2>1. Ways(s) \subseteq Roads \X {1, 2}
    BY Fields DEF Ways
  <2> QED BY <1>5, <2>1, WareUnseen
<1> QED BY <1>3, <1>4, <1>6, <1>7, FlagAddWatch

LEMMA PutDownWatch ==
  ASSUME NEW s \in NetKind, NEW w \in Wares, NEW f \in Flags, Space(s, f), s.ware[w].goal # NoGoal,
         f \in Houses => Leads(s.roads, s.ware[w], f), \A g \in Flags : w \notin s.lying[g],
         Watch(s, Ways(s), Carriers), NEW t \in PutDown(s, w, f)
  PROVE  Watch(t, Ways(s), Carriers)
<1> DEFINE l == LieAtFlag(s, w)
<1>1. CASE f \in Houses
  <2>1. t \in FlagAddWare(l, w, f)
    BY <1>1 DEF PutDown
  <2>2. OnlyWare(s, l, w) /\ l.ware[w].goal = s.ware[w].goal /\ l.ware[w].dir = s.ware[w].dir
    BY LieField, LieMore
  <2> HIDE DEF l
  <2>3. /\ l \in NetKind /\ Space(l, f) /\ l.lying = s.lying /\ l.roads = s.roads /\ Ways(l) = Ways(s)
        /\ Leads(l.roads, l.ware[w], f)
    BY <1>1, <2>2 DEF OnlyWare, Space, Ways, Leads
  <2>4. Watch(l, Ways(s), Carriers)
    <3>1. Ways(s) \subseteq Roads \X {1, 2}
      BY Fields DEF Ways
    <3> QED BY <2>2, <3>1, WareUnseen
  <2> QED BY <2>1, <2>3, <2>4, FlagAddWatch
<1>2. CASE f \notin Houses
  <2>1. PICK u \in RecalcRoute(l, w, f) : t \in FlagAddWare(u, w, f)
    BY <1>2 DEF PutDown
  <2> QED BY <2>1, RouteLaidWatch
<1> QED BY <1>1, <1>2

-----------------------------------------------------------------------------
(* Warehouses: who fetches what lies before the door, who wakes them. *)

LEMMA CarsWork ==
  ASSUME NEW s, NEW t, OnlyCars(s, t), WorkOK(s)
  PROVE  WorkOK(t)
BY DEF OnlyCars, WorkOK, Served, AtWork, Doors, WaresForRoad, Space

(* Neither what lies before the door nor the house has changed for the worse. *)
LEMMA ProddedServed ==
  ASSUME NEW s, NEW t, NEW h \in Houses, Served(s, h), Prodded(s.house[h], t.house[h]), Doors(t, h) = Doors(s, h)
  PROVE  Served(t, h)
BY DEF Served, Prodded

LEMMA ProddedAtWork ==
  ASSUME NEW s, NEW t, NEW h \in Houses, AtWork(s, h), Prodded(s.house[h], t.house[h]),
         t.lying[h] = s.lying[h] \/ t.house[h].awake \/ s.house[h].waiting = <<>>
  PROVE  AtWork(t, h)
BY DEF AtWork, Prodded, HouseCalm, Space

(* A carrier takes a ware from flag f. *)
LEMMA DrawnServed ==
  ASSUME NEW s \in NetKind, NEW t, NEW f \in Flags, NEW w \in Wares, NEW swap, WorkOK(s),
         Drawn(s, t, f, w, swap), s.ware[w].dir # Door
  PROVE  \A h \in Houses : Served(t, h) /\ Prodded(s.house[h], t.house[h]) /\ Doors(t, h) = Doors(s, h)
<1> SUFFICES ASSUME NEW h \in Houses
             PROVE  Served(t, h) /\ Prodded(s.house[h], t.house[h]) /\ Doors(t, h) = Doors(s, h)
  OBVIOUS
<1>1. h \in Flags /\ s.lying \in [Flags -> SUBSET Wares]
  BY Fields, TransportAssumption
<1>2. t.lying[h] = IF h = f THEN s.lying[f] \ {w} ELSE s.lying[h]
  BY <1>1 DEF Drawn
<1>3. \A v \in Wares : t.ware[v].dir = s.ware[v].dir
  BY DEF Drawn
<1>4. Doors(t, h) = Doors(s, h)
  BY <1>1, <1>2, <1>3 DEF Doors, WaresForRoad
<1>5. Served(s, h) /\ Prodded(s.house[h], t.house[h])
  BY DEF Drawn, WorkOK
<1> QED BY <1>4, <1>5, ProddedServed

LEMMA DrawnWork ==
  ASSUME NEW s \in NetKind, NEW t, NEW f \in Flags, NEW w \in Wares, WorkOK(s),
         Drawn(s, t, f, w, FALSE), s.ware[w].dir # Door
  PROVE  WorkOK(t)
<1> SUFFICES ASSUME NEW h \in Houses PROVE Served(t, h) /\ AtWork(t, h)
  BY DEF WorkOK
<1>1. Served(t, h) /\ Prodded(s.house[h], t.house[h])
  BY DrawnServed
<1>2. t.lying[h] = s.lying[h] \/ h = f
  BY Fields, TransportAssumption DEF Drawn
<1>3. h = f /\ s.house[h].waiting # <<>> => t.house[h].awake
  BY DEF Drawn
<1>4. AtWork(s, h)
  BY DEF WorkOK
<1> QED BY <1>1, <1>2, <1>3, <1>4, ProddedAtWork

(* A ware is laid down at flag f. *)
LEMMA MoreDoors ==
  ASSUME NEW s \in NetKind, NEW t \in NetKind, NEW h \in Flags, NEW w \in Wares, w \notin s.lying[h],
         t.lying[h] = s.lying[h] \cup {w}, \A v \in Wares \ {w} : t.ware[v] = s.ware[v]
  PROVE  IF t.ware[w].dir = Door THEN Cardinality(Doors(t, h)) = Cardinality(Doors(s, h)) + 1
         ELSE Doors(t, h) = Doors(s, h)
<1> DEFINE D == Doors(s, h)
<1>1. s.lying[h] \subseteq Wares
  BY Fields
<1>2. Doors(t, h) = IF t.ware[w].dir = Door THEN D \cup {w} ELSE D
  BY <1>1 DEF Doors, WaresForRoad
<1>3. IsFiniteSet(D) /\ w \notin D
  <2>1. IsFiniteSet(D)
    BY CountJobs DEF Doors
  <2>2. w \notin D
    BY DEF Doors, WaresForRoad
  <2> QED BY <2>1, <2>2
<1> HIDE DEF D
<1>4. Cardinality(D \cup {w}) = Cardinality(D) + 1
  BY <1>3, FS_AddElement
<1> QED BY <1>2, <1>4 DEF D

LEMMA SentServed ==
  ASSUME NEW s, NEW t, NEW h \in Houses, Served(s, h), s.house[h] \in HouseKind, Sent(s.house[h], t.house[h]),
         Cardinality(Doors(t, h)) = Cardinality(Doors(s, h)) + 1
  PROVE  Served(t, h)
BY DEF Served, Sent, HouseKind

LEMMA LaidServed ==
  ASSUME NEW s \in NetKind, NEW t, NEW f \in Flags, NEW w \in Wares, \A g \in Flags : w \notin s.lying[g],
         Laid(s, t, w, f), \A h \in Houses : Served(s, h)
  PROVE  \A h \in Houses : Served(t, h)
<1> SUFFICES ASSUME NEW h \in Houses PROVE Served(t, h)
  OBVIOUS
<1>1. h \in Flags /\ s.lying \in [Flags -> SUBSET Wares] /\ s.house[h] \in HouseKind
  BY Fields, TransportAssumption
<1>2. t \in NetKind /\ \A v \in Wares \ {w} : t.ware[v] = s.ware[v]
  BY DEF Laid
<1>3. CASE h = f
  <2>1. t.lying[h] = s.lying[h] \cup {w} /\ w \notin s.lying[h]
    BY <1>1, <1>3 DEF Laid
  <2>2. IF t.ware[w].dir = Door THEN Cardinality(Doors(t, h)) = Cardinality(Doors(s, h)) + 1
        ELSE Doors(t, h) = Doors(s, h)
    BY <1>1, <1>2, <2>1, MoreDoors
  <2>3. CASE t.ware[w].dir = Door
    <3>1. Sent(s.house[h], t.house[h])
      BY <1>3, <2>3 DEF Laid
    <3> QED BY <1>1, <2>2, <2>3, <3>1, SentServed
  <2>4. CASE t.ware[w].dir # Door
    <3>1. t.house[h] = s.house[h]
      BY <2>4 DEF Laid
    <3> QED BY <2>2, <2>4, <3>1 DEF Served
  <2> QED BY <2>3, <2>4
<1>4. CASE h # f
  <2>1. t.lying[h] = s.lying[h] /\ t.house[h] = s.house[h] /\ w \notin s.lying[h]
    BY <1>1, <1>4 DEF Laid
  <2>2. Doors(t, h) = Doors(s, h)
    BY <1>1, <1>2, <2>1 DEF Doors, WaresForRoad
  <2> QED BY <2>1, <2>2 DEF Served
<1> QED BY <1>3, <1>4

LEMMA SpaceLess ==
  ASSUME NEW s \in NetKind, NEW t \in NetKind, NEW f \in Flags, s.lying[f] \subseteq t.lying[f], Space(t, f)
  PROVE  Space(s, f)
<1>1. s.lying[f] \subseteq Wares /\ t.lying[f] \subseteq Wares
  BY Fields
<1>2. IsFiniteSet(t.lying[f])
  BY <1>1, FS_Subset, TransportAssumption
<1>3. IsFiniteSet(s.lying[f]) /\ Cardinality(s.lying[f]) <= Cardinality(t.lying[f])
  BY <1>2, FS_Subset
<1>4. Cardinality(s.lying[f]) \in Nat /\ Cardinality(t.lying[f]) \in Nat /\ Capacity \in Nat
  BY <1>2, <1>3, FS_CardinalityType, TransportAssumption
<1> QED BY <1>3, <1>4 DEF Space

LEMMA LaidAtWork ==
  ASSUME NEW s \in NetKind, NEW t, NEW f \in Flags, NEW w \in Wares, Laid(s, t, w, f), NEW h \in Houses,
         s.house[h].queued > 0 => s.house[h].awake, ~s.house[h].dontfetch,
         AtWork(s, h) \/ (h = f /\ ~Space(t, f))
  PROVE  AtWork(t, h)
<1>1. h \in Flags /\ s.lying \in [Flags -> SUBSET Wares] /\ s.house[h] \in HouseKind /\ t \in NetKind
  BY Fields, TransportAssumption DEF Laid
<1>2. s.lying[h] \subseteq t.lying[h]
  BY <1>1 DEF Laid
<1>3. Space(t, h) => Space(s, h)
  BY <1>1, <1>2, SpaceLess
<1>4. \/ t.house[h] = s.house[h]
      \/ t.house[h].awake
  BY DEF Laid, Sent
<1>5. t.house[h].awake => AtWork(t, h)
  BY DEF AtWork
<1> QED BY <1>3, <1>4, <1>5 DEF AtWork

LEMMA LaidWork ==
  ASSUME NEW s \in NetKind, NEW t, NEW f \in Flags, NEW w \in Wares, \A g \in Flags : w \notin s.lying[g],
         Laid(s, t, w, f), WorkOK(s)
  PROVE  WorkOK(t)
<1>1. \A h \in Houses : Served(t, h)
  BY LaidServed DEF WorkOK
<1>2. ASSUME NEW h \in Houses PROVE AtWork(t, h)
  <2>1. Served(s, h) /\ AtWork(s, h)
    BY DEF WorkOK
  <2>2. (s.house[h].queued > 0 => s.house[h].awake) /\ ~s.house[h].dontfetch
    BY <2>1 DEF AtWork, Served
  <2> QED BY <2>1, <2>2, LaidAtWork
<1> QED BY <1>1, <1>2 DEF WorkOK

-----------------------------------------------------------------------------
(* The three together, and without what is said of carrier k and his road,  *)
(* while he is in the midst of his step.                                     *)
Well(s) == RoutesOK(s) /\ WorkOK(s) /\ WatchOK(s)
WellBut(s, k) == RoutesOK(s) /\ WorkOK(s) /\ Watch(s, Away(Ways(s), k), Carriers \ {k})

LEMMA WellIsWellBut ==
  ASSUME NEW s, Well(s), NEW k
  PROVE  WellBut(s, k)
BY DEF Well, WellBut, WatchOK, Watch, Away

LEMMA CarWell ==
  ASSUME NEW s \in NetKind, NEW t, NEW k \in Carriers, WellBut(s, k), OnlyCar(s, t, k),
         \A e \in {1, 2} : Covered(s, k, e) \/ ~TakesJob(t.car[k], e), Finds(t, k)
  PROVE  Well(t)
<1>1. OnlyCars(s, t) /\ Ways(t) = Ways(s)
  BY DEF OnlyCar, OnlyCars, Ways
<1>2. Watch(t, Ways(s), Carriers)
  BY WaysKind, CarWatched DEF WellBut
<1> QED BY <1>1, <1>2, CarsRoutes, CarsWork DEF Well, WellBut, WatchOK

LEMMA BusyWell ==
  ASSUME NEW s \in NetKind, NEW t, NEW k \in Carriers, WellBut(s, k), OnlyCar(s, t, k),
         t.car[k].st \in {"none", "coming", "carry", "back", "tohouse", "leaving"}
  PROVE  Well(t)
<1>1. \A e \in {1, 2} : ~TakesJob(t.car[k], e)
  BY DEF TakesJob
<1>2. Finds(t, k)
  BY DEF Finds
<1> QED BY <1>1, <1>2, CarWell

LEMMA FetchWell ==
  ASSUME NEW s \in NetKind, NEW k \in Carriers, WellBut(s, k), WaresForRoad(s, FacedFlag(s, k), k[1]) # {},
         NEW t \in FetchWare(s, k, FALSE)
  PROVE  Well(t)
<1> DEFINE f == FacedFlag(s, k)
<1>1. PICK w \in WaresForRoad(s, f, k[1]) : Drawn(s, t, f, w, FALSE)
  BY FetchDraws
<1>2. f \in Flags
  BY FacedIsFlag
<1>3. w \in Wares /\ s.ware[w].dir = k[1]
  BY <1>2, Fields DEF WaresForRoad
<1>4. k[1] # Door
  BY CarrierIndex, TransportAssumption
<1>5. RoutesOK(t)
  BY FetchRoutes DEF WellBut
<1>6. WorkOK(t)
  BY <1>1, <1>2, <1>3, <1>4, DrawnWork DEF WellBut
<1>7. Watch(t, Ways(s), Carriers) /\ Ways(t) = Ways(s)
  BY <1>1, FetchWatch DEF WellBut, Drawn, Ways
<1> QED BY <1>5, <1>6, <1>7 DEF Well, WatchOK

LEMMA LookWell ==
  ASSUME NEW s \in NetKind, NEW k \in Carriers, WellBut(s, k), NEW t \in LookForWares(s, k)
  PROVE  Well(t)
<1> DEFINE e == s.car[k].to
           behind == AreWareJobs(s, k, Opposite(e), FALSE)
           st == IF behind THEN "fetch" ELSE "middle"
<1>1. e \in {1, 2} /\ Opposite(e) \in {1, 2} /\ \A x \in {1, 2} : x = e \/ x = Opposite(e)
  BY Fields DEF CarKind, Opposite
<1>2. CASE AreWareJobs(s, k, e, TRUE)
  <2>1. t \in FetchWare(s, k, FALSE)
    BY <1>2 DEF LookForWares
  <2> QED BY <1>2, <2>1, JobsNow, FetchWell
<1>3. CASE ~AreWareJobs(s, k, e, TRUE)
  <2>1. t = Turns(s, k, st, 0)
    BY <1>3 DEF LookForWares
  <2>0. st \in CarrierStates /\ 0 \in Int
    BY DEF CarrierStates
  <2> HIDE DEF st, behind
  <2>2. OnlyCar(s, t, k) /\ t.car[k].st = st /\ t.car[k].to = Opposite(e)
    BY <2>0, <2>1, TurnsField
  <2>3. Covered(s, k, e)
    BY <1>1, <1>3, LeftAlone
  <2>4. ~behind => Covered(s, k, Opposite(e))
    BY <1>1, LeftAlone DEF behind
  <2>5. behind => Jobs(s, k[1], Opposite(e)) # {}
    BY <1>1, JobsThere DEF behind
  <2>6. \A x \in {1, 2} : Covered(s, k, x) \/ ~TakesJob(t.car[k], x)
    BY <1>1, <2>2, <2>3, <2>4 DEF TakesJob, st
  <2>7. Jobs(t, k[1], Opposite(e)) = Jobs(s, k[1], Opposite(e))
    BY <2>2 DEF OnlyCar, Jobs, WaresForRoad
  <2>8. Finds(t, k)
    BY <2>2, <2>5, <2>7 DEF Finds, st
  <2> QED BY <2>2, <2>6, <2>8, CarWell
<1> QED BY <1>2, <1>3

(* A ware in somebody's hands is put down where there is room. *)
Held(s, w) == w \in Wares /\ s.ware[w].st = "carried" /\ \A g \in Flags : w \notin s.lying[g]

LEMMA HandHeld ==
  ASSUME NEW s, NEW k \in Carriers, Carrying(s, k)
  PROVE  s \in NetKind /\ Held(s, s.car[k].hand)
<1> DEFINE w == s.car[k].hand
<1>1. s \in NetKind /\ w \in Wares /\ PlacedAt(s, w)
  BY DEF Carrying, GoodFor
<1>2. s.ware[w].st = "carried" /\ Where(s, w, "hand", k)
  BY <1>1, HandWhere
<1> QED BY <1>1, <1>2 DEF Held, Where

LEMMA HeldGoal ==
  ASSUME NEW s, NEW w, Held(s, w), RoutesOK(s)
  PROVE  s.ware[w].goal \in Houses /\ s.ware[w].goal # NoGoal
BY TransportAssumption DEF Held, RoutesOK, RouteOK

LEMMA PutDownWell ==
  ASSUME NEW s \in NetKind, NEW w, NEW f \in Flags, Held(s, w), Well(s), Space(s, f),
         f \in Houses => Leads(s.roads, s.ware[w], f), NEW t \in PutDown(s, w, f)
  PROVE  Well(t) /\ t \in NetKind
<1>1. s.ware[w].goal # NoGoal /\ w \in Wares /\ \A g \in Flags : w \notin s.lying[g]
  BY HeldGoal DEF Held, Well
<1>2. Laid(s, t, w, f)
  BY <1>1, PutDownLaid
<1>3. RoutesOK(t)
  BY <1>1, <1>2, LaidRoutes DEF Well, RoutesOK
<1>4. WorkOK(t)
  BY <1>1, <1>2, LaidWork DEF Well
<1>5. Watch(t, Ways(s), Carriers) /\ Ways(t) = Ways(s)
  BY <1>1, <1>2, PutDownWatch DEF Well, WatchOK, Laid, Ways
<1> QED BY <1>2, <1>3, <1>4, <1>5 DEF Well, WatchOK, Laid

(* The ware is exchanged for one of a flag without room. *)
LEMMA SwapFull ==
  ASSUME NEW s \in NetKind, NEW u \in NetKind, NEW t \in NetKind, NEW f \in Flags, NEW x, NEW w, ~Space(s, f),
         x \in s.lying[f], w \notin s.lying[f], w \in Wares,
         u.lying = [s.lying EXCEPT ![f] = @ \ {x}], t.lying = [u.lying EXCEPT ![f] = @ \cup {w}]
  PROVE  ~Space(t, f)
<1> DEFINE A == s.lying[f]
<1>1. A \subseteq Wares /\ u.lying[f] = A \ {x} /\ t.lying[f] = (A \ {x}) \cup {w}
  BY Fields
<1>2. IsFiniteSet(A) /\ x \in A /\ w \notin A
  BY <1>1, FS_Subset, TransportAssumption
<1> HIDE DEF A
<1>3. IsFiniteSet(A \ {x}) /\ Cardinality(A \ {x}) = Cardinality(A) - 1
  BY <1>2, FS_RemoveElement
<1>4. w \notin A \ {x}
  BY <1>2
<1>5. Cardinality((A \ {x}) \cup {w}) = Cardinality(A \ {x}) + 1
  BY <1>3, <1>4, FS_AddElement
<1>6. Cardinality(A) \in Nat
  BY <1>2, FS_CardinalityType
<1>7. Cardinality(t.lying[f]) = Cardinality(A)
  BY <1>1, <1>3, <1>5, <1>6
<1> QED BY <1>7 DEF Space, A

LEMMA SwapWell ==
  ASSUME NEW s, NEW k \in Carriers, Carrying(s, k), Well(s), NEW f, f = FacedFlag(s, k), ~Space(s, f),
         WaresForRoad(s, f, k[1]) # {}, f \in Houses => Leads(s.roads, s.ware[s.car[k].hand], f),
         NEW u \in FetchWare(s, k, TRUE), NEW t \in PutDown(u, s.car[k].hand, f)
  PROVE  Well(t)
<1> DEFINE w == s.car[k].hand
<1>1. s \in NetKind /\ Held(s, w) /\ w \in Wares
  BY HandHeld DEF Held
<1>2. f \in Flags
  BY <1>1, FacedIsFlag
<1>3. PICK x \in WaresForRoad(s, f, k[1]) : Drawn(s, u, f, x, TRUE)
  BY <1>1, FetchDraws
<1>4. x \in Wares /\ x \in s.lying[f] /\ s.ware[x].dir = k[1] /\ x # w
  BY <1>1, <1>2, Fields DEF WaresForRoad, Held
<1>5. k[1] # Door
  BY CarrierIndex, TransportAssumption
<1>6. u \in NetKind /\ u.roads = s.roads /\ u.lying = [s.lying EXCEPT ![f] = @ \ {x}]
  BY <1>3 DEF Drawn
<1>7. u.lying[f] = s.lying[f] \ {x} /\ \A g \in Flags : u.lying[g] \subseteq s.lying[g]
  <2>1. s.lying \in [Flags -> SUBSET Wares]
    BY <1>1, Fields
  <2> QED BY <1>2, <1>6, <2>1
<1>8. u.ware[w] = s.ware[w] /\ Held(u, w)
  BY <1>1, <1>3, <1>4, <1>7 DEF Drawn, Held
<1>9. Space(u, f)
  <2>1. Fits(s.lying[f])
    BY <1>2 DEF Carrying, GoodFor
  <2> QED BY <1>4, <1>7, <2>1, CardinalityLess DEF Space
<1>10. RoutesOK(u)
  BY <1>1, FetchRoutes DEF Well
<1>11. s.ware[w].goal # NoGoal
  BY <1>1, HeldGoal DEF Well
<1>12. Laid(u, t, w, f)
  BY <1>1, <1>2, <1>6, <1>8, <1>9, <1>11, PutDownLaid
<1>13. \A g \in Flags : w \notin u.lying[g]
  BY <1>8 DEF Held
<1>14. RoutesOK(t)
  BY <1>1, <1>2, <1>6, <1>10, <1>12, <1>13, LaidRoutes DEF RoutesOK
<1>15. Watch(t, Ways(t), Carriers)
  <2>1. Watch(s, Away(Ways(s), k), Carriers \ {k})
    BY DEF Well, WatchOK, Watch, Away
  <2>2. Watch(u, Ways(s), Carriers)
    BY <1>1, <2>1, FetchWatch
  <2>3. Ways(u) = Ways(s) /\ Ways(t) = Ways(s)
    BY <1>6, <1>12 DEF Ways, Laid
  <2> QED BY <1>1, <1>2, <1>6, <1>8, <1>9, <1>11, <1>13, <2>2, <2>3, PutDownWatch
<1>16. \A h \in Houses : Served(u, h) /\ Doors(u, h) = Doors(s, h)
  BY <1>1, <1>2, <1>3, <1>4, <1>5, DrawnServed DEF Well
<1>17. \A h \in Houses : Served(t, h)
  BY <1>1, <1>2, <1>6, <1>12, <1>13, <1>16, LaidServed
<1>18. ~Space(t, f)
  <2>1. t \in NetKind /\ t.lying = [u.lying EXCEPT ![f] = @ \cup {w}]
    BY <1>12 DEF Laid
  <2>2. w \notin s.lying[f]
    BY <1>1, <1>2 DEF Held
  <2> QED BY <1>1, <1>2, <1>4, <1>6, <2>1, <2>2, SwapFull
<1>19. ASSUME NEW h \in Houses PROVE AtWork(t, h)
  <2>1. u.house = s.house
    BY <1>3 DEF Drawn
  <2>2. AtWork(s, h) /\ Served(s, h)
    BY DEF Well, WorkOK
  <2>3. h # f => u.lying[h] = s.lying[h]
    <3>1. s.lying \in [Flags -> SUBSET Wares] /\ h \in Flags
      BY <1>1, Fields, TransportAssumption
    <3> QED BY <1>6, <3>1
  <2>4. h # f => AtWork(u, h)
    BY <2>1, <2>2, <2>3 DEF AtWork, Space
  <2>5. (u.house[h].queued > 0 => u.house[h].awake) /\ ~u.house[h].dontfetch
    BY <2>1, <2>2 DEF AtWork, Served
  <2> QED BY <1>1, <1>2, <1>6, <1>12, <1>18, <2>4, <2>5, LaidAtWork
<1> QED BY <1>14, <1>15, <1>17, <1>19 DEF Well, WorkOK, WatchOK

(* A ware that lies nowhere gets another route or is stored.                *)
LEMMA UnseenWell ==
  ASSUME NEW s \in NetKind, NEW u, NEW w, Held(s, w), OnlyWare(s, u, w), Well(s),
         u.ware[w].st = "stock" \/ (u.ware[w].st = "carried" /\ u.ware[w].goal \in Houses)
  PROVE  Well(u) /\ u \in NetKind
<1>1. w \in Wares /\ \A g \in Flags : w \notin s.lying[g]
  BY DEF Held
<1>2. u \in NetKind /\ u.roads = s.roads /\ u.lying = s.lying /\ u.house = s.house /\ Ways(u) = Ways(s)
  BY DEF OnlyWare, Ways
<1>3. RoutesOK(u)
  <2>1. \A v \in Wares \ {w} : RouteSame(s, u, v)
    BY <1>2 DEF OnlyWare, RouteSame
  <2>2. RouteOK(u, w)
    BY <1>1, <1>2 DEF RouteOK
  <2> QED BY <2>1, <2>2, RouteKept DEF RoutesOK, Well
<1>4. WorkOK(u)
  <2>1. \A h \in Houses : h \in Flags
    BY TransportAssumption
  <2>2. \A h \in Houses : s.lying[h] \subseteq Wares \ {w}
    BY <1>1, <2>1, Fields
  <2>3. \A h \in Houses : Doors(u, h) = Doors(s, h)
    BY <1>2, <2>2 DEF OnlyWare, Doors, WaresForRoad
  <2> QED BY <1>2, <2>3 DEF Well, WorkOK, Served, AtWork, Space
<1>5. Watch(u, Ways(s), Carriers)
  BY <1>1, WaysKind, WareUnseen DEF Well, WatchOK
<1> QED BY <1>2, <1>3, <1>4, <1>5 DEF Well, WatchOK

(* A carrier in front of a house looks the route of his ware up.            *)
LEMMA RouteWell ==
  ASSUME NEW s, NEW k \in Carriers, Carrying(s, k), Well(s), NEW t \in WithRoute(s, k)
  PROVE  /\ Well(t)
         /\ FacedFlag(s, k) \in Houses => Leads(t.roads, t.ware[t.car[k].hand], FacedFlag(s, k))
<1> DEFINE w == s.car[k].hand
           f == FacedFlag(s, k)
<1>1. s \in NetKind /\ Held(s, w) /\ w \in Wares
  BY HandHeld DEF Held
<1>2. CASE f \notin Houses
  BY <1>2 DEF WithRoute
<1>3. CASE f \in Houses
  <2>1. t \in RecalcRoute(s, w, f) /\ f \in Flags
    BY <1>3, TransportAssumption DEF WithRoute
  <2>2. s.ware[w].goal # NoGoal
    BY <1>1, HeldGoal DEF Well
  <2>3. /\ OnlyWare(s, t, w) /\ t.ware[w].st = s.ware[w].st
        /\ Leads(s.roads, t.ware[w], f) /\ t.ware[w].goal # NoGoal
    BY <1>1, <1>3, <2>1, <2>2, Recalculated
  <2>4. t.ware[w].goal \in Houses /\ t.car = s.car /\ t.roads = s.roads
    BY <1>1, <2>3, Fields DEF OnlyWare, WareKind
  <2>5. Well(t)
    BY <1>1, <2>3, <2>4, UnseenWell DEF Held
  <2> QED BY <2>3, <2>4, <2>5
<1> QED BY <1>2, <1>3

LEMMA CarryingWell ==
  ASSUME NEW s, NEW k \in Carriers, Carrying(s, k), WellBut(s, k)
  PROVE  Well(s)
<1>1. s \in NetKind /\ s.car[k].st = "carry"
  BY DEF Carrying, GoodFor
<1>2. OnlyCar(s, s, k)
  BY <1>1 DEF OnlyCar
<1> QED BY <1>1, <1>2, BusyWell

LEMMA AtFlagWell ==
  ASSUME NEW s, NEW k \in Carriers, Carrying(s, k), Well(s), NEW u \in AtFlag(s, k)
  PROVE  Well(u)
<1> DEFINE f == FacedFlag(s, k)
           w == s.car[k].hand
           Drop(t) == UNION {LookForWares(EmptyHanded(v, k), k) : v \in PutDown(t, w, f)}
           Swap(t) == UNION {PutDown(v, w, f) : v \in FetchWare(t, k, TRUE)}
<1>1. PICK t \in WithRoute(s, k) :
        \/ WantInBuilding(t, k) /\ u = Enters(t, k, "tohouse")
        \/ Space(t, f) /\ u \in Drop(t)
        \/ ~Space(t, f) /\ AreWareJobs(t, k, t.car[k].to, TRUE) /\ u \in Swap(t)
        \/ u = Turns(t, k, "back", 0)
  BY DEF AtFlag
<1>2. Carrying(t, k) /\ t.car = s.car
  BY RouteCarrying
<1>3. t \in NetKind /\ f = FacedFlag(t, k) /\ w = t.car[k].hand /\ f \in Flags /\ Held(t, w)
  BY <1>2, HandHeld, FacedIsFlag DEF FacedFlag
<1>4. Well(t) /\ (f \in Houses => Leads(t.roads, t.ware[w], f))
  BY <1>3, RouteWell
<1>5. WellBut(t, k)
  BY <1>4, WellIsWellBut
<1>6. CASE u = Enters(t, k, "tohouse")
  <2>1. "tohouse" \in CarrierStates
    BY DEF CarrierStates
  <2>2. OnlyCar(t, u, k) /\ u.car[k].st = "tohouse"
    BY <1>3, <1>6, <2>1, EntersField
  <2> QED BY <1>3, <1>5, <2>2, BusyWell
<1>7. CASE Space(t, f) /\ u \in Drop(t)
  <2>1. PICK v \in PutDown(t, w, f) : u \in LookForWares(EmptyHanded(v, k), k)
    BY <1>7
  <2>2. Well(v) /\ v \in NetKind
    BY <1>3, <1>4, <1>7, PutDownWell
  <2>3. w \in Wares
    BY <1>3 DEF Held
  <2>4. Put(t, v, w, f)
    BY <1>3, <1>7, <2>3, PutDownOutcome
  <2>5. v.car[k].st = "carry"
    BY <1>2, <2>4 DEF Put, Hush, CarCalm, Carrying, Wakeable
  <2> DEFINE x == EmptyHanded(v, k)
  <2>6. OnlyCar(v, x, k) /\ x.car[k].st = "carry"
    BY <2>2, <2>5, EmptyField
  <2> HIDE DEF x
  <2>7. Well(x) /\ x \in NetKind
    BY <2>2, <2>6, WellIsWellBut, BusyWell DEF OnlyCar
  <2>8. u \in LookForWares(x, k)
    BY <2>1 DEF x
  <2> QED BY <2>7, <2>8, WellIsWellBut, LookWell
<1>8. CASE ~Space(t, f) /\ AreWareJobs(t, k, t.car[k].to, TRUE) /\ u \in Swap(t)
  <2>1. PICK v \in FetchWare(t, k, TRUE) : u \in PutDown(v, w, f)
    BY <1>8
  <2>2. WaresForRoad(t, f, k[1]) # {}
    BY <1>3, <1>8, JobsNow
  <2> QED BY <1>2, <1>3, <1>4, <1>8, <2>1, <2>2, SwapWell
<1>9. CASE u = Turns(t, k, "back", 0)
  <2>1. "back" \in CarrierStates /\ 0 \in Int
    BY DEF CarrierStates
  <2>2. OnlyCar(t, u, k) /\ u.car[k].st = "back"
    BY <1>3, <1>9, <2>1, TurnsField
  <2> QED BY <1>3, <1>5, <2>2, BusyWell
<1> QED BY <1>1, <1>6, <1>7, <1>8, <1>9

LEMMA CarryOnWell ==
  ASSUME NEW s, NEW k \in Carriers, Carrying(s, k), Well(s), NEW t \in CarryOn(s, k)
  PROVE  Well(t)
<1>1. CASE t \in AtFlag(s, k)
  BY <1>1, AtFlagWell
<1>2. CASE t \in AlmostThere(s, k)
  <2> DEFINE Goes(u) == WantInBuilding(u, k) \/ AreWareJobs(u, k, u.car[k].to, TRUE)
  <2>1. CASE t = s
    BY <2>1
  <2>2. CASE t # s
    <3>1. PICK u \in WithRoute(s, k) : t = IF Goes(u) THEN u ELSE Enters(u, k, "space")
      BY <1>2, <2>2 DEF AlmostThere
    <3>2. Carrying(u, k) /\ u \in NetKind /\ Well(u)
      BY RouteCarrying, RouteWell DEF Carrying, GoodFor
    <3>3. CASE t = u
      BY <3>2, <3>3
    <3>4. CASE ~Goes(u) /\ t = Enters(u, k, "space")
      <4> DEFINE e == u.car[k].to
      <4>1. "space" \in CarrierStates /\ e \in {1, 2}
        BY <3>2, Fields DEF CarrierStates, CarKind
      <4>2. OnlyCar(u, t, k) /\ t.car[k].st = "space" /\ t.car[k].to = e
        BY <3>2, <3>4, <4>1, EntersField
      <4>3. Covered(u, k, e)
        BY <3>2, <3>4, <4>1, LeftAlone
      <4>4. \A x \in {1, 2} : Covered(u, k, x) \/ ~TakesJob(t.car[k], x)
        BY <4>2, <4>3 DEF TakesJob
      <4>5. Finds(t, k)
        BY <4>2 DEF Finds
      <4> QED BY <3>2, <4>2, <4>4, <4>5, WellIsWellBut, CarWell
    <3> QED BY <3>1, <3>3, <3>4
  <2> QED BY <2>1, <2>2
<1> QED BY <1>1, <1>2 DEF CarryOn

(* A carrier on the way to the middle: the end he faces has been left to his *)
(* partner, or nothing lies there.                                           *)
LEMMA ToMiddleWell ==
  ASSUME NEW s \in NetKind, NEW k \in Carriers, k[1] \in s.roads, s.car[k].st = "middle", Well(s),
         NEW t \in ToMiddle(s, k)
  PROVE  Well(t)
<1> DEFINE L == Length[k[1]]
           c == s.car[k]
           e == c.to
           o == Opposite(e)
           pos == L - c.pos
<1>1. e \in {1, 2} /\ o \in {1, 2} /\ \A x \in {1, 2} : x = e \/ x = o
  BY Fields DEF CarKind, Opposite
<1>2. pos \in Int /\ {"fetch", "middle", "wait"} \subseteq CarrierStates
  BY Fields, CarrierEnds DEF CarKind, CarrierStates
<1> HIDE DEF pos
<1>3. Covered(s, k, e)
  <2>1. <<k[1], e>> \in Ways(s)
    BY <1>1 DEF Ways
  <2>2. Attended(s, k[1], e)
    BY <2>1 DEF Well, WatchOK, Watch
  <2>3. CASE Jobs(s, k[1], e) # {}
    <3>1. PICK j \in Carriers : j[1] = k[1] /\ ~Idle(s.car[j], e)
      BY <2>2, <2>3 DEF Attended
    <3>2. j # k
      BY <3>1 DEF Idle
    <3>3. j[2] \in {1, 2} /\ k[2] \in {1, 2} /\ j = <<j[1], j[2]>> /\ k = <<k[1], k[2]>>
      BY CarrierIndex
    <3>4. j[2] # k[2]
      BY <3>1, <3>2, <3>3
    <3>5. j[2] = 3 - k[2]
      BY <3>3, <3>4
    <3>6. j = <<k[1], 3 - k[2]>>
      BY <3>1, <3>3, <3>5
    <3> QED BY <3>1, <3>6 DEF Covered
  <2> QED BY <2>3 DEF Covered
<1>4. CASE AreWareJobs(s, k, o, FALSE) /\ t = Turns(s, k, "fetch", pos)
  <2>1. OnlyCar(s, t, k) /\ t.car[k].st = "fetch" /\ t.car[k].to = o
    BY <1>2, <1>4, TurnsField
  <2>2. Jobs(s, k[1], o) # {}
    BY <1>1, <1>4, JobsThere
  <2>3. Jobs(t, k[1], o) = Jobs(s, k[1], o)
    BY <2>1 DEF OnlyCar, Jobs, WaresForRoad
  <2>4. Finds(t, k) /\ \A x \in {1, 2} : ~TakesJob(t.car[k], x)
    BY <2>1, <2>2, <2>3 DEF Finds, TakesJob
  <2> QED BY <2>1, <2>4, WellIsWellBut, CarWell
<1>5. CASE ~AreWareJobs(s, k, o, FALSE) /\ t \in {s, Turns(s, k, "middle", pos), Enters(s, k, "wait")}
  <2>1. OnlyCar(s, t, k) /\ t.car[k].st \in {"middle", "wait"}
    <3>1. OnlyCar(s, s, k)
      BY DEF OnlyCar
    <3>2. /\ OnlyCar(s, Turns(s, k, "middle", pos), k) /\ Turns(s, k, "middle", pos).car[k].st = "middle"
      BY <1>2, TurnsField
    <3>3. OnlyCar(s, Enters(s, k, "wait"), k) /\ Enters(s, k, "wait").car[k].st = "wait"
      BY <1>2, EntersField
    <3> QED BY <1>5, <3>1, <3>2, <3>3
  <2>2. Covered(s, k, o)
    BY <1>1, <1>5, LeftAlone
  <2>3. Finds(t, k)
    BY <2>1 DEF Finds
  <2>4. \A x \in {1, 2} : Covered(s, k, x)
    BY <1>1, <1>3, <2>2
  <2> QED BY <2>1, <2>3, <2>4, WellIsWellBut, CarWell
<1> QED BY <1>4, <1>5 DEF ToMiddle, pos

(* A field further, everything is as before. *)
LEMMA SteppedWell ==
  ASSUME NEW n, NEW s, NEW k \in Carriers, OnlyCar(n, s, k), Well(n),
         s.car[k].st = n.car[k].st, s.car[k].to = n.car[k].to
  PROVE  Well(s)
<1>1. OnlyCars(n, s) /\ Ways(s) = Ways(n)
  BY DEF OnlyCar, OnlyCars, Ways
<1>2. \A j \in Carriers : s.car[j].st = n.car[j].st /\ s.car[j].to = n.car[j].to
  BY DEF OnlyCar
<1>3. \A r, e : Jobs(s, r, e) = Jobs(n, r, e)
  BY DEF Jobs, WaresForRoad, OnlyCar
<1>4. ASSUME NEW p \in Ways(s) PROVE Attended(s, p[1], p[2])
  <2>1. Attended(n, p[1], p[2]) /\ p[1] \in Roads
    BY <1>1, Fields DEF Well, WatchOK, Watch, OnlyCar, Ways, NetKind
  <2>2. <<p[1], 1>> \in Carriers
    BY <2>1 DEF Carriers
  <2> QED BY <1>2, <1>3, <2>1, <2>2 DEF Attended, Idle, TakesJob
<1>5. \A j \in Carriers : Finds(s, j)
  BY <1>2, <1>3 DEF Well, WatchOK, Watch, Finds
<1> QED BY <1>1, <1>4, <1>5, CarsRoutes, CarsWork DEF Well, WatchOK, Watch

LEMMA BroughtInWell ==
  ASSUME NEW s, NEW k \in Carriers, Good(s), Well(s), s.car[k].st = "tohouse",
         NEW t, t = EmptyHanded(Enters(Stored(s, s.car[k].hand, FacedFlag(s, k)), k, "leaving"), k)
  PROVE  Well(t)
<1> DEFINE w == s.car[k].hand
           f == FacedFlag(s, k)
           u == Stored(s, w, f)
           v == Enters(u, k, "leaving")
<1>0. s \in NetKind /\ s.car[k].hand \in Wares \cup {NoWare}
  BY Fields DEF Good, GoodFor, CarKind
<1>1. w \in Wares /\ f \in Houses
  BY <1>0 DEF Good, GoodFor, CarOK, FacedFlag
<1>2. Held(s, w)
  <2>1. PlacedAt(s, w)
    BY <1>1 DEF Good, GoodFor
  <2>2. s.ware[w].st = "carried" /\ Where(s, w, "hand", k)
    BY <1>0, <1>1, <2>1, HandWhere
  <2> QED BY <1>1, <2>2 DEF Held, Where
<1>3. OnlyWare(s, u, w) /\ u.ware[w].st = "stock"
  BY <1>0, <1>1, StoredField
<1>4. t = EmptyHanded(v, k)
  OBVIOUS
<1> HIDE DEF u
<1>5. Well(u) /\ u \in NetKind
  BY <1>0, <1>2, <1>3, UnseenWell
<1>6. "leaving" \in CarrierStates
  BY DEF CarrierStates
<1>7. OnlyCar(u, v, k) /\ v.car[k].st = "leaving"
  BY <1>5, <1>6, EntersField
<1> HIDE DEF v
<1>8. v \in NetKind /\ Well(v)
  BY <1>5, <1>7, WellIsWellBut, BusyWell DEF OnlyCar
<1>9. OnlyCar(v, t, k) /\ t.car[k].st = "leaving"
  BY <1>4, <1>7, <1>8, EmptyField
<1> QED BY <1>8, <1>9, WellIsWellBut, BusyWell

LEMMA WalkedWell ==
  ASSUME NEW n, NEW s, NEW k \in Carriers, Stepped(n, s, k), Well(n), NEW t \in Walked(s, k)
  PROVE  Well(t)
<1> DEFINE c == s.car[k]
           L == Length[k[1]]
           f == FacedFlag(s, k)
<1>1. GoodFor(n, Carriers \ {k}) /\ OnlyCar(n, s, k) /\ c.hand = n.car[k].hand
  BY DEF Stepped, Good, GoodFor
<1>2. GoodFor(s, Carriers \ {k}) /\ s \in NetKind
  BY <1>1, CarGoodFor DEF GoodFor
<1>3. CarOK(n.car[k], k, n.roads) /\ L \in Nat /\ L >= 2
  BY CarrierEnds DEF Stepped, Good, GoodFor
<1>4. k[1] \in s.roads
  BY <1>1, <1>3 DEF CarOK, Stepped, Walking, OnlyCar
<1>5. c.hand \in Wares \cup {NoWare}
  BY <1>2, Fields DEF CarKind
<1>6. Well(s) /\ WellBut(s, k)
  BY <1>1, SteppedWell, WellIsWellBut DEF Stepped
<1>7. CASE c.st = "middle"
  BY <1>2, <1>4, <1>6, <1>7, ToMiddleWell DEF Walked
<1>8. CASE c.st = "fetch"
  <2>1. CASE c.pos = L
    <3>1. t \in FetchWare(s, k, FALSE)
      BY <1>8, <2>1 DEF Walked
    <3>2. Finds(s, k)
      BY <1>6 DEF Well, WatchOK, Watch
    <3>3. WaresForRoad(s, f, k[1]) # {}
      BY <1>8, <3>2 DEF Finds, Jobs, FacedFlag
    <3> QED BY <1>2, <1>6, <3>1, <3>3, FetchWell
  <2>2. CASE c.pos # L
    BY <1>6, <1>8, <2>2 DEF Walked
  <2> QED BY <2>1, <2>2
<1>9. CASE c.st = "carry"
  <2>1. c.pos \in 1..L /\ c.hand \in Wares
    BY <1>3, <1>5, <1>9 DEF CarOK, Stepped
  <2>2. Carrying(s, k)
    BY <1>2, <1>3, <1>4, <1>9, <2>1 DEF Carrying
  <2>3. t \in CarryOn(s, k)
    BY <1>9 DEF Walked
  <2> QED BY <1>6, <2>2, <2>3, CarryOnWell
<1>10. CASE c.st = "back"
  <2>1. c.pos \in 1..L /\ c.hand \in Wares
    BY <1>3, <1>5, <1>10 DEF CarOK, Stepped
  <2> DEFINE pos == L - c.pos
             u == Turns(s, k, "carry", pos)
  <2>2. pos \in 0..L /\ pos \in Int /\ "carry" \in CarrierStates
    BY <1>3, <2>1 DEF CarrierStates
  <2>3. t \in CarryOn(u, k)
    BY <1>10 DEF Walked
  <2> HIDE DEF pos
  <2>4. OnlyCar(s, u, k) /\ u.car[k].st = "carry" /\ u.car[k].pos = pos /\ u.car[k].hand = c.hand
    BY <1>2, <2>2, TurnsField
  <2> HIDE DEF u
  <2>5. GoodFor(u, Carriers \ {k})
    BY <1>2, <2>4, CarGoodFor
  <2>6. Carrying(u, k)
    BY <1>4, <2>1, <2>2, <2>4, <2>5 DEF Carrying, OnlyCar
  <2>7. Well(u)
    BY <1>2, <1>6, <2>4, BusyWell
  <2> QED BY <2>3, <2>6, <2>7, CarryOnWell
<1>11. CASE c.st = "tohouse"
  <2>1. t = EmptyHanded(Enters(Stored(s, c.hand, f), k, "leaving"), k)
    BY <1>11 DEF Walked
  <2>2. c.pos = n.car[k].pos
    <3>1. n.car[k].pos \in Int
      BY <1>3 DEF CarOK
    <3> QED BY <1>11, <3>1 DEF Stepped
  <2>3. CarOK(c, k, s.roads)
    BY <1>1, <1>3, <1>11, <2>2 DEF CarOK, Stepped, OnlyCar
  <2>4. Good(s)
    BY <1>2, <2>3 DEF Good, GoodFor
  <2> QED BY <1>6, <1>11, <2>1, <2>4, BroughtInWell
<1>12. CASE c.st = "leaving"
  <2>1. t \in LookForWares(s, k)
    BY <1>12 DEF Walked
  <2> QED BY <1>2, <1>6, <2>1, LookWell
<1>13. c.st \in Walking
  BY DEF Stepped
<1> QED BY <1>7, <1>8, <1>9, <1>10, <1>11, <1>12, <1>13 DEF Walking

LEMMA BecomesWell ==
  ASSUME NEW s, s \in NetKind, Well(s), Becomes(s)
  PROVE  Well(Net)'
<1>1. Net' = s
  BY NetIs DEF Becomes
<1>2. Well(Net')
  BY <1>1
<1> QED BY <1>2 DEF Well, RoutesOK, RouteOK, WorkOK, Served, AtWork, WatchOK, Watch, Attended, Finds, Ways, Leads, Doors, Jobs, WaresForRoad, Space, TakesJob, Idle

LEMMA WalkWell ==
  ASSUME Good(Net), Well(Net), NEW k \in Carriers, Walk(k)
  PROVE  Well(Net)'
<1> DEFINE steps == IF car[k].st \in {"tohouse", "leaving"} THEN 0 ELSE 1
           s == [Net EXCEPT !.car[k].pos = @ + steps]
<1>1. PICK t \in Walked(s, k) : Becomes(t)
  BY DEF Walk
<1>2. Net.car = car /\ Net \in NetKind /\ steps \in Int /\ car[k].st \in Walking
  BY DEF Net, Good, GoodFor, Walk, Walking
<1> DEFINE n == steps
<1>3. /\ OnlyCar(Net, s, k)
      /\ s.car[k].pos = Net.car[k].pos + steps
      /\ s.car[k].st = Net.car[k].st /\ s.car[k].to = Net.car[k].to /\ s.car[k].hand = Net.car[k].hand
  <2> HIDE DEF n, steps
  <2> QED BY <1>2, SteppedField
<1> HIDE DEF s
<1>4. Stepped(Net, s, k)
  BY <1>2, <1>3 DEF Stepped
<1>5. Good(t) /\ Well(t)
  BY <1>1, <1>4, WalkedGood, WalkedWell
<1> QED BY <1>1, <1>5, BecomesWell DEF Good, GoodFor

(* A new carrier comes to his road and looks at both ends of it.            *)
LEMMA ArriveWell ==
  ASSUME Good(Net), Well(Net), NEW k \in Carriers, NEW e \in 1..2, Arrive(k, e)
  PROVE  Well(Net)'
<1> DEFINE c == [st |-> "middle", pos |-> 0, to |-> e, hand |-> NoWare]
           there == [Net EXCEPT !.car[k] = c]
           onward == Turns(there, k, "middle", 0)
           far == AreWareJobs(onward, k, Opposite(e), FALSE)
           st == IF far THEN "fetch" ELSE "middle"
<1>1. PICK t : /\ Becomes(t)
               /\ \/ AreWareJobs(there, k, e, TRUE) /\ t \in FetchWare(there, k, FALSE)
                  \/ ~AreWareJobs(there, k, e, TRUE) /\ t = Enters(onward, k, st)
  BY DEF Arrive
<1>2. Net \in NetKind
  BY DEF Good, GoodFor
<1>3. c \in CarKind /\ c.st = "middle" /\ c.to = e
  BY DEF CarKind, CarrierStates
<1>4. e \in {1, 2} /\ Opposite(e) \in {1, 2} /\ \A x \in {1, 2} : x = e \/ x = Opposite(e)
  BY DEF Opposite
<1> HIDE DEF c
<1>5. OnlyCar(Net, there, k) /\ there.car[k] = c
  BY <1>2, <1>3, CarSet
<1> HIDE DEF there
<1>6. there \in NetKind
  BY <1>5 DEF OnlyCar
<1>7. WellBut(there, k)
  <2>1. OnlyCars(Net, there) /\ Ways(there) = Ways(Net)
    BY <1>5 DEF OnlyCar, OnlyCars, Ways
  <2>2. \A r, x : Jobs(there, r, x) = Jobs(Net, r, x)
    BY <1>5 DEF Jobs, WaresForRoad, OnlyCar
  <2>3. ASSUME NEW p \in Away(Ways(there), k) PROVE Attended(there, p[1], p[2])
    <3>1. Attended(Net, p[1], p[2]) /\ p[1] # k[1] /\ p[1] \in Roads
      BY <1>2, <2>1, WaysKind DEF Well, WatchOK, Watch, Away
    <3>2. \A j \in Carriers : j[1] = p[1] => there.car[j] = Net.car[j]
      BY <1>5, <3>1 DEF OnlyCar
    <3>3. there.car[<<p[1], 1>>] = Net.car[<<p[1], 1>>]
      BY <3>1, <3>2 DEF Carriers
    <3> QED BY <2>2, <3>1, <3>2, <3>3 DEF Attended
  <2>4. \A j \in Carriers \ {k} : Finds(there, j)
    BY <1>5, <2>2 DEF Well, WatchOK, Watch, Finds, OnlyCar
  <2> QED BY <2>1, <2>3, <2>4, CarsRoutes, CarsWork DEF Well, WellBut, Watch
<1>8. CASE AreWareJobs(there, k, e, TRUE) /\ t \in FetchWare(there, k, FALSE)
  <2>1. there.car[k].to = e /\ WaresForRoad(there, FacedFlag(there, k), k[1]) # {}
    BY <1>3, <1>5, <1>8, JobsNow
  <2>2. Well(t)
    BY <1>6, <1>7, <1>8, <2>1, FetchWell
  <2>3. WaresForRoad(there, FacedFlag(there, k), k[1]) # {} /\ FacedFlag(there, k) \in Flags
    BY <1>6, <2>1, FacedIsFlag
  <2>4. t \in NetKind
    BY <1>6, <1>8, <2>3, FetchDraws DEF Drawn
  <2> QED BY <1>1, <2>2, <2>4, BecomesWell
<1>9. CASE ~AreWareJobs(there, k, e, TRUE) /\ t = Enters(onward, k, st)
  <2> DEFINE o == Opposite(e)
  <2>1. "middle" \in CarrierStates /\ 0 \in Int /\ st \in CarrierStates
    BY DEF CarrierStates
  <2> HIDE DEF st, far
  <2>2. OnlyCar(there, onward, k) /\ onward.car[k].to = o
    BY <1>3, <1>5, <1>6, <2>1, TurnsField
  <2> HIDE DEF onward
  <2>3. onward \in NetKind
    BY <2>2 DEF OnlyCar
  <2>4. OnlyCar(onward, t, k) /\ t.car[k].st = st /\ t.car[k].to = o
    BY <1>9, <2>1, <2>2, <2>3, EntersField
  <2>5. OnlyCar(there, t, k)
    BY <2>2, <2>4 DEF OnlyCar
  <2>6. \A r, x : Jobs(onward, r, x) = Jobs(there, r, x) /\ Jobs(t, r, x) = Jobs(there, r, x)
    BY <2>2, <2>5 DEF Jobs, WaresForRoad, OnlyCar
  <2>7. Covered(there, k, e)
    BY <1>4, <1>6, <1>9, LeftAlone
  <2>8. ~far => Covered(there, k, o)
    <3>1. ~far => Covered(onward, k, o)
      BY <1>4, <2>3, LeftAlone DEF far
    <3> QED BY <2>2, <2>6, <3>1, CarrierIndex DEF Covered, OnlyCar
  <2>9. far => Jobs(t, k[1], o) # {}
    <3>1. far => Jobs(onward, k[1], o) # {}
      BY <1>4, <2>3, JobsThere DEF far
    <3> QED BY <2>6, <3>1
  <2>10. \A x \in {1, 2} : Covered(there, k, x) \/ ~TakesJob(t.car[k], x)
    BY <1>4, <2>4, <2>7, <2>8 DEF TakesJob, st
  <2>11. Finds(t, k)
    BY <2>4, <2>9 DEF Finds, st
  <2>12. Well(t)
    BY <1>6, <1>7, <2>5, <2>10, <2>11, CarWell
  <2> QED BY <1>1, <2>5, <2>12, BecomesWell DEF OnlyCar
<1> QED BY <1>1, <1>8, <1>9

-----------------------------------------------------------------------------
(* The actions of a warehouse.  House h and a ware that lies nowhere change: *)
(* it has as many workers on the way as before, and is still at work.       *)
HouseTurns(s, t, h, w) ==
  LET b == s.house[h] c == t.house[h] IN
  /\ OnlyIn(s, t, h, w)
  /\ c.queued + c.fetching = b.queued + b.fetching /\ c.dontfetch = b.dontfetch
  /\ \A v \in Wares \ {w} : v \in ToSet(c.waiting) => v \in ToSet(b.waiting)
  /\ AtWork(t, h)

LEMMA HouseTurnsWork ==
  ASSUME NEW s \in NetKind, NEW t, NEW h \in Houses, NEW w, HouseTurns(s, t, h, w), WorkOK(s), WatchOK(s),
         w \in Wares => \A g \in Flags : w \notin s.lying[g]
  PROVE  /\ WorkOK(t) /\ WatchOK(t)
         /\ \A v \in Wares \ {w} : RouteSame(s, t, v)
<1>1. /\ t \in NetKind /\ t.roads = s.roads /\ t.lying = s.lying /\ t.car = s.car
      /\ \A g \in Houses \ {h} : t.house[g] = s.house[g]
      /\ \A x \in Wares \ {w} : t.ware[x] = s.ware[x]
  BY DEF HouseTurns, OnlyIn
<1>2. \A g \in Flags : s.lying[g] \subseteq Wares \ {w}
  BY Fields
<1>3. \A g \in Flags : \A d : WaresForRoad(t, g, d) = WaresForRoad(s, g, d)
  BY <1>1, <1>2 DEF WaresForRoad
<1>4. \A v \in Wares \ {w} : RouteSame(s, t, v)
  BY <1>1 DEF RouteSame, HouseTurns
<1>5. WorkOK(t)
  <2> SUFFICES ASSUME NEW g \in Houses PROVE Served(t, g) /\ AtWork(t, g)
    BY DEF WorkOK
  <2>1. Served(s, g) /\ AtWork(s, g) /\ g \in Flags
    BY TransportAssumption DEF WorkOK
  <2>2. Doors(t, g) = Doors(s, g)
    BY <1>3, <2>1 DEF Doors
  <2>3. CASE g # h
    BY <1>1, <2>1, <2>2, <2>3 DEF Served, AtWork, Space
  <2>4. CASE g = h
    BY <2>1, <2>2, <2>4 DEF Served, HouseTurns
  <2> QED BY <2>3, <2>4
<1>6. WatchOK(t)
  <2>1. \A r \in Roads, e \in {1, 2} : Jobs(t, r, e) = Jobs(s, r, e)
    BY <1>3, RoadEnds DEF Jobs
  <2>2. \A p \in Ways(s) : Attended(t, p[1], p[2])
    BY <1>1, <2>1, WaysKind DEF WatchOK, Watch, Attended
  <2>3. \A k \in Carriers : k[1] \in Roads /\ s.car[k].to \in {1, 2}
    BY CarrierEnds, Fields DEF CarKind
  <2>4. \A k \in Carriers : Finds(t, k)
    BY <1>1, <2>1, <2>3 DEF WatchOK, Watch, Finds
  <2>5. Ways(t) = Ways(s)
    BY <1>1 DEF Ways
  <2> QED BY <2>2, <2>4, <2>5 DEF WatchOK, Watch
<1> QED BY <1>4, <1>5, <1>6

LEMMA HouseTurnsWell ==
  ASSUME NEW s \in NetKind, NEW t, NEW h \in Houses, NEW w, HouseTurns(s, t, h, w), Well(s),
         w \in Wares => RouteOK(t, w) /\ \A g \in Flags : w \notin s.lying[g]
  PROVE  Well(t)
<1>1. WorkOK(t) /\ WatchOK(t) /\ \A v \in Wares \ {w} : RouteSame(s, t, v)
  BY HouseTurnsWork DEF Well
<1>2. RoutesOK(t)
  BY <1>1, RouteKept DEF RoutesOK, Well
<1> QED BY <1>1, <1>2 DEF Well

(* A ware that is nowhere at a flag and has nothing to wait for needs only a *)
(* goal.                                                                    *)
LEMMA AwayRoute ==
  ASSUME NEW t, NEW w, \A g \in Flags : w \notin t.lying[g],
         t.ware[w].st = "stock" \/ (t.ware[w].st = "carried" /\ t.ware[w].goal \in Houses)
  PROVE  RouteOK(t, w)
BY DEF RouteOK

(* A ware in a house or in stock lies at no flag.                           *)
LEMMA InHouseNotLying ==
  ASSUME NEW s, NEW w, NEW h, WasInHouse(s, w, h)
  PROVE  \A g \in Flags : w \notin s.lying[g]
BY DEF WasInHouse, Where, HouseKinds

LEMMA WaitingGoal ==
  ASSUME NEW s, Good(s), RoutesOK(s), NEW h \in Houses, NEW w \in Wares, w \in ToSet(s.house[h].waiting)
  PROVE  s.ware[w].goal \in Houses
<1>1. s.ware[w].st \in {"waiting", "carried"}
  <2>1. s \in NetKind /\ PlacedAt(s, w)
    BY DEF Good, GoodFor
  <2>2. s.ware[w] \in WareKind
    BY <2>1, Fields
  <2> QED BY <2>1, <2>2 DEF PlacedAt, Where, WareKind
<1> QED BY <1>1 DEF RoutesOK, RouteOK

(* House h alone changes, and the net becomes what it is then.              *)
LEMMA HouseAloneWell ==
  ASSUME Good(Net), Well(Net), NEW h \in Houses, NEW c \in HouseKind,
         house' = [house EXCEPT ![h] = c], UNCHANGED <<roads, ware, lying, car>>,
         c.queued + c.fetching = house[h].queued + house[h].fetching, c.dontfetch = house[h].dontfetch,
         c.waiting = house[h].waiting,
         (c.queued > 0 => c.awake), (c.waiting # <<>> => c.awake \/ ~Space(Net, h))
  PROVE  Well(Net)'
<1> DEFINE t == WithHouse(Net, h, c)
<1>1. Net \in NetKind /\ Net.house = house
  BY HouseOf
<1>2. Becomes(t)
  BY DEF Becomes, WithHouse, Net
<1>3. OnlyHouse(Net, t, h) /\ t.house[h] = c
  BY <1>1, HouseSet
<1> HIDE DEF t
<1>4. OnlyIn(Net, t, h, NoWare) /\ t \in NetKind /\ Space(t, h) = Space(Net, h)
  BY <1>3 DEF OnlyHouse, OnlyIn, Space
<1>5. AtWork(t, h)
  BY <1>3, <1>4 DEF AtWork
<1>6. HouseTurns(Net, t, h, NoWare)
  BY <1>1, <1>3, <1>4, <1>5 DEF HouseTurns
<1>7. Well(t)
  BY <1>1, <1>6, HouseTurnsWell, TransportAssumption
<1> QED BY <1>2, <1>4, <1>7, BecomesWell

LEMMA LeaveWell ==
  ASSUME Good(Net), Well(Net), NEW h \in Houses, Leave(h)
  PROVE  Well(Net)'
<1> DEFINE b == house[h]
           q == b.waiting
           More(c) == c.queued > 0 \/ c.waiting # <<>>
           Stay(c) == [c EXCEPT !.awake = More(c)]
           c1 == [b EXCEPT !.queued = b.queued - 1, !.fetching = b.fetching + 1]
           c2 == [b EXCEPT !.waiting = Tail(q), !.out = b.out \cup {Head(q)}]
           c3 == [b EXCEPT !.awake = FALSE]
<1>1. Net \in NetKind /\ Net.house = house /\ Net.ware = ware /\ b \in HouseKind /\ NotTwice(q)
  BY HouseOf
<1>2. \A c \in HouseKind : /\ Stay(c) \in HouseKind /\ HouseCalm(c, Stay(c)) /\ Stay(c).awake = More(Stay(c))
                           /\ Stay(c).queued = c.queued /\ Stay(c).fetching = c.fetching
                           /\ Stay(c).dontfetch = c.dontfetch
  BY DEF HouseKind, HouseCalm
<1>3. CASE b.queued > 0 /\ house' = [house EXCEPT ![h] = Stay(c1)] /\ UNCHANGED ware
  <2> DEFINE n == b.queued - 1
             m == b.fetching + 1
  <2>1. n \in Nat /\ m \in Nat /\ n + m = b.queued + b.fetching
    BY <1>1, <1>3 DEF HouseKind
  <2>2. c1 \in HouseKind /\ HouseCalm(b, c1) /\ c1.queued = n /\ c1.fetching = m /\ c1.dontfetch = b.dontfetch
    <3> HIDE DEF n, m
    <3>1. c1 = [b EXCEPT !.queued = n, !.fetching = m]
      BY DEF n, m
    <3> QED BY <1>1, <2>1, <3>1 DEF HouseKind, HouseCalm
  <2> HIDE DEF c1
  <2> DEFINE c == Stay(c1)
  <2>3. /\ c \in HouseKind /\ c.waiting = q /\ c.queued = n /\ c.fetching = m /\ c.dontfetch = b.dontfetch
        /\ c.awake = More(c)
    BY <1>2, <2>2 DEF HouseCalm
  <2>4. house' = [house EXCEPT ![h] = c]
    BY <1>3
  <2> HIDE DEF c
  <2>5. UNCHANGED <<roads, ware, lying, car>>
    BY <1>3 DEF Leave
  <2>6. c.queued + c.fetching = b.queued + b.fetching
    BY <2>1, <2>3
  <2> QED BY <2>3, <2>4, <2>5, <2>6, HouseAloneWell
<1>4. CASE b.queued = 0 /\ q # <<>> /\ house' = [house EXCEPT ![h] = Stay(c2)]
           /\ ware' = [ware EXCEPT ![Head(q)].st = "carried"]
  <2> DEFINE w == Head(q)
             v == [ware[w] EXCEPT !.st = "carried"]
  <2>1. q \in Seq(Wares) /\ b.out \subseteq Wares
    BY <1>1 DEF HouseKind
  <2>2. /\ w \in Wares /\ w \in ToSet(q) /\ Tail(q) \in Seq(Wares)
        /\ \A x \in Wares \ {w} : x \in ToSet(Tail(q)) <=> x \in ToSet(q)
    BY <1>1, <1>4, <2>1, TailWaits
  <2>3. v \in WareKind /\ v.st = "carried" /\ v.goal = ware[w].goal /\ ware' = [ware EXCEPT ![w] = v]
    <3>1. ware[w] \in WareKind
      BY <1>1, <2>2, Fields
    <3> QED BY <1>4, <3>1 DEF WareKind
  <2>4. ware[w].goal \in Houses
    BY <1>1, <2>2, WaitingGoal DEF Well
  <2> HIDE DEF v
  <2> DEFINE W == Tail(q)
             O == b.out \cup {w}
  <2>5. W \in Seq(Wares) /\ O \in SUBSET Wares
    BY <2>1, <2>2
  <2>6. c2 \in HouseKind /\ c2.waiting = W /\ c2.queued = b.queued /\ c2.fetching = b.fetching /\ c2.dontfetch = b.dontfetch
    <3> HIDE DEF W, O
    <3>1. c2 = [b EXCEPT !.waiting = W, !.out = O]
      BY DEF W, O
    <3> QED BY <1>1, <2>5, <3>1 DEF HouseKind
  <2> HIDE DEF c2
  <2> DEFINE c == Stay(c2)
             t == WithWare(WithHouse(Net, h, c), w, v)
  <2>7. /\ c \in HouseKind /\ c.waiting = W /\ c.queued = b.queued /\ c.fetching = b.fetching
        /\ c.dontfetch = b.dontfetch /\ c.awake = More(c)
    BY <1>2, <2>6 DEF HouseCalm
  <2>8. house' = [house EXCEPT ![h] = c]
    BY <1>4
  <2> HIDE DEF c
  <2>9. OnlyIn(Net, t, h, w) /\ t.house[h] = c /\ t.ware[w] = v
    BY <1>1, <2>2, <2>3, <2>7, TwoSet
  <2>10. Becomes(t)
    BY <2>3, <2>8 DEF Becomes, WithWare, WithHouse, Net, Leave
  <2> HIDE DEF t
  <2>11. AtWork(t, h)
    BY <2>7, <2>9 DEF AtWork
  <2>12. HouseTurns(Net, t, h, w)
    BY <1>1, <2>2, <2>7, <2>9, <2>11 DEF HouseTurns
  <2>13. \A g \in Flags : w \notin Net.lying[g]
    BY <1>1, <2>2, HouseWhere, InHouseNotLying
  <2>14. RouteOK(t, w)
    BY <2>3, <2>4, <2>9, <2>13, AwayRoute DEF OnlyIn
  <2>15. Well(t) /\ t \in NetKind
    BY <1>1, <2>9, <2>12, <2>13, <2>14, HouseTurnsWell DEF OnlyIn
  <2> QED BY <2>10, <2>15, BecomesWell
<1>5. CASE b.queued = 0 /\ (q = <<>> \/ ~Space(Net, h)) /\ house' = [house EXCEPT ![h].awake = FALSE] /\ UNCHANGED ware
  <2>1. house' = [house EXCEPT ![h] = c3]
    BY <1>5
  <2>2. /\ c3 \in HouseKind /\ c3.waiting = q /\ c3.queued = b.queued /\ c3.fetching = b.fetching
        /\ c3.dontfetch = b.dontfetch
    BY <1>1 DEF HouseKind
  <2> HIDE DEF c3
  <2>3. UNCHANGED <<roads, ware, lying, car>>
    BY <1>5 DEF Leave
  <2>4. (c3.queued > 0 => c3.awake) /\ (c3.waiting # <<>> => c3.awake \/ ~Space(Net, h))
    BY <1>5, <2>2
  <2>5. c3.queued + c3.fetching = b.queued + b.fetching
    BY <2>2
  <2> QED BY <2>1, <2>2, <2>3, <2>4, <2>5, HouseAloneWell
<1> QED BY <1>3, <1>4, <1>5 DEF Leave

LEMMA AddWaitingWareWell ==
  ASSUME Good(Net), Well(Net), NEW h \in Houses, NEW w \in Wares, AddWaitingWare(h, w)
  PROVE  Well(Net)'
<1> DEFINE b == house[h]
           W == Append(b.waiting, w)
           B == b.back \ {w}
           c == [b EXCEPT !.back = B, !.waiting = W, !.awake = TRUE]
           t == WithHouse(Net, h, c)
<1>1. Net \in NetKind /\ Net.house = house /\ Net.ware = ware /\ b \in HouseKind /\ NotTwice(b.waiting)
      /\ house \in [Houses -> HouseKind]
  BY HouseOf
<1>2. w \in b.back
  BY DEF AddWaitingWare
<1>3. InHouse(b, w, "back") /\ ware[w].st = "carried" /\ WasInHouse(Net, w, h)
  BY <1>1, <1>2, InOneWay, CarriedInHouse, HouseWhere
<1>4. b.waiting \in Seq(Wares) /\ b.back \subseteq Wares /\ w \notin ToSet(b.waiting)
  BY <1>1, <1>3 DEF HouseKind, InHouse
<1>5. /\ W \in Seq(Wares) /\ B \in SUBSET Wares
      /\ \A v \in Wares \ {w} : v \in ToSet(W) <=> v \in ToSet(b.waiting)
  BY <1>1, <1>4, AppendWaits
<1>6. house' = [house EXCEPT ![h].back = b.back \ {w}, ![h].waiting = Append(b.waiting, w), ![h].awake = TRUE]
  BY DEF AddWaitingWare
<1> HIDE DEF W, B
<1>7. house' = [house EXCEPT ![h].back = B, ![h].waiting = W, ![h].awake = TRUE]
  BY <1>6 DEF W, B
<1>8. house' = [house EXCEPT ![h] = c]
  BY <1>1, <1>7 DEF HouseKind
<1>9. /\ c \in HouseKind /\ c.waiting = W /\ c.awake
      /\ c.queued = b.queued /\ c.fetching = b.fetching /\ c.dontfetch = b.dontfetch
  BY <1>1, <1>5 DEF HouseKind
<1> HIDE DEF c
<1>10. Becomes(t)
  BY <1>8 DEF Becomes, WithHouse, Net, AddWaitingWare
<1>11. OnlyHouse(Net, t, h) /\ t.house[h] = c
  BY <1>1, <1>9, HouseSet
<1> HIDE DEF t
<1>12. OnlyIn(Net, t, h, w) /\ t.ware[w] = ware[w] /\ t \in NetKind /\ t.lying = Net.lying
  BY <1>1, <1>11 DEF OnlyHouse, OnlyIn
<1>13. AtWork(t, h)
  BY <1>9, <1>11 DEF AtWork
<1>14. HouseTurns(Net, t, h, w)
  BY <1>1, <1>5, <1>9, <1>11, <1>12, <1>13 DEF HouseTurns
<1>15. \A g \in Flags : w \notin Net.lying[g]
  BY <1>3, InHouseNotLying
<1>16. ware[w].goal \in Houses
  BY <1>1, <1>3 DEF Well, RoutesOK, RouteOK
<1>17. RouteOK(t, w)
  BY <1>3, <1>12, <1>15, <1>16, AwayRoute
<1> QED BY <1>1, <1>10, <1>12, <1>14, <1>15, <1>17, HouseTurnsWell, BecomesWell

LEMMA AddWareWell ==
  ASSUME Good(Net), Well(Net), NEW h \in Houses, NEW w \in Wares, AddWare(h, w)
  PROVE  Well(Net)'
<1> DEFINE b == house[h]
           I == b.in \ {w}
           c == [b EXCEPT !.in = I]
           s == WithHouse(Net, h, c)
           t == Stored(s, w, h)
<1>1. Net \in NetKind /\ Net.house = house /\ b \in HouseKind
  BY HouseOf
<1>2. w \in b.in /\ Becomes(t)
  <2>1. s = [Net EXCEPT !.house[h].in = @ \ {w}]
    BY <1>1 DEF WithHouse
  <2> HIDE DEF s
  <2> QED BY <2>1 DEF AddWare
<1>3. \A g \in Flags : w \notin Net.lying[g]
  BY <1>1, <1>2, HouseWhere, InHouseNotLying
<1>4. I \in SUBSET Wares
  BY <1>1 DEF HouseKind
<1> HIDE DEF I
<1>5. /\ c \in HouseKind /\ c.waiting = b.waiting /\ c.awake = b.awake
      /\ c.queued = b.queued /\ c.fetching = b.fetching /\ c.dontfetch = b.dontfetch
  BY <1>1, <1>4 DEF HouseKind
<1> HIDE DEF c
<1>6. OnlyHouse(Net, s, h) /\ s.house[h] = c
  BY <1>1, <1>5, HouseSet
<1> HIDE DEF s
<1>7. s \in NetKind
  BY <1>6 DEF OnlyHouse
<1>8. OnlyWare(s, t, w) /\ t.ware[w].st = "stock"
  BY <1>7, StoredField
<1> HIDE DEF t
<1>9. OnlyIn(Net, t, h, w) /\ t.house[h] = c /\ t \in NetKind /\ t.lying = Net.lying
  BY <1>6, <1>8 DEF OnlyHouse, OnlyWare, OnlyIn
<1>10. AtWork(Net, h)
  BY DEF Well, WorkOK
<1>11. AtWork(t, h)
  BY <1>1, <1>5, <1>9, <1>10 DEF AtWork, Space
<1>12. HouseTurns(Net, t, h, w)
  BY <1>1, <1>5, <1>9, <1>11 DEF HouseTurns
<1>13. RouteOK(t, w)
  BY <1>3, <1>8, <1>9, AwayRoute
<1> QED BY <1>1, <1>2, <1>3, <1>9, <1>12, <1>13, HouseTurnsWell, BecomesWell

LEMMA OrderWareWell ==
  ASSUME Good(Net), Well(Net), NEW w \in Wares, NEW goal \in Houses, OrderWare(w, goal)
  PROVE  Well(Net)'
<1> DEFINE h == ware[w].goal
           b == house[h]
           W == Append(b.waiting, w)
           c == [b EXCEPT !.waiting = W, !.awake = TRUE]
           v == [st |-> "waiting", goal |-> goal, dir |-> NoDir]
           t == WithWare(WithHouse(Net, h, c), w, v)
<1>1. h \in Houses /\ ware[w].st = "stock" /\ Where(Net, w, "gone", NoWare)
  BY DEF Good, GoodFor, PlacedAt, OrderWare, Net
<1>2. Net \in NetKind /\ Net.house = house /\ Net.ware = ware /\ Net.roads = roads /\ b \in HouseKind
      /\ NotTwice(b.waiting) /\ house \in [Houses -> HouseKind]
  BY <1>1, HouseOf
<1>3. house' = [house EXCEPT ![h].waiting = Append(b.waiting, w), ![h].awake = TRUE]
      /\ ware' = [ware EXCEPT ![w] = v]
  BY DEF OrderWare
<1>4. FindPathForWare(roads, h, goal) # {}
  BY DEF OrderWare
<1> HIDE DEF h
<1>5. \A g \in Houses : w \notin ToSet(house[g].waiting)
  BY <1>1, <1>2 DEF Where
<1>6. b.waiting \in Seq(Wares) /\ w \notin ToSet(b.waiting)
  BY <1>1, <1>2, <1>5 DEF HouseKind
<1>7. W \in Seq(Wares) /\ \A x \in Wares \ {w} : x \in ToSet(W) <=> x \in ToSet(b.waiting)
  BY <1>2, <1>6, AppendWaits
<1>8. v \in WareKind /\ v.st = "waiting" /\ v.goal = goal
  BY DEF WareKind
<1> HIDE DEF v, W
<1>9. house' = [house EXCEPT ![h].waiting = W, ![h].awake = TRUE]
  BY <1>3 DEF W
<1>10. house' = [house EXCEPT ![h] = c]
  BY <1>1, <1>2, <1>9 DEF HouseKind
<1>11. /\ c \in HouseKind /\ c.waiting = W /\ c.awake
       /\ c.queued = b.queued /\ c.fetching = b.fetching /\ c.dontfetch = b.dontfetch
  BY <1>2, <1>7 DEF HouseKind
<1> HIDE DEF c
<1>12. OnlyIn(Net, t, h, w) /\ t.house[h] = c /\ t.ware[w] = v
  BY <1>1, <1>2, <1>8, <1>11, TwoSet
<1>13. Becomes(t)
  BY <1>3, <1>10 DEF Becomes, WithWare, WithHouse, Net, OrderWare
<1> HIDE DEF t
<1>14. AtWork(t, h)
  BY <1>11, <1>12 DEF AtWork
<1>15. HouseTurns(Net, t, h, w)
  BY <1>2, <1>7, <1>11, <1>12, <1>14 DEF HouseTurns
<1>16. \A g \in Flags : w \notin Net.lying[g]
  BY <1>1 DEF Where
<1>17. RouteOK(t, w)
  <2>1. t.lying = Net.lying /\ t.roads = roads /\ t \in NetKind
    BY <1>2, <1>12 DEF OnlyIn
  <2>2. ASSUME NEW g \in Houses, w \in ToSet(t.house[g].waiting) PROVE g = h
    BY <1>2, <1>5, <1>12, <2>2 DEF OnlyIn
  <2> QED BY <1>4, <1>8, <1>12, <1>16, <2>1, <2>2 DEF RouteOK
<1>18. t \in NetKind
  BY <1>12 DEF OnlyIn
<1> QED BY <1>1, <1>2, <1>13, <1>15, <1>16, <1>17, <1>18, HouseTurnsWell, BecomesWell

(* A ware in somebody's hands is laid down with a new route. *)
LEMMA RouteLaidWell ==
  ASSUME NEW s \in NetKind, NEW w, NEW f \in Flags, Held(s, w), Well(s), Space(s, f),
         NEW u \in RecalcRoute(LieAtFlag(s, w), w, f), NEW t \in FlagAddWare(u, w, f)
  PROVE  Well(t) /\ t \in NetKind
<1>1. w \in Wares /\ \A g \in Flags : w \notin s.lying[g]
  BY DEF Held
<1>2. s.ware[w].goal # NoGoal
  BY HeldGoal DEF Well
<1>3. Laid(s, t, w, f)
  BY <1>1, <1>2, RouteLaid
<1>4. t \in NetKind /\ Ways(t) = Ways(s)
  BY <1>3 DEF Laid, Ways
<1>5. Watch(t, Ways(s), Carriers)
  BY <1>1, <1>2, RouteLaidWatch DEF Well, WatchOK
<1>6. RoutesOK(t)
  BY <1>1, <1>3, LaidRoutes DEF Well, RoutesOK
<1>7. WorkOK(t)
  BY <1>1, <1>3, LaidWork DEF Well
<1> QED BY <1>4, <1>5, <1>6, <1>7 DEF Well, WatchOK

LEMMA WorkerAtFlagWell ==
  ASSUME Good(Net), Well(Net), NEW h \in Houses, NEW w \in Wares, WorkerAtFlag(h, w)
  PROVE  Well(Net)'
<1> DEFINE b == house[h]
           c == [b EXCEPT !.out = @ \ {w}]
           s == WithHouse(Net, h, c)
           d == [c EXCEPT !.back = c.back \cup {w}]
<1>1. Net \in NetKind /\ Net.house = house /\ Net.ware = ware /\ b \in HouseKind
  BY HouseOf
<1>2. w \in b.out /\ s = [Net EXCEPT !.house[h].out = @ \ {w}]
  BY <1>1 DEF WorkerAtFlag, WithHouse
<1>3. \/ /\ Space(s, h)
         /\ \E t \in RecalcRoute(LieAtFlag(s, w), w, h) : \E u \in FlagAddWare(t, w, h) : Becomes(u)
      \/ Becomes([s EXCEPT !.house[h].back = @ \cup {w}])
  <2> HIDE DEF s
  <2> QED BY <1>2 DEF WorkerAtFlag
<1>4. ware[w].st = "carried" /\ \A g \in Flags : w \notin Net.lying[g]
  BY <1>1, <1>2, CarriedInHouse, HouseWhere, InHouseNotLying
<1>5. /\ c \in HouseKind /\ c.waiting = b.waiting /\ c.awake = b.awake
      /\ c.queued = b.queued /\ c.fetching = b.fetching /\ c.dontfetch = b.dontfetch
  BY <1>1 DEF HouseKind
<1> HIDE DEF c
<1>6. OnlyHouse(Net, s, h) /\ s.house[h] = c
  BY <1>1, <1>5, HouseSet
<1>7. s \in NetKind /\ OnlyIn(Net, s, h, w) /\ s.ware[w] = ware[w] /\ s.lying = Net.lying
  BY <1>1, <1>6 DEF OnlyHouse, OnlyIn
<1>8. AtWork(Net, h) /\ ware[w].goal \in Houses
  BY <1>1, <1>4 DEF Well, WorkOK, RoutesOK, RouteOK
<1> HIDE DEF s
<1>9. CASE Becomes([s EXCEPT !.house[h].back = @ \cup {w}])
  <2> DEFINE t == WithHouse(s, h, d)
  <2>1. Becomes(t)
    <3>1. [s EXCEPT !.house[h].back = @ \cup {w}] = t
      BY <1>6 DEF WithHouse
    <3> HIDE DEF t
    <3> QED BY <1>9, <3>1
  <2>2. /\ d \in HouseKind /\ d.waiting = c.waiting /\ d.awake = c.awake
        /\ d.queued = c.queued /\ d.fetching = c.fetching /\ d.dontfetch = c.dontfetch
    <3> DEFINE B == c.back \cup {w}
    <3>1. B \in SUBSET Wares
      BY <1>5 DEF HouseKind
    <3> HIDE DEF B
    <3>2. d = [c EXCEPT !.back = B]
      BY DEF B
    <3> QED BY <1>5, <3>1, <3>2 DEF HouseKind
  <2> HIDE DEF d
  <2>3. OnlyHouse(s, t, h) /\ t.house[h] = d
    BY <1>7, <2>2, HouseSet
  <2> HIDE DEF t
  <2>4. OnlyIn(Net, t, h, w) /\ t \in NetKind /\ t.ware[w] = ware[w] /\ t.lying = Net.lying
    BY <1>7, <2>3 DEF OnlyHouse, OnlyIn
  <2>5. AtWork(t, h)
    BY <1>1, <1>5, <1>8, <2>2, <2>3, <2>4 DEF AtWork, Space
  <2>6. HouseTurns(Net, t, h, w)
    BY <1>1, <1>5, <2>2, <2>3, <2>4, <2>5 DEF HouseTurns
  <2>7. RouteOK(t, w)
    BY <1>4, <1>8, <2>4, AwayRoute
  <2> QED BY <1>1, <1>4, <2>1, <2>4, <2>6, <2>7, HouseTurnsWell, BecomesWell
<1>10. CASE /\ Space(s, h)
            /\ \E t \in RecalcRoute(LieAtFlag(s, w), w, h) : \E u \in FlagAddWare(t, w, h) : Becomes(u)
  <2>1. AtWork(s, h)
    BY <1>1, <1>5, <1>6, <1>7, <1>8 DEF AtWork, Space
  <2>2. HouseTurns(Net, s, h, w)
    BY <1>1, <1>5, <1>6, <1>7, <2>1 DEF HouseTurns
  <2>3. RouteOK(s, w)
    BY <1>4, <1>7, <1>8, AwayRoute
  <2>4. Well(s) /\ Held(s, w)
    BY <1>1, <1>4, <1>7, <2>2, <2>3, HouseTurnsWell DEF Held
  <2>5. PICK t \in RecalcRoute(LieAtFlag(s, w), w, h) : \E u \in FlagAddWare(t, w, h) : Becomes(u)
    BY <1>10
  <2>6. PICK u \in FlagAddWare(t, w, h) : Becomes(u)
    BY <2>5
  <2>7. Well(u) /\ u \in NetKind
    BY <1>7, <1>10, <2>4, RouteLaidWell, TransportAssumption
  <2> QED BY <2>6, <2>7, BecomesWell
<1> QED BY <1>3, <1>9, <1>10

(* As far as the carriers see, nothing has changed.                         *)
LEMMA SameWatched ==
  ASSUME NEW s \in NetKind, NEW t, t.lying = s.lying, t.car = s.car, \A v \in Wares : t.ware[v].dir = s.ware[v].dir,
         NEW P, P \subseteq Roads \X {1, 2}, NEW K, K \subseteq Carriers, Watch(s, P, K)
  PROVE  Watch(t, P, K)
<1>1. \A g \in Flags : \A d : WaresForRoad(t, g, d) = WaresForRoad(s, g, d)
  BY Fields DEF WaresForRoad
<1>2. \A r \in Roads, e \in {1, 2} : Jobs(t, r, e) = Jobs(s, r, e)
  BY <1>1, RoadEnds DEF Jobs
<1>3. \A p \in P : Attended(t, p[1], p[2])
  BY <1>2 DEF Watch, Attended
<1>4. \A k \in K : k[1] \in Roads /\ s.car[k].to \in {1, 2}
  BY CarrierEnds, Fields DEF CarKind
<1>5. \A k \in K : Finds(t, k)
  BY <1>2, <1>4 DEF Watch, Finds
<1> QED BY <1>3, <1>5 DEF Watch

LEMMA TakesInMore ==
  ASSUME NEW u \in NetKind, NEW h \in Houses, NEW w \in Wares, NEW t, t = TakesIn(u, h, w)
  PROVE  /\ t.ware[w].goal = u.ware[w].goal /\ t.ware[w].dir = u.ware[w].dir
         /\ t.house[h].queued = u.house[h].queued /\ t.house[h].fetching = u.house[h].fetching
         /\ t.house[h].awake = u.house[h].awake /\ t.house[h].dontfetch = u.house[h].dontfetch
<1> DEFINE b == u.house[h]
           I == b.in \cup {w}
           c == [b EXCEPT !.in = I]
           v == [u.ware[w] EXCEPT !.st = "carried"]
<1>1. b \in HouseKind /\ u.ware[w] \in WareKind
  BY Fields
<1>2. v \in WareKind /\ v.goal = u.ware[w].goal /\ v.dir = u.ware[w].dir
  BY <1>1 DEF WareKind
<1>3. t = WithWare(WithHouse(u, h, c), w, v)
  BY DEF TakesIn, WithWare, WithHouse, NetKind
<1>4. I \in SUBSET Wares
  BY <1>1 DEF HouseKind
<1> HIDE DEF v, I
<1>5. /\ c \in HouseKind /\ c.queued = b.queued /\ c.fetching = b.fetching
      /\ c.awake = b.awake /\ c.dontfetch = b.dontfetch
  BY <1>1, <1>4 DEF HouseKind
<1> HIDE DEF c
<1>6. t.house[h] = c /\ t.ware[w] = v
  BY <1>2, <1>3, <1>5, TwoSet
<1> QED BY <1>2, <1>5, <1>6

(* The worker of house h draws ware w from before the door.                 *)
DoorDrawn(s, u, h, w) ==
  /\ u \in NetKind /\ u.roads = s.roads /\ u.ware = s.ware
  /\ u.lying = [s.lying EXCEPT ![h] = @ \ {w}]
  /\ \A g \in Houses : Prodded(s.house[g], u.house[g])
  /\ s.house[h].waiting # <<>> => u.house[h].awake
  /\ Watch(u, Ways(s), Carriers)

LEMMA SelectDoor ==
  ASSUME NEW s \in NetKind, NEW h \in Houses, NEW w \in Doors(s, h), Watch(s, Ways(s), Carriers),
         NEW swap, NEW u, u = SelectWare(s, h, Door, w, swap, h)
  PROVE  ~swap => DoorDrawn(s, u, h, w)
<1>1. h \in Flags /\ w \in s.lying[h] /\ s.ware[w].dir = Door /\ Door # NoDir
  BY TransportAssumption DEF Doors, WaresForRoad
<1>2. PICK x : x \notin Carriers
  BY NoSetContainsEverything
<1>3. u = SelectWare(s, h, Door, w, swap, x)
  BY DEF SelectWare
<1>4. /\ u \in NetKind /\ u.roads = s.roads /\ u.ware = s.ware
      /\ u.lying = [s.lying EXCEPT ![h] = @ \ {w}]
      /\ \A g \in Houses : Prodded(s.house[g], u.house[g])
      /\ ~swap /\ h \in Houses /\ s.house[h].waiting # <<>> => u.house[h].awake
  BY <1>1, SelectFields
<1>5. Carriers \ {x} = Carriers
  BY <1>2
<1>6. Watch(s, Ways(s), Carriers \ {x}) /\ Ways(s) \subseteq Roads \X {1, 2}
  BY <1>5, WaysKind
<1>7. Watch(u, Ways(s), Carriers \ {x})
  BY <1>1, <1>3, <1>6, SelectWatch
<1> QED BY <1>4, <1>5, <1>7 DEF DoorDrawn

(* A worker takes ware w from before the house: one less lies there, and one *)
(* worker less is on the way.                                               *)
LEMMA TakenInWell ==
  ASSUME NEW n \in NetKind, Well(n), NEW h \in Houses, NEW s, OnlyHouse(n, s, h), s.house[h] \in HouseKind,
         s.house[h].waiting = n.house[h].waiting, s.house[h].awake = n.house[h].awake,
         s.house[h].queued = n.house[h].queued, s.house[h].fetching + 1 = n.house[h].fetching,
         s.house[h].dontfetch = n.house[h].dontfetch,
         NEW w \in Doors(s, h), NEW u, DoorDrawn(s, u, h, w), NEW t, t = TakesIn(u, h, w)
  PROVE  Well(t) /\ t \in NetKind
<1>1. s \in NetKind /\ s.roads = n.roads /\ s.lying = n.lying /\ s.ware = n.ware /\ s.car = n.car /\ h \in Flags
  BY TransportAssumption DEF OnlyHouse
<1>2. w \in s.lying[h] /\ w \in Wares /\ s.ware[w].dir = Door
  BY <1>1, Fields DEF Doors, WaresForRoad
<1>5. /\ u \in NetKind /\ u.roads = s.roads /\ u.ware = s.ware
      /\ u.lying = [s.lying EXCEPT ![h] = @ \ {w}]
      /\ \A g \in Houses : Prodded(s.house[g], u.house[g])
      /\ s.house[h].waiting # <<>> => u.house[h].awake
  BY DEF DoorDrawn
<1>7. /\ t \in NetKind /\ t.roads = u.roads /\ t.lying = u.lying /\ t.car = u.car
      /\ \A g \in Houses \ {h} : t.house[g] = u.house[g]
      /\ \A v \in Wares \ {w} : t.ware[v] = u.ware[v]
      /\ t.ware[w].st = "carried" /\ t.house[h].waiting = u.house[h].waiting
  BY <1>2, <1>5, TakesInField DEF OnlyIn
<1>8. /\ t.ware[w].goal = s.ware[w].goal /\ t.ware[w].dir = s.ware[w].dir
      /\ t.house[h].queued = u.house[h].queued /\ t.house[h].fetching = u.house[h].fetching
      /\ t.house[h].awake = u.house[h].awake /\ t.house[h].dontfetch = u.house[h].dontfetch
  BY <1>2, <1>5, TakesInMore
<1>9. s.lying \in [Flags -> SUBSET Wares] /\ \A v \in Wares : t.ware[v].dir = s.ware[v].dir
  BY <1>1, <1>5, <1>7, <1>8, Fields
<1>10. \A g \in Flags : t.lying[g] = IF g = h THEN s.lying[g] \ {w} ELSE s.lying[g]
  <2>1. t.lying = [s.lying EXCEPT ![h] = @ \ {w}] /\ s.lying \in [Flags -> SUBSET Wares]
    BY <1>5, <1>7, <1>9
  <2> QED BY <1>1, <2>1
<1>11. \A g \in Houses \ {h} : Prodded(n.house[g], t.house[g])
  BY <1>5, <1>7 DEF OnlyHouse
<1>12. RoutesOK(t)
  <2>1. Leads(n.roads, n.ware[w], h)
    BY <1>1, <1>2 DEF Well, RoutesOK, RouteOK
  <2>2. t.ware[w].goal \in Houses
    BY <1>1, <1>2, <1>8, <2>1, LeadsTo, Fields
  <2>3. RouteOK(n, w) /\ n.ware[w].goal = t.ware[w].goal /\ n.ware[w].dir = t.ware[w].dir
    BY <1>1, <1>2, <1>8 DEF Well, RoutesOK
  <2>4. \A g \in Flags : w \in t.lying[g] => Leads(t.roads, t.ware[w], g)
    BY <1>1, <1>5, <1>7, <1>10, <2>3 DEF RouteOK, Leads
  <2>5. RouteOK(t, w)
    BY <1>7, <2>2, <2>4 DEF RouteOK
  <2>6. ASSUME NEW v \in Wares \ {w} PROVE RouteSame(n, t, v)
    <3>1. t.roads = n.roads /\ t.ware[v] = n.ware[v]
      BY <1>1, <1>5, <1>7
    <3>2. \A g \in Flags : v \in t.lying[g] => v \in n.lying[g]
      BY <1>1, <1>10
    <3>3. \A g \in Houses : t.house[g].waiting = n.house[g].waiting
      BY <1>5, <1>7, <1>11 DEF Prodded, HouseCalm
    <3> QED BY <3>1, <3>2, <3>3 DEF RouteSame
  <2> QED BY <2>5, <2>6, RouteKept DEF RoutesOK, Well
<1>13. ASSUME NEW g \in Houses PROVE Served(t, g) /\ AtWork(t, g)
  <2>1. Served(n, g) /\ AtWork(n, g) /\ g \in Flags
    BY TransportAssumption DEF Well, WorkOK
  <2>2. CASE g # h
    <3>1. Doors(t, g) = Doors(n, g)
      BY <1>1, <1>9, <1>10, <2>1, <2>2 DEF Doors, WaresForRoad
    <3>2. t.lying[g] = n.lying[g] /\ Prodded(n.house[g], t.house[g])
      BY <1>1, <1>10, <1>11, <2>1, <2>2
    <3> QED BY <2>1, <3>1, <3>2, ProddedServed, ProddedAtWork
  <2>3. CASE g = h
    <3> DEFINE D == Doors(s, h)
               b == s.house[h]
               c == t.house[h]
    <3>1. Doors(t, h) = D \ {w} /\ Doors(n, h) = D
      <4>1. Doors(t, h) = D \ {w}
        BY <1>1, <1>9, <1>10 DEF Doors, WaresForRoad
      <4>2. Doors(n, h) = D
        BY <1>1, <1>9, <1>10 DEF Doors, WaresForRoad
      <4> QED BY <4>1, <4>2
    <3>2. IsFiniteSet(D) /\ w \in D
      BY <1>1, CountJobs DEF Doors
    <3> HIDE DEF D
    <3>3. Cardinality(D \ {w}) = Cardinality(D) - 1
      BY <3>2, FS_RemoveElement
    <3>4. c.queued = b.queued /\ c.fetching = b.fetching /\ c.dontfetch = b.dontfetch
          /\ (b.awake => c.awake) /\ c.waiting = b.waiting /\ (b.waiting # <<>> => c.awake)
      BY <1>5, <1>7, <1>8 DEF Prodded, HouseCalm
    <3>5. b.queued + b.fetching = Cardinality(D) - 1 /\ ~b.dontfetch
      <4>1. b.queued + (b.fetching + 1) = Cardinality(D) /\ ~b.dontfetch
        BY <2>1, <2>3, <3>1 DEF Served
      <4>2. b.queued \in Nat /\ b.fetching \in Nat /\ Cardinality(D) \in Nat
        BY <3>2, FS_CardinalityType DEF HouseKind
      <4> QED BY <4>1, <4>2
    <3>6. Served(t, h)
      BY <3>1, <3>3, <3>4, <3>5 DEF Served
    <3>7. AtWork(t, h)
      BY <2>1, <2>3, <3>4 DEF AtWork
    <3> QED BY <2>3, <3>6, <3>7
  <2> QED BY <2>2, <2>3
<1>14. WatchOK(t)
  <2>1. Ways(s) \subseteq Roads \X {1, 2} /\ Ways(t) = Ways(s) /\ Ways(s) = Ways(n)
    BY <1>1, <1>5, <1>7, WaysKind DEF Ways
  <2>2. Watch(u, Ways(s), Carriers)
    BY DEF DoorDrawn
  <2>3. t.lying = u.lying /\ t.car = u.car /\ \A v \in Wares : t.ware[v].dir = u.ware[v].dir
    BY <1>5, <1>7, <1>9
  <2>4. Watch(t, Ways(s), Carriers)
    BY <1>5, <2>1, <2>2, <2>3, SameWatched
  <2> QED BY <2>1, <2>4 DEF WatchOK
<1> QED BY <1>7, <1>12, <1>13, <1>14 DEF Well, WorkOK

LEMMA WorkerFetchesWell ==
  ASSUME Good(Net), Well(Net), NEW h \in Houses, WorkerFetches(h)
  PROVE  Well(Net)'
<1> DEFINE b == house[h]
           n == b.fetching - 1
           c == [b EXCEPT !.fetching = n]
           s == WithHouse(Net, h, c)
           X(w) == SelectWare(s, h, Door, w, FALSE, h)
<1>1. Net \in NetKind /\ Net.house = house /\ b \in HouseKind /\ h \in Flags
  BY HouseOf, TransportAssumption
<1>2. s = [Net EXCEPT !.house[h].fetching = @ - 1] /\ b.fetching > 0
  BY <1>1 DEF WithHouse, WorkerFetches
<1>3. n \in Nat /\ n + 1 = b.fetching
  BY <1>1, <1>2 DEF HouseKind
<1>4. /\ c \in HouseKind /\ c.waiting = b.waiting /\ c.awake = b.awake
      /\ c.queued = b.queued /\ c.fetching = n /\ c.dontfetch = b.dontfetch
  <2> HIDE DEF n
  <2> QED BY <1>1, <1>3 DEF HouseKind
<1>5. \/ WaresForRoad(s, h, Door) = {}
      \/ \E w \in WaresForRoad(s, h, Door) : Becomes(TakesIn(X(w), h, w))
  <2> HIDE DEF s
  <2> QED BY <1>2 DEF WorkerFetches
<1> HIDE DEF c, n
<1>6. OnlyHouse(Net, s, h) /\ s.house[h] = c
  BY <1>1, <1>4, HouseSet
<1> HIDE DEF s
<1>7. Doors(s, h) = Doors(Net, h)
  BY <1>6 DEF OnlyHouse, Doors, WaresForRoad
<1>8. Doors(s, h) # {}
  <2>1. b.queued + b.fetching = Cardinality(Doors(Net, h))
    BY <1>1 DEF Well, WorkOK, Served
  <2>2. b.queued \in Nat /\ b.fetching \in Nat
    BY <1>1 DEF HouseKind
  <2>3. Cardinality(Doors(Net, h)) > 0
    BY <1>2, <2>1, <2>2
  <2>4. Doors(Net, h) = WaresForRoad(Net, h, Door)
    BY DEF Doors
  <2>5. Doors(Net, h) # {}
    BY <1>1, <2>3, <2>4, CountJobs
  <2> QED BY <1>7, <2>5
<1>9. PICK w \in Doors(s, h) : Becomes(TakesIn(X(w), h, w))
  BY <1>5, <1>8 DEF Doors
<1> DEFINE u == X(w)
<1>10. s \in NetKind /\ Watch(s, Ways(s), Carriers)
  <2>1. s \in NetKind /\ s.lying = Net.lying /\ s.car = Net.car /\ s.ware = Net.ware /\ s.roads = Net.roads
    BY <1>6 DEF OnlyHouse
  <2>2. Watch(s, Ways(Net), Carriers) /\ Ways(s) = Ways(Net)
    BY <1>1, <2>1, WaysKind, SameWatched DEF Well, WatchOK, Ways
  <2> QED BY <2>1, <2>2
<1>11. DoorDrawn(s, u, h, w)
  BY <1>10, SelectDoor, Zenon
<1> HIDE DEF u
<1>12. Well(TakesIn(u, h, w)) /\ TakesIn(u, h, w) \in NetKind
  BY <1>1, <1>3, <1>4, <1>6, <1>11, TakenInWell
<1> QED BY <1>9, <1>12, BecomesWell DEF u

-----------------------------------------------------------------------------
(* A road is pulled down or built: one ware after the other takes its route. *)

(* What holds of every ware from the start: after a road was pulled down its *)
(* road may be gone, or the way it waits for; after one was built there may *)
(* be a warehouse it had given up.                                          *)
Loose(s, w) ==
  LET v == s.ware[w] IN
  /\ \A f \in Flags : w \in s.lying[f] =>
       (v.goal = NoGoal => Leads(s.roads, v, f)) /\ (v.dir = Door => v.goal = f)
  /\ v.st \in {"waiting", "carried"} => v.goal \in Houses

Lax(s, w) ==
  LET v == s.ware[w] IN
  /\ \A f \in Flags : w \in s.lying[f] => IF v.goal = NoGoal THEN v.dir = NoDir ELSE Leads(s.roads, v, f)
  /\ v.st \in {"waiting", "carried"} => v.goal \in Houses
  /\ v.st = "waiting" => \A h \in Houses :
       w \in ToSet(s.house[h].waiting) => FindPathForWare(s.roads, h, v.goal) # {}

Weak(lost, s, w) == IF lost THEN Lax(s, w) ELSE Loose(s, w)

LEMMA WeakKept ==
  ASSUME NEW lost, NEW s, NEW t, NEW w, RouteSame(s, t, w), Weak(lost, s, w)
  PROVE  Weak(lost, t, w)
BY DEF RouteSame, Weak, Loose, Lax

LEMMA RouteWeak ==
  ASSUME NEW lost, NEW s \in NetKind, NEW w, RouteOK(s, w)
  PROVE  Weak(lost, s, w)
<1>1. s.roads \in SUBSET Roads
  BY Fields
<1>2. \A f \in Flags : w \in s.lying[f] => (s.ware[w].dir = Door => s.ware[w].goal = f)
  BY <1>1, LeadsTo DEF RouteOK
<1>3. Loose(s, w)
  BY <1>2 DEF RouteOK, Loose
<1>4. Lax(s, w)
  BY DEF RouteOK, Lax, Leads
<1> QED BY <1>3, <1>4 DEF Weak

(* Ware w alone has a new way, and the houses and carriers were told.       *)
Rerouted(s, t, w) ==
  /\ t \in NetKind /\ WorkOK(t) /\ WatchOK(t) /\ RouteOK(t, w)
  /\ \A v \in Wares \ {w} : RouteSame(s, t, v)

(* The way of ware w at flag f changes; carriers who came for it are told,  *)
(* all others see no less than before.                                      *)
(* The carriers who are not on the road d. *)
Elsewhere(d, rs) == {k \in Carriers : k[1] # d \/ k[1] \notin rs}

LEMMA TurnedWatch ==
  ASSUME NEW s, Good(s), WatchOK(s), NEW w \in Wares, NEW f \in Flags, w \in s.lying[f],
         NEW t, OnlyWare(s, t, w), NEW d, d = s.ware[w].dir
  PROVE  Watch(t, Unheard(t, t.ware[w], f), Elsewhere(d, s.roads))
<1> DEFINE d2 == t.ware[w].dir
           e2 == EndAt(d2, f)
<1>1. s \in NetKind /\ t \in NetKind /\ t.roads = s.roads /\ t.lying = s.lying /\ t.car = s.car
      /\ \A v \in Wares \ {w} : t.ware[v] = s.ware[v]
  BY DEF Good, GoodFor, OnlyWare
<1>2. \A g \in Flags : w \in s.lying[g] => g = f
  BY FlagWhere DEF Good, GoodFor, Where
<1>3. \A g \in Flags : s.lying[g] \subseteq Wares
  BY <1>1, Fields
<1>4. ASSUME NEW r \in Roads, NEW e \in {1, 2}, <<r, e>> # <<d2, e2>> PROVE Jobs(t, r, e) \subseteq Jobs(s, r, e)
  <2> SUFFICES ASSUME NEW v \in Jobs(t, r, e) PROVE v \in Jobs(s, r, e)
    OBVIOUS
  <2>1. Ends[r][e] \in Flags /\ Ends[r][1] # Ends[r][2]
    BY RoadEnds, TransportAssumption
  <2>2. v \in s.lying[Ends[r][e]] /\ t.ware[v].dir = r /\ v \in Wares
    BY <1>1, <1>3, <2>1 DEF Jobs, WaresForRoad
  <2>3. v # w
    BY <1>2, <1>4, <2>1, <2>2 DEF EndAt
  <2> QED BY <1>1, <2>2, <2>3 DEF Jobs, WaresForRoad
<1>5. ASSUME NEW r \in Roads, NEW e \in {1, 2}, r # d PROVE Jobs(s, r, e) \subseteq Jobs(t, r, e)
  <2>1. Ends[r][e] \in Flags
    BY RoadEnds
  <2> QED BY <1>1, <1>3, <1>5, <2>1 DEF Jobs, WaresForRoad
<1>6. ASSUME NEW p \in Unheard(t, t.ware[w], f) PROVE Attended(t, p[1], p[2])
  <2>1. p \in Ways(s) /\ p[1] \in Roads /\ p[2] \in {1, 2} /\ <<p[1], p[2]>> # <<d2, e2>>
    BY <1>1, WaysKind DEF Unheard, Ways
  <2>2. Attended(s, p[1], p[2])
    BY <2>1 DEF WatchOK, Watch
  <2>3. Jobs(t, p[1], p[2]) \subseteq Jobs(s, p[1], p[2])
    BY <1>4, <2>1
  <2> QED BY <1>1, <2>2, <2>3 DEF Attended
<1>7. ASSUME NEW k \in Carriers, k[1] # d \/ k[1] \notin s.roads PROVE Finds(t, k)
  <2>1. Finds(s, k) /\ k[1] \in Roads /\ s.car[k].to \in {1, 2}
    BY <1>1, CarrierIndex, Fields DEF WatchOK, Watch, CarKind
  <2>2. CASE k[1] # d
    BY <1>1, <1>5, <2>1, <2>2 DEF Finds
  <2>3. CASE k[1] \notin s.roads
    BY <1>1, <2>1, <2>3 DEF Good, GoodFor, CarOK, Finds
  <2> QED BY <1>7, <2>2, <2>3
<1> QED BY <1>6, <1>7 DEF Watch, Elsewhere

(* Who came for the ware has heard that it is gone; a house is told not to  *)
(* fetch the next one.                                                      *)
Heard(t, u, d, f) ==
  /\ u \in NetKind /\ u.roads = t.roads /\ u.lying = t.lying /\ u.ware = t.ware
  /\ \A h \in Houses : IF h = f /\ d = Door THEN u.house[h] = [t.house[h] EXCEPT !.dontfetch = TRUE]
                       ELSE u.house[h] = t.house[h]

LEMMA CurrentDirHeard ==
  ASSUME NEW t \in NetKind, NEW f, NEW d, d = Door => f \in Houses, NEW u, u = RemoveWareJobForCurrentDir(t, f, d),
         NEW P, P \subseteq Roads \X {1, 2}, Watch(t, P, Elsewhere(d, t.roads)),
         \A k \in Carriers : t.car[k].st # "stranded"
  PROVE  Heard(t, u, d, f) /\ Watch(u, P, Carriers)
<1> DEFINE K == Elsewhere(d, t.roads)
<1>1. t.roads \subseteq Roads
  BY Fields
<1>2. CASE d \in t.roads
  <2>1. u = WareJobRemoved(t, d, NoWare) /\ d # Door
    BY <1>1, <1>2, TransportAssumption DEF RemoveWareJobForCurrentDir
  <2>2. OnlyCars(t, u)
    BY <2>1, JobRemovedOnlyCars
  <2>3. Heard(t, u, d, f)
    BY <2>1, <2>2 DEF Heard, OnlyCars
  <2>4. K \subseteq Carriers /\ \A k \in OnRoad(d, NoWare) : t.car[k].st # "stranded"
    BY DEF OnRoad, Elsewhere
  <2>5. Watch(u, P, K \cup OnRoad(d, NoWare))
    BY <2>1, <2>4, JobRemovedWatch
  <2>6. NoWare \notin Carriers
    BY TransportAssumption DEF Carriers
  <2>7. \A k \in Carriers : k \in K \cup OnRoad(d, NoWare)
    BY <2>6, CarrierIndex DEF OnRoad, Elsewhere
  <2> HIDE DEF K
  <2> QED BY <2>3, <2>5, <2>7 DEF Watch
<1>3. CASE d \notin t.roads
  <2>1. \A k \in Carriers : k \in K
    BY <1>3 DEF Elsewhere
  <2>2. Watch(t, P, Carriers)
    BY <2>1 DEF Watch
  <2> HIDE DEF K
  <2>3. CASE d = Door
    <3>1. u = DontFetchNextWare(t, f)
      BY <1>3, <2>3 DEF RemoveWareJobForCurrentDir
    <3>2. OnlyHouse(t, u, f) /\ u.house[f] = [t.house[f] EXCEPT !.dontfetch = TRUE]
      BY <2>3, <3>1, DontFetchTold
    <3>3. Heard(t, u, d, f)
      BY <2>3, <3>2 DEF Heard, OnlyHouse
    <3>4. u.lying = t.lying /\ u.car = t.car /\ u.ware = t.ware
      BY <3>2 DEF OnlyHouse
    <3>5. Watch(u, P, Carriers)
      BY <2>2, <3>4, SameWatched
    <3> QED BY <3>3, <3>5
  <2>4. CASE d # Door
    <3>1. u = t
      BY <1>3, <2>4 DEF RemoveWareJobForCurrentDir
    <3>2. Heard(t, u, d, f)
      BY <2>4, <3>1 DEF Heard
    <3> QED BY <2>2, <3>1, <3>2
  <2> QED BY <2>3, <2>4
<1> QED BY <1>2, <1>3

LEMMA RedirectedWork ==
  ASSUME NEW s, Good(s), WorkOK(s), NEW w \in Wares, NEW f \in Flags, w \in s.lying[f],
         NEW t, OnlyWare(s, t, w), s.ware[w].dir = Door => t.ware[w].dir = Door,
         NEW u, Heard(t, u, s.ware[w].dir, f), NEW x \in AddWareJob(u, w, f)
  PROVE  WorkOK(x)
<1> DEFINE d == s.ware[w].dir
           d2 == t.ware[w].dir
<1>1. s \in NetKind /\ t.roads = s.roads /\ t.lying = s.lying /\ t.house = s.house
      /\ \A v \in Wares \ {w} : t.ware[v] = s.ware[v]
  BY DEF Good, GoodFor, OnlyWare
<1>2. \A g \in Flags : w \in s.lying[g] => g = f
  BY FlagWhere DEF Good, GoodFor, Where
<1>3. u \in NetKind /\ u.lying = t.lying /\ u.ware = t.ware
  BY DEF Heard
<1>4. /\ x \in NetKind /\ x.lying = u.lying /\ x.ware = u.ware
      /\ \A h \in Houses : IF h = f /\ d2 = Door THEN Sent(u.house[h], x.house[h]) ELSE x.house[h] = u.house[h]
  BY <1>3, AddJobFields
<1> SUFFICES ASSUME NEW h \in Houses PROVE Served(x, h) /\ AtWork(x, h)
  BY DEF WorkOK
<1>5. Served(s, h) /\ AtWork(s, h) /\ h \in Flags /\ s.lying[h] \subseteq Wares /\ s.house[h] \in HouseKind
  BY <1>1, Fields, TransportAssumption DEF WorkOK
<1>6. x.lying[h] = s.lying[h] /\ \A v \in Wares \ {w} : x.ware[v] = s.ware[v]
  BY <1>1, <1>3, <1>4
<1>7. CASE h # f
  <2>1. w \notin s.lying[h] /\ x.house[h] = s.house[h]
    BY <1>1, <1>2, <1>4, <1>5, <1>7 DEF Heard
  <2>2. Doors(x, h) = Doors(s, h)
    BY <1>5, <1>6, <2>1 DEF Doors, WaresForRoad
  <2> QED BY <1>5, <1>6, <2>1, <2>2 DEF Served, AtWork, Space
<1>8. CASE h = f /\ d2 # Door
  <2>1. x.house[h] = s.house[h] /\ d # Door /\ x.ware[w].dir # Door
    BY <1>1, <1>3, <1>4, <1>8 DEF Heard
  <2>2. Doors(x, h) = Doors(s, h)
    BY <1>5, <1>6, <2>1 DEF Doors, WaresForRoad
  <2> QED BY <1>5, <1>6, <2>1, <2>2 DEF Served, AtWork, Space
<1>9. CASE h = f /\ d2 = Door /\ d = Door
  <2>1. Sent(u.house[h], x.house[h]) /\ x.ware[w].dir = Door
    BY <1>3, <1>4, <1>9
  <2>2. u.house[h] = [s.house[h] EXCEPT !.dontfetch = TRUE]
    BY <1>1, <1>9 DEF Heard
  <2>3. /\ u.house[h].dontfetch /\ u.house[h].queued = s.house[h].queued /\ u.house[h].fetching = s.house[h].fetching
        /\ u.house[h].awake = s.house[h].awake /\ u.house[h].waiting = s.house[h].waiting
    BY <1>5, <2>2 DEF HouseKind
  <2>4. /\ ~x.house[h].dontfetch /\ x.house[h].queued = s.house[h].queued
        /\ x.house[h].fetching = s.house[h].fetching
        /\ x.house[h].awake = s.house[h].awake /\ x.house[h].waiting = s.house[h].waiting
    BY <2>1, <2>3 DEF Sent, HouseCalm
  <2>5. Doors(x, h) = Doors(s, h)
    BY <1>5, <1>6, <1>9, <2>1 DEF Doors, WaresForRoad
  <2> QED BY <1>5, <1>6, <2>4, <2>5 DEF Served, AtWork, Space
<1>10. CASE h = f /\ d2 = Door /\ d # Door
  <2>1. Sent(u.house[h], x.house[h]) /\ u.house[h] = s.house[h] /\ x.ware[w].dir = Door
    BY <1>1, <1>3, <1>4, <1>10 DEF Heard
  <2>2. Doors(x, h) = Doors(s, h) \cup {w} /\ w \notin Doors(s, h)
    BY <1>5, <1>6, <1>10, <2>1 DEF Doors, WaresForRoad
  <2>3. IsFiniteSet(Doors(s, h))
    <3>1. IsFiniteSet(WaresForRoad(s, h, Door))
      BY <1>1, <1>5, CountJobs
    <3> QED BY <3>1 DEF Doors
  <2>4. Cardinality(Doors(x, h)) = Cardinality(Doors(s, h)) + 1
    BY <2>2, <2>3, FS_AddElement
  <2>5. Served(x, h)
    BY <1>5, <2>1, <2>4, SentServed
  <2>6. x.house[h].awake
    BY <1>5, <2>1 DEF Sent, Served
  <2> QED BY <2>5, <2>6 DEF AtWork
<1> QED BY <1>7, <1>8, <1>9, <1>10

LEMMA Redirected ==
  ASSUME NEW s, Good(s), WorkOK(s), WatchOK(s), NEW w \in Wares, NEW f \in Flags, w \in s.lying[f],
         NEW t, OnlyWare(s, t, w), t.ware[w].st = s.ware[w].st, Leads(s.roads, t.ware[w], f),
         s.ware[w].dir = Door => t.ware[w].dir = Door,
         NEW u, u = RemoveWareJobForCurrentDir(t, f, s.ware[w].dir), NEW x \in AddWareJob(u, w, f)
  PROVE  Rerouted(s, x, w)
<1> DEFINE d == s.ware[w].dir
           P == Unheard(t, t.ware[w], f)
<1>1. s \in NetKind /\ t \in NetKind /\ t.roads = s.roads /\ t.lying = s.lying /\ t.house = s.house
      /\ t.car = s.car /\ \A v \in Wares \ {w} : t.ware[v] = s.ware[v]
  BY DEF Good, GoodFor, OnlyWare
<1>2. Where(s, w, "flag", f) /\ s.ware[w].st = "flag"
  BY FlagWhere DEF Good, GoodFor
<1>3. s.roads \in SUBSET Roads /\ P \subseteq Roads \X {1, 2}
  BY <1>1, Fields, WaysKind DEF Unheard
<1>4. d = Door => f \in Houses
  <2>1. t.ware[w].goal \in Houses \cup {NoGoal}
    BY <1>1, Fields DEF WareKind
  <2>2. t.ware[w].dir = Door => t.ware[w].goal = f
    BY <1>3, LeadsTo
  <2> QED BY <2>1, <2>2, TransportAssumption
<1>5. Watch(t, P, Elsewhere(d, t.roads))
  BY <1>1, TurnedWatch
<1>6. \A k \in Carriers : t.car[k].st # "stranded"
  BY <1>1 DEF WatchOK, Watch, Finds
<1> HIDE DEF P
<1>7. Heard(t, u, d, f) /\ Watch(u, P, Carriers)
  BY <1>1, <1>3, <1>4, <1>5, <1>6, CurrentDirHeard
<1>8. WorkOK(x)
  BY <1>7, RedirectedWork
<1>9. u \in NetKind /\ u.roads = t.roads /\ u.lying = t.lying /\ u.ware = t.ware
  BY <1>7 DEF Heard
<1>10. Unheard(u, u.ware[w], f) = P
  BY <1>9 DEF Unheard, Ways, P
<1>11. Watch(x, Ways(u), Carriers)
  BY <1>1, <1>7, <1>9, <1>10, AddJobWatch
<1>12. /\ x \in NetKind /\ x.roads = s.roads /\ x.lying = s.lying /\ x.ware = t.ware
       /\ \A h \in Houses : x.house[h].waiting = s.house[h].waiting
  <2>1. /\ x \in NetKind /\ x.roads = u.roads /\ x.lying = u.lying /\ x.ware = u.ware
        /\ \A h \in Houses : x.house[h] = u.house[h] \/ Sent(u.house[h], x.house[h])
    BY <1>9, AddJobFields
  <2>2. \A h \in Houses : x.house[h].waiting = u.house[h].waiting
    BY <2>1 DEF Sent, HouseCalm
  <2>3. \A h \in Houses : u.house[h].waiting = t.house[h].waiting
    <3>1. \A h \in Houses : t.house[h] \in HouseKind
      BY <1>1, Fields
    <3> QED BY <1>7, <3>1 DEF Heard, HouseKind
  <2> QED BY <1>1, <1>9, <2>1, <2>2, <2>3
<1>13. WatchOK(x)
  BY <1>1, <1>9, <1>11, <1>12 DEF WatchOK, Ways
<1>14. RouteOK(x, w)
  BY <1>2, <1>12 DEF RouteOK, Where
<1>15. \A v \in Wares \ {w} : RouteSame(s, x, v)
  BY <1>1, <1>12 DEF RouteSame
<1> QED BY <1>8, <1>12, <1>13, <1>14, <1>15 DEF Rerouted

LEMMA WhereItLies ==
  ASSUME NEW s, Good(s), NEW w \in Wares, s.ware[w].st = "flag"
  PROVE  LET f == CHOOSE g \in Flags : w \in s.lying[g]
         IN  f \in Flags /\ w \in s.lying[f] /\ \A g \in Flags : w \in s.lying[g] => g = f
<1>1. PICK g \in Flags : Where(s, w, "flag", g)
  BY DEF Good, GoodFor, PlacedAt
<1>2. w \in s.lying[g] /\ \A x \in Flags : w \in s.lying[x] => x = g
  BY <1>1 DEF Where
<1> QED BY <1>2

LEMMA NotLying ==
  ASSUME NEW s, Good(s), NEW w \in Wares, s.ware[w].st # "flag"
  PROVE  \A g \in Flags : w \notin s.lying[g]
<1>1. s.ware[w].st \in {"stock", "waiting", "flag", "carried", "lost"} /\ PlacedAt(s, w)
  BY Fields DEF Good, GoodFor, WareKind
<1> QED BY <1>1 DEF PlacedAt, Where

LEMMA RerouteFlagWell ==
  ASSUME NEW s, Good(s), WorkOK(s), WatchOK(s), NEW w \in Wares, Loose(s, w), s.ware[w].st = "flag",
         NEW t \in Reroute(s, w)
  PROVE  Rerouted(s, t, w)
<1> DEFINE f == CHOOSE g \in Flags : w \in s.lying[g]
           d == s.ware[w].dir
<1>1. s \in NetKind /\ s.roads \in SUBSET Roads
  BY Fields DEF Good, GoodFor
<1>2. t \in UNION {AddWareJob(RemoveWareJobForCurrentDir(x, f, d), w, f) : x \in RecalcRoute(s, w, f)}
  BY DEF Reroute
<1>3. f \in Flags /\ w \in s.lying[f]
  BY WhereItLies
<1> HIDE DEF f, d
<1>4. PICK x \in RecalcRoute(s, w, f) : t \in AddWareJob(RemoveWareJobForCurrentDir(x, f, d), w, f)
  BY <1>2
<1>5. (s.ware[w].goal = NoGoal => Leads(s.roads, s.ware[w], f)) /\ (s.ware[w].dir = Door => s.ware[w].goal = f)
  BY <1>3 DEF Loose
<1>6. s.ware[w].goal = NoGoal => NoHouseReached(s.roads, f)
  BY <1>5 DEF Leads
<1>7. /\ OnlyWare(s, x, w) /\ x.ware[w].st = s.ware[w].st
      /\ Leads(s.roads, x.ware[w], f) /\ (s.ware[w].goal = f => x.ware[w].goal = f)
  BY <1>1, <1>3, <1>6, Recalculated
<1>8. s.ware[w].dir = Door => x.ware[w].dir = Door
  BY <1>1, <1>3, <1>5, <1>7, LeadsTo
<1> DEFINE u == RemoveWareJobForCurrentDir(x, f, d)
<1>9. u = RemoveWareJobForCurrentDir(x, f, s.ware[w].dir) /\ t \in AddWareJob(u, w, f)
  BY <1>4 DEF d
<1> HIDE DEF u
<1> QED BY <1>3, <1>7, <1>8, <1>9, Redirected

LEMMA CancelledWell ==
  ASSUME NEW s, Good(s), WorkOK(s), WatchOK(s), NEW w \in Wares, s.ware[w].st = "waiting",
         NEW h \in Houses, w \in ToSet(s.house[h].waiting),
         NEW i \in 1..Len(s.house[h].waiting), s.house[h].waiting[i] = w,
         NEW t, t = Stored(WithHouse(s, h, [s.house[h] EXCEPT !.waiting = RemoveAt(s.house[h].waiting, i)]), w, h)
  PROVE  Rerouted(s, t, w)
<1> DEFINE b == s.house[h]
           q == b.waiting
           left == RemoveAt(q, i)
           c == [b EXCEPT !.waiting = left]
           u == WithHouse(s, h, c)
<1>1. s \in NetKind /\ b \in HouseKind /\ NotTwice(q) /\ q \in Seq(Wares)
  BY Fields DEF Good, GoodFor, HouseKind
<1>2. /\ left \in Seq(Wares) /\ w \notin ToSet(left)
      /\ \A v \in Wares \ {w} : v \in ToSet(left) <=> v \in ToSet(q)
  <2>1. /\ left \in Seq(Wares) /\ q[i] \notin ToSet(left)
        /\ \A v \in Wares \ {q[i]} : v \in ToSet(left) <=> v \in ToSet(q)
    <3> DEFINE p == q
    <3>1. p \in Seq(Wares) /\ NotTwice(p) /\ i \in 1..Len(p)
      BY <1>1
    <3> HIDE DEF p
    <3>2. /\ RemoveAt(p, i) \in Seq(Wares) /\ p[i] \notin ToSet(RemoveAt(p, i))
          /\ \A v \in Wares \ {p[i]} : v \in ToSet(RemoveAt(p, i)) <=> v \in ToSet(p)
      BY <3>1, RemoveWaits
    <3> QED BY <3>2 DEF p
  <2> HIDE DEF left
  <2> QED BY <2>1
<1>3. q # <<>>
  BY <1>1
<1> HIDE DEF left
<1>4. /\ c \in HouseKind /\ c.waiting = left /\ c.queued = b.queued /\ c.fetching = b.fetching
      /\ c.dontfetch = b.dontfetch /\ c.awake = b.awake
  BY <1>1, <1>2 DEF HouseKind
<1>5. t = Stored(u, w, h)
  BY DEF left
<1> HIDE DEF c
<1>6. OnlyHouse(s, u, h) /\ u.house[h] = c
  BY <1>1, <1>4, HouseSet
<1> HIDE DEF u
<1>7. u \in NetKind
  BY <1>6 DEF OnlyHouse
<1>8. OnlyWare(u, t, w) /\ t.ware[w].st = "stock"
  BY <1>5, <1>7, StoredField
<1>9. OnlyIn(s, t, h, w) /\ t.house[h] = c /\ t.lying = s.lying /\ t \in NetKind
  BY <1>6, <1>8 DEF OnlyHouse, OnlyWare, OnlyIn
<1>10. AtWork(t, h)
  <2>1. AtWork(s, h)
    BY DEF WorkOK
  <2> QED BY <1>3, <1>4, <1>9, <2>1 DEF AtWork, Space
<1>11. HouseTurns(s, t, h, w)
  BY <1>2, <1>4, <1>9, <1>10 DEF HouseTurns
<1>12. \A g \in Flags : w \notin s.lying[g]
  BY NotLying
<1>13. RouteOK(t, w)
  BY <1>8, <1>9, <1>12, AwayRoute
<1>14. WorkOK(t) /\ WatchOK(t) /\ \A v \in Wares \ {w} : RouteSame(s, t, v)
  <2>1. s \in NetKind
    BY <1>1
  <2>2. w \in Wares => \A g \in Flags : w \notin s.lying[g]
    BY <1>12
  <2>3. ASSUME NEW x, HouseTurns(s, x, h, w)
        PROVE  WorkOK(x) /\ WatchOK(x) /\ \A v \in Wares \ {w} : RouteSame(s, x, v)
    BY <2>1, <2>2, <2>3, HouseTurnsWork
  <2> QED BY <1>11, <2>3
<1> QED BY <1>9, <1>13, <1>14 DEF Rerouted

LEMMA RerouteWell ==
  ASSUME NEW s, Good(s), WorkOK(s), WatchOK(s), NEW w \in Wares, Loose(s, w), NEW t \in Reroute(s, w)
  PROVE  Rerouted(s, t, w)
<1> DEFINE h == CHOOSE g \in Houses : w \in ToSet(s.house[g].waiting)
           q == s.house[h].waiting
           i == CHOOSE j \in 1..Len(q) : q[j] = w
           left == RemoveAt(q, i)
           u == WithHouse(s, h, [s.house[h] EXCEPT !.waiting = left])
           gone == FindPathForWare(s.roads, h, s.ware[w].goal) = {}
<1>1. s \in NetKind /\ PlacedAt(s, w)
  BY DEF Good, GoodFor
<1>2. CASE s.ware[w].st = "flag"
  BY <1>2, RerouteFlagWell
<1>3. CASE s.ware[w].st = "waiting"
  <2>1. PICK y \in Houses : Where(s, w, "waiting", y)
    BY <1>1, <1>3 DEF PlacedAt
  <2>2. h \in Houses /\ w \in ToSet(q) /\ \A x \in Houses : w \in ToSet(s.house[x].waiting) => x = h
    BY <2>1 DEF Where
  <2>3. IF gone THEN t = Stored(u, w, h) ELSE t = s
    <3>1. u = [s EXCEPT !.house[h].waiting = left]
      BY DEF WithHouse
    <3> HIDE DEF u
    <3> QED BY <1>3, <3>1 DEF Reroute
  <2>4. CASE gone
    <3>1. t = Stored(u, w, h)
      BY <2>3, <2>4
    <3> HIDE DEF h, gone
    <3>2. q \in Seq(Wares)
      BY <1>1, <2>2, Fields DEF HouseKind
    <3>3. \E j \in 1..Len(q) : q[j] = w
      BY <2>2, <3>2 DEF ToSet
    <3>4. i \in 1..Len(q) /\ q[i] = w
      BY <3>3
    <3> HIDE DEF i
    <3> QED BY <1>3, <2>2, <3>1, <3>4, CancelledWell
  <2>5. CASE ~gone
    <3>1. t = s
      BY <2>3, <2>5
    <3>2. \A g \in Flags : w \notin s.lying[g]
      BY <1>3, NotLying
    <3>3. s.ware[w].goal \in Houses
      BY <1>3 DEF Loose
    <3>4. \A x \in Houses : w \in ToSet(s.house[x].waiting) => FindPathForWare(s.roads, x, s.ware[w].goal) # {}
      BY <2>2, <2>5
    <3> HIDE DEF h, gone
    <3>5. RouteOK(s, w)
      BY <3>2, <3>3, <3>4 DEF RouteOK
    <3> QED BY <1>1, <3>1, <3>5 DEF Rerouted, RouteSame
  <2> QED BY <2>4, <2>5
<1>4. CASE s.ware[w].st \notin {"flag", "waiting"}
  <2>1. t = s
    BY <1>4 DEF Reroute
  <2>2. \A g \in Flags : w \notin s.lying[g]
    BY <1>4, NotLying
  <2>3. RouteOK(s, w)
    BY <1>4, <2>2 DEF RouteOK, Loose
  <2> QED BY <1>1, <2>1, <2>3 DEF Rerouted, RouteSame
<1> QED BY <1>2, <1>3, <1>4

LEMMA FindRouteWell ==
  ASSUME NEW s, Good(s), WorkOK(s), WatchOK(s), NEW w \in Wares, Lax(s, w), NEW t \in FindRouteToWarehouse(s, w)
  PROVE  Rerouted(s, t, w)
<1> DEFINE f == CHOOSE g \in Flags : w \in s.lying[g]
           Found(h) == {Routed(s, w, h, d) : d \in FindPathForWare(s.roads, f, h)}
           found == UNION {Found(h) : h \in Houses}
           stays == s.ware[w].st # "flag" \/ s.ware[w].goal # NoGoal \/ found = {}
<1>1. s \in NetKind /\ s.roads \in SUBSET Roads /\ Houses \subseteq Flags
  BY Fields, TransportAssumption DEF Good, GoodFor
<1>2. IF stays THEN t = s ELSE t \in UNION {AddWareJob(x, w, f) : x \in found}
  BY DEF FindRouteToWarehouse
<1>3. s.ware[w].st # "flag" => \A g \in Flags : w \notin s.lying[g]
  BY NotLying
<1>4. s.ware[w].st = "flag" => f \in Flags /\ w \in s.lying[f] /\ \A g \in Flags : w \in s.lying[g] => g = f
  BY WhereItLies
<1> HIDE DEF f
<1>5. CASE stays
  <2>1. ASSUME found = {}, f \in Flags PROVE NoHouseReached(s.roads, f)
    <3>1. \A h \in Houses : FindPathForWare(s.roads, f, h) = {}
      <4> SUFFICES ASSUME NEW h \in Houses, NEW d \in FindPathForWare(s.roads, f, h) PROVE FALSE
        OBVIOUS
      <4>1. Routed(s, w, h, d) \in Found(h)
        OBVIOUS
      <4> QED BY <2>1, <4>1
    <3> QED BY <1>1, <2>1, <3>1, WayLeadsOut DEF NoHouseReached
  <2>2. \A g \in Flags : w \in s.lying[g] => Leads(s.roads, s.ware[w], g)
    <3> SUFFICES ASSUME NEW g \in Flags, w \in s.lying[g] PROVE Leads(s.roads, s.ware[w], g)
      OBVIOUS
    <3>1. s.ware[w].st = "flag" /\ g = f
      BY <1>3, <1>4
    <3>2. IF s.ware[w].goal = NoGoal THEN s.ware[w].dir = NoDir ELSE Leads(s.roads, s.ware[w], g)
      BY DEF Lax
    <3>3. s.ware[w].goal = NoGoal => NoHouseReached(s.roads, g)
      BY <1>5, <2>1, <3>1
    <3> QED BY <3>2, <3>3 DEF Leads
  <2>3. RouteOK(s, w)
    BY <2>2 DEF RouteOK, Lax
  <2>4. t = s
    BY <1>2, <1>5
  <2> QED BY <1>1, <2>3, <2>4 DEF Rerouted, RouteSame
<1>6. CASE ~stays
  <2>1. PICK x \in found : t \in AddWareJob(x, w, f)
    BY <1>2, <1>6
  <2>2. PICK h \in Houses : x \in Found(h)
    BY <2>1
  <2>3. PICK d \in FindPathForWare(s.roads, f, h) : x = Routed(s, w, h, d)
    BY <2>2
  <2>4. d \in Roads \cup {Door, NoDir}
    BY <1>1, <2>3, PathKind
  <2>5. OnlyWare(s, x, w) /\ x.ware[w].st = s.ware[w].st
    BY <1>1, <2>3, <2>4, RoutedField
  <2>6. x.ware[w].goal = h /\ x.ware[w].dir = d
    BY <1>1, <2>3, RoutedMore
  <2>7. h # NoGoal
    BY TransportAssumption
  <2>8. Leads(s.roads, x.ware[w], f)
    BY <2>3, <2>6, <2>7 DEF Leads
  <2>9. f \in Flags /\ w \in s.lying[f] /\ s.ware[w].dir = NoDir
    BY <1>4, <1>6 DEF Lax
  <2>10. NoDir # Door /\ NoDir \notin x.roads
    BY <1>1, <2>5, TransportAssumption DEF OnlyWare
  <2> DEFINE u == RemoveWareJobForCurrentDir(x, f, s.ware[w].dir)
  <2>11. u = x
    BY <2>9, <2>10 DEF RemoveWareJobForCurrentDir
  <2>12. t \in AddWareJob(u, w, f) /\ u = RemoveWareJobForCurrentDir(x, f, s.ware[w].dir)
    BY <2>1, <2>11
  <2> HIDE DEF u, Found, found
  <2>13. s.ware[w].dir = Door => x.ware[w].dir = Door
    BY <2>9, <2>10
  <2>14. ASSUME NEW y, y = x, NEW v, v = u PROVE Rerouted(s, t, w)
    <3>1. OnlyWare(s, y, w) /\ y.ware[w].st = s.ware[w].st /\ Leads(s.roads, y.ware[w], f)
          /\ (s.ware[w].dir = Door => y.ware[w].dir = Door)
      BY <2>5, <2>8, <2>13, <2>14
    <3>2. v = RemoveWareJobForCurrentDir(y, f, s.ware[w].dir) /\ t \in AddWareJob(v, w, f)
      BY <2>12, <2>14
    <3> QED BY <2>9, <3>1, <3>2, Redirected
  <2> QED BY <2>14
<1> QED BY <1>5, <1>6

(* The net in the middle of such a call; the wares of D have had their turn. *)
Scene(lost, s, D) ==
  /\ Good(s) /\ WorkOK(s) /\ WatchOK(s)
  /\ \A v \in Wares : Weak(lost, s, v)
  /\ \A v \in D : RouteOK(s, v)

LEMMA CallScene ==
  ASSUME NEW lost, NEW s, NEW D \in SUBSET Wares, Scene(lost, s, D), NEW w \in Wares, NEW t \in Call(lost, s, w)
  PROVE  Scene(lost, t, D \cup {w})
<1>1. Good(t)
  BY CallGood DEF Scene
<1>2. Rerouted(s, t, w)
  <2>1. Good(s) /\ WorkOK(s) /\ WatchOK(s) /\ Weak(lost, s, w)
    BY DEF Scene
  <2>2. CASE lost
    <3>1. Lax(s, w) /\ t \in FindRouteToWarehouse(s, w)
      BY <2>1, <2>2 DEF Weak, Call
    <3> QED BY <2>1, <3>1, FindRouteWell
  <2>3. CASE ~lost
    <3>1. Loose(s, w) /\ t \in Reroute(s, w)
      BY <2>1, <2>3, Zenon DEF Weak, Call
    <3> QED BY <2>1, <3>1, RerouteWell
  <2> QED BY <2>2, <2>3
<1>3. \A v \in Wares : Weak(lost, t, v)
  <2>1. \A v \in Wares \ {w} : Weak(lost, t, v)
    BY <1>2, WeakKept DEF Scene, Rerouted
  <2>2. Weak(lost, t, w)
    BY <1>2, RouteWeak DEF Rerouted
  <2> QED BY <2>1, <2>2
<1>4. \A v \in D \cup {w} : RouteOK(t, v)
  BY <1>2, RouteKept DEF Scene, Rerouted
<1> QED BY <1>1, <1>2, <1>3, <1>4 DEF Scene, Rerouted

HadTurn(q, n) == {q[i] : i \in 1..n}

LEMMA CallsScene ==
  ASSUME NEW lost, NEW s, Scene(lost, s, {}), NEW m \in Nat, NEW q \in [1..m -> Wares], NEW g,
         Calls(lost, s, q, m, g)
  PROVE  \A t \in g[m] : Scene(lost, t, HadTurn(q, m))
<1> DEFINE S == {n \in 0..m : ~\A t \in g[n] : Scene(lost, t, HadTurn(q, n))}
<1> SUFFICES ASSUME S # {} PROVE FALSE
  OBVIOUS
<1>1. PICK n \in S : \A y \in S : n <= y
  <2>1. S \subseteq Nat
    OBVIOUS
  <2> HIDE DEF S
  <2> QED BY <2>1, Least
<1>2. n \in 0..m /\ ~\A t \in g[n] : Scene(lost, t, HadTurn(q, n))
  OBVIOUS
<1>3. g[n] = IF n = 0 THEN {s} ELSE UNION {Call(lost, t, q[n]) : t \in g[n - 1]}
  <2> DEFINE X(a, i) == UNION {Call(lost, t, q[i]) : t \in a}
  <2>1. g = [i \in 0..m |-> IF i = 0 THEN {s} ELSE X(g[i - 1], i)]
    BY DEF Calls
  <2> HIDE DEF X
  <2>2. g[n] = IF n = 0 THEN {s} ELSE X(g[n - 1], n)
    BY <1>2, <2>1
  <2> QED BY <2>2 DEF X
<1>4. n # 0
  <2>1. HadTurn(q, 0) = {}
    BY DEF HadTurn
  <2> QED BY <1>2, <1>3, <2>1
<1>5. n - 1 \in 0..m /\ n - 1 \notin S
  BY <1>1, <1>2, <1>4
<1>6. \A t \in g[n - 1] : Scene(lost, t, HadTurn(q, n - 1))
  BY <1>5
<1>7. q[n] \in Wares /\ HadTurn(q, n - 1) \in SUBSET Wares
  BY <1>2, <1>4 DEF HadTurn
<1>8. HadTurn(q, n - 1) \cup {q[n]} = HadTurn(q, n)
  BY <1>2, <1>4 DEF HadTurn
<1>9. \A t \in g[n] : Scene(lost, t, HadTurn(q, n))
  <2> SUFFICES ASSUME NEW t \in g[n] PROVE Scene(lost, t, HadTurn(q, n))
    OBVIOUS
  <2>1. PICK u \in g[n - 1] : t \in Call(lost, u, q[n])
    BY <1>3, <1>4
  <2>2. Scene(lost, u, HadTurn(q, n - 1))
    BY <1>6
  <2>3. Scene(lost, t, HadTurn(q, n - 1) \cup {q[n]})
    BY <1>7, <2>1, <2>2, CallScene
  <2> QED BY <1>8, <2>3
<1> QED BY <1>2, <1>9

LEMMA AllInOrder ==
  ASSUME NEW q \in SetToSeqs(Wares)
  PROVE  HadTurn(q, Len(q)) = Wares
<1> DEFINE n == Cardinality(Wares)
<1>1. n \in Nat /\ IsFiniteSet(Wares)
  BY FS_CardinalityType, TransportAssumption
<1>2. Cardinality(1..n) = n
  <2>1. 1 \in Int /\ n \in Int
    BY <1>1
  <2> HIDE DEF n
  <2>2. Cardinality(1..n) = IF 1 > n THEN 0 ELSE n - 1 + 1
    BY <2>1, FS_Interval
  <2> QED BY <1>1, <2>2
<1>3. q \in [1..n -> Wares] /\ \A i, j \in 1..n : i # j => q[i] # q[j]
  BY DEF SetToSeqs
<1> HIDE DEF n
<1>4. q \in Injection(1..n, Wares)
  BY <1>3 DEF Injection, IsInjective
<1>5. q \in Surjection(1..n, Wares)
  BY <1>1, <1>2, <1>4, FS_Injection DEF n
<1>6. Len(q) = n
  BY <1>1, <1>3
<1>7. \A w \in Wares : \E i \in 1..n : q[i] = w
  BY <1>5 DEF Surjection
<1> QED BY <1>3, <1>6, <1>7 DEF HadTurn

LEMMA SceneWell ==
  ASSUME NEW lost, NEW s, Scene(lost, s, Wares)
  PROVE  Well(s)
BY DEF Scene, Well, RoutesOK

LEMMA RoadDestroyedWell ==
  ASSUME NEW s, Scene(FALSE, s, {}), NEW t \in RoadDestroyed(s)
  PROVE  Good(t) /\ Well(t)
<1>1. PICK q \in SetToSeqs(Wares) : t \in AfterReroute(s, q)
  BY DEF RoadDestroyed
<1>2. Len(q) \in Nat /\ q \in [1..Len(q) -> Wares]
  BY OrderOfWares
<1> DEFINE P(g) == g = [i \in 0..Len(q) |-> IF i = 0 THEN {s} ELSE UNION {Reroute(x, q[i]) : x \in g[i - 1]}]
           nets == CHOOSE g : P(g)
<1>3. t \in nets[Len(q)]
  BY <1>1 DEF AfterReroute
<1>4. \A g : P(g) <=> Calls(FALSE, s, q, Len(q), g)
  BY DEF Calls, Call
<1>5. \E g : P(g)
  BY <1>2, <1>4, CallsEnd
<1> HIDE DEF P
<1>6. P(nets)
  BY <1>5
<1> HIDE DEF nets
<1>7. Calls(FALSE, s, q, Len(q), nets)
  BY <1>4, <1>6
<1>8. Scene(FALSE, t, Wares)
  BY <1>2, <1>3, <1>7, CallsScene, AllInOrder
<1> QED BY <1>8, SceneWell DEF Scene

LEMMA FindClientWell ==
  ASSUME NEW s, Scene(TRUE, s, {}), NEW t \in FindClientForLostWares(s)
  PROVE  Good(t) /\ Well(t)
<1>1. PICK q \in SetToSeqs(Wares) : t \in AfterFindRoute(s, q)
  BY DEF FindClientForLostWares
<1>2. Len(q) \in Nat /\ q \in [1..Len(q) -> Wares]
  BY OrderOfWares
<1> DEFINE P(g) == g = [i \in 0..Len(q) |->
                          IF i = 0 THEN {s} ELSE UNION {FindRouteToWarehouse(x, q[i]) : x \in g[i - 1]}]
           nets == CHOOSE g : P(g)
<1>3. t \in nets[Len(q)]
  BY <1>1 DEF AfterFindRoute
<1>4. \A g : P(g) <=> Calls(TRUE, s, q, Len(q), g)
  BY DEF Calls, Call
<1>5. \E g : P(g)
  BY <1>2, <1>4, CallsEnd
<1> HIDE DEF P
<1>6. P(nets)
  BY <1>5
<1> HIDE DEF nets
<1>7. Calls(TRUE, s, q, Len(q), nets)
  BY <1>4, <1>6
<1>8. Scene(TRUE, t, Wares)
  BY <1>2, <1>3, <1>7, CallsScene, AllInOrder
<1> QED BY <1>8, SceneWell DEF Scene

LEMMA NetWell ==
  ASSUME Good(Net), Well(Net)
  PROVE  /\ Net \in NetKind /\ Net.roads = roads /\ Net.ware = ware /\ Net.lying = lying
         /\ Net.car = car /\ Net.house = house /\ roads \in SUBSET Roads
         /\ \A f \in Flags : lying[f] \subseteq Wares
         /\ \A w \in Wares : RouteOK(Net, w)
         /\ WorkOK(Net) /\ WatchOK(Net)
<1>1. /\ Net \in NetKind /\ Net.roads = roads /\ Net.ware = ware /\ Net.lying = lying
      /\ Net.car = car /\ Net.house = house
  BY DEF Good, GoodFor, Net
<1>2. roads \in SUBSET Roads /\ \A f \in Flags : lying[f] \subseteq Wares
  BY <1>1, Fields
<1> QED BY <1>1, <1>2 DEF Well, RoutesOK

(* The wares at the flags are the same, and the houses.                     *)
LEMMA SameAtFlags ==
  ASSUME Good(Net), Well(Net), NEW s, s.lying = lying, s.house = house,
         \A f \in Flags : \A v \in lying[f] : s.ware[v] = ware[v]
  PROVE  /\ WorkOK(s)
         /\ \A r \in Roads, e \in {1, 2} : Jobs(s, r, e) = Jobs(Net, r, e)
<1>1. \A f \in Flags : \A d : WaresForRoad(s, f, d) = WaresForRoad(Net, f, d)
  BY NetWell DEF WaresForRoad
<1>2. \A r \in Roads, e \in {1, 2} : Jobs(s, r, e) = Jobs(Net, r, e)
  BY <1>1, RoadEnds DEF Jobs
<1>3. ASSUME NEW h \in Houses PROVE Served(s, h) /\ AtWork(s, h)
  <2>1. Served(Net, h) /\ AtWork(Net, h) /\ h \in Flags
    BY NetWell, TransportAssumption DEF WorkOK
  <2>2. Doors(s, h) = Doors(Net, h)
    BY <1>1, <2>1 DEF Doors
  <2>3. s.house[h] = Net.house[h] /\ s.lying[h] = Net.lying[h]
    BY NetWell
  <2> QED BY <2>1, <2>2, <2>3 DEF Served, AtWork, Space
<1> QED BY <1>2, <1>3 DEF WorkOK

(* All carriers but k are the same, and k does not come to fetch; where the *)
(* road of k stands, nothing lies for it.                                   *)
LEMMA SameButOne ==
  ASSUME Good(Net), Well(Net), NEW s, \A r \in Roads, e \in {1, 2} : Jobs(s, r, e) = Jobs(Net, r, e),
         NEW r \in Roads, s.roads \subseteq roads \cup {r}, <<r, 1>> \in Carriers,
         \A j \in Carriers \ {<<r, 1>>} : s.car[j] = car[j],
         s.car[<<r, 1>>].st \notin {"fetch", "stranded"},
         r \in s.roads => \A e \in {1, 2} : Jobs(Net, r, e) = {}
  PROVE  WatchOK(s)
<1> DEFINE k == <<r, 1>>
<1>1. k[1] = r
  OBVIOUS
<1> HIDE DEF k
<1>2. \A j \in Carriers \ {k} : s.car[j] = Net.car[j]
  BY NetWell DEF k
<1>3. \A j \in Carriers : Finds(s, j)
  <2> SUFFICES ASSUME NEW j \in Carriers PROVE Finds(s, j)
    OBVIOUS
  <2>1. Finds(Net, j) /\ j[1] \in Roads /\ Net.car[j].to \in {1, 2}
    BY NetWell, CarrierIndex, Fields DEF WatchOK, Watch, CarKind
  <2>2. CASE j # k
    BY <1>2, <2>1, <2>2 DEF Finds
  <2>3. CASE j = k
    BY <2>3 DEF Finds, k
  <2> QED BY <2>2, <2>3
<1>4. \A p \in Ways(s) : Attended(s, p[1], p[2])
  <2> SUFFICES ASSUME NEW p \in Ways(s) PROVE Attended(s, p[1], p[2])
    OBVIOUS
  <2>1. p[1] \in s.roads /\ p[1] \in Roads /\ p[2] \in {1, 2} /\ (p[1] # r => p[1] \in roads)
    BY NetWell DEF Ways
  <2>2. Jobs(s, p[1], p[2]) = Jobs(Net, p[1], p[2])
    BY <2>1
  <2>3. CASE p[1] = r
    BY <2>1, <2>2, <2>3 DEF Attended
  <2>4. CASE p[1] # r
    <3>1. p \in Ways(Net)
      BY <2>1, <2>4, NetWell DEF Ways
    <3>2. Attended(Net, p[1], p[2])
      BY <3>1, NetWell DEF WatchOK, Watch
    <3>3. \A j \in Carriers : j[1] = p[1] => s.car[j] = Net.car[j]
      BY <1>1, <1>2, <2>4
    <3>4. p[1] \notin Donkeys => s.car[<<p[1], 1>>] = Net.car[<<p[1], 1>>]
      BY <2>1, <3>3 DEF Carriers
    <3> QED BY <2>2, <3>2, <3>3, <3>4 DEF Attended
  <2> QED BY <2>3, <2>4
<1> QED BY <1>3, <1>4 DEF WatchOK, Watch

LEMMA GoneScene ==
  ASSUME Good(Net), Well(Net), NEW r \in Roads, NEW s, RoadGone(s, r), Good(s)
  PROVE  Scene(FALSE, s, {})
<1> DEFINE k == <<r, 1>>
           held == car[k].hand
<1>1. /\ s \in NetKind /\ s.roads = roads \ {r} /\ s.lying = lying /\ s.house = house
      /\ k \in Carriers /\ s.car[k].st = "none" /\ \A j \in Carriers \ {k} : s.car[j] = car[j]
      /\ \A v \in Wares \ {held} : s.ware[v] = ware[v]
      /\ held \in Wares => s.ware[held].st = "lost" /\ \A f \in Flags : held \notin lying[f]
  BY DEF RoadGone
<1> HIDE DEF held
<1>2. \A f \in Flags : \A v \in lying[f] : s.ware[v] = ware[v]
  BY <1>1, NetWell
<1>3. WorkOK(s) /\ \A x \in Roads, e \in {1, 2} : Jobs(s, x, e) = Jobs(Net, x, e)
  BY <1>1, <1>2, SameAtFlags
<1>4. WatchOK(s)
  BY <1>1, <1>3, SameButOne
<1>5. ASSUME NEW v \in Wares PROVE Loose(s, v)
  <2>1. RouteOK(Net, v)
    BY NetWell
  <2>2. ASSUME NEW f \in Flags, v \in s.lying[f]
        PROVE  (s.ware[v].goal = NoGoal => Leads(s.roads, s.ware[v], f)) /\ (s.ware[v].dir = Door => s.ware[v].goal = f)
    <3>1. s.ware[v] = ware[v] /\ Leads(roads, ware[v], f)
      BY <1>1, <1>2, <2>1, <2>2, NetWell DEF RouteOK
    <3>2. ware[v].dir = Door => ware[v].goal = f
      BY <3>1, NetWell, LeadsTo
    <3>3. roads \ {r} \subseteq roads
      OBVIOUS
    <3>4. NoHouseReached(roads, f) => NoHouseReached(roads \ {r}, f)
      BY <3>3, ConnectedMore DEF NoHouseReached
    <3> QED BY <1>1, <3>1, <3>2, <3>4 DEF Leads
  <2>3. s.ware[v].st \in {"waiting", "carried"} => s.ware[v].goal \in Houses
    BY <1>1, <2>1, NetWell DEF RouteOK
  <2> QED BY <2>2, <2>3 DEF Loose
<1> QED BY <1>3, <1>4, <1>5 DEF Scene, Weak

LEMMA DestroyRoadWell ==
  ASSUME Good(Net), Well(Net), NEW r \in Roads, DestroyRoad(r)
  PROVE  Well(Net)'
<1>1. PICK s : RoadGone(s, r) /\ Good(s) /\ \E t \in RoadDestroyed(s) : Becomes(t)
  BY DestroyRoadGone
<1>2. PICK t \in RoadDestroyed(s) : Becomes(t)
  BY <1>1
<1>3. Scene(FALSE, s, {})
  BY <1>1, GoneScene
<1>4. Good(t) /\ Well(t)
  BY <1>2, <1>3, RoadDestroyedWell
<1> QED BY <1>2, <1>4, BecomesWell DEF Good, GoodFor

LEMMA BuiltScene ==
  ASSUME Good(Net), Well(Net), NEW r \in Roads \ roads, NEW s, RoadBuilt(s, r), Good(s)
  PROVE  Scene(TRUE, s, {})
<1> DEFINE k == <<r, 1>>
<1>1. /\ s \in NetKind /\ s.roads = roads \cup {r} /\ s.lying = lying /\ s.house = house /\ s.ware = ware
      /\ k \in Carriers /\ s.car[k].st = "coming" /\ \A j \in Carriers \ {k} : s.car[j] = car[j]
  BY DEF RoadBuilt
<1>2. WorkOK(s) /\ \A x \in Roads, e \in {1, 2} : Jobs(s, x, e) = Jobs(Net, x, e)
  BY <1>1, SameAtFlags
<1>3. ASSUME NEW e \in {1, 2} PROVE Jobs(Net, r, e) = {}
  <2> SUFFICES ASSUME NEW v \in Jobs(Net, r, e) PROVE FALSE
    OBVIOUS
  <2>1. Ends[r][e] \in Flags
    BY RoadEnds
  <2>2. v \in lying[Ends[r][e]] /\ v \in Wares /\ ware[v].dir = r
    BY <2>1, NetWell DEF Jobs, WaresForRoad
  <2>3. Leads(roads, ware[v], Ends[r][e])
    BY <2>1, <2>2, NetWell DEF RouteOK
  <2>4. ware[v].dir \in roads \cup {Door, NoDir}
    BY <2>1, <2>3, LeadsTo, NetWell
  <2> QED BY <2>2, <2>4, TransportAssumption
<1>4. WatchOK(s)
  BY <1>1, <1>2, <1>3, SameButOne
<1>5. ASSUME NEW v \in Wares PROVE Lax(s, v)
  <2>1. RouteOK(Net, v)
    BY NetWell
  <2>2. \A f, goal : FindPathForWare(roads, f, goal) \subseteq FindPathForWare(s.roads, f, goal)
    <3>1. roads \subseteq s.roads
      BY <1>1
    <3> QED BY <3>1, PathsMore
  <2>3. \A f \in Flags : v \in s.lying[f] =>
          IF s.ware[v].goal = NoGoal THEN s.ware[v].dir = NoDir ELSE Leads(s.roads, s.ware[v], f)
    BY <1>1, <2>1, <2>2, NetWell DEF RouteOK, Leads
  <2>4. s.ware[v].st \in {"waiting", "carried"} => s.ware[v].goal \in Houses
    BY <1>1, <2>1, NetWell DEF RouteOK
  <2>5. s.ware[v].st = "waiting" => \A h \in Houses :
          v \in ToSet(s.house[h].waiting) => FindPathForWare(s.roads, h, s.ware[v].goal) # {}
    <3> SUFFICES ASSUME s.ware[v].st = "waiting", NEW h \in Houses, v \in ToSet(s.house[h].waiting)
                 PROVE  FindPathForWare(s.roads, h, s.ware[v].goal) # {}
      OBVIOUS
    <3>1. FindPathForWare(roads, h, ware[v].goal) # {}
      BY <1>1, <2>1, NetWell DEF RouteOK
    <3>2. FindPathForWare(roads, h, ware[v].goal) \subseteq FindPathForWare(s.roads, h, s.ware[v].goal)
      BY <1>1, <2>2
    <3> QED BY <3>1, <3>2
  <2> QED BY <2>3, <2>4, <2>5 DEF Lax
<1> QED BY <1>2, <1>4, <1>5 DEF Scene, Weak

LEMMA BuildRoadWell ==
  ASSUME Good(Net), Well(Net), NEW r \in Roads, BuildRoad(r)
  PROVE  Well(Net)'
<1>1. PICK s : RoadBuilt(s, r) /\ Good(s) /\ \E t \in FindClientForLostWares(s) : Becomes(t)
  BY BuildRoadStands
<1>2. PICK t \in FindClientForLostWares(s) : Becomes(t)
  BY <1>1
<1>3. r \in Roads \ roads
  BY Zenon DEF BuildRoad
<1>4. Scene(TRUE, s, {})
  BY <1>1, <1>3, BuiltScene
<1>5. Good(t) /\ Well(t)
  BY <1>2, <1>4, FindClientWell
<1> QED BY <1>2, <1>5, BecomesWell DEF Good, GoodFor

-----------------------------------------------------------------------------
(* The invariant, and what follows from it. *)

LEMMA InitWell == Init => Well(Net)
<1> SUFFICES ASSUME Init PROVE Well(Net)
  OBVIOUS
<1>1. /\ Net.ware = ware /\ Net.lying = lying /\ Net.car = car /\ Net.house = house /\ Net.roads = Roads
      /\ Houses \subseteq Flags
  BY TransportAssumption DEF Init, Net
<1>2. \A f \in Flags : lying[f] = {}
  BY DEF Init
<1>3. \A h \in Houses : /\ house[h].waiting = <<>> /\ house[h].queued = 0 /\ house[h].fetching = 0
                        /\ ~house[h].dontfetch
  BY DEF Init
<1>4. \A f \in Flags : \A d : WaresForRoad(Net, f, d) = {}
  BY <1>1, <1>2 DEF WaresForRoad
<1>5. RoutesOK(Net)
  <2>1. \A w \in Wares : ware[w].st = "stock"
    BY DEF Init
  <2> QED BY <1>1, <1>2, <2>1 DEF RoutesOK, RouteOK
<1>6. WorkOK(Net)
  <2> SUFFICES ASSUME NEW h \in Houses PROVE Served(Net, h) /\ AtWork(Net, h)
    BY DEF WorkOK
  <2>1. Doors(Net, h) = {}
    BY <1>1, <1>4 DEF Doors
  <2>2. Cardinality(Doors(Net, h)) = 0
    BY <2>1, FS_EmptySet, Zenon
  <2> QED BY <1>1, <1>3, <2>2 DEF Served, AtWork
<1>7. WatchOK(Net)
  <2>1. \A r \in Roads, e \in {1, 2} : Jobs(Net, r, e) = {}
    BY <1>4, RoadEnds DEF Jobs
  <2>2. \A p \in Ways(Net) : p[1] \in Roads /\ p[2] \in {1, 2}
    BY <1>1 DEF Ways
  <2>3. \A k \in Carriers : car[k].st = "coming"
    BY DEF Init
  <2> QED BY <1>1, <2>1, <2>2, <2>3 DEF WatchOK, Watch, Attended, Finds
<1> QED BY <1>5, <1>6, <1>7 DEF Well

LEMMA StepWell == IInv /\ Well(Net) /\ [Next]_vars => Well(Net)'
<1> SUFFICES ASSUME IInv, Well(Net), [Next]_vars PROVE Well(Net)'
  OBVIOUS
<1>0. Good(Net)
  BY DEF IInv
<1>1. CASE UNCHANGED vars
  <2>1. Net' = Net
    BY <1>1 DEF vars, Net
  <2> QED BY <1>0, <1>1, <2>1 DEF vars, Net, Well, RoutesOK, RouteOK, WorkOK, WatchOK, Watch, Served, AtWork, Doors,
            WaresForRoad, Attended, Finds, Jobs, Ways, Leads, Space
<1>2. ASSUME NEW k \in Carriers, Walk(k) PROVE Well(Net)'
  BY <1>0, <1>2, WalkWell
<1>3. ASSUME NEW k \in Carriers, NEW e \in 1..2, Arrive(k, e) PROVE Well(Net)'
  BY <1>0, <1>3, ArriveWell
<1>4. ASSUME NEW h \in Houses, HouseStep(h) PROVE Well(Net)'
  BY <1>0, <1>4, LeaveWell, WorkerFetchesWell, WorkerAtFlagWell, AddWaitingWareWell, AddWareWell DEF HouseStep
<1>5. ASSUME NEW w \in Wares, NEW h \in Houses, OrderWare(w, h) PROVE Well(Net)'
  BY <1>0, <1>5, OrderWareWell
<1>6. ASSUME NEW r \in Roads, DestroyRoad(r) \/ BuildRoad(r) PROVE Well(Net)'
  BY <1>0, <1>6, DestroyRoadWell, BuildRoadWell
<1> QED BY <1>1, <1>2, <1>3, <1>4, <1>5, <1>6 DEF Next

LEMMA WellRoutes == IInv /\ Well(Net) => RoutesStand
<1> SUFFICES ASSUME IInv, Well(Net) PROVE RoutesStand
  OBVIOUS
<1>0. Good(Net)
  BY DEF IInv
<1>1. /\ Net.roads = roads /\ Net.ware = ware /\ Net.lying = lying /\ Net.house = house
      /\ \A w \in Wares : RouteOK(Net, w)
  BY <1>0, NetWell
<1>2. \A f \in Flags : \A w \in lying[f] : w \in Wares /\ Leads(roads, ware[w], f)
  BY <1>0, <1>1, NetWell DEF RouteOK
<1>3. \A h \in Houses : \A w \in ToSet(house[h].waiting) : w \in Wares
  <2>1. \A h \in Houses : house[h].waiting \in Seq(Wares)
    BY <1>0, NetWell, Fields DEF HouseKind
  <2> QED BY <2>1 DEF ToSet
<1>4. \A h \in Houses : \A w \in ToSet(house[h].waiting) :
         ware[w].st = "waiting" => FindPathForWare(roads, h, ware[w].goal) # {}
  BY <1>1, <1>3 DEF RouteOK
<1>5. \A f \in Flags : \A w \in lying[f] :
         IF ware[w].goal = NoGoal
         THEN ware[w].dir = NoDir /\ ~\E h \in Houses : Connected(roads, f, h)
         ELSE ware[w].dir \in FindPathForWare(roads, f, ware[w].goal)
  BY <1>2 DEF Leads, NoHouseReached
<1> QED BY <1>4, <1>5 DEF RoutesStand

LEMMA WellHouses == IInv /\ Well(Net) => HouseAtWork
<1> SUFFICES ASSUME IInv, Well(Net), NEW h \in Houses
             PROVE  /\ house[h].queued + house[h].fetching = Cardinality(WaresForRoad(Net, h, Door))
                    /\ (house[h].waiting # <<>> \/ house[h].queued > 0) =>
                          house[h].awake \/ (house[h].queued = 0 /\ ~Space(Net, h))
  BY DEF HouseAtWork
<1>0. Good(Net)
  BY DEF IInv
<1>1. Served(Net, h) /\ AtWork(Net, h) /\ Net.house = house /\ house[h] \in HouseKind
  BY <1>0, NetWell, Fields DEF WorkOK
<1> QED BY <1>1 DEF Served, AtWork, Doors, HouseKind

LEMMA WellCarriers == IInv /\ Well(Net) => NothingOverlooked
<1> SUFFICES ASSUME IInv, Well(Net) PROVE NothingOverlooked
  OBVIOUS
<1>0. Good(Net)
  BY DEF IInv
<1>1. Net.car = car /\ roads \in SUBSET Roads /\ Ways(Net) = roads \X {1, 2} /\ WatchOK(Net) /\ Net \in NetKind
  BY <1>0, NetWell DEF Ways
<1>2. \A r \in roads, e \in {1, 2} : Attended(Net, r, e)
  <2>1. \A r \in roads, e \in {1, 2} : <<r, e>> \in Ways(Net)
    BY <1>1
  <2> QED BY <1>1, <2>1 DEF WatchOK, Watch
<1>3. \A k \in Carriers : Finds(Net, k)
  BY <1>1 DEF WatchOK, Watch
<1>4. \A r, e : JobsAt(r, e) <=> Jobs(Net, r, e) # {}
  BY DEF JobsAt, Jobs
<1>5. \A k \in Carriers : car[k].st # "stranded"
  BY <1>1, <1>3 DEF Finds
<1>6. ASSUME NEW r \in roads, NEW e \in {1, 2}, JobsAt(r, e) PROVE \E k \in Carriers : k[1] = r /\ car[k].st # "wait"
  <2>1. Jobs(Net, r, e) # {}
    BY <1>4, <1>6
  <2>2. Attended(Net, r, e)
    BY <1>2
  <2>3. \E k \in Carriers : k[1] = r /\ ~Idle(Net.car[k], e)
    BY <2>1, <2>2 DEF Attended
  <2> QED BY <1>1, <2>3 DEF Idle
<1>7. ASSUME NEW r \in roads \ Donkeys
      PROVE  LET c == car[<<r, 1>>] IN
               /\ c.st \in {"middle", "space"} => ~JobsAt(r, c.to)
               /\ c.st = "fetch" => JobsAt(r, c.to)
  <2> DEFINE k == <<r, 1>>
  <2>1. k \in Carriers /\ k[1] = r
    BY <1>1 DEF Carriers
  <2>2. car[k].to \in {1, 2}
    BY <1>1, <2>1, Fields DEF CarKind
  <2>3. Jobs(Net, r, car[k].to) # {} => ~TakesJob(car[k], car[k].to)
    BY <1>1, <1>2, <2>2 DEF Attended
  <2>4. car[k].st = "fetch" => Jobs(Net, r, car[k].to) # {}
    BY <1>1, <1>3, <2>1 DEF Finds
  <2> HIDE DEF k
  <2>5. car[k].st \in {"middle", "space"} => ~JobsAt(r, car[k].to)
    BY <1>4, <2>3 DEF TakesJob
  <2>6. car[k].st = "fetch" => JobsAt(r, car[k].to)
    BY <1>4, <2>4
  <2> QED BY <2>5, <2>6 DEF k
<1> QED BY <1>5, <1>6, <1>7 DEF NothingOverlooked

-----------------------------------------------------------------------------
(* The theorems.                                                            *)

(* However roads are pulled down and built (GameClientPlayer::RoadDestroyed *)
(* and NewRoad), a ware at a flag leaves by a road that stands and leads to *)
(* its goal, one without a goal has no warehouse it could reach, and no ware *)
(* waits in a warehouse for a way that is gone before it ever left.         *)
THEOREM RoutesAlwaysStand == Spec => []RoutesStand
BY WellRoutes, InitGood, StepGood, InitWell, StepWell, PTL DEF Spec

(* A warehouse has a worker on the way for each ware before its door, also  *)
(* when the ware is redirected while he walks (DontFetchNextWare) or told   *)
(* twice, and it stops sending wares out only while its flag is full        *)
(* (nobBaseWarehouse::HandleLeaveEvent, noFlag::SelectWare).                *)
THEOREM HousesAlwaysAtWork == Spec => []HouseAtWork
BY WellHouses, InitGood, StepGood, InitWell, StepWell, PTL DEF Spec

(* No handler leaves a ware at a flag to a carrier who just stands in the   *)
(* middle of its road, and none lets a carrier come for a ware that someone *)
(* else took or that was redirected: he would stand there for ever          *)
(* (nofCarrier::FetchWare, RoadSegment::WareJobRemoved).                    *)
THEOREM NothingIsOverlooked == Spec => []NothingOverlooked
BY WellCarriers, InitGood, StepGood, InitWell, StepWell, PTL DEF Spec
=============================================================================
