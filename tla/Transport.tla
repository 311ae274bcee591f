------------------------------ MODULE Transport ------------------------------
(***************************************************************************)
(* The transport of wares over roads: noFlag.cpp, RoadSegment.cpp,         *)
(* nofCarrier.cpp, Ware.cpp, nofWarehouseWorker.cpp and the parts of       *)
(* nobBaseWarehouse.cpp and GameClientPlayer.cpp that move a ware.         *)
(*                                                                         *)
(* A flag holds up to Capacity wares, each with the road it wants to leave *)
(* by.  A road runs between two flags and has a carrier, a donkey road a   *)
(* second one; a carrier knows its position, the end it faces and the ware *)
(* in its hands.  A warehouse stands behind a flag: workers carry its      *)
(* waiting wares out to the flag and fetch the ones that lie there for it. *)
(* Nobody polls: a carrier that stands, a carrier that waits for room and  *)
(* a warehouse that stopped sending workers all move again only when some  *)
(* handler tells them, and the handlers do it while the state they look at *)
(* is half changed.                                                        *)
(*                                                                         *)
(* A handler calls handlers of other objects, so each is an operator from  *)
(* a state of the net (a record of all the objects) to the set of states   *)
(* it may leave; an action is one event of the game.  Walking is a step of *)
(* its own per field, so that everything may happen in between.            *)
(***************************************************************************)
EXTENDS Integers, FiniteSets, Sequences, SequencesExt

CONSTANTS Flags,      \* the flags of the player
          Roads,      \* the roads that can be built
          Ends,       \* Ends[r]: the flags f1 and f2 of a road
          Length,     \* Length[r]: its fields
          Donkeys,    \* the roads upgraded for a donkey
          Houses,     \* the flags with a warehouse behind them
          Early,      \* the <<road, end>> pairs that leave in direction 0
          Fragile,    \* the roads the player may pull down and build again;
                      \* built again, a road has one carrier
          Wares, Home,\* the wares, and the house each is stored in at first
          Capacity,   \* places at a flag (8 in the code)
          MaxOrders,  \* bound: wares ordered in a run
          MaxCuts,    \* bound: roads pulled down in a run
          Door, NoDir, NoGoal, NoWare

ASSUME TransportAssumption ==
  /\ Ends \in [Roads -> {e \in Flags \X Flags : e[1] # e[2]}]
  /\ Length \in [Roads -> Nat \ {0, 1}]
  /\ Donkeys \subseteq Roads /\ Fragile \subseteq Roads \ Donkeys /\ Houses \subseteq Flags
  /\ Early \subseteq Roads \X {1, 2}
  /\ IsFiniteSet(Wares) /\ Home \in [Wares -> Houses]
  /\ Capacity \in Nat \ {0} /\ MaxOrders \in Nat /\ MaxCuts \in Nat
  /\ Door \notin Roads /\ NoDir \notin Roads \cup {Door}
  /\ NoGoal \notin Flags /\ NoWare \notin Wares /\ NoWare \notin Roads \X {1, 2}

VARIABLES
  roads,  \* the roads that stand
  ware,   \* Ware: its state, goal and next_dir
  lying,  \* noFlag::wares
  car,    \* nofCarrier: state, rs_pos, the end it faces (rs_dir), carried_ware
  house,  \* nobBaseWarehouse: waiting_wares, go_out, its workers on the way
  orders, cuts

vars == <<roads, ware, lying, car, house, orders, cuts>>

Net == [roads |-> roads, ware |-> ware, lying |-> lying, car |-> car, house |-> house]
Becomes(s) ==
  /\ roads' = s.roads /\ ware' = s.ware /\ lying' = s.lying
  /\ car' = s.car /\ house' = s.house

(* The carrier (1) of every road and the donkey (2) of a donkey road. *)
Carriers == (Roads \X {1}) \cup (Donkeys \X {2})
CarrierStates == {"none", "coming", "middle", "wait", "fetch", "carry", "space",
                  "back", "tohouse", "leaving", "stranded"}
Opposite(e) == 3 - e
EndAt(r, f) == IF Ends[r][1] = f THEN 1 ELSE 2
RoadsAt(rs, f) == {r \in rs : f \in {Ends[r][1], Ends[r][2]}}
FacedFlag(s, k) == Ends[k[1]][s.car[k].to]

Space(s, f) == Cardinality(s.lying[f]) < Capacity

(* A carrier changes its state, turns round, or has its hands empty. *)
Enters(s, k, st) == [s EXCEPT !.car[k].st = st]
Turned(c, st, pos) == [c EXCEPT !.st = st, !.to = Opposite(@), !.pos = pos]
Turns(s, k, st, pos) == [s EXCEPT !.car[k] = Turned(@, st, pos)]
EmptyHanded(s, k) == [s EXCEPT !.car[k].hand = NoWare]

-----------------------------------------------------------------------------
(* Routes.  The cost of a path (lengths and punishment points) only chooses *)
(* between paths: a route is the first road of any path without a detour.   *)
Connected(rs, a, b) ==
  \A S \in SUBSET Flags :
     (a \in S /\ \A r \in rs : Ends[r][1] \in S <=> Ends[r][2] \in S) => b \in S

FindPathForWare(rs, f, goal) ==
  IF goal = f THEN {Door}
  ELSE {r \in RoadsAt(rs, f) :
           Connected(rs \ RoadsAt(rs, f), Ends[r][Opposite(EndAt(r, f))], goal)}

Routed(s, w, goal, dir) == [s EXCEPT !.ware[w].goal = goal, !.ware[w].dir = dir]

(* Ware::RecalcRoute at flag f: without a way to its goal the ware goes to  *)
(* a warehouse it can reach, and without one it has no goal any more.       *)
RecalcRoute(s, w, f) ==
  LET To(g) == {Routed(s, w, g, d) : d \in FindPathForWare(s.roads, f, g)}
      goal == s.ware[w].goal
      warehouses == IF goal = NoGoal THEN {} ELSE {h \in Houses : Connected(s.roads, f, h)}
  IN  IF To(goal) # {} THEN To(goal)
      ELSE IF warehouses # {} THEN UNION {To(h) : h \in warehouses}
      ELSE {Routed(s, w, NoGoal, NoDir)}

-----------------------------------------------------------------------------
(* Jobs of a road. *)
WaresForRoad(s, f, d) == {w \in s.lying[f] : s.ware[w].dir = d}

(* RoadSegment::AreWareJobs for carrier k at end e: a single ware is left   *)
(* to the partner that goes there, unless k stands beside it (now).         *)
AreWareJobs(s, k, e, now) ==
  LET jobs == Cardinality(WaresForRoad(s, Ends[k[1]][e], k[1]))
      partner == <<k[1], 3 - k[2]>>
  IN  /\ jobs > 0
      /\ ~ /\ jobs = 1 /\ ~now /\ partner \in Carriers
           /\ s.car[partner].st \in {"fetch", "carry", "space", "back", "tohouse", "leaving"}
           /\ s.car[partner].to = e

(* nofCarrier::RemoveWareJob, and RoadSegment::WareJobRemoved for all the   *)
(* carriers of a road but one.                                              *)
RemoveWareJob(s, k) ==
  IF s.car[k].st = "fetch" /\ ~AreWareJobs(s, k, s.car[k].to, FALSE)
  THEN Enters(s, k, "middle") ELSE s

(* Mutant: nobody is told that the ware is taken. *)
NobodyTold(s, r, exception) == s

WareJobRemoved(s, r, exception) ==
  LET Told(t, k) == IF k \in Carriers \ {exception} THEN RemoveWareJob(t, k) ELSE t
  IN  Told(Told(s, <<r, 1>>), <<r, 2>>)

(* nofCarrier::AddWareJob, for a ware at end e: who stands or faces it on   *)
(* the way to the middle goes, and who waits there for room may swap.  The  *)
(* road asks its two carriers in a random order until one agrees.           *)
TakesJob(c, e) == c.st = "wait" \/ (c.st \in {"middle", "space"} /\ c.to = e)

CarrierAddWareJob(s, k, e) ==
  LET c == s.car[k] IN
  [s EXCEPT !.car[k] = [c EXCEPT !.st = IF c.st = "space" THEN "carry" ELSE "fetch",
                                 !.to = e,
                                 !.pos = IF c.to = e THEN @ ELSE Length[k[1]] - @]]

RoadAddWareJob(s, r, e) ==
  LET takers == {k \in Carriers : k[1] = r /\ TakesJob(s.car[k], e)}
  IN  IF takers = {} THEN {s} ELSE {CarrierAddWareJob(s, k, e) : k \in takers}

(* nobBaseWarehouse::FetchWare. *)
HouseFetchWare(s, h) ==
  IF s.house[h].dontfetch THEN [s EXCEPT !.house[h].dontfetch = FALSE]
  ELSE [s EXCEPT !.house[h].queued = @ + 1, !.house[h].awake = TRUE]

(* RoadSegment::AddWareJob for the ware w at flag f. *)
AddWareJob(s, w, f) ==
  LET d == s.ware[w].dir IN
  CASE d = NoDir -> {s}
    [] d = Door  -> {HouseFetchWare(s, f)}
    [] OTHER     -> RoadAddWareJob(s, d, EndAt(d, f))

-----------------------------------------------------------------------------
(* A flag: noFlag::AddWare, which forgets a ware it has no place for. *)
FlagAddWare(s, w, f) ==
  IF Space(s, f) THEN AddWareJob([s EXCEPT !.lying[f] = @ \cup {w}], w, f) ELSE {s}

LieAtFlag(s, w) == [s EXCEPT !.ware[w].st = "flag"]

(* A place is free: the roads are told up to the warehouse in direction 1,  *)
(* and the ones after it only when nothing waits in it.                     *)
PlaceFree(s, f) ==
  LET waits == f \in Houses /\ s.house[f].waiting # <<>>
      told == {r \in RoadsAt(s.roads, f) : waits => <<r, EndAt(r, f)>> \in Early}
      InSpace(r, i) == /\ <<r, i>> \in Carriers
                       /\ s.car[<<r, i>>].st = "space" /\ s.car[<<r, i>>].to = EndAt(r, f)
      woken == {k \in told \X {1, 2} : InSpace(k[1], k[2]) /\ (k[2] = 2 => ~InSpace(k[1], 1))}
  IN  [s EXCEPT !.car = [k \in Carriers |->
                            IF k \in woken THEN [s.car[k] EXCEPT !.st = "carry"] ELSE s.car[k]],
                !.house = IF waits THEN [@ EXCEPT ![f].awake = TRUE] ELSE @]

(* noFlag::SelectWare: w is taken for direction d by carrier k. *)
SelectWare(s, f, d, w, swap, k) ==
  LET removed == [s EXCEPT !.lying[f] = @ \ {w}]
      told == IF d = Door THEN removed ELSE WareJobRemoved(removed, d, k)
  IN  IF swap THEN told ELSE PlaceFree(told, f)

-----------------------------------------------------------------------------
(* A carrier. *)
Takes(s, k, w) == [s EXCEPT !.ware[w].st = "carried",
                            !.car[k] = [Turned(@, "carry", 0) EXCEPT !.hand = w]]

FetchWare(s, k, swap) ==
  LET f == FacedFlag(s, k)
      jobs == WaresForRoad(s, f, k[1])
  IN  IF jobs = {} THEN {Enters(SelectWare(s, f, k[1], NoWare, swap, k), k, "stranded")}
      ELSE {Takes(SelectWare(s, f, k[1], w, swap, k), k, w) : w \in jobs}

(* Mutant: with nothing to take back, the far end is not looked at. *)
LooksHereOnly(s, k) ==
  IF AreWareJobs(s, k, s.car[k].to, TRUE) THEN FetchWare(s, k, FALSE)
  ELSE {Turns(s, k, "middle", 0)}

LookForWares(s, k) ==
  LET e == s.car[k].to
      behind == AreWareJobs(s, k, Opposite(e), FALSE)
  IN  IF AreWareJobs(s, k, e, TRUE) THEN FetchWare(s, k, FALSE)
      ELSE {Turns(s, k, IF behind THEN "fetch" ELSE "middle", 0)}

(* nofCarrier::WantInBuilding: looked at only in front of a building, and  *)
(* the ware has a new route after it.                                      *)
WithRoute(s, k) ==
  LET f == FacedFlag(s, k) IN
  IF f \in Houses THEN RecalcRoute(s, s.car[k].hand, f) ELSE {s}
WantInBuilding(s, k) == FacedFlag(s, k) \in Houses /\ s.ware[s.car[k].hand].dir = Door

(* A carrier with a ware one field before the flag, and at the flag. *)
AlmostThere(s, k) ==
  LET Goes(t) == WantInBuilding(t, k) \/ AreWareJobs(t, k, t.car[k].to, TRUE)
  IN  IF Space(s, FacedFlag(s, k)) THEN {s}
      ELSE {IF Goes(t) THEN t ELSE Enters(t, k, "space") : t \in WithRoute(s, k)}

PutDown(s, w, f) ==
  LET t == LieAtFlag(s, w)
  IN  UNION {FlagAddWare(u, w, f) : u \in IF f \in Houses THEN {t} ELSE RecalcRoute(t, w, f)}

AtFlag(s, k) ==
  LET f == FacedFlag(s, k)
      w == s.car[k].hand
      Drop(t) == UNION {LookForWares(EmptyHanded(u, k), k) : u \in PutDown(t, w, f)}
      Swap(t) == UNION {PutDown(u, w, f) : u \in FetchWare(t, k, TRUE)}
      Then(t) == IF WantInBuilding(t, k) THEN {Enters(t, k, "tohouse")}
                 ELSE IF Space(t, f) THEN Drop(t)
                 ELSE IF AreWareJobs(t, k, t.car[k].to, TRUE) THEN Swap(t)
                 ELSE {Turns(t, k, "back", 0)}
  IN  UNION {Then(t) : t \in WithRoute(s, k)}

CarryOn(s, k) ==
  LET pos == s.car[k].pos L == Length[k[1]]
  IN  CASE pos = L -> AtFlag(s, k)
        [] pos = L - 1 -> AlmostThere(s, k)
        [] OTHER -> {s}

ToMiddle(s, k) ==
  LET c == s.car[k] L == Length[k[1]]
  IN  IF AreWareJobs(s, k, Opposite(c.to), FALSE)
      THEN {Turns(s, k, "fetch", L - c.pos)}
      ELSE IF c.pos \in {L \div 2, (L \div 2) + (L % 2)} THEN {Enters(s, k, "wait")}
      ELSE IF c.pos > L \div 2 THEN {Turns(s, k, "middle", L - c.pos)}
      ELSE {s}

Stored(s, w, h) == [s EXCEPT !.ware[w] = [st |-> "stock", goal |-> h, dir |-> NoDir]]

(* nofCarrier::Walked. *)
Walked(s, k) ==
  LET c == s.car[k] f == FacedFlag(s, k) IN
  CASE c.st = "middle"  -> ToMiddle(s, k)
    [] c.st = "fetch"   -> IF c.pos = Length[k[1]] THEN FetchWare(s, k, FALSE) ELSE {s}
    [] c.st = "carry"   -> CarryOn(s, k)
    [] c.st = "back"    -> CarryOn(Turns(s, k, "carry", Length[k[1]] - c.pos), k)
    [] c.st = "tohouse" -> {EmptyHanded(Enters(Stored(s, c.hand, f), k, "leaving"), k)}
    [] c.st = "leaving" -> LookForWares(s, k)

Walk(k) ==
  /\ car[k].st \in {"middle", "fetch", "carry", "back", "tohouse", "leaving"}
  /\ LET steps == IF car[k].st \in {"tohouse", "leaving"} THEN 0 ELSE 1
     IN  \E t \in Walked([Net EXCEPT !.car[k].pos = @ + steps], k) : Becomes(t)
  /\ UNCHANGED <<orders, cuts>>

(* nofCarrier::GoalReached: a new carrier comes to end e of its road, from a *)
(* warehouse that reaches it, and looks at the flag it stands at first.      *)
Arrive(k, e) ==
  LET r == k[1] f == Ends[r][e]
      there == [Net EXCEPT !.car[k] = [st |-> "middle", pos |-> 0, to |-> e, hand |-> NoWare]]
      onward == Turns(there, k, "middle", 0)
      far == AreWareJobs(onward, k, Opposite(e), FALSE)
  IN  /\ car[k].st = "coming"
      /\ \E h \in Houses : Connected(roads \ {r}, h, f)
      /\ \E t \in IF AreWareJobs(there, k, e, TRUE) THEN FetchWare(there, k, FALSE)
                  ELSE {Enters(onward, k, IF far THEN "fetch" ELSE "middle")} :
            Becomes(t)
      /\ UNCHANGED <<orders, cuts>>

-----------------------------------------------------------------------------
(* A warehouse: its leaving event lets the fetching workers out first, then *)
(* a waiting ware if the flag has room, and stops when there is neither.    *)
Leave(h) ==
  LET b == house[h]
      More(c) == c.queued > 0 \/ c.waiting # <<>>
      Stay(c) == [c EXCEPT !.awake = More(c)]
  IN  /\ b.awake
      /\ \/ /\ b.queued > 0
            /\ house' = [house EXCEPT ![h] =
                  Stay([b EXCEPT !.queued = @ - 1, !.fetching = @ + 1])]
            /\ UNCHANGED ware
         \/ /\ b.queued = 0 /\ b.waiting # <<>> /\ Space(Net, h)
            /\ house' = [house EXCEPT ![h] =
                  Stay([b EXCEPT !.waiting = Tail(@), !.out = @ \cup {Head(b.waiting)}])]
            /\ ware' = [ware EXCEPT ![Head(b.waiting)].st = "carried"]
         \/ /\ b.queued = 0 /\ (b.waiting = <<>> \/ ~Space(Net, h))
            /\ house' = [house EXCEPT ![h].awake = FALSE]
            /\ UNCHANGED ware
      /\ UNCHANGED <<roads, lying, car, orders, cuts>>

(* Mutant: the worker puts the ware down whatever lies there. *)
PutsDownAnyway(h, w) ==
  /\ w \in house[h].out
  /\ LET s == [Net EXCEPT !.house[h].out = @ \ {w}]
     IN  \E t \in RecalcRoute(LieAtFlag(s, w), w, h) :
            \E u \in FlagAddWare(t, w, h) : Becomes(u)
  /\ UNCHANGED <<orders, cuts>>

(* nofWarehouseWorker: at the flag with a ware, and back in with it when the *)
(* flag was full.  Its state stays carried among the waiting wares.          *)
WorkerAtFlag(h, w) ==
  /\ w \in house[h].out
  /\ LET s == [Net EXCEPT !.house[h].out = @ \ {w}]
     IN  IF Space(s, h)
         THEN \E t \in RecalcRoute(LieAtFlag(s, w), w, h) :
                 \E u \in FlagAddWare(t, w, h) : Becomes(u)
         ELSE Becomes([s EXCEPT !.house[h].back = @ \cup {w}])
  /\ UNCHANGED <<orders, cuts>>

AddWaitingWare(h, w) ==
  /\ w \in house[h].back
  /\ house' = [house EXCEPT ![h].back = @ \ {w}, ![h].waiting = Append(@, w), ![h].awake = TRUE]
  /\ UNCHANGED <<roads, ware, lying, car, orders, cuts>>

TakesIn(s, h, w) == [s EXCEPT !.house[h].in = @ \cup {w}, !.ware[w].st = "carried"]

WorkerFetches(h) ==
  LET s == [Net EXCEPT !.house[h].fetching = @ - 1]
      mine == WaresForRoad(s, h, Door)
  IN  /\ house[h].fetching > 0
      /\ IF mine = {} THEN Becomes(SelectWare(s, h, Door, NoWare, FALSE, h))
         ELSE \E w \in mine : Becomes(TakesIn(SelectWare(s, h, Door, w, FALSE, h), h, w))
      /\ UNCHANGED <<orders, cuts>>

AddWare(h, w) ==
  /\ w \in house[h].in
  /\ Becomes(Stored([Net EXCEPT !.house[h].in = @ \ {w}], w, h))
  /\ UNCHANGED <<orders, cuts>>

(* nobBaseWarehouse::OrderWare, for a house that FindWarehouse saw a way to. *)
OrderWare(w, goal) ==
  LET h == ware[w].goal IN
  /\ ware[w].st = "stock" /\ h # goal /\ orders < MaxOrders
  /\ FindPathForWare(roads, h, goal) # {}
  /\ ware' = [ware EXCEPT ![w] = [st |-> "waiting", goal |-> goal, dir |-> NoDir]]
  /\ house' = [house EXCEPT ![h].waiting = Append(@, w), ![h].awake = TRUE]
  /\ orders' = orders + 1
  /\ UNCHANGED <<roads, lying, car, cuts>>

-----------------------------------------------------------------------------
(* GameClientPlayer::RoadDestroyed, for one ware of its list: at a flag it   *)
(* takes a new route and its old and new carriers hear of it, in a warehouse *)
(* it is cancelled when there is no way any more.                            *)
DontFetchNextWare(s, h) == [s EXCEPT !.house[h].dontfetch = TRUE]

(* Mutant: the house is not told that a ware before it is its own no more. *)
RoadsToldOnly(s, f, d) == IF d \in s.roads THEN WareJobRemoved(s, d, NoWare) ELSE s

RemoveWareJobForCurrentDir(s, f, d) ==
  CASE d \in s.roads -> WareJobRemoved(s, d, NoWare)
    [] d = Door      -> DontFetchNextWare(s, f)
    [] OTHER         -> s

(* Mutant: wares in the warehouses are not looked at. *)
FlagsOnly(s, w) ==
  LET f == CHOOSE g \in Flags : w \in s.lying[g]
  IN  IF s.ware[w].st # "flag" THEN {s}
      ELSE UNION {AddWareJob(RemoveWareJobForCurrentDir(t, f, s.ware[w].dir), w, f) :
                    t \in RecalcRoute(s, w, f)}

Reroute(s, w) ==
  LET f == CHOOSE g \in Flags : w \in s.lying[g]
      h == CHOOSE g \in Houses : w \in ToSet(s.house[g].waiting)
      gone == FindPathForWare(s.roads, h, s.ware[w].goal) = {}
      q == s.house[h].waiting
      left == RemoveAt(q, CHOOSE i \in 1..Len(q) : q[i] = w)
  IN  CASE s.ware[w].st = "flag" ->
             UNION {AddWareJob(RemoveWareJobForCurrentDir(t, f, s.ware[w].dir), w, f) :
                       t \in RecalcRoute(s, w, f)}
        [] s.ware[w].st = "waiting" /\ gone ->
             {Stored([s EXCEPT !.house[h].waiting = left], w, h)}
        [] OTHER -> {s}

(* Ware::FindRouteToWarehouse, for a ware that had lost its goal; it lies at *)
(* a flag, as no carrier takes a ware that wants to leave by no road.        *)
FindRouteToWarehouse(s, w) ==
  LET f == CHOOSE g \in Flags : w \in s.lying[g]
      Found(h) == {Routed(s, w, h, d) : d \in FindPathForWare(s.roads, f, h)}
      found == UNION {Found(h) : h \in Houses}
  IN  IF s.ware[w].st # "flag" \/ s.ware[w].goal # NoGoal \/ found = {} THEN {s}
      ELSE UNION {AddWareJob(t, w, f) : t \in found}

(* Both go through the wares in the order in which they were registered.    *)
(* nets[i] is what the first i wares of that order may leave.               *)
AfterReroute(s, q) ==
  LET nets[i \in 0..Len(q)] == IF i = 0 THEN {s} ELSE UNION {Reroute(t, q[i]) : t \in nets[i - 1]}
  IN  nets[Len(q)]
RoadDestroyed(s) == UNION {AfterReroute(s, q) : q \in SetToSeqs(Wares)}

AfterFindRoute(s, q) ==
  LET nets[i \in 0..Len(q)] ==
        IF i = 0 THEN {s} ELSE UNION {FindRouteToWarehouse(t, q[i]) : t \in nets[i - 1]}
  IN  nets[Len(q)]
FindClientForLostWares(s) == UNION {AfterFindRoute(s, q) : q \in SetToSeqs(Wares)}

(* noRoadNode::DestroyRoad: the carrier loses his work and the ware in his   *)
(* hands.  A road that may be pulled down has no donkey.                     *)
DestroyRoad(r) ==
  LET gone == [st |-> "none", pos |-> 0, to |-> 1, hand |-> NoWare]
      held == car[<<r, 1>>].hand
      lost == [st |-> "lost", goal |-> NoGoal, dir |-> NoDir]
      s == [Net EXCEPT !.roads = @ \ {r},
                       !.car[<<r, 1>>] = gone,
                       !.ware = IF held = NoWare THEN @ ELSE [@ EXCEPT ![held] = lost]]
  IN  /\ r \in roads \cap Fragile /\ cuts < MaxCuts
      /\ \E t \in RoadDestroyed(s) : Becomes(t)
      /\ cuts' = cuts + 1
      /\ UNCHANGED orders

(* GameWorldGame::BuildRoad and GameClientPlayer::NewRoad. *)
BuildRoad(r) ==
  LET s == [Net EXCEPT !.roads = @ \cup {r}, !.car[<<r, 1>>].st = "coming"]
  IN  /\ r \in Roads \ roads
      /\ \E t \in FindClientForLostWares(s) : Becomes(t)
      /\ UNCHANGED <<orders, cuts>>

-----------------------------------------------------------------------------
Init ==
  /\ roads = Roads
  /\ ware = [w \in Wares |-> [st |-> "stock", goal |-> Home[w], dir |-> NoDir]]
  /\ lying = [f \in Flags |-> {}]
  /\ car = [k \in Carriers |-> [st |-> "coming", pos |-> 0, to |-> 1, hand |-> NoWare]]
  /\ house = [h \in Houses |-> [waiting |-> <<>>, awake |-> FALSE, queued |-> 0, fetching |-> 0,
                                out |-> {}, back |-> {}, in |-> {}, dontfetch |-> FALSE]]
  /\ orders = 0 /\ cuts = 0

HouseStep(h) ==
  \/ Leave(h)
  \/ WorkerFetches(h)
  \/ \E w \in Wares : WorkerAtFlag(h, w) \/ AddWaitingWare(h, w) \/ AddWare(h, w)

Next ==
  \/ \E k \in Carriers : Walk(k) \/ \E e \in 1..2 : Arrive(k, e)
  \/ \E h \in Houses : HouseStep(h)
  \/ \E w \in Wares, h \in Houses : OrderWare(w, h)
  \/ \E r \in Roads : DestroyRoad(r) \/ BuildRoad(r)

(* The event of every figure comes up, and so do the ones of every house. *)
Fairness ==
  /\ \A k \in Carriers : WF_vars(Walk(k) \/ \E e \in 1..2 : Arrive(k, e))
  /\ \A h \in Houses : WF_vars(HouseStep(h))

Spec == Init /\ [][Next]_vars
FairSpec == Spec /\ Fairness

-----------------------------------------------------------------------------
(* Every object keeps the kind of value the code gives it. *)
TypeOK ==
  /\ roads \subseteq Roads
  /\ ware \in [Wares -> [st : {"stock", "waiting", "flag", "carried", "lost"},
                         goal : Houses \cup {NoGoal}, dir : Roads \cup {Door, NoDir}]]
  /\ lying \in [Flags -> SUBSET Wares]
  /\ \A f \in Flags : Cardinality(lying[f]) <= Capacity
  /\ DOMAIN car = Carriers
  /\ \A k \in Carriers : car[k] \in [st : CarrierStates, pos : 0..Length[k[1]], to : {1, 2},
                                     hand : Wares \cup {NoWare}]
  /\ DOMAIN house = Houses
  /\ \A h \in Houses : LET b == house[h] IN
       /\ b.waiting \in Seq(Wares) /\ {b.out, b.back, b.in} \subseteq SUBSET Wares
       /\ b.queued \in Nat /\ b.fetching \in Nat
       /\ b.awake \in BOOLEAN /\ b.dontfetch \in BOOLEAN
  /\ orders \in 0..MaxOrders /\ cuts \in 0..MaxCuts

Holders(w) == {<<"flag", f>> : f \in {g \in Flags : w \in lying[g]}}
         \cup {<<"hand", k>> : k \in {j \in Carriers : car[j].hand = w}}
         \cup {<<"house", h>> : h \in {g \in Houses : w \in ToSet(house[g].waiting)}}
         \cup {<<"worker", h>> : h \in {g \in Houses :
                                          w \in house[g].out \cup house[g].back \cup house[g].in}}

(* A ware is in one place, the one its state names, until it is stored or   *)
(* lost with its carrier: no handler drops it (noFlag::AddWare would, at a  *)
(* full flag) and none leaves it in two hands.                              *)
OnePlace ==
  /\ TypeOK
  /\ \A w \in Wares : LET H == Holders(w) st == ware[w].st IN
       IF st \in {"stock", "lost"} THEN H = {}
       ELSE /\ Cardinality(H) = 1
            /\ \A x \in H : (st = "flag") <=> (x[1] = "flag")

JobsAt(r, e) == WaresForRoad(Net, Ends[r][e], r) # {}

(* No ware is overlooked: where one lies for a road, some carrier of the    *)
(* road is not just standing in its middle.  And a carrier without a donkey *)
(* has none ahead of him while he goes to the middle or waits for room, and *)
(* has one ahead while he goes to fetch.  Whoever comes to fetch finds one: *)
(* who takes or redirects the last one turns him back first, since          *)
(* nofCarrier::FetchWare would leave him standing there for ever.           *)
NothingOverlooked ==
  /\ \A k \in Carriers : car[k].st # "stranded"
  /\ \A r \in roads, e \in {1, 2} :
        JobsAt(r, e) => \E k \in Carriers : k[1] = r /\ car[k].st # "wait"
  /\ \A r \in roads \ Donkeys : LET c == car[<<r, 1>>] IN
        /\ c.st \in {"middle", "space"} => ~JobsAt(r, c.to)
        /\ c.st = "fetch" => JobsAt(r, c.to)

(* Every ware that lies at a flag wants to leave by a road that stands and   *)
(* leads to its goal; one without a goal can reach no warehouse.  No ware    *)
(* that waits in a warehouse and has not been out yet is without a way to    *)
(* its goal (GameClientPlayer.cpp:515); one that was brought back from a     *)
(* full flag is overlooked there.                                            *)
RoutesStand ==
  /\ \A f \in Flags : \A w \in lying[f] :
       IF ware[w].goal = NoGoal
       THEN ware[w].dir = NoDir /\ ~\E h \in Houses : Connected(roads, f, h)
       ELSE ware[w].dir \in FindPathForWare(roads, f, ware[w].goal)
  /\ \A h \in Houses : \A w \in ToSet(house[h].waiting) :
       ware[w].st = "waiting" => FindPathForWare(roads, h, ware[w].goal) # {}

(* As many workers are sent for the wares before a warehouse as lie there: a *)
(* ware that is told twice is fetched once.  And a warehouse stops sending   *)
(* wares out only while its flag is full: a place that gets free wakes it.   *)
HouseAtWork ==
  \A h \in Houses :
     /\ house[h].queued + house[h].fetching = Cardinality(WaresForRoad(Net, h, Door))
     /\ (house[h].waiting # <<>> \/ house[h].queued > 0) =>
           house[h].awake \/ (house[h].queued = 0 /\ ~Space(Net, h))

(* Once no more is ordered and no road is pulled down, every ware gets into *)
(* a warehouse or stays at a flag that no road joins to one.                *)
Settled(w) ==
  \/ ware[w].st \in {"stock", "lost"}
  \/ ware[w].st = "flag" /\ ware[w].goal = NoGoal
Delivered == \A w \in Wares : <>[]Settled(w)

=============================================================================
