------------------------------- MODULE Ships -------------------------------
(***************************************************************************)
(* The harbours and ships of a player: noShip.cpp, nobHarborBuilding.cpp,  *)
(* GameClientPlayer.cpp and the sea journeys of noFigure.cpp and Ware.cpp. *)
(*                                                                         *)
(* People and wares whose way leads over the sea wait in a harbour, each   *)
(* for a certain other harbour.  A harbour calls idle ships, a ship that   *)
(* has become idle looks for a harbour that needs one.  A ship carries     *)
(* what waits for one harbour, or starts an expedition, which the player   *)
(* directs, or an exploration.  Harbours are pulled down and built at any  *)
(* moment, and everybody who is on his way to one must learn of it.        *)
(*                                                                         *)
(* All harbour points lie at one sea, each with a coast node of its own,   *)
(* named like the point; a route leads from a coast over the node Sea to   *)
(* another coast.  Nearest harbours, nearest ships and points of need only *)
(* choose among the candidates: any is chosen here.  Who has to leave an   *)
(* island sails from the harbour he is in: nobody walks to another one of  *)
(* the island first.  As in Orders, a handler is an operator from a scene  *)
(* to the scenes it may leave.                                             *)
(***************************************************************************)
EXTENDS Integers, FiniteSets, Sequences, SequencesExt

CONSTANTS Points, Sea, FirstHarbors,
          Works,        \* buildings people and wares are meant for
          IslandOf,     \* the island of a harbour point or building
          Ships, Figures, Wares,
          Cap,          \* SHIP_CAPACITY
          Far,          \* MAX_EXPLORATION_EXPEDITION_DISTANCE, in nodes
          Bases,        \* bound: harbours expeditions are prepared in
          Sets,         \* bound: boards, stones and builders for so many harbours
          MaxRazed,     \* bound: harbours pulled down
          Careful,      \* harbours come and go only when the ships can cope
          None

Items == Figures \cup Wares

ASSUME ShipsAssumption ==
  /\ IsFiniteSet(Points) /\ IsFiniteSet(Ships) /\ IsFiniteSet(Items)
  /\ FirstHarbors \subseteq Points /\ Sea \notin Points
  /\ Points \cup Works \subseteq DOMAIN IslandOf /\ Points \cap Works = {}
  /\ Figures \cap Wares = {}
  /\ Cap \in Nat \ {0} /\ Far \in Nat \ {0} /\ Sets \in Nat /\ MaxRazed \in Nat
  /\ Careful \in BOOLEAN
  /\ None \notin Points \cup Works \cup {Sea}

VARIABLES
  harbors, works,
  sites,        \* harbour sites founded from the sea
  expedition,   \* of a harbour: is it prepared, is everything there
  exploration,  \* the same for its exploration_expedition
  stock,        \* of a harbour: what an expedition needs, as whole sets
  queue,        \* figures_for_ships and wares_for_ships
  item,         \* goal; spot: dest, next_harbor, or where a figure aboard is;
                \* onship: noFigure::on_ship
  ship,         \* noShip; step and tasks are its events
  failed,       \* an assertion of the code has failed
  supply,       \* history: sets that have neither been built in nor burnt
  razed,        \* harbours pulled down
  letdown       \* history: an expedition with everything there was called off

vars == <<harbors, works, sites, expedition, exploration, stock, queue, item, ship,
          failed, supply, razed, letdown>>

Scene ==
  [harbors |-> harbors, works |-> works, sites |-> sites, expedition |-> expedition,
   exploration |-> exploration, stock |-> stock, queue |-> queue, item |-> item,
   ship |-> ship, failed |-> failed, supply |-> supply, razed |-> razed,
   letdown |-> letdown]
Becomes(s) ==
  /\ harbors' = s.harbors /\ works' = s.works /\ sites' = s.sites
  /\ expedition' = s.expedition /\ exploration' = s.exploration /\ stock' = s.stock
  /\ queue' = s.queue /\ item' = s.item /\ ship' = s.ship /\ failed' = s.failed
  /\ supply' = s.supply /\ razed' = s.razed /\ letdown' = s.letdown

(* Something is done for all of a list, or of a set in any order; after[n] is *)
(* what is done for the first n may leave.                                     *)
Then(S, Do(_)) == UNION {Do(s) : s \in S}
InOrder(s, q, Do(_, _)) ==
  LET after[n \in 0..Len(q)] ==
        IF n = 0 THEN {s} ELSE UNION {Do(t, q[n]) : t \in after[n - 1]}
  IN  after[Len(q)]
ForEach(s, S, Do(_, _)) == UNION {InOrder(s, q, Do) : q \in SetToSeqs(S)}

Ashore == [goal |-> None, spot |-> None, onship |-> FALSE]
Unbuilt == [state |-> "unbuilt", goal |-> None, home |-> None, at |-> Sea, step |-> None,
            route |-> <<>>, pos |-> 0, tasks |-> 0, lost |-> FALSE, covered |-> 0, hold |-> {}]

Transporting == {"transport_loading", "transport_driving", "transport_unloading"}
Expeditions == {"expedition_loading", "expedition_unloading", "expedition_waiting",
                "expedition_driving"}
Explorations == {"exploration_loading", "exploration_unloading", "exploration_waiting",
                 "exploration_driving"}

(* The ship becomes u; it waits for an event in a state. *)
Now(s, x, u) == [s EXCEPT !.ship[x] = u]
Anchors(s, x, state) ==
  Now(s, x, [s.ship[x] EXCEPT !.state = state, !.tasks = s.ship[x].tasks + 1])
StartIdling(s, x) == Now(s, x, [s.ship[x] EXCEPT !.state = "idle"])

(* FindShipPath, from any node but the one it leads to: null routes are not *)
(* found.                                                                   *)
Route(a, b) == IF a = Sea THEN <<b>> ELSE <<Sea, b>>

-----------------------------------------------------------------------------
(* Which harbour needs ships, and which ships it gets. *)
IsGoingToHarbor(s, x, h) ==
  s.ship[x].goal = h /\ s.ship[x].state \in Transporting \cup {"to_harbour"}
GetShipsToHarbor(s, h) == Cardinality({x \in Ships : IsGoingToHarbor(s, x, h)})

Awaited(s, S) == {s.item[i].spot : i \in S}
GetNeededShipsCount(s, h) ==
  (IF s.expedition[h] = "ready" THEN 1 ELSE 0) + (IF s.exploration[h] = "ready" THEN 1 ELSE 0)
  + Cardinality(Awaited(s, s.queue[h]))
NeedsMore(s, h) == GetNeededShipsCount(s, h) > GetShipsToHarbor(s, h)

(* What goes aboard: people first, as many as there is room for. *)
Loads(bound) ==
  IF Cardinality(bound) <= Cap THEN {bound}
  ELSE {l \in SUBSET bound : /\ Cardinality(l) = Cap
                             /\ l \subseteq Figures \/ bound \cap Figures \subseteq l}

PrepareTransport(s, h, x, dest, load) ==
  LET u == s.ship[x]
      aboard == [i \in Items |-> IF i \in load \cap Figures
                                 THEN [s.item[i] EXCEPT !.onship = TRUE] ELSE s.item[i]]
  IN  Anchors(Now([s EXCEPT !.queue[h] = @ \ load, !.item = aboard],
                  x, [u EXCEPT !.home = u.goal, !.goal = dest, !.hold = load]),
              x, "transport_loading")

(* nobHarborBuilding::ShipArrived.  The destination is that of the first who *)
(* waits for a harbour that still stands, and people come before wares.      *)
ShipArrived(s, h, x) ==
  LET Goals(S) == Awaited(s, s.queue[h] \cap S) \cap s.harbors
      dests == IF Goals(Figures) # {} THEN Goals(Figures) ELSE Goals(Wares)
      based == [s.ship[x] EXCEPT !.home = s.ship[x].goal]
  IN CASE s.expedition[h] = "ready" ->
            {Anchors(Now([s EXCEPT !.expedition[h] = "off"], x, based), x, "expedition_loading")}
       [] s.expedition[h] # "ready" /\ s.exploration[h] = "ready" ->
            {Anchors(Now([s EXCEPT !.exploration[h] = "off"], x, [based EXCEPT !.covered = 0]),
                     x, "exploration_loading")}
       [] OTHER ->
            IF dests = {} THEN {s}
            ELSE UNION {{PrepareTransport(s, h, x, d, l) :
                           l \in Loads({i \in s.queue[h] : s.item[i].spot = d})} : d \in dests}

(* StartDriving with the next node of the route; noMovable::StartMoving      *)
(* asserts that the ship is not moving yet.                                  *)
StartDriving(s, x) ==
  LET u == s.ship[x]
  IN  [Now(s, x, [u EXCEPT !.step = u.route[u.pos + 1], !.pos = u.pos + 1])
         EXCEPT !.failed = @ \/ u.step # None]

GoToHarbor(s, x, h) ==
  StartDriving(Now(s, x, [s.ship[x] EXCEPT !.state = "to_harbour", !.goal = h, !.pos = 0,
                                           !.route = Route(s.ship[x].at, h)]), x)
TakesJob(s, x, h) == ShipArrived(Now(s, x, [s.ship[x] EXCEPT !.goal = h]), h, x)

(* GameClientPlayer::OrderShip: an idle ship at the harbour is taken before  *)
(* any other.  The harbour orders until it has enough or none is idle.       *)
CallShip(s, h) ==
  LET idle == {x \in Ships : s.ship[x].state = "idle"}
      here == {x \in idle : s.ship[x].at = h}
  IN  IF ~NeedsMore(s, h) THEN {s}
      ELSE IF here # {} THEN UNION {TakesJob(s, x, h) : x \in here}
      ELSE IF idle # {} THEN {GoToHarbor(s, x, h) : x \in idle} ELSE {s}
OrderShip(s, h) ==
  IF NeedsMore(s, h)
  THEN InOrder(s, [i \in 1..(GetNeededShipsCount(s, h) - GetShipsToHarbor(s, h)) |-> h], CallShip)
  ELSE {s}

(* GameClientPlayer::GetJobForShip, for a ship that has become idle. *)
GetJobForShip(s, x) ==
  LET needy == {h \in s.harbors : NeedsMore(s, h)}
  IN  IF s.ship[x].at \in needy THEN TakesJob(s, x, s.ship[x].at)
      ELSE IF needy # {} THEN {GoToHarbor(s, x, h) : h \in needy} ELSE {s}

(* Mutant: it waits to be called. *)
IdlesOnly(s, x) == {StartIdling(s, x)}

LooksForJob(s, x) == GetJobForShip(StartIdling(s, x), x)

-----------------------------------------------------------------------------
(* Driving.  A route that does not lead to the goal is calculated again, if *)
(* the goal is not where the ship is; CheckFreeRoute asserts that there is  *)
(* something left of the route.                                             *)
DriveToHarbourPlace(s, x) ==
  LET u == s.ship[x]
      left == SubSeq(u.route, u.pos + 1, Len(u.route))
      Drives(t) == [result |-> "driving", scene |-> StartDriving(t, x)]
  IN CASE u.pos = Len(u.route) -> [result |-> "reached", scene |-> s]
       [] u.pos > Len(u.route) -> [result |-> "driving", scene |-> [s EXCEPT !.failed = TRUE]]
       [] u.pos < Len(u.route) /\ u.at = u.goal -> [result |-> "no_route", scene |-> s]
       [] OTHER ->
            IF left = Route(u.at, u.goal) THEN Drives(s)
            ELSE Drives(Now(s, x, [u EXCEPT !.route = Route(u.at, u.goal), !.pos = 0]))

DriveToHarbour(s, x) ==
  IF s.ship[x].goal \notin s.harbors THEN [result |-> "gone", scene |-> s]
  ELSE DriveToHarbourPlace(s, x)

(* The results whether a harbour was found to unload in, with what is left  *)
(* behind; the place in the route is not reset.                             *)
FindHarborForUnloading(s, x, from, exception) ==
  LET others == s.harbors \ exception
  IN  IF others = {} THEN {[found |-> FALSE, scene |-> s]}
      ELSE {[found |-> h # from,
             scene |-> Now(s, x, [s.ship[x] EXCEPT
                                    !.goal = h, !.route = IF h = from THEN <<>> ELSE Route(from, h)])] :
              h \in others}
Lost(s, x) == Now(s, x, [s.ship[x] EXCEPT !.lost = TRUE])

StartDrivingToHarborPlace(s, x) ==
  IF s.ship[x].at = s.ship[x].goal THEN s
  ELSE Now(s, x, [s.ship[x] EXCEPT !.route = Route(s.ship[x].at, s.ship[x].goal), !.pos = 0])

(* HandleState_TransportDriving: without the harbour those aboard lose what *)
(* they are meant for.                                                      *)
Carries(d, x) ==
  CASE d.result = "reached" -> Anchors(d.scene, x, "transport_unloading")
    [] d.result = "no_route" -> StartIdling(d.scene, x)
    [] OTHER -> d.scene
TransportDriving(s, x) ==
  LET d == DriveToHarbour(s, x)
      aimless == [s EXCEPT !.item = [i \in Items |-> IF i \in s.ship[x].hold
                                                     THEN [s.item[i] EXCEPT !.goal = None]
                                                     ELSE s.item[i]]]
  IN  IF d.result # "gone" THEN {Carries(d, x)}
      ELSE {IF f.found THEN Carries(DriveToHarbour(f.scene, x), x) ELSE Lost(f.scene, x) :
              f \in FindHarborForUnloading(aimless, x, s.ship[x].at, {})}

(* HandleState_ExpeditionDriving: who comes home unloads, who comes          *)
(* elsewhere waits for the player.  A home that is gone is not looked at.    *)
ExpeditionDriving(s, x) ==
  LET homeward == s.ship[x].home = s.ship[x].goal
      d == IF homeward THEN DriveToHarbour(s, x) ELSE DriveToHarbourPlace(s, x)
  IN CASE d.result = "reached" ->
            IF homeward THEN Anchors(d.scene, x, "expedition_unloading")
            ELSE Now(d.scene, x, [d.scene.ship[x] EXCEPT !.state = "expedition_waiting"])
       [] d.result = "no_route" -> StartIdling(d.scene, x)
       [] OTHER -> d.scene

ExplorationDriving(s, x) ==
  LET u == s.ship[x]
      homeward == u.home = u.goal /\ u.covered >= Far
      d == IF homeward THEN DriveToHarbour(s, x) ELSE DriveToHarbourPlace(s, x)
  IN CASE d.result = "reached" ->
            {IF homeward THEN Anchors(d.scene, x, "exploration_unloading")
             ELSE Anchors(Now(d.scene, x, [d.scene.ship[x] EXCEPT !.covered = u.covered + Len(u.route)]),
                          x, "exploration_waiting")}
       [] d.result = "no_route" -> {StartIdling(d.scene, x)}
       [] d.result = "gone" ->
            UNION {IF f.found THEN TransportDriving(f.scene, x) ELSE {Lost(f.scene, x)} :
                     f \in FindHarborForUnloading(s, x, u.at, {})}
       [] OTHER -> {d.scene}

(* Anchored at a harbour point for a while, it goes on to another; all are  *)
(* within reach.                                                            *)
ContinueExploration(s, x) ==
  LET u == s.ship[x]
      far == u.covered >= Far
      next == IF far \/ Points = {u.goal} THEN {u.home} ELSE Points \ {u.goal}
      Goes(p) == StartDrivingToHarborPlace(
                   Now(s, x, [u EXCEPT !.goal = p, !.state = "exploration_driving"]), x)
  IN  IF far /\ u.goal = u.home THEN {Anchors(s, x, "exploration_unloading")}
      ELSE UNION {ExplorationDriving(Goes(p), x) : p \in next}

(* HandleState_GoToHarbor: it is idle before the harbour hears of it. *)
GoesToHarbor(s, x) ==
  LET d == DriveToHarbour(s, x)
      idle == StartIdling(d.scene, x)
  IN CASE d.result = "driving" -> {d.scene}
       [] d.result = "reached" -> ShipArrived(idle, s.ship[x].goal, x)
       [] OTHER -> {idle}

-----------------------------------------------------------------------------
(* Ways of people and wares: none, over land, or over one of some harbours. *)
ByLand(a, goal) == goal # None /\ goal # a /\ IslandOf[a] = IslandOf[goal]
OverSea(s, a, goal) ==
  IF goal = None \/ a \notin s.harbors THEN {}
  ELSE IF IslandOf[a] = IslandOf[goal] THEN {}
  ELSE {h \in s.harbors : IslandOf[h] = IslandOf[goal]}

Waits(s, i, h, dest) == [s EXCEPT !.queue[h] = @ \cup {i}, !.item[i].spot = dest]
Leaves(s, S) ==
  [s EXCEPT !.item = [i \in Items |-> IF i \in S THEN Ashore ELSE s.item[i]],
            !.queue = [h \in Points |-> s.queue[h] \ S]]

(* ReceiveGoodsFromShip.  People look from where they are said to be; a ware *)
(* which would have to go by ship again is kept here, others go their ways.  *)
ReceiveFigure(s, h, i) ==
  LET u == s.item[i]
      dests == IF u.goal = h THEN {} ELSE OverSea(s, u.spot, u.goal)
  IN  IF dests = {} THEN {Leaves(s, {i})}
      ELSE UNION {OrderShip(Waits(s, i, h, d), h) : d \in dests}
ReceiveFigures(s, h, S) == ForEach(s, S, LAMBDA t, i : ReceiveFigure(t, h, i))
ReceiveGoodsFromShip(s, h, x) ==
  LET load == s.ship[x].hold
      empty == Now(s, x, [s.ship[x] EXCEPT !.hold = {}])
  IN  {Leaves(t, load \cap Wares) : t \in ReceiveFigures(empty, h, load \cap Figures)}

(* Ware::RecalcRoute of a ware that waits for a ship at a: it goes by land, to *)
(* another harbour, or, its goal out of reach, to another warehouse; if there  *)
(* is none it stays where it is.  What may become of the ware:                 *)
RecalcRoute(s, a, i) ==
  LET u == s.item[i]
      stores == s.harbors \ {a}
  IN  IF u.goal = None \/ ByLand(a, u.goal) THEN {Ashore}
      ELSE IF OverSea(s, a, u.goal) # {} THEN {[u EXCEPT !.spot = d] : d \in OverSea(s, a, u.goal)}
      ELSE IF stores = {} THEN {[u EXCEPT !.goal = None]}
      ELSE {IF ByLand(a, h) THEN Ashore ELSE [u EXCEPT !.goal = h, !.spot = h] : h \in stores}

(* Those without a way over the sea enter the harbour or leave it on foot. *)
ExamineShipRoute(s, a, i) ==
  LET dests == OverSea(s, a, s.item[i].goal)
  IN  IF dests = {} THEN {Ashore} ELSE {[s.item[i] EXCEPT !.spot = d] : d \in dests}

(* All of them do so, one after another, which makes no difference. *)
LookAgain(s, S) ==
  LET waiting == {i \in S : \E h \in Points : i \in s.queue[h]}
      Ways(i) == LET a == CHOOSE h \in Points : i \in s.queue[h]
                 IN  IF i \in Wares THEN RecalcRoute(s, a, i) ELSE ExamineShipRoute(s, a, i)
      choices == {c \in [waiting -> UNION {Ways(i) : i \in waiting}] :
                    \A i \in waiting : c[i] \in Ways(i)}
      Going(c) == {i \in waiting : c[i] = Ashore}
      Looked(c) == [s EXCEPT !.item = [i \in Items |-> IF i \in waiting THEN c[i] ELSE s.item[i]]]
  IN  {Leaves(Looked(c), Going(c)) : c \in choices}

(* Mutant: nobHarborBuilding::ExamineShipRouteOfPeople is not called. *)
WaresOnly(s) == LookAgain(s, Wares)

(* GameClientPlayer::RoadDestroyed, of those who wait for ships. *)
RoadDestroyed(s) == LookAgain(s, Items)

(* Mutant: on_ship is not looked at. *)
Wanders(s, S) == Leaves(s, S)

(* GoHome and GoalDestroyed of items whose goal has gone.  A figure that has *)
(* been on a ship since it last was on land believes to be there still.      *)
LosesGoal(s, S) ==
  LET afloat == {i \in S : s.item[i].onship \/ \E x \in Ships : i \in s.ship[x].hold}
      aimless == [i \in Items |-> IF i \in afloat THEN [s.item[i] EXCEPT !.goal = None]
                                  ELSE s.item[i]]
  IN  Leaves([s EXCEPT !.item = aimless], S \ afloat)

-----------------------------------------------------------------------------
(* The events of a ship. *)
Driven(s, x) ==
  CASE s.ship[x].state = "to_harbour" -> GoesToHarbor(s, x)
    [] s.ship[x].state = "expedition_driving" -> {ExpeditionDriving(s, x)}
    [] s.ship[x].state = "exploration_driving" -> ExplorationDriving(s, x)
    [] s.ship[x].state = "transport_driving" -> TransportDriving(s, x)
    [] OTHER -> {s}

Walk(x) ==
  /\ ship[x].step # None
  /\ \E s \in Driven(Now(Scene, x, [ship[x] EXCEPT !.at = ship[x].step, !.step = None]), x) : Becomes(s)

(* Without the harbour to unload in it takes what it has elsewhere; the     *)
(* exploration's handler is also used for transports.                       *)
Elsewhere(s, x) ==
  LET Resumes(t) == IF t.ship[x].state = "expedition_unloading" THEN {ExpeditionDriving(t, x)}
                    ELSE ExplorationDriving(t, x)
  IN  UNION {IF f.found THEN Resumes(f.scene) ELSE {Lost(f.scene, x)} :
               f \in FindHarborForUnloading(s, x, s.ship[x].at, {})}

StartTransport(s, x) ==
  TransportDriving(
    StartDrivingToHarborPlace(Now(s, x, [s.ship[x] EXCEPT !.state = "transport_driving"]), x), x)

UnloadTransport(s, x) ==
  LET h == s.ship[x].goal
      Goes(t) == IF t.ship[x].state = "transport_unloading" THEN LooksForJob(t, x) ELSE {t}
  IN  IF h \notin s.harbors THEN Elsewhere(s, x)
      ELSE Then(UNION {ShipArrived(t, h, x) : t \in ReceiveGoodsFromShip(s, h, x)}, Goes)

UnloadExpedition(s, x) ==
  LET h == s.ship[x].goal
  IN  IF h \notin s.harbors THEN Elsewhere(s, x)
      ELSE LooksForJob([s EXCEPT !.stock[h] = @ + 1], x)

UnloadExploration(s, x) ==
  IF s.ship[x].goal \notin s.harbors THEN Elsewhere(s, x)
  ELSE LooksForJob(s, x)

Handled(s, x) ==
  CASE s.ship[x].state = "expedition_loading" ->
         {Now(s, x, [s.ship[x] EXCEPT !.state = "expedition_waiting"])}
    [] s.ship[x].state \in {"exploration_loading", "exploration_waiting"} -> ContinueExploration(s, x)
    [] s.ship[x].state = "expedition_unloading" -> UnloadExpedition(s, x)
    [] s.ship[x].state = "exploration_unloading" -> UnloadExploration(s, x)
    [] s.ship[x].state = "transport_loading" -> StartTransport(s, x)
    [] s.ship[x].state = "transport_unloading" -> UnloadTransport(s, x)
    [] OTHER -> {s}

HandleEvent(x) ==
  /\ ship[x].tasks > 0
  /\ \E s \in Handled(Now(Scene, x, [ship[x] EXCEPT !.tasks = ship[x].tasks - 1]), x) : Becomes(s)

Launch(x) ==
  /\ ship[x] = Unbuilt
  /\ \E s \in LooksForJob(Scene, x) : Becomes(s)

-----------------------------------------------------------------------------
(* The orders of the player for an expedition. *)
IsHarborPointFree(p) == p \notin harbors \cup sites

ContinueExpedition(x, p) ==
  /\ ship[x].state = "expedition_waiting"
  /\ p # ship[x].goal /\ IsHarborPointFree(p)
  /\ Becomes(StartDriving(
       Now(Scene, x, [ship[x] EXCEPT !.route = Route(ship[x].at, p), !.pos = 0, !.goal = p,
                                     !.state = "expedition_driving"]), x))

FoundColony(x) ==
  /\ ship[x].state = "expedition_waiting" /\ IsHarborPointFree(ship[x].goal)
  /\ \E s \in LooksForJob([Scene EXCEPT !.sites = @ \cup {ship[x].goal}], x) : Becomes(s)

(* The ship is not asked whether it waits. *)
CancelExpedition(x) ==
  /\ ship[x].state # "unbuilt" /\ ship[x].home # None
  /\ Careful => ship[x].state = "expedition_waiting"
  /\ IF ship[x].goal = ship[x].home
     THEN Becomes(ExpeditionDriving(Now(Scene, x, [ship[x] EXCEPT !.route = <<>>, !.pos = 0]), x))
     ELSE Becomes(ExpeditionDriving(
            StartDrivingToHarborPlace(
              Now(Scene, x, [ship[x] EXCEPT !.state = "expedition_driving", !.goal = ship[x].home]),
              x), x))

(* StartExpedition begins or stops one; what is missing is ordered and comes *)
(* later.                                                                    *)
StartExpedition(h) ==
  /\ h \in harbors \cap Bases
  /\ \/ /\ expedition[h] = "off" /\ stock[h] = 0
        /\ Becomes([Scene EXCEPT !.expedition[h] = "gathering"])
     \/ /\ expedition[h] = "off" /\ stock[h] > 0
        /\ \E s \in OrderShip([Scene EXCEPT !.expedition[h] = "ready", !.stock[h] = @ - 1], h) :
              Becomes(s)
     \/ /\ expedition[h] = "gathering"
        /\ Becomes([Scene EXCEPT !.expedition[h] = "off"])
     \/ /\ expedition[h] = "ready"
        /\ Becomes([Scene EXCEPT !.expedition[h] = "off", !.stock[h] = @ + 1, !.letdown = TRUE])

ExpeditionReady(h) ==
  /\ h \in harbors /\ expedition[h] = "gathering" /\ supply < Sets
  /\ \E s \in OrderShip([Scene EXCEPT !.expedition[h] = "ready", !.supply = @ + 1], h) : Becomes(s)

StartExplorationExpedition(h) ==
  /\ h \in harbors \cap Bases
  /\ \/ exploration[h] = "off" /\ Becomes([Scene EXCEPT !.exploration[h] = "gathering"])
     \/ exploration[h] # "off"
        /\ Becomes([Scene EXCEPT !.exploration[h] = "off",
                                 !.letdown = @ \/ exploration[h] = "ready"])

ExplorationReady(h) ==
  /\ h \in harbors /\ exploration[h] = "gathering"
  /\ \E s \in OrderShip([Scene EXCEPT !.exploration[h] = "ready"], h) : Becomes(s)

-----------------------------------------------------------------------------
(* AddFigureForShip, AddWareForShip: somebody comes into a harbour, or is    *)
(* sent off by it, to go by ship.  Wares may be meant for a harbour as such. *)
Embark(i, h) ==
  /\ item[i] = Ashore /\ h \in harbors
  /\ \E g \in works \cup IF i \in Wares THEN harbors ELSE {} :
     \E d \in OverSea(Scene, h, g) :
     \E s \in OrderShip(Waits([Scene EXCEPT !.item[i].goal = g], i, h, d), h) : Becomes(s)

WorkDestroyed(g) ==
  /\ g \in works
  /\ Becomes(LosesGoal([Scene EXCEPT !.works = @ \ {g}], {i \in Items : item[i].goal = g}))

-----------------------------------------------------------------------------
(* Mutant: the new route is not followed from its beginning. *)
KeepsItsPlace(s, x) ==
  IF s.ship[x].state = "transport_driving" THEN {s}
  ELSE TransportDriving(
         Now(s, x, [s.ship[x] EXCEPT !.state = "transport_driving", !.tasks = 0]), x)

(* A ship with a new goal: if it was about to unload it sails at once. *)
TurnsRound(s, x) ==
  IF s.ship[x].state = "transport_driving" THEN {Now(s, x, [s.ship[x] EXCEPT !.pos = 0])}
  ELSE TransportDriving(
         Now(s, x, [s.ship[x] EXCEPT !.pos = 0, !.state = "transport_driving", !.tasks = 0]), x)

(* Harbours go.  noShip::HarborDestroyed: a ship that is loading lands all   *)
(* again, others go elsewhere, from the node they will be at next.           *)
Informed(s, x) ==
  [s EXCEPT !.item = [i \in Items |-> IF i \in s.ship[x].hold \cap Figures
                                      THEN [s.item[i] EXCEPT !.spot = s.ship[x].goal]
                                      ELSE s.item[i]]]
HarborDestroyed(s, x, h) ==
  LET u == s.ship[x]
      from == IF u.state = "transport_driving" /\ u.step # None THEN u.step ELSE u.at
  IN  IF u.goal # h \/ u.state \notin Transporting THEN {s}
      ELSE IF u.state = "transport_loading"
      THEN {Informed(Now(s, x, [u EXCEPT !.state = "transport_unloading", !.goal = u.home]), x)}
      ELSE UNION {IF f.found THEN {Informed(t, x) : t \in TurnsRound(f.scene, x)} ELSE {f.scene} :
                    f \in FindHarborForUnloading(s, x, from, {h})}

(* nobHarborBuilding::Destroy: the ships are told, the expedition and those *)
(* who wait are lost, wares meant for it lose their goal, and as the road   *)
(* at its door is gone, all who wait elsewhere look at their ways again.    *)
Falls(s, h) ==
  [Leaves(s, s.queue[h]) EXCEPT
     !.harbors = @ \ {h}, !.expedition[h] = "off", !.exploration[h] = "off", !.stock[h] = 0,
     !.supply = @ - s.stock[h] - (IF s.expedition[h] = "ready" THEN 1 ELSE 0)]
Gone(s, h) == LosesGoal(Falls(s, h), {i \in Wares : Falls(s, h).item[i].goal = h})
TellOfEnd(s, h) == ForEach(s, Ships, LAMBDA t, x : HarborDestroyed(t, x, h))
Destroy(s, h) == UNION {RoadDestroyed(Gone(t, h)) : t \in TellOfEnd(s, h)}

(* What the ships cannot cope with (see the README). *)
CopeWithout(h) ==
  /\ \A x \in Ships :
       /\ ship[x].state \in Expeditions \cup Explorations => ship[x].home # h
       /\ ship[x].state = "transport_loading" /\ ship[x].goal = h => ship[x].home \in harbors
       /\ ship[x].state = "transport_unloading" /\ ship[x].goal = h => harbors # {h}
       /\ ship[x].state = "transport_driving" /\ ship[x].goal = h =>
            (IF ship[x].step = None THEN ship[x].at ELSE ship[x].step) \notin harbors \ {h}
  /\ \A a \in harbors \ {h}, i \in Wares : i \in queue[a] => harbors # {a, h}

PullDown(h) ==
  /\ h \in harbors /\ razed < MaxRazed
  /\ Careful => CopeWithout(h)
  /\ \E s \in Destroy([Scene EXCEPT !.razed = @ + 1], h) : Becomes(s)

(* noShip::NewHarborBuilt. *)
NewHarborBuilt(s, x, h) ==
  LET told == Now(s, x, [s.ship[x] EXCEPT !.home = h, !.goal = h, !.lost = FALSE])
  IN  IF ~s.ship[x].lost THEN {s}
      ELSE IF s.ship[x].state \in {"exploration_driving", "expedition_driving",
                                   "transport_driving"}
           THEN Driven(StartDrivingToHarborPlace(told, x), x)
           ELSE {[StartDrivingToHarborPlace(told, x) EXCEPT !.failed = TRUE]}

TellOfNew(s, h) == ForEach(s, Ships, LAMBDA t, x : NewHarborBuilt(t, x, h))

CopeWith(h) ==
  \A x \in Ships :
    /\ ship[x].state = "transport_driving" /\ ~ship[x].lost => ship[x].goal \in harbors
    /\ ship[x].lost /\ ship[x].at = h => ship[x].pos = Len(ship[x].route)

(* A harbour is finished: on a site from the sea, or one from the land. *)
HarborBuilt(h) ==
  /\ h \notin harbors
  /\ Careful => CopeWith(h)
  /\ LET s == [Scene EXCEPT !.harbors = @ \cup {h}, !.sites = @ \ {h},
                            !.supply = IF h \in sites THEN @ - 1 ELSE @]
     IN  \E t \in TellOfNew(s, h) : Becomes(t)

-----------------------------------------------------------------------------
Init ==
  /\ harbors = FirstHarbors /\ works = Works /\ sites = {}
  /\ expedition = [h \in Points |-> "off"] /\ exploration = [h \in Points |-> "off"]
  /\ stock = [h \in Points |-> 0] /\ queue = [h \in Points |-> {}]
  /\ item = [i \in Items |-> Ashore] /\ ship = [x \in Ships |-> Unbuilt]
  /\ failed = FALSE /\ supply = 0 /\ razed = 0 /\ letdown = FALSE

Next ==
  \/ \E x \in Ships :
        \/ Walk(x) \/ HandleEvent(x) \/ Launch(x) \/ FoundColony(x) \/ CancelExpedition(x)
        \/ \E p \in Points : ContinueExpedition(x, p)
  \/ \E h \in Points :
        \/ StartExpedition(h) \/ ExpeditionReady(h)
        \/ StartExplorationExpedition(h) \/ ExplorationReady(h)
        \/ PullDown(h) \/ HarborBuilt(h)
        \/ \E i \in Items : Embark(i, h)
  \/ \E g \in Works : WorkDestroyed(g)

Fairness == \A x \in Ships : WF_vars(Walk(x) \/ HandleEvent(x))

Spec == Init /\ [][Next]_vars /\ Fairness

-----------------------------------------------------------------------------
TypeOK ==
  /\ harbors \subseteq Points /\ works \subseteq Works /\ sites \subseteq Points
  /\ item \in [Items -> [goal : Points \cup Works \cup {None}, spot : Points \cup {None},
                         onship : BOOLEAN]]
  /\ supply \in 0..Sets /\ razed \in 0..MaxRazed /\ letdown \in BOOLEAN

(* No assertion of noShip and noMovable fails, and a ship that neither idles, *)
(* waits for the player nor is lost has exactly one event to come, a step or  *)
(* a task (noShip::current_ev): it never stops for ever, nor is it moved      *)
(* twice, whatever is built and destroyed around it.  And what it lands is    *)
(* landed where it was to go, not half-way at sea or where it had to go       *)
(* before (route_id and curRoute are kept apart).                             *)
ShipsAtWork ==
  /\ TypeOK /\ ~failed
  /\ \A x \in Ships :
       ship[x].state \in {"transport_unloading", "expedition_unloading",
                         "exploration_unloading", "expedition_waiting", "exploration_waiting"}
         => ship[x].at = ship[x].goal
  /\ \A x \in Ships :
       (IF ship[x].step = None THEN 0 ELSE 1) + ship[x].tasks =
         IF ship[x].lost \/ ship[x].state \in {"unbuilt", "idle", "expedition_waiting"}
         THEN 0 ELSE 1

(* Who is on his way over the sea waits in one harbour or is on board of one  *)
(* ship (figures_for_ships, wares_for_ships, noShip::figures and wares), also *)
(* when he is reloaded, landed or loses his goal; and every set of materials  *)
(* for a harbour is in stock, in an expedition, on board, or has been built   *)
(* into a site (nobHarborBuilding::StartExpedition, noShip::HandleEvent).     *)
NothingLost ==
  /\ \A x \in Ships : ship[x].state \notin Transporting => ship[x].hold = {}
  /\ \A i \in Items :
       Cardinality({h \in Points : i \in queue[h]})
       + Cardinality({x \in Ships : i \in ship[x].hold}) = IF item[i] = Ashore THEN 0 ELSE 1
  /\ supply = Cardinality(UNION {{h} \X (1..stock[h]) : h \in Points}) + Cardinality(sites)
              + Cardinality({h \in Points : expedition[h] = "ready"})
              + Cardinality({x \in Ships : ship[x].state \in Expeditions})

(* Everybody who waits does so in a harbour that stands for another one that  *)
(* stands, otherwise ShipArrived would never choose it; and figures aboard    *)
(* believe to be where their ship takes them: ReceiveGoodsFromShip and        *)
(* noFigure::Abrogate ask them.                                               *)
BoundForHarbours ==
  /\ \A h \in Points : \A i \in queue[h] : h \in harbors /\ item[i].spot \in harbors \ {h}
  /\ \A x \in Ships : \A i \in ship[x].hold \cap Figures :
       item[i].goal # None => item[i].spot = ship[x].goal

(* Journeys begin and end.  Whoever waits in a harbour is fetched, unless no  *)
(* ship is left or something was called off or destroyed meanwhile: it has to *)
(* be remembered whichever comes first, the ship that idles or who needs it   *)
(* (OrderShip, GetJobForShip).  And whoever is on board is landed, though his *)
(* harbour may be destroyed, as long as one is left or built.                 *)
Aboard(i) == \E x \in Ships : i \in ship[x].hold
Served ==
  /\ \A h \in FirstHarbors :
       queue[h] # {} ~> \/ queue[h] = {} \/ letdown \/ razed > 0 \/ works # Works
                        \/ \A x \in Ships : ship[x].state \in Expeditions \cup {"unbuilt"}
  /\ \A i \in Items : Aboard(i) ~> (~Aboard(i) \/ harbors = {})
=============================================================================
