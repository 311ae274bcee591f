------------------------------- MODULE Orders -------------------------------
(***************************************************************************)
(* Who expects which ware: Ware.cpp, GameClientPlayer.cpp, nobUsual.cpp,   *)
(* noBuildingSite.cpp, nobBaseWarehouse.cpp, for the wares of one type of  *)
(* one player.                                                             *)
(*                                                                         *)
(* A ware points to the building it is meant for, and the building lists   *)
(* the wares meant for it: its orders, or for a warehouse the wares on the *)
(* way to it.  Both sides are plain pointers.  Houses, roads and flags are *)
(* pulled down at any time, and whoever goes must tell the other side:     *)
(* where the ware is - waiting in a warehouse, in somebody's hands, at a   *)
(* flag - decides who tells whom, and every destruction sends each ware it *)
(* reaches to another building, which may answer by ordering again.        *)
(*                                                                         *)
(* A handler is an operator from a scene (a record of all the objects) to  *)
(* the set of scenes it may leave.  Distances and distribution points only *)
(* choose among the buildings a path leads to: any of them is chosen here. *)
(* Module Transport has the carriers themselves; here any carrier takes a  *)
(* ware along any road of a path, and a flag has room or has not.          *)
(***************************************************************************)
EXTENDS Integers, FiniteSets, Sequences, SequencesExt

CONSTANTS Flags,
          Roads, Ends,      \* the roads that can be built, between two flags
          Houses,           \* warehouses and headquarters
          Usuals,           \* workshops that need the ware
          SiteList,         \* building sites, in the order they were founded
          FlagAt,           \* the flag of a building
          Room,             \* wares a workshop has room for (2, 4 or 6 in the
                            \* code) or a site needs
          Makers,           \* flags of workshops that make the ware
          Outs, Wants,      \* houses told to send the ware out, to collect it
          Closable,         \* houses the player may forbid to store it
          Doomed,           \* buildings, roads and flags the player may pull down
          Wares,            \* bound: wares there are at most, as objects 1..n
          InStock,          \* the wares in the houses at first
          Patient,          \* the player builds a road or opens a house only
                            \* while nobody carries a ware without a goal
          None

Sites == ToSet(SiteList)
Clients == Usuals \cup Sites
Buildings == Houses \cup Clients

ASSUME OrdersAssumption ==
  /\ Ends \in [Roads -> Flags \X Flags]
  /\ FlagAt \in [Buildings -> Flags] /\ Room \in [Clients -> Nat \ {0}]
  /\ \A a, b \in Buildings : FlagAt[a] = FlagAt[b] => a = b
  /\ Makers \subseteq Flags \ {FlagAt[b] : b \in Clients}
  /\ Outs \cup Wants \cup Closable \subseteq Houses /\ Wants \cap (Outs \cup Closable) = {}
  /\ Doomed \subseteq Buildings \cup Roads \cup Flags
  /\ Wares \subseteq Nat /\ InStock \in [Houses -> Nat] /\ Patient \in BOOLEAN
  /\ None \notin Buildings \cup Flags \cup Roads

VARIABLES
  alive,    \* the buildings the player has
  door,     \* the buildings with a way to their flag
  flags, roads,
  ware,     \* Ware: place, state, location, goal, and the road it is carried on
  ordered,  \* ordered_wares, ordered_boards, dependent_wares, as counts per ware
  have,     \* nobUsual::wares; boards and used_boards of a site
  planed,   \* the sites that are levelled
  stock,    \* nobBaseWarehouse::real_goods
  goods,    \* nobBaseWarehouse::goods, what is shown
  closed,   \* inventory setting 2: storing forbidden
  inventory \* of the player

vars == <<alive, door, flags, roads, ware, ordered, have, planed, stock, goods, closed, inventory>>

Scene == [alive |-> alive, door |-> door, flags |-> flags, roads |-> roads, ware |-> ware,
          ordered |-> ordered, have |-> have, planed |-> planed, stock |-> stock,
          goods |-> goods, closed |-> closed, inventory |-> inventory]
Becomes(s) ==
  /\ alive' = s.alive /\ door' = s.door /\ flags' = s.flags /\ roads' = s.roads
  /\ ware' = s.ware /\ ordered' = s.ordered /\ have' = s.have /\ planed' = s.planed
  /\ stock' = s.stock /\ goods' = s.goods /\ closed' = s.closed
  /\ inventory' = s.inventory

(* One handler after the other, and a handler for all of a set in any order. *)
Then(S, Do(_)) == UNION {Do(s) : s \in S}
ForEach(s, S, Do(_, _)) ==
  UNION {FoldLeft(LAMBDA ss, x : UNION {Do(t, x) : t \in ss}, {s}, q) : q \in SetToSeqs(S)}

Places == {"waiting", "out", "in", "fetched", "flag", "road", "door"}
Gone == [place |-> "none", st |-> "none", loc |-> None, goal |-> None, via |-> None]
Existing(s) == {w \in Wares : s.ware[w] # Gone}
At(place, st, loc, goal) ==
  [place |-> place, st |-> st, loc |-> loc, goal |-> goal, via |-> None]
NextWare(s) == CHOOSE w \in Wares \ Existing(s) : \A v \in Wares \ Existing(s) : w <= v

Total(f) == FoldFunction(LAMBDA n, m : n + m, 0, f)

-----------------------------------------------------------------------------
(* Paths lead over roads from flag to flag; a building is an end of a path, *)
(* never on the way.                                                        *)
FlagOf(n) == IF n \in Flags THEN n ELSE FlagAt[n]
Reach ==
  [rs \in SUBSET Roads |-> {p \in Flags \X Flags :
     \A S \in SUBSET Flags :
        (p[1] \in S /\ \A r \in rs : Ends[r][1] \in S <=> Ends[r][2] \in S) => p[2] \in S}]
Connected(rs, a, b) == <<a, b>> \in Reach[rs]

Path(s, a, b) ==
  /\ a # b
  /\ {a, b} \cap Buildings \subseteq s.door
  /\ Connected(s.roads, FlagOf(a), FlagOf(b))

(* FindWarehouse for a ware at n which is to be stored. *)
FindWarehouse(s, n) ==
  LET good == {h \in s.alive \cap Houses : h \notin s.closed /\ Path(s, n, h)}
  IN  IF good = {} THEN {None} ELSE good

-----------------------------------------------------------------------------
(* TakeWare and erase of the lists. *)
TakeWare(s, b, w) == [s EXCEPT !.ordered[b][w] = @ + 1]
Erase(s, b, w) == [s EXCEPT !.ordered[b][w] = IF @ = 0 THEN 0 ELSE @ - 1]
Expects(s, c) == s.have[c] + Total(s.ordered[c])

(* OrderWare: a house with the ware to which a path leads, if any, puts one *)
(* among its waiting wares.                                                 *)
OrderFrom(s, h, b) ==
  LET w == NextWare(s)
  IN  TakeWare([s EXCEPT !.ware[w] = At("waiting", "waiting", h, b), !.stock[h] = @ - 1], b, w)

OrderWare(s, b) ==
  LET from == {h \in s.alive \cap Houses : s.stock[h] > 0 /\ Path(s, b, h)}
  IN  IF from = {} THEN {s} ELSE {OrderFrom(s, h, b) : h \in from}

(* noBuildingSite: what is missing is ordered, if a house has it. *)
OrderConstructionMaterial(s, b) ==
  IF b \notin s.planed THEN {s}
  ELSE FoldLeft(LAMBDA ss, i : Then(ss, LAMBDA t : OrderWare(t, b)), {s},
                [i \in 1..(Room[b] - Expects(s, b)) |-> i])

FindMaterialForBuildingSites(s) ==
  FoldLeft(LAMBDA ss, b : Then(ss, LAMBDA t : OrderConstructionMaterial(t, b)), {s},
           SelectSeq(SiteList, LAMBDA b : b \in s.alive))

(* WareLost of the goal: a site orders again at once. *)
GoalLosesWare(s, b, w) ==
  IF b \in Sites THEN OrderConstructionMaterial(Erase(s, b, w), b) ELSE {Erase(s, b, w)}

NotifyGoalAboutLostWare(s, w) ==
  LET goal == s.ware[w].goal IN IF goal = None THEN {s} ELSE GoalLosesWare(s, goal, w)

-----------------------------------------------------------------------------
(* Ware::WareLost, after which the ware is deleted. *)
WareLost(s, w) ==
  {[t EXCEPT !.ware[w] = Gone] :
      t \in NotifyGoalAboutLostWare([s EXCEPT !.inventory = @ - 1], w)}

(* Mutant: the warehouse does not learn of it. *)
GoesUnannounced(s, w) ==
  {[s EXCEPT !.ware[w].goal = h] : h \in FindWarehouse(s, s.ware[w].loc)}

(* The ware goes to a warehouse, which learns of it, or has no goal. *)
GoesToStore(s, w) ==
  {IF h = None THEN [s EXCEPT !.ware[w].goal = None]
   ELSE TakeWare([s EXCEPT !.ware[w].goal = h], h, w) :
      h \in FindWarehouse(s, s.ware[w].loc)}

(* Without a way to its goal the ware tells it and goes to a warehouse. *)
RecalcRoute(s, w) ==
  LET u == s.ware[w] IN
  IF u.goal = None \/ Path(s, u.loc, u.goal) THEN {s}
  ELSE Then(GoalLosesWare(s, u.goal, w), LAMBDA t : GoesToStore(t, w))

(* Mutant: a carried ware keeps its goal. *)
GoalKept(s, w) ==
  LET u == s.ware[w] IN
  CASE u.st = "flag" -> GoesToStore(s, w)
    [] u.st = "carried" /\ u.loc \in Houses /\ u.loc = u.goal -> {[s EXCEPT !.ware[w].goal = None]}
    [] OTHER -> {s}

(* Ware::GoalDestroyed.  A ware in a door has the building for its location. *)
GoalDestroyed(s, w) ==
  LET u == s.ware[w] IN
  CASE u.st = "waiting" -> {s}
    [] u.st # "waiting" /\ u.loc \in Houses ->
          {IF u.loc # u.goal THEN TakeWare([s EXCEPT !.ware[w].goal = u.loc], u.loc, w)
           ELSE [s EXCEPT !.ware[w].goal = None]}
    [] u.st # "waiting" /\ u.loc \notin Houses ->
          IF u.st = "carried" /\ u.loc = u.goal THEN {s} ELSE GoesToStore(s, w)

(* CancelWare: back into the stock of the house it waits in. *)
CancelWare(s, w) == [s EXCEPT !.stock[s.ware[w].loc] = @ + 1]

WareNotNeeded(s, w) ==
  IF s.ware[w].st = "waiting" THEN {[CancelWare(s, w) EXCEPT !.ware[w] = Gone]}
  ELSE GoalDestroyed(s, w)

(* Ware::FindRouteToWarehouse, for a ware without a goal. *)
FindRouteToWarehouse(s, w) ==
  IF s.ware[w].st = "flag" THEN GoesToStore(s, w)
  ELSE {[s EXCEPT !.ware[w].goal = h] : h \in FindWarehouse(s, s.ware[w].loc)}

FindClientForLostWares(s) ==
  ForEach(s, {w \in Existing(s) : s.ware[w].goal = None}, FindRouteToWarehouse)

(* Mutant: the clients are not asked what they still need. *)
FindAnyClient(s, w) ==
  LET Reached(S) == {b \in S \cap s.alive : Path(s, s.ware[w].loc, b)}
      clients == Reached(Usuals \cup s.planed)
  IN  IF clients = {} THEN GoesToStore(s, w)
      ELSE {TakeWare([s EXCEPT !.ware[w].goal = c], c, w) : c \in clients}

(* FindClientForWare: a client that still needs it, else a house that       *)
(* collects it, else any house that stores it.                              *)
FindClientForWare(s, w) ==
  LET Reached(S) == {b \in S \cap s.alive : Path(s, s.ware[w].loc, b)}
      clients == {c \in Reached(Usuals \cup s.planed) : Expects(s, c) # Room[c]}
      wants == Reached(Wants)
      best == IF clients # {} THEN clients ELSE wants
  IN  IF best = {} THEN GoesToStore(s, w)
      ELSE {TakeWare([s EXCEPT !.ware[w].goal = b], b, w) : b \in best}

-----------------------------------------------------------------------------
(* Pulling down.  GameClientPlayer::RoadDestroyed: every ware at a flag and  *)
(* every one that waits in a house looks whether its way still exists.       *)
ChecksItsWay(s, w) ==
  LET u == s.ware[w] IN
  CASE u.st = "flag" -> RecalcRoute(s, w)
    [] u.st = "waiting" /\ (u.goal = None \/ ~Path(s, u.loc, u.goal)) ->
          {[t EXCEPT !.ware[w] = Gone] : t \in NotifyGoalAboutLostWare(CancelWare(s, w), w)}
    [] OTHER -> {s}

RoadDestroyed(s) == ForEach(s, Existing(s), ChecksItsWay)

(* RoadSegment::Destroy, when neither end knows the road any more: carriers *)
(* and the others on it lose their wares.                                   *)
DestroyRoad(s, r) ==
  LET gone == [s EXCEPT !.roads = @ \ {r}]
  IN  Then(ForEach(gone, {w \in Wares : s.ware[w].via = r}, WareLost), RoadDestroyed)

DestroyDoor(s, b) ==
  LET gone == [s EXCEPT !.door = @ \ {b}]
      onIt == {w \in Wares : /\ s.ware[w].place \in {"out", "in", "fetched", "door"}
                             /\ FlagOf(s.ware[w].loc) = FlagAt[b]}
  IN  Then(ForEach(gone, onIt, WareLost), RoadDestroyed)

Listed(s, b) == {w \in Wares : s.ordered[b][w] > 0}

(* Destroy of a workshop or site, and of a warehouse. *)
DestroyClient(s, b) ==
  Then(ForEach(s, Listed(s, b), WareNotNeeded),
       LAMBDA t : DestroyDoor([t EXCEPT !.alive = @ \ {b},
                                        !.inventory = IF b \in Usuals THEN @ - t.have[b] ELSE @], b))

DestroyHouse(s, b) ==
  LET waiting(t) == {w \in Wares : t.ware[w].place = "waiting" /\ t.ware[w].loc = b}
      Empties(t) == ForEach(t, waiting(t), WareLost)
      Closes(t) == DestroyDoor([t EXCEPT !.inventory = @ - t.stock[b]], b)
  IN  Then(Then(ForEach([s EXCEPT !.alive = @ \ {b}], Listed(s, b), GoalDestroyed), Empties), Closes)

Nothing == [w \in Wares |-> 0]
Deleted(s, b) ==
  [s EXCEPT !.ordered[b] = Nothing,
            !.have = [c \in Clients |-> IF c = b THEN 0 ELSE @[c]],
            !.stock = [h \in Houses |-> IF h = b THEN 0 ELSE @[h]],
            !.goods = [h \in Houses |-> IF h = b THEN 0 ELSE @[h]]]
DestroyBuilding(s, b) ==
  {Deleted(t, b) : t \in IF b \in Houses THEN DestroyHouse(s, b) ELSE DestroyClient(s, b)}

(* GameWorldGame::DestroyFlag: the building, the wares, then the roads. *)
DestroyFlag(s, f) ==
  LET Building(t) == {b \in t.alive : FlagAt[b] = f}
      Lying(t) == {w \in Wares : t.ware[w].place = "flag" /\ t.ware[w].loc = f}
      RoadsOf(t) == {r \in t.roads : f \in {Ends[r][1], Ends[r][2]}}
      Empty(t) == ForEach([t EXCEPT !.flags = @ \ {f}], Lying(t), WareLost)
      Roadless(t) == ForEach(t, RoadsOf(t), DestroyRoad)
  IN  Then(Then(ForEach(s, Building(s), DestroyBuilding), Empty), Roadless)

-----------------------------------------------------------------------------
(* The player. *)
NobodyCarriesLost ==
  \A w \in Wares : ware[w].goal = None => ware[w].place \in {"none", "flag"}

PullDownBuilding(b) == b \in Doomed \cap alive /\ \E t \in DestroyBuilding(Scene, b) : Becomes(t)
PullDownRoad(r) == r \in Doomed \cap roads /\ \E t \in DestroyRoad(Scene, r) : Becomes(t)
PullDownFlag(f) == f \in Doomed \cap flags /\ \E t \in DestroyFlag(Scene, f) : Becomes(t)

(* GameClientPlayer::NewRoad. *)
BuildRoad(r) ==
  /\ r \notin roads /\ {Ends[r][1], Ends[r][2]} \subseteq flags
  /\ Patient => NobodyCarriesLost
  /\ \E t \in Then(FindMaterialForBuildingSites([Scene EXCEPT !.roads = @ \cup {r}]),
                   FindClientForLostWares) : Becomes(t)

(* ChangeRealInventorySetting: a store is closed or opened. *)
ChangeSetting(h) ==
  /\ h \in Closable \cap alive
  /\ Patient => NobodyCarriesLost
  /\ LET s == [Scene EXCEPT !.closed = IF h \in @ THEN @ \ {h} ELSE @ \cup {h}]
     IN  \E t \in FindClientForLostWares(s) : Becomes(t)

-----------------------------------------------------------------------------
(* Clients.  A workshop orders one from time to time while it has room, and *)
(* at once when it has less than two left.                                  *)
OrderEvent(b) ==
  /\ b \in alive \cap Usuals
  /\ Expects(Scene, b) < Room[b]
  /\ \E t \in OrderWare(Scene, b) : Becomes(t)

ConsumeWares(b) ==
  /\ b \in alive \cap Usuals /\ have[b] > 0
  /\ LET s == [Scene EXCEPT !.have[b] = @ - 1, !.inventory = @ - 1]
     IN  \E t \in IF s.have[b] < 2 THEN OrderWare(s, b) ELSE {s} : Becomes(t)

PlaningFinished(b) ==
  /\ b \in (alive \cap Sites) \ planed
  /\ \E t \in OrderConstructionMaterial([Scene EXCEPT !.planed = @ \cup {b}], b) : Becomes(t)

(* The builder has used everything: he deletes the site and tells nobody.  *)
(* The house in its place is not modelled.                                 *)
Complete(b) ==
  /\ b \in alive \cap planed /\ have[b] = Room[b]
  /\ LET s == [Scene EXCEPT !.alive = @ \ {b}, !.door = @ \ {b}] IN Becomes(Deleted(s, b))

(* nofBuildingWorker::WorkingReady: a new ware at the flag of its maker. *)
WorkingReady(f) ==
  /\ f \in Makers \cap flags
  /\ Cardinality(Existing(Scene)) + Total(stock) < Cardinality(Wares)
  /\ LET w == NextWare(Scene)
         s == [Scene EXCEPT !.ware[w] = At("flag", "flag", f, None), !.inventory = @ + 1]
     IN  \E t \in Then(FindClientForWare(s, w), LAMBDA u : RecalcRoute(u, w)) : Becomes(t)

-----------------------------------------------------------------------------
(* Houses.  The leaving event sends a worker out with a waiting ware. *)
LeaveHouse(w) ==
  /\ ware[w].place = "waiting"
  /\ LET h == ware[w].loc IN
     Becomes([Scene EXCEPT !.ware[w] = At("out", "carried", FlagAt[h], @.goal),
                           !.goods[h] = @ - 1])

(* nofWarehouseWorker: he puts the ware down, or takes it back in when the *)
(* flag is full; it then waits again, but its state stays carried.         *)
HouseAt(f) == CHOOSE h \in Houses : FlagAt[h] = f
WorkerAtFlag(w) ==
  /\ ware[w].place = "out"
  /\ \/ LET s == [Scene EXCEPT !.ware[w].place = "flag", !.ware[w].st = "flag"]
        IN  \E t \in RecalcRoute(s, w) : Becomes(t)
     \/ Becomes([Scene EXCEPT !.ware[w] = At("in", "carried", HouseAt(@.loc), @.goal)])

AddWaitingWare(w) ==
  /\ ware[w].place = "in"
  /\ Becomes([Scene EXCEPT !.ware[w].place = "waiting", !.goods[ware[w].loc] = @ + 1])

(* A worker fetches a ware that lies in front of the house it goes to. *)
FetchWare(w) ==
  /\ ware[w].place = "flag" /\ ware[w].goal \in Houses /\ FlagAt[ware[w].goal] = ware[w].loc
  /\ Becomes([Scene EXCEPT !.ware[w] = At("fetched", "carried", @.goal, @.goal)])

(* nobBaseWarehouse::AddWare: the sites are told. *)
Stored(s, h, w) ==
  FindMaterialForBuildingSites(
    [Erase(s, h, w) EXCEPT !.ware[w] = Gone, !.stock[h] = @ + 1, !.goods[h] = @ + 1])

WorkerBack(w) ==
  /\ ware[w].place = "fetched"
  /\ \E t \in Stored(Scene, ware[w].loc, w) : Becomes(t)

(* The event of a house that sends the ware out, and of one that collects it *)
(* from the others.                                                          *)
EmptyEvent(h) ==
  /\ h \in Outs \cap alive /\ stock[h] > 0
  /\ LET w == NextWare(Scene)
         s == [Scene EXCEPT !.ware[w] = At("waiting", "waiting", h, None), !.stock[h] = @ - 1]
     IN  \E t \in FindClientForWare(s, w) : Becomes(t)

StoreEvent(h) ==
  /\ h \in Wants \cap alive
  /\ \E from \in (alive \cap Houses) \ Wants :
        stock[from] > 0 /\ Path(Scene, from, h) /\ Becomes(OrderFrom(Scene, from, h))

-----------------------------------------------------------------------------
(* Carriers.  A ware leaves along a road of a path to its goal; a carrier   *)
(* has one ware.                                                            *)
TakeAlong(w, r) ==
  LET u == ware[w]
      e == IF Ends[r][1] = u.loc THEN 2 ELSE 1
      others == {q \in roads : u.loc \notin {Ends[q][1], Ends[q][2]}}
  IN  /\ u.place = "flag" /\ u.goal # None /\ u.loc # FlagAt[u.goal]
      /\ r \in roads /\ u.loc \in {Ends[r][1], Ends[r][2]}
      /\ \A v \in Wares : ware[v].via # r
      /\ Connected(others, Ends[r][e], FlagAt[u.goal])
      /\ Becomes([Scene EXCEPT !.ware[w] = [At("road", "carried", Ends[r][e], u.goal) EXCEPT !.via = r]])

(* nofCarrier::WantInBuilding looks anew where the ware wants to go, also   *)
(* when the carrier then stands and waits for room at the flag.             *)
Waits(w) ==
  /\ ware[w].place = "road" /\ \E b \in door : FlagAt[b] = ware[w].loc
  /\ \E t \in RecalcRoute(Scene, w) : Becomes(t)

(* Mutant: only warehouses are entered. *)
ArriveAtStores(w) ==
  LET PutDown(t) ==
        LET u == t.ware[w] IN
        IF u.goal \in Houses /\ FlagAt[u.goal] = u.loc
        THEN [t EXCEPT !.ware[w].place = "door", !.ware[w].loc = u.goal]
        ELSE [t EXCEPT !.ware[w] = At("flag", "flag", u.loc, u.goal)]
  IN  /\ ware[w].place = "road"
      /\ \E t \in RecalcRoute(Scene, w) : Becomes(PutDown(t))

Arrive(w) ==
  LET PutDown(t) ==
        LET u == t.ware[w] IN
        IF u.goal # None /\ FlagAt[u.goal] = u.loc
        THEN [t EXCEPT !.ware[w].place = "door", !.ware[w].loc = u.goal]
        ELSE [t EXCEPT !.ware[w] = At("flag", "flag", u.loc, u.goal)]
  IN  /\ ware[w].place = "road"
      /\ \E t \in RecalcRoute(Scene, w) : Becomes(PutDown(t))

(* AddWare of the building behind the door. *)
Deliver(w) ==
  LET b == ware[w].loc
      s == [Erase(Scene, b, w) EXCEPT !.ware[w] = Gone]
  IN  /\ ware[w].place = "door"
      /\ \/ b \in Houses /\ \E t \in Stored(Scene, b, w) : Becomes(t)
         \/ b \in Usuals /\ Becomes([s EXCEPT !.have[b] = @ + 1])
         \/ b \in Sites /\ Becomes([s EXCEPT !.have[b] = @ + 1, !.inventory = @ - 1])

-----------------------------------------------------------------------------
Init ==
  /\ alive = Buildings /\ door = Buildings /\ flags = Flags /\ roads = Roads
  /\ ware = [w \in Wares |-> Gone] /\ ordered = [b \in Buildings |-> Nothing]
  /\ have = [c \in Clients |-> 0] /\ planed = {}
  /\ stock = InStock /\ goods = InStock /\ closed = {}
  /\ inventory = Total(InStock)

Next ==
  \/ \E b \in Buildings :
        \/ PullDownBuilding(b) \/ ChangeSetting(b) \/ OrderEvent(b) \/ ConsumeWares(b)
        \/ PlaningFinished(b) \/ Complete(b) \/ EmptyEvent(b) \/ StoreEvent(b)
  \/ \E f \in Flags : PullDownFlag(f) \/ WorkingReady(f)
  \/ \E r \in Roads : PullDownRoad(r) \/ BuildRoad(r)
  \/ \E w \in Wares :
        \/ LeaveHouse(w) \/ WorkerAtFlag(w) \/ AddWaitingWare(w) \/ FetchWare(w)
        \/ WorkerBack(w) \/ Waits(w) \/ Arrive(w) \/ Deliver(w)
        \/ \E r \in Roads : TakeAlong(w, r)

Spec == Init /\ [][Next]_vars

-----------------------------------------------------------------------------
(* Types: what there is, in its place.  A carried ware that went back into   *)
(* its house waits there with the state of a carried one.                    *)
TypeOK ==
  /\ alive \subseteq Buildings /\ door = alive /\ flags \subseteq Flags /\ roads \subseteq Roads
  /\ ware \in [Wares -> {Gone} \cup
       [place : Places, st : {"waiting", "flag", "carried"}, loc : Buildings \cup Flags,
        goal : Buildings \cup {None}, via : Roads \cup {None}]]
  /\ ordered \in [Buildings -> [Wares -> 0..1]]
  /\ have \in [Clients -> Nat] /\ planed \subseteq Sites
  /\ stock \in [Houses -> Nat] /\ goods \in [Houses -> Nat]
  /\ closed \subseteq Closable /\ inventory \in Nat
  /\ \A w \in Existing(Scene) :
        /\ (ware[w].st = "flag") <=> (ware[w].place = "flag")
        /\ (ware[w].st = "waiting") => (ware[w].place = "waiting")

(* No ware points to a building that is gone, or is carried towards, lies    *)
(* at or waits in something that is gone: Ware::goal and Ware::location are  *)
(* plain pointers, and RecalcRoute and GoalDestroyed follow them.            *)
NothingDangles ==
  \A w \in Existing(Scene) :
     ware[w].goal \in alive \cup {None} /\ ware[w].loc \in alive \cup flags

(* A building lists a ware exactly once if the ware is meant for it, and not *)
(* at all otherwise: Destroy tells exactly the listed ones, and erase takes  *)
(* the first.                                                                *)
ListedOnce ==
  /\ TypeOK
  /\ \A b \in alive, w \in Wares :
       ordered[b][w] = IF ware[w] # Gone /\ ware[w].goal = b THEN 1 ELSE 0

(* The inventory of the player counts the wares that exist: in stock, on the *)
(* way and in the workshops (a site's are counted as used); and what a house *)
(* shows is what it has and what waits in it.  Both counts are decremented   *)
(* with an assertion that there is something to take away.  And a client     *)
(* never has and expects more than it has room for: a site is deleted as     *)
(* soon as it is built, without telling the wares still on their way, and    *)
(* CalcDistributionPoints asks for equality.                                 *)
CountsExact ==
  /\ \A c \in alive \cap Clients : Expects(Scene, c) <= Room[c]
  /\ inventory = Total(stock) + Cardinality(Existing(Scene)) + Total([b \in Usuals |-> have[b]])
  /\ \A h \in Houses : goods[h] = stock[h]
       + Cardinality({w \in Wares : ware[w].place = "waiting" /\ ware[w].loc = h})

(* No ware lies in front of the workshop or site it is meant for, where      *)
(* nobody would ever fetch it (the warnings of RoadSegment::AddWareJob).     *)
NotLeftAtTheDoor ==
  \A w \in Existing(Scene) :
     ware[w].place = "flag" /\ ware[w].goal \in Clients => FlagAt[ware[w].goal] # ware[w].loc
=============================================================================
