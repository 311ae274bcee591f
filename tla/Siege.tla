------------------------------- MODULE Siege -------------------------------
(***************************************************************************)
(* The siege of one military building: nobMilitary.cpp and                 *)
(* nobBaseMilitary.cpp with the soldiers that fight for it, nofAttacker.cpp*)
(* and nofDefender.cpp (on foot; attacks over the sea are left out).       *)
(*                                                                         *)
(* Attackers walk to the flag before the building or stand around it.  Who *)
(* reaches the flag calls a defender out and fights it; when nobody comes  *)
(* out he walks in, takes the building for his player and calls others in. *)
(* The building counts: soldiers inside, ordered, out on missions, walking *)
(* in to hold it.  Between two steps of a soldier everything else happens: *)
(* his home burns, soldiers come back, a catapult hits, others attack.     *)
(*                                                                         *)
(* The building and its soldiers hold pointers to each other and tell each *)
(* other when they go.  A handler calls handlers of other objects, so each *)
(* is an operator from a state to the set of states it may leave; paths,   *)
(* distances, dice and ranks are choices.  An action is one event.         *)
(***************************************************************************)
EXTENDS Integers, FiniteSets

CONSTANTS Players,
          FirstOwner,  \* who built the building
          Leagues,     \* possible values of enemies
          Attackers,   \* the soldiers sent against the building
          Party,       \* Party[a]: the player of an attacker
          Needs,       \* the garrisons CalcTroopsCount asks for
          MaxQueue,    \* bound: soldiers queueing to leave on a mission
          MaxEntering, \* bound: the counter of the soldiers walking in
          UnsignedMax, \* its largest value (2^32 - 1 in the code)
          Nobody, NoFoe, Anyone

ASSUME SiegeAssumption ==
  /\ FirstOwner \in Players /\ Leagues \subseteq SUBSET (Players \X Players)
  /\ \A E \in Leagues, p \in Players : <<p, p>> \notin E
  /\ IsFiniteSet(Attackers)
  /\ Party \in [Attackers -> Players]
  /\ Needs # {} /\ Needs \subseteq Nat \ {0}
  /\ MaxQueue \in {1, 2} /\ MaxEntering \in Nat /\ UnsignedMax \in Nat /\ MaxEntering < UnsignedMax
  /\ Nobody \notin Players /\ Anyone \notin Players /\ NoFoe \notin Attackers

VARIABLES
  enemies,     \* the pairs of players <<p, q>> where p may attack q
  owner,       \* its player, Nobody once it has burnt down
  troops,      \* soldiers inside
  need,        \* what CalcTroopsCount says
  ordered,     \* ordered_troops, on their way from a warehouse
  queued, out, \* troops_on_mission, those still in leave_house and the others
  capturing,   \* is it being taken, so that it orders no troops
  capturing_soldiers,
  defender,    \* the state of the soldier who defends the flag
  foe,         \* his nofDefender::attacker
  man,         \* nofAttacker: state, attacked_goal, building (is there a home)
  aggressors, far_away_capturers

vars == <<enemies, owner, troops, need, ordered, queued, out, capturing, capturing_soldiers,
          defender, foe, man, aggressors, far_away_capturers>>

Scene == [owner |-> owner, troops |-> troops, need |-> need, ordered |-> ordered,
          queued |-> queued, out |-> out, capturing |-> capturing,
          entering |-> capturing_soldiers, def |-> defender, foe |-> foe, man |-> man,
          aggr |-> aggressors, far |-> far_away_capturers]
Becomes(s) ==
  /\ s.entering \in 0..MaxEntering \cup {UnsignedMax}
  /\ owner' = s.owner /\ troops' = s.troops /\ need' = s.need /\ ordered' = s.ordered
  /\ queued' = s.queued /\ out' = s.out /\ capturing' = s.capturing
  /\ capturing_soldiers' = s.entering /\ defender' = s.def /\ foe' = s.foe /\ man' = s.man
  /\ aggressors' = s.aggr /\ far_away_capturers' = s.far
OneOf(S) == \E s \in S : Becomes(s)

(* The states of an attacker: to the goal, around it, walking to the flag    *)
(* because the defender waits there, waiting there for the defender,         *)
(* fighting him, walking in as the first, called to walk in (to the flag,    *)
(* then through the door), in a fight with somebody else; away stands for    *)
(* home, dead, wandering or on the way home.                                 *)
ManStates == {"away", "walking", "around", "toflag", "waiting", "fighting",
              "first", "next", "door", "free"}
DefenderStates == {"none", "to", "waiting", "fighting", "from"}
Gone == [st |-> "away", goal |-> FALSE, home |-> FALSE]

Put(s, a, st) == [s EXCEPT !.man[a].st = st]
Depart(s, a) == [s EXCEPT !.man[a] = Gone]
In(s, st) == {a \in Attackers : s.man[a].st = st}
Down(n) == IF n = 0 THEN UnsignedMax ELSE n - 1
Least(i, j) == IF i < j THEN i ELSE j

-----------------------------------------------------------------------------
(* The garrison. *)

(* nobMilitary::RegulateTroops. *)
Expected(s) ==
  s.troops + s.ordered + s.queued + s.out + Cardinality(s.far)
    + (IF s.def \in {"waiting", "fighting"} THEN 1 ELSE 0)

RegulateTroops(s) ==
  LET diff == s.need - Expected(s)
      refused == Least(s.ordered, 0 - diff)
      leave == Least(0 - diff - refused, s.troops - 1)
      fewer == [s EXCEPT !.ordered = @ - refused]
  IN  CASE s.capturing \/ diff = 0 -> {s}
        [] ~s.capturing /\ diff > 0 -> {[s EXCEPT !.ordered = @ + k] : k \in 0..diff}
        [] OTHER -> {fewer} \cup (IF leave > 0 THEN {[fewer EXCEPT !.troops = @ - leave]} ELSE {})

(* The assertion that the soldier is the owner's does not hold for everybody *)
(* who is called by WalkToDoor for want of a way.                            *)
AddActiveSoldier(s) == RegulateTroops([s EXCEPT !.troops = @ + 1])

(* Mutant: the list of the far-away capturers is forgotten. *)
AggressorsOnly(s, a) ==
  LET t == [s EXCEPT !.aggr = @ \ {a}]
  IN  IF t.aggr = {} THEN RegulateTroops(t) ELSE {t}

(* nobMilitary::UnlinkAggressor. *)
UnlinkAggressor(s, a) ==
  LET t == [s EXCEPT !.aggr = @ \ {a}, !.far = @ \ {a}]
  IN  IF t.aggr = {} THEN RegulateTroops(t) ELSE {t}

(* nobBaseMilitary::CancelJobs: the loop passes over the second of two. *)
CancelJobs(s) ==
  IF s.queued = 0 THEN {s} ELSE AddActiveSoldier([s EXCEPT !.queued = @ - 1])

(* nobBaseMilitary::CallDefender and nobMilitary::ProvideDefender: there is  *)
(* a defender afterwards unless the building is empty.                       *)
CallDefender(s, a) ==
  LET inside == IF s.troops = 0 THEN CancelJobs(s) ELSE {s}
      Sent(t) == [t EXCEPT !.troops = @ - 1, !.def = "to", !.foe = a]
  IN  IF s.def # "none" THEN CancelJobs([s EXCEPT !.foe = a])
      ELSE UNION {IF t.troops = 0 THEN {t} ELSE CancelJobs(Sent(t)) : t \in inside}

(* Mutant: the last soldier goes, too. *)
SendLast(s) ==
  IF s.troops > 0 /\ s.queued < MaxQueue
  THEN {[s EXCEPT !.troops = @ - 1, !.queued = @ + 1]} ELSE {}

(* nobMilitary::SendDefender, against an attacker somewhere else. *)
SendDefender(s) ==
  IF s.troops > 1 /\ s.queued < MaxQueue
  THEN {[s EXCEPT !.troops = @ - 1, !.queued = @ + 1]} ELSE {}

-----------------------------------------------------------------------------
(* Attackers who are sent away or called in. *)

(* nofAttacker::ReturnHomeMissionAttacking, and whatever else ends an attack *)
(* with word to the goal.                                                    *)
Leave(s, a) ==
  {Depart(t, a) : t \in IF s.man[a].goal THEN UnlinkAggressor(s, a) ELSE {s}}

(* The soldiers who are walking in. *)
Entering(s) == In(s, "next") \cup In(s, "door")

(* nofAttacker::CapturedBuildingFull of everybody who is dismissed. *)
CapturedBuildingFull(s, dismissed) ==
  [a \in Attackers |->
     CASE a \in dismissed /\ s.man[a].st = "around" -> Gone
       [] a \in dismissed /\ s.man[a].st \in {"walking", "waiting", "toflag", "free"} ->
            [s.man[a] EXCEPT !.goal = FALSE]
       [] OTHER -> s.man[a]]

(* Mutant: only those who stand around are sent home. *)
DismissWaiting(s, kept) ==
  LET dismissed == (s.aggr \ kept) \cap In(s, "around")
  IN  {[s EXCEPT !.aggr = @ \ (kept \cup dismissed), !.far = @ \cup kept,
                 !.man = CapturedBuildingFull(s, dismissed), !.capturing = FALSE]}

(* The rest goes home, but those of kept, who become far-away capturers.  A *)
(* soldier who stood around may be the last of the list: the building then  *)
(* regulates its troops when he unlinks.                                    *)
Dismiss(s, kept) ==
  LET dismissed == s.aggr \ (kept \cup Entering(s))
      t == [s EXCEPT !.aggr = @ \cap Entering(s), !.far = @ \cup kept,
                     !.man = CapturedBuildingFull(s, dismissed)]
      last == t.aggr = {} /\ dismissed \cap In(s, "around") # {}
  IN  {[u EXCEPT !.capturing = FALSE] : u \in {t} \cup (IF last THEN RegulateTroops(t) ELSE {})}

(* nofAttacker::TryToStartFarAwayCapturing, who may be among those kept. *)
FarAwayCapturers(s) ==
  {b \in s.aggr : Party[b] = s.owner /\ s.man[b].st \in {"walking", "free"}}

(* nobMilitary::NeedOccupyingTroops: another soldier of player p is called  *)
(* in, or of anybody; without one, or with enough, the capture is over.     *)
NeedOccupyingTroops(s, p) ==
  LET coming == s.troops + s.entering + s.queued + s.out + s.ordered
      ready == {b \in s.aggr \cap In(s, "around") : p \in {Party[b], Anyone}}
      CaptureBuilding(b) == [Put(s, b, "next") EXCEPT !.entering = @ + 1]
      kept == {F \in SUBSET FarAwayCapturers(s) :
                  F = {} \/ Cardinality(F) + coming + Cardinality(s.far) <= s.need}
  IN  IF s.need > coming
      THEN {CaptureBuilding(b) : b \in ready} \cup UNION {Dismiss(s, F) : F \in kept}
      ELSE UNION {RegulateTroops(t) : t \in Dismiss(s, {})}

-----------------------------------------------------------------------------
(* An attacker on his way. *)

(* Mutant: there is room beside an attacker who waits at the flag. *)
FlagForTwo(s) ==
  IF s.def \notin {"waiting", "fighting"} /\ ~s.capturing THEN {"flag"} ELSE {"spot", "none"}

(* nobBaseMilitary::FindAnAttackerPlace: the flag if nobody stands or fights *)
(* there and the building is not being taken, else a place around, if any.   *)
PlacesFor(s) ==
  IF s.def \notin {"waiting", "fighting"} /\ In(s, "waiting") = {} /\ ~s.capturing
  THEN {"flag"} ELSE {"spot", "none"}

(* Mutant: a far-away capturer is not counted. *)
AtFlagUncounted(s, a) ==
  IF s.owner = Party[a]
  THEN {[t EXCEPT !.far = @ \ {a}, !.aggr = @ \cup {a}] :
           t \in NeedOccupyingTroops(Put(s, a, "door"), Party[a])}
  ELSE {Put(t, a, IF t.def # "none" THEN "waiting" ELSE "first") : t \in CallDefender(s, a)}

(* nofAttacker::ReachedDestination at the flag. *)
AtFlag(s, a) ==
  IF s.owner = Party[a]
  THEN {[t EXCEPT !.far = @ \ {a}, !.aggr = @ \cup {a}, !.entering = @ + 1] :
           t \in NeedOccupyingTroops(Put(s, a, "door"), Party[a])}
  ELSE {Put(t, a, IF t.def # "none" THEN "waiting" ELSE "first") : t \in CallDefender(s, a)}

(* nofAttacker::MissAttackingWalk of a soldier who is at some place. *)
MissAttackingWalk(s, a, at) ==
  LET onward == {s, Put(s, a, "free")} \cup SendDefender(s) \cup Leave(s, a)
      To(place) == CASE place = "none" -> Leave(s, a)
                     [] place = "flag" -> IF at = "flag" THEN AtFlag(s, a) ELSE onward
                     [] OTHER -> (IF at = "spot" THEN {Put(s, a, "around")} ELSE {}) \cup onward
  IN  IF ~s.man[a].home \/ ~s.man[a].goal THEN Leave(s, a)
      ELSE UNION {To(place) : place \in PlacesFor(s)}

Moves(s, a, at) == MissAttackingWalk(Put(s, a, "walking"), a, at)

(* nobBaseMilitary::SendSuccessor and nofAttacker::StartSucceeding: one who  *)
(* waits takes the free place, after another has taken his.                  *)
SendSuccessor(s) ==
  LET ready == s.aggr \cap In(s, "around")
      After(b) == {s} \cup UNION {Moves(s, c, "spot") : c \in ready \ {b}}
  IN  {s} \cup UNION {UNION {Moves(t, b, "spot") : t \in After(b)} : b \in ready}

(* nobBaseMilitary::FindAttackerNearBuilding for the defender, who waits     *)
(* even when nofAttacker::AttackFlag found no way, or goes back in.          *)
FindAttackerNearBuilding(s) ==
  LET ready == s.aggr \cap In(s, "around")
      AttackFlag(b) == {s} \cup SendSuccessor(Put(s, b, "toflag"))
  IN  IF ready = {} THEN {[s EXCEPT !.def = "from", !.foe = NoFoe]}
      ELSE UNION {{[t EXCEPT !.def = "waiting", !.foe = b] : t \in AttackFlag(b)} : b \in ready}

(* nobMilitary::Destroy: everybody who is listed hears of it.  A fight goes  *)
(* on to its end.                                                            *)
Destroy(s) ==
  LET told == s.aggr \cup s.far
      After(a) == IF a \notin told THEN s.man[a]
                  ELSE IF s.man[a].st \in {"around", "waiting"} THEN Gone
                  ELSE [s.man[a] EXCEPT !.goal = FALSE]
  IN  [s EXCEPT !.owner = Nobody, !.troops = 0, !.ordered = 0, !.queued = 0, !.out = 0,
                !.capturing = FALSE, !.entering = 0, !.foe = NoFoe, !.aggr = {}, !.far = {},
                !.def = IF @ = "fighting" THEN @ ELSE "none",
                !.man = [a \in Attackers |-> After(a)]]

(* nobMilitary::Capture for player p: the soldiers who are out lose their    *)
(* home, orders are cancelled, and the frontier is looked at again before    *)
(* the building counts as being captured.                                    *)
Capture(s, p) ==
  LET taken(n) == [s EXCEPT !.out = 0, !.queued = 0, !.ordered = 0, !.owner = p, !.need = n]
  IN  {[t EXCEPT !.capturing = TRUE, !.entering = Down(@)] :
          t \in UNION {RegulateTroops(taken(n)) : n \in Needs}}

-----------------------------------------------------------------------------
(* Attackers: one action per state. *)

(* GameWorldGame::Attack: a building that is being captured is left alone. *)
Attack(a) ==
  /\ man[a].st = "away" /\ owner # Nobody /\ ~capturing /\ <<Party[a], owner>> \in enemies
  /\ man' = [man EXCEPT ![a] = [st |-> "walking", goal |-> TRUE, home |-> TRUE]]
  /\ aggressors' = aggressors \cup {a}
  /\ UNCHANGED <<owner, troops, need, ordered, queued, out, capturing, capturing_soldiers,
                 defender, foe, far_away_capturers>>

(* A field further, STATE_ATTACKING_WALKINGTOGOAL. *)
WalkToGoal(a) ==
  /\ man[a].st = "walking"
  /\ \E at \in {"elsewhere", "spot", "flag"} : OneOf(MissAttackingWalk(Scene, a, at))

(* Still in the queue of his home: it burns or needs him for its defence. *)
CancelledAtHome(a) ==
  /\ man[a].st = "walking" /\ OneOf(Leave(Scene, a))

(* STATE_ATTACKING_ATTACKINGFLAG. *)
WalkToFlag(a) ==
  LET waits == defender = "waiting"
      Arrested(t) == IF waits THEN FindAttackerNearBuilding(t) ELSE {t}
      Fight == [Put(Scene, a, "fighting") EXCEPT !.def = "fighting"]
  IN  /\ man[a].st = "toflag"
      /\ IF ~man[a].goal THEN OneOf(Leave(Scene, a))
         ELSE \/ OneOf(IF waits THEN {Fight} ELSE Moves(Scene, a, "flag"))
              \/ \E at \in {"elsewhere", "spot"} :
                    OneOf(UNION {Arrested(t) : t \in Moves(Scene, a, at)})

(* STATE_ATTACKING_CAPTURINGFIRST, at the building. *)
EnterFirst(a) ==
  LET p == Party[a]
      Moved(t) == {Depart(u, a) : u \in AddActiveSoldier(t)}
      captured == UNION {UnlinkAggressor(t, a) : t \in Capture(Scene, p)}
      inside == UNION {Moved(t) : t \in captured}
  IN  /\ man[a].st = "first"
      /\ OneOf(IF ~man[a].goal THEN Leave(Scene, a)
               ELSE IF troops > 0
               THEN {[Put(Scene, a, "walking") EXCEPT !.capturing = FALSE]}
               ELSE UNION {NeedOccupyingTroops(t, p) : t \in inside})

(* Mutant: who finds no way calls nobody else. *)
WalkToDoorSilently(a) ==
  /\ man[a].st = "next"
  /\ OneOf(Leave(Scene, a) \cup NeedOccupyingTroops(Put(Scene, a, "door"), Party[a]))

(* nofAttacker::CapturingWalking: at the flag, or not there yet and without  *)
(* a home or without a way.                                                  *)
WalkToDoor(a) ==
  /\ man[a].st = "next"
  /\ IF ~man[a].goal THEN OneOf(Leave(Scene, a))
     ELSE \/ OneOf(NeedOccupyingTroops(Put(Scene, a, "door"), Party[a]))
          \/ OneOf(IF man[a].home
                   THEN UNION {Leave(t, a) : t \in NeedOccupyingTroops(Scene, Anyone)}
                   ELSE {Depart(u, a) : u \in UNION {NeedOccupyingTroops(t, Anyone) :
                                                       t \in UnlinkAggressor(Scene, a)}})

(* nofAttacker::CapturingWalking, in the building. *)
EnterNext(a) ==
  LET inside == {[t EXCEPT !.entering = Down(@)] : t \in AddActiveSoldier(Scene)}
  IN  /\ man[a].st = "door"
      /\ OneOf(IF ~man[a].goal THEN Leave(Scene, a)
               ELSE {Depart(t, a) : t \in UNION {UnlinkAggressor(u, a) : u \in inside}})

(* nofActiveSoldier::MeetEnemy: an enemy soldier nearby wants to fight. *)
MeetEnemy(a) ==
  /\ man[a].st \in {"walking", "around"}
  /\ Becomes(Put(Scene, a, "free"))

(* The end of that fight, or of waiting for it. *)
FreeFightEnds(a) ==
  /\ man[a].st = "free"
  /\ OneOf(Leave(Scene, a) \cup Moves(Scene, a, "elsewhere"))

(* nofAttacker::HomeDestroyed. *)
HomeDestroyed(a) ==
  LET gone == {Depart(t, a) : t \in UnlinkAggressor(Scene, a)}
  IN  /\ man[a].home
      /\ OneOf(IF man[a].st = "around" THEN UNION {SendSuccessor(t) : t \in gone}
               ELSE {[Scene EXCEPT !.man[a].home = FALSE]})

-----------------------------------------------------------------------------
(* The defender. *)

(* nofDefender::Walked: at the flag he fights the attacker he was told of,   *)
(* at home he turns round for one or goes back into the garrison.            *)
DefenderAtFlag ==
  /\ defender = "to"
  /\ Becomes([Put(Scene, foe, "fighting") EXCEPT !.def = "fighting"])

DefenderAtHome ==
  /\ defender = "from"
  /\ OneOf(IF foe # NoFoe THEN {[Scene EXCEPT !.def = "to"]}
           ELSE {[t EXCEPT !.def = "none"] : t \in AddActiveSoldier(Scene)})

(* noFighting::HandleEvent.  A fight takes longer than the step from the     *)
(* flag through the door, and nobody sets out on that step during a fight.   *)
DoorStepOver == In(Scene, "door") = {}

(* nofDefender::LostFighting and nofAttacker::WonFighting. *)
AttackerWins(a) ==
  LET dead == [Scene EXCEPT !.def = "none", !.foe = NoFoe]
      PrepareCapturing(t) == [Put(t, a, "first") EXCEPT !.capturing = TRUE, !.entering = @ + 1]
      ContinueAtFlag(t) == {IF u.def # "none" THEN Put(u, a, "waiting") ELSE PrepareCapturing(u) :
                              u \in CallDefender(t, a)}
  IN  /\ man[a].st = "fighting" /\ DoorStepOver
      /\ OneOf(IF ~man[a].goal THEN Leave(dead, a)
               ELSE UNION {ContinueAtFlag(t) :
                             t \in IF troops > 0 THEN RegulateTroops(dead) ELSE {dead}})

(* nofAttacker::LostFighting and nofDefender::WonFighting. *)
DefenderWins(a) ==
  LET won == {[t EXCEPT !.foe = NoFoe] : t \in Leave(Scene, a)}
  IN  /\ man[a].st = "fighting" /\ DoorStepOver
      /\ OneOf(IF owner = Nobody THEN {[t EXCEPT !.def = "none"] : t \in won}
               ELSE UNION {FindAttackerNearBuilding(t) : t \in won})

-----------------------------------------------------------------------------
(* The garrison. *)

(* Its own attacks and aggressive defenders leave and come back or not. *)
SoldierOnMission == owner # Nobody /\ OneOf(SendDefender(Scene))

MissionLeaves ==
  /\ queued > 0
  /\ Becomes([Scene EXCEPT !.queued = @ - 1, !.out = @ + 1])

MissionReturns ==
  /\ out > 0
  /\ OneOf(AddActiveSoldier([Scene EXCEPT !.out = @ - 1]))

SoldierLost ==
  \/ out > 0 /\ OneOf(RegulateTroops([Scene EXCEPT !.out = @ - 1]))
  \/ ordered > 0 /\ OneOf(RegulateTroops([Scene EXCEPT !.ordered = @ - 1]))

AddPassiveSoldier ==
  /\ ordered > 0
  /\ Becomes([Scene EXCEPT !.ordered = @ - 1, !.troops = @ + 1])

(* Frontiers and military settings change, and enemy buildings appear. *)
NewEnemyMilitaryBuilding ==
  /\ owner # Nobody
  /\ \E n \in Needs : OneOf(RegulateTroops([Scene EXCEPT !.need = n]))

HitOfCatapultStone ==
  LET hit == [Scene EXCEPT !.troops = IF @ > 0 THEN @ - 1 ELSE 0]
  IN  /\ owner # Nobody
      /\ OneOf(IF hit.troops = 0 THEN {Destroy(hit)} ELSE RegulateTroops(hit))

PulledDown == owner # Nobody /\ Becomes(Destroy(Scene))

(* The ruins, with nobody about. *)
Over ==
  /\ owner = Nobody /\ In(Scene, "away") = Attackers
  /\ UNCHANGED vars

-----------------------------------------------------------------------------
Init ==
  /\ enemies \in Leagues
  /\ owner = FirstOwner /\ troops = 1 /\ need \in Needs /\ ordered = need - 1
  /\ queued = 0 /\ out = 0 /\ capturing = FALSE /\ capturing_soldiers = 0
  /\ defender = "none" /\ foe = NoFoe /\ man = [a \in Attackers |-> Gone]
  /\ aggressors = {} /\ far_away_capturers = {}

Attacker(a) ==
  \/ WalkToGoal(a) \/ WalkToFlag(a) \/ EnterFirst(a) \/ WalkToDoor(a) \/ EnterNext(a)
  \/ AttackerWins(a) \/ DefenderWins(a) \/ FreeFightEnds(a)

Defend == DefenderAtFlag \/ DefenderAtHome

Garrison ==
  \/ SoldierOnMission \/ MissionLeaves \/ MissionReturns \/ SoldierLost \/ AddPassiveSoldier
  \/ NewEnemyMilitaryBuilding \/ HitOfCatapultStone \/ PulledDown

Next ==
  /\ \/ \E a \in Attackers : Attack(a) \/ CancelledAtHome(a) \/ MeetEnemy(a)
                               \/ HomeDestroyed(a) \/ Attacker(a)
     \/ Defend \/ Garrison \/ Over
  /\ UNCHANGED enemies

(* A soldier on his way into the building arrives, and so does the defender: *)
(* their steps are events, and every event comes (EventManager::NextGF).     *)
WalkIn(a) == EnterFirst(a) \/ WalkToDoor(a) \/ EnterNext(a)
Fairness ==
  /\ \A a \in Attackers : WF_vars(WalkIn(a) /\ UNCHANGED enemies)
  /\ WF_vars(Defend /\ UNCHANGED enemies)

Spec == Init /\ [][Next]_vars /\ Fairness

-----------------------------------------------------------------------------
(* Types; no count of the building is ever below zero. *)
TypeOK ==
  /\ owner \in Players \cup {Nobody} /\ need \in Needs
  /\ troops \in Nat /\ ordered \in Nat /\ queued \in 0..MaxQueue /\ out \in Nat
  /\ capturing \in BOOLEAN
  /\ capturing_soldiers \in 0..UnsignedMax
  /\ defender \in DefenderStates /\ foe \in Attackers \cup {NoFoe}
  /\ man \in [Attackers -> [st : ManStates, goal : BOOLEAN, home : BOOLEAN]]
  /\ aggressors \subseteq Attackers /\ far_away_capturers \subseteq Attackers

(* Whoever has the building as his goal is in one of its lists, so that he   *)
(* hears when it burns down or is full (nobBaseMilitary::LinkAggressor,      *)
(* nobMilitary::UnlinkAggressor, nofAttacker's attacked_goal), and whoever   *)
(* is listed is an attacker that still exists and comes here.                *)
GoalKnowsAttackers ==
  /\ TypeOK
  /\ {a \in Attackers : man[a].goal} = aggressors \cup far_away_capturers
  /\ aggressors \cap far_away_capturers = {}

WalkingIn == {a \in Attackers : man[a].goal /\ man[a].st \in {"first", "next", "door"}}

(* As many soldiers as are walking in are counted in capturing_soldiers,     *)
(* which nobMilitary::Capture and CapturingSoldierArrived count down without *)
(* a look at zero.                                                           *)
EverybodyCounted == Cardinality(WalkingIn) <= capturing_soldiers

(* A building that stands holds somebody, or his fight before it goes on, or *)
(* he is on his way, or the soldier who takes it is.  (The counts of         *)
(* nobMilitary, RegulateTroops and CallDefender all keep one soldier back.)  *)
NeverDeserted ==
  owner # Nobody /\ troops = 0 => defender # "none" \/ \E a \in WalkingIn : man[a].st = "first"

(* One attacker at most has the place at the flag, to wait, to fight or to   *)
(* take the building (nobBaseMilitary::FindAnAttackerPlace), and he is an    *)
(* enemy of whoever owns it now: soldiers who came together do not fight     *)
(* each other over what one of them has taken.  The defender who comes out   *)
(* finds his man there (nofDefender::attacker, a pointer used at the flag),  *)
(* and fights whoever is fighting there.                                     *)
OneEnemyAtTheFlag ==
  LET there == {a \in Attackers : man[a].st \in {"waiting", "fighting", "first"}}
  IN  /\ Cardinality(there) <= 1
      /\ \A a \in there : man[a].goal => <<Party[a], owner>> \in enemies
      /\ defender = "to" => foe # NoFoe /\ man[foe].st = "waiting"
      /\ (defender = "fighting") <=> (In(Scene, "fighting") # {})

(* A building changes hands only when its garrison is gone, inside and out   *)
(* (nofAttacker::Walked, STATE_ATTACKING_CAPTURINGFIRST, looks inside only); *)
(* and those who walk in after the capture are the soldiers the building     *)
(* keeps for it (nofAttacker.cpp:640 of who comes to the flag of a building  *)
(* of his own player: "This can only be a far away attacker").               *)
TakenByRight ==
  [][/\ owner' \notin {owner, Nobody} => troops = 0 /\ defender = "none"
     /\ \A a \in Attackers :
          man[a].st = "walking" /\ man'[a].st = "door" => a \in far_away_capturers]_vars

(* A capture ends: while the building counts as being taken it orders no     *)
(* troops and nobody may attack it or go to its flag                         *)
(* (nobMilitary::IsCaptured), and only somebody who walks in ends that.      *)
(* And whoever waits at the flag for the defender does not wait for ever: a  *)
(* defender on his way home turns round for him (nofDefender::Walked), one   *)
(* who dies is replaced, and he is told when the building burns down.        *)
SiegeEnds ==
  /\ capturing ~> ~capturing
  /\ In(Scene, "waiting") # {} ~> In(Scene, "waiting") = {}
=============================================================================
