------------------------------ MODULE Traffic ------------------------------
(* Figures on the roads (noFigure, noMovable, GameWorldGame, RoadSegment), the *)
(* fights and waiting attackers that block nodes of the roads, and the timed   *)
(* events that drive them all (EventManager).                                  *)
(*                                                                             *)
(* Nobody walks into a fight: whoever is about to stops, between two nodes if  *)
(* he has set off already, and so do those who walk to where he stands.  Who   *)
(* stands has no event any more; he goes on when he is told, by the fight, by  *)
(* the attacker, or by whoever stood in front of him.                          *)
EXTENDS Integers, Sequences, FiniteSets, SequencesExt

CONSTANTS
  Nodes,          \* nodes of the map which roads use
  Flags,          \* those where roads end
  Gates,          \* flags before military buildings: attackers wait there
  Roads,          \* the roads there may be
  Fragile,        \* those which the player pulls down and builds again
  Route,          \* Route[r]: its nodes, from flag to flag
  Steps,          \* Steps[<<n, m>>]: game frames from n to m (20, more uphill)
  Figures,        \* those who walk on roads
  Homeless,       \* the figures for which there may be no warehouse to go to
  Fights,         \* fights there may be at a time
  FightTime,      \* game frames of a turn of a fight (15)
  BlockTime,      \* BLOCK_OFFSET: game frames until a waiting attacker blocks
  Nowhere

ASSUME RoadsAssumption ==
  /\ Gates \subseteq Flags /\ Flags \subseteq Nodes /\ Fragile \subseteq Roads
  /\ \A r \in Roads : Route[r] \in Seq(Nodes) /\ Len(Route[r]) > 1
  /\ Steps \in [Nodes \X Nodes -> Nat \ {0}]
  /\ FightTime \in Nat \ {0} /\ BlockTime \in Nat \ {0}
  /\ Homeless \subseteq Figures /\ Nowhere \notin Nodes \cup Roads
  /\ Figures \cap (Fights \cup Gates) = {} /\ Fights \cap Gates = {}

VARIABLES
  fig,    \* fig[f]: a noFigure; at: its node, to: the next one (dir), road:
          \* cur_rs, ev: is current_ev set, waiting: waiting_for_free_node, paused
          \* and plen: what PauseWalking remembered; walked (history): the game
          \* frames it has walked since it left its node
  fight,  \* fight[i]: the node of a noFighting that is active
  guard,  \* guard[n]: the nofAttacker at flag n; waits: for a defender, ev: is
          \* blocking_event set
  eis,    \* the events of the event manager
  roads   \* the roads there are

vars == <<fig, fight, guard, eis, roads>>

(* The steps of a road, both ways. *)
Edges(r) == {<<Route[r][i], Route[r][i + 1]>> : i \in 1..(Len(Route[r]) - 1)} \cup
            {<<Route[r][i + 1], Route[r][i]>> : i \in 1..(Len(Route[r]) - 1)}

(* A handler calls others on objects it has half changed; it is an operator *)
(* from all objects to what it makes of them.                               *)
World == [fig |-> fig, fight |-> fight, guard |-> guard, eis |-> eis]
Becomes(w) == fig' = w.fig /\ fight' = w.fight /\ guard' = w.guard /\ eis' = w.eis

NoGuard == [waits |-> FALSE, ev |-> FALSE]
Off == [at |-> Nowhere, to |-> Nowhere, road |-> Nowhere, ev |-> FALSE, waiting |-> FALSE,
        paused |-> 0, plen |-> 0, walked |-> 0]

(* EventManager::AddEvent, with the time that has elapsed; a step of the event *)
(* manager goes through all events, new ones included, and handles those that  *)
(* are due.  RemoveEvent makes it forget one.                                  *)
Event(obj, elapsed, length) == [obj |-> obj, elapsed |-> elapsed, length |-> length]
AddEvent(w, obj, elapsed, length) == [w EXCEPT !.eis = @ \cup {Event(obj, elapsed, length)}]
RemoveEvent(w, obj) == [w EXCEPT !.eis = {e \in @ : e.obj # obj}]
Due(obj) == \E e \in eis : e.obj = obj /\ e.elapsed = e.length
Handled(w, obj) == [w EXCEPT !.eis = {e \in @ : e.obj # obj \/ e.elapsed # e.length}]
EventOf(w, obj) == CHOOSE e \in w.eis : e.obj = obj
-----------------------------------------------------------------------------
(* Figures.                                                                   *)

(* An active fight blocks its node, an attacker who has waited for a while, too. *)
IsRoadNodeForFigures(w, n) ==
  /\ \A i \in Fights : w.fight[i] # n
  /\ n \in Gates => ~(w.guard[n].waits /\ ~w.guard[n].ev)

(* The figures there are from First on, each with those behind him. *)
Chain(First, Behind) ==
  {f \in Figures : \A S \in SUBSET Figures :
      (First \subseteq S /\ \A g \in S : Behind[g] \subseteq S) => f \in S}

(* noMovable::StartMoving: the figure, and its event.  Who has stopped between *)
(* two nodes walks on from there.                                              *)
Moving(x, m) ==
  IF x.paused > 0 THEN [x EXCEPT !.ev = TRUE, !.paused = 0] ELSE [x EXCEPT !.ev = TRUE, !.to = m]

(* Mutant: a step that was stopped starts again. *)
StepAgain(f, x, m) == Event(f, 0, Steps[<<x.at, m>>])

StepOf(f, x, m) ==
  IF x.paused > 0 THEN Event(f, x.paused, x.plen) ELSE Event(f, 0, Steps[<<x.at, m>>])

StartMoving(w, f, m) ==
  [w EXCEPT !.fig[f] = Moving(w.fig[f], m), !.eis = @ \cup {StepOf(f, w.fig[f], m)}]

(* PauseWalking, and waiting_for_free_node is set. *)
Paused(w, f) ==
  LET e == EventOf(w, f)
  IN  [w.fig[f] EXCEPT !.ev = FALSE, !.waiting = TRUE, !.paused = e.elapsed, !.plen = e.length]

(* Mutant: the events are not removed. *)
PauseWithEvents(w, fs) ==
  [w EXCEPT !.fig = [f \in Figures |-> IF f \in fs THEN Paused(w, f) ELSE w.fig[f]]]

PauseWalking(w, fs) ==
  [w EXCEPT !.fig = [f \in Figures |-> IF f \in fs THEN Paused(w, f) ELSE w.fig[f]],
            !.eis = {e \in w.eis : e.obj \notin fs}]

(* Those who walk to n on a road, but not from m.  *)
Coming(w, n, m) == {f \in Figures : w.fig[f].ev /\ w.fig[f].to = n /\ w.fig[f].at # m}

(* Everybody on the way to n stops (StopIfNecessary), and for each of them  *)
(* those on the way to the node he comes from, if they do not come towards  *)
(* him.  Whoever has stopped is not stopped again: the order, the code's    *)
(* recursion, makes no difference.                                          *)
Stopping(w, n, m) ==
  Chain(Coming(w, n, m), [f \in Figures |-> Coming(w, w.fig[f].at, w.fig[f].to)])
StopOnRoads(w, n, m) == PauseWalking(w, Stopping(w, n, m))

StartWalking(w, f, m) ==
  IF IsRoadNodeForFigures(w, m) THEN StartMoving(w, f, m)
  ELSE StopOnRoads([w EXCEPT !.fig[f] = [w.fig[f] EXCEPT !.to = m, !.waiting = TRUE]], w.fig[f].at, m)

(* noFigure::NodeFreed, of each of some who wait. *)
NodeFreed(w, fs) ==
  [w EXCEPT !.fig = [f \in Figures |-> IF f \in fs
                                       THEN [Moving(w.fig[f], w.fig[f].to) EXCEPT !.waiting = FALSE]
                                       ELSE w.fig[f]],
            !.eis = w.eis \cup {StepOf(f, w.fig[f], w.fig[f].to) : f \in fs}]

(* Whoever waits for one of the nodes goes on, and tells those who wait for *)
(* the node he has stood at: again in any order, as nobody blocks a node by *)
(* going on.                                                                *)
WaitingFor(w, n) ==
  {f \in Figures : w.fig[f].waiting /\ w.fig[f].to = n /\ IsRoadNodeForFigures(w, n)}
GoingOn(w, ns) ==
  Chain(UNION {WaitingFor(w, n) : n \in ns}, [f \in Figures |-> WaitingFor(w, w.fig[f].at)])
RoadNodesAvailable(w, ns) == NodeFreed(w, GoingOn(w, ns))
RoadNodeAvailable(w, n) == RoadNodesAvailable(w, {n})

(* nofAttacker::SwitchStateAttackingWaitingForDefender.  The defender needs   *)
(* longer to the flag than the event.                                        *)
WaitForDefender(w, n) ==
  AddEvent([w EXCEPT !.guard[n] = [waits |-> TRUE, ev |-> TRUE]], n, 0, BlockTime)
IsWaiting(n) == guard[n].waits /\ ~guard[n].ev

(* A figure that leaves the roads blocks nobody and is stopped by nobody, it   *)
(* may come back at a flag (SetOff).                                           *)
LeavesRoads(w, fs) ==
  [w EXCEPT !.fig = [f \in Figures |-> IF f \in fs THEN Off ELSE w.fig[f]],
            !.eis = {e \in w.eis : e.obj \notin fs}]

(* noFigure::StartWandering of somebody who walks or waits: who behind him   *)
(* waits for his node is not told.                                           *)
StartWandering(w, f) == LeavesRoads(w, {f})

(* Mutant: those behind are not told. *)
GoHomeQuietly(w, f) ==
  IF w.fig[f].waiting
  THEN StartWalking([w EXCEPT !.fig[f].waiting = FALSE], f, w.fig[f].to)
  ELSE w

(* noFigure::GoHome: the way goes on along the same road. *)
GoHome(w, f) ==
  IF w.fig[f].waiting
  THEN RoadNodeAvailable(StartWalking([w EXCEPT !.fig[f].waiting = FALSE], f, w.fig[f].to), w.fig[f].at)
  ELSE w
-----------------------------------------------------------------------------
(* Actions.                                                                    *)

(* A figure at a node, on a road. *)
At(w, f, n, r) == [w EXCEPT !.fig[f] = [Off EXCEPT !.at = n, !.road = r]]
OnRoad(w, f, r) == [w EXCEPT !.fig[f].road = r]

NextSteps(f, n) ==
  {s \in roads \X Nodes : <<n, s[2]>> \in Edges(s[1]) /\ (n \notin Flags => s[1] = fig[f].road)}

(* Somebody comes out of a house, or a carrier in the middle of his road or a  *)
(* wanderer at a flag gets something to do.                                    *)
SetOff(f) ==
  /\ fig[f].road = Nowhere
  /\ \E r \in roads : \E e \in Edges(r) :
       Becomes(StartWalking(At(World, f, e[1], r), f, e[2]))
  /\ UNCHANGED roads

(* noFigure::HandleEvent: he is at the next node, and goes on, on his road or, *)
(* at a flag, on any; or he is where he wanted to be, or finds no way there.   *)
Walked(f) ==
  LET w == Handled(At(World, f, fig[f].to, fig[f].road), f)
  IN  /\ Due(f)
      /\ \/ \E s \in NextSteps(f, fig[f].to) : Becomes(StartWalking(OnRoad(w, f, s[1]), f, s[2]))
         \/ Becomes(LeavesRoads(w, {f}))
      /\ UNCHANGED roads

(* His work or the warehouse he walks to is gone, and another is found or not. *)
LostWork(f) ==
  /\ fig[f].road # Nowhere
  /\ \E home \in {TRUE} \cup {f \notin Homeless} :
       Becomes(IF home THEN GoHome(World, f) ELSE StartWandering(World, f))
  /\ UNCHANGED roads

(* RoadSegment::Destroy_RoadSegment: whoever is on the road wanders about, and *)
(* those who wait for one of its nodes are told.  The code goes from node to   *)
(* node, which makes no difference.                                            *)
DestroyRoad(r) ==
  /\ r \in roads
  /\ roads' = roads \ {r}
  /\ Becomes(RoadNodesAvailable(LeavesRoads(World, {f \in Figures : fig[f].road = r}),
                                ToSet(Route[r])))

BuildRoad(r) ==
  /\ r \notin roads
  /\ roads' = roads \cup {r}
  /\ UNCHANGED <<fig, fight, guard, eis>>

(* Mutant: nobody is stopped. *)
FightUnannounced(i, n) ==
  /\ fight[i] = Nowhere
  /\ Becomes([AddEvent(World, i, 0, FightTime) EXCEPT !.fight[i] = n])
  /\ UNCHANGED roads

(* The constructor of noFighting, when two soldiers meet at n, or a defender *)
(* comes to the attacker who waits for him at flag n.                        *)
FightStarts(i, n) ==
  /\ fight[i] = Nowhere
  /\ Becomes([StopOnRoads(AddEvent(World, i, 0, FightTime), n, Nowhere) EXCEPT !.fight[i] = n])
  /\ UNCHANGED roads

DefenderComes(i, n) ==
  /\ fight[i] = Nowhere /\ IsWaiting(n)
  /\ Becomes([StopOnRoads(AddEvent(World, i, 0, FightTime), n, Nowhere)
                EXCEPT !.fight[i] = n, !.guard[n].waits = FALSE])
  /\ UNCHANGED roads

(* noFighting::HandleEvent: another turn, or one of them dies and the winner goes; *)
(* an attacker may wait for the next defender (ContinueAtFlag).                    *)
(* While a soldier dies the fight stands for a moment and blocks nobody: left out.  *)
FightTurn(i) ==
  /\ Due(i)
  /\ LET w == Handled(World, i)
         over == [w EXCEPT !.fight[i] = Nowhere]
     IN  \/ Becomes(AddEvent(w, i, 0, FightTime))
         \/ Becomes(RoadNodeAvailable(over, fight[i]))
         \/ /\ fight[i] \in Gates /\ ~guard[fight[i]].waits
            /\ Becomes(RoadNodeAvailable(WaitForDefender(over, fight[i]), fight[i]))
  /\ UNCHANGED roads

AttackerComes(n) ==
  /\ ~guard[n].waits
  /\ Becomes(WaitForDefender(World, n))
  /\ UNCHANGED roads

(* nofAttacker::HandleDerivedEvent *)
AttackerBlocks(n) ==
  /\ Due(n)
  /\ Becomes([StopOnRoads(Handled(World, n), n, Nowhere) EXCEPT !.guard[n].ev = FALSE])
  /\ UNCHANGED roads

(* nofAttacker::AttackedGoalDestroyed *)
GoalDestroyed(n) ==
  /\ guard[n].waits
  /\ Becomes(RoadNodeAvailable(RemoveEvent([World EXCEPT !.guard[n] = NoGuard], n), n))
  /\ UNCHANGED roads

(* EventManager::NextGF is through with its list, and the next game frame comes. *)
NextGF ==
  /\ \A e \in eis : e.elapsed # e.length
  /\ eis' = {[e EXCEPT !.elapsed = @ + 1] : e \in eis}
  /\ fig' = [f \in Figures |-> IF fig[f].ev THEN [fig[f] EXCEPT !.walked = @ + 1] ELSE fig[f]]
  /\ UNCHANGED <<fight, guard, roads>>

Init ==
  /\ fig = [f \in Figures |-> Off]
  /\ fight = [i \in Fights |-> Nowhere]
  /\ guard = [n \in Gates |-> NoGuard]
  /\ eis = {}
  /\ roads = Roads

Next ==
  \/ NextGF
  \/ \E f \in Figures : SetOff(f) \/ Walked(f) \/ LostWork(f)
  \/ \E r \in Fragile : DestroyRoad(r) \/ BuildRoad(r)
  \/ \E i \in Fights : FightTurn(i) \/ \E n \in Nodes : FightStarts(i, n)
  \/ \E n \in Gates : AttackerComes(n) \/ AttackerBlocks(n) \/ GoalDestroyed(n)
                     \/ \E i \in Fights : DefenderComes(i, n)

Spec == Init /\ [][Next]_vars
-----------------------------------------------------------------------------
(* Properties.  Types: who walks or waits is on a road that stands.            *)

TypeOK ==
  /\ roads \subseteq Roads
  /\ fight \in [Fights -> Nodes \cup {Nowhere}]
  /\ guard \in [Gates -> [waits : BOOLEAN, ev : BOOLEAN]]
  /\ \A e \in eis : e.obj \in Figures \cup Fights \cup Gates /\ e.elapsed \in 0..e.length
  /\ \A f \in Figures : LET x == fig[f] IN
       \/ x = Off
       \/ /\ x.road \in roads /\ <<x.at, x.to>> \in Edges(x.road)
          /\ x.ev # x.waiting /\ x.paused \in 0..x.plen

(* The pointers to events and the event manager's list agree: who walks has one *)
(* event, who waits has none, and no event is left of a step that was stopped.  *)
EventsKnown ==
  /\ TypeOK
  /\ \A f \in Figures : Cardinality({e \in eis : e.obj = f}) = IF fig[f].ev THEN 1 ELSE 0
  /\ \A n \in Gates : guard[n].ev <=> \E e \in eis : e.obj = n
  /\ \A i \in Fights : fight[i] # Nowhere <=> \E e \in eis : e.obj = i

(* However often a figure is stopped on its way, it takes the time of one step. *)
KeepsItsProgress ==
  \A f \in Figures :
     /\ fig[f].waiting => fig[f].walked = fig[f].paused
     /\ \A e \in eis : e.obj = f =>
          e.elapsed = fig[f].walked /\ e.length = Steps[<<fig[f].at, fig[f].to>>]

(* Nobody on a road walks to a node where soldiers fight, or one waits. *)
NobodyWalksIntoAFight ==
  \A f \in Figures : fig[f].ev => IsRoadNodeForFigures(World, fig[f].to)

(* Whoever waits will be told: he waits for a node that is blocked, or for     *)
(* somebody who waits there.  There are no figures that wait only for another. *)
NoJam ==
  \A fs \in SUBSET {f \in Figures : fig[f].waiting} : fs # {} =>
     \E f \in fs : \/ ~IsRoadNodeForFigures(World, fig[f].to)
                   \/ \E g \in Figures \ fs : fig[g].waiting /\ fig[g].at = fig[f].to
=============================================================================
