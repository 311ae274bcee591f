# Return To The Roots: a TLA+ verification project

The program is a multiplayer settlement game. Every player's program simulates
the whole game; the players exchange nothing but commands. If two simulations
ever differ, the game is over. Most of what is hard in this code therefore lies
in the layers that keep the simulations equal, and in those parts of the
simulation where one object's step depends on what others did since it last
looked. This project models these parts, in the order of their importance.

All paths below are relative to the repository; the core is `src/src/*.cpp`
(GameServer, GameClient, the simulation, the windows), its libraries are
`src/libutil`, `src/libsiedler2`, `src/liblobby`.

## 1. Inventory

Status: **M** modelled, **P** partly, **–** not modelled (yet). `PROJECT.json`
lists the same parts with their files.

| Component | State | Operations | Hard behaviour | What makes it correct | |
|---|---|---|---|---|---|
| Lockstep network frames (`GameServer`, `GameClient`, `GameClientGF_Game`) | player slots, a queue of commands per slot on the server and on every client, frame numbers, pause | `RunningGame`, `OnNMSGameCommand`, `ClientWatchDog`, `ExecuteGameFrame`, `KickPlayer`, `ChangePlayer`, `TogglePause` | one process per player; messages in flight while players are kicked, switch slots, pause or load; AI takeover | the same commands in the same frame everywhere; nobody waits for ever; differences are reported, and nothing else is | P |
| Lobby of a game (`GameServer`, `GameServerPlayer`, `dskHostGame`) | the list of slots, once on the server and once per client; settings; countdown | join, leave, kick, timeout, toggle state, team, nation, colour, ready, swap, settings, start | a list that is copied once and updated by differences; own choices applied before the server knows them | everybody starts from the same list; colours differ; the game starts complete | P |
| Treaties (`GameClientPlayer`, `iwDiplomacy`, `iwPostWindow`) | two records per pair and type; letters; open windows | suggest, accept, cancel, expiry | orders executed frames after they were given, crossing each other; two halves of one truth | a treaty binds both or neither; only by consent; partners are protected | M |
| Asynchronous-game report (`GameServer::OnNMSSendAsyncLog`, `Random`) | two logs of random numbers, who sends them, flags | report, upload in parts, compare, kick | uploads interleave; state of an earlier report | the logs compared are those of one report; the game continues paused or without the player | – |
| Transport of wares (`Ware`, `noFlag`, `RoadSegment`, `nofCarrier`) | eight places at a flag, one or two carriers per road with position and direction, next direction and goal of a ware | carry, drop, exchange, order and withdraw jobs, build, split and destroy roads | lost wake-ups, full flags on both sides of a road, roads destroyed under carriers | no ware is lost or doubled; a ware at a flag is fetched; no deadlock of full flags | P |
| Warehouses (`nobBaseWarehouse`, `nofWarehouseWorker`) | real and visual stock, wares and figures waiting to leave, expected ones, the reserve | order, cancel, arrive, collect, destroy | orders cancelled half-way, destruction with expected wares | real, visual and expected stock agree; every expected ware is known to somebody | P |
| Production and building sites (`nobUsual`, `noBuildingSite`, `nofBuildingWorker`, `nofBuilder`) | stock, ordered wares, worker state | order, take, work, demolish | wares and workers under way to a building that disappears | what was ordered arrives or is reported lost | P |
| Military (`nobMilitary`, `nofAttacker`, `nofDefender`, `noFighting`) | troops, ordered troops, troops on mission, capturers near and far | attack, defend, fight, capture, regulate | a building changes its owner with everybody under way to or from it | counters agree with the soldiers; capturing ends; nobody is in two lists | P |
| Harbours and ships (`nobHarborBuilding`, `noShip`, `GameClientPlayer`) | goods and figures for the sea, expeditions, ships' orders | load, travel, unload, expedition, sea attack | a harbour destroyed while a ship is on its way | cargo arrives somewhere or returns; ships sail to where they are needed | P |
| Trade (`nofTradeLeader`, `nofTradeDonkey`, `TradeGraph`) | the caravan and its route | go, turn back, cancel | goal or road lost half-way | donkeys follow the leader's steps | – |
| Event manager (`EventManager`) | list of events, kill list | add, remove, handle, save, load | handlers that add and remove events | an event fires once, at its frame, on a living object | P |
| Figures and roads under them (`noFigure`, `noMovable`, `noFighting`, `GameWorldGame`) | where a figure is, how far its step has got, its event; fights; attackers at flags | walk, stop, go on, go home, wander | everybody stops for somebody else, who has to remember to tell him | whoever can go on goes on, with the step he was at | P |
| Replays and saved games (`GameReplay`, `GameSavegame`, `SerializedGameData`, `GameClientGF_Replay`) | files; object graph | record, replay, save, load | a crash while recording; order of restored objects | the replay executes the commands of the game in their frames | – |
| Players (`GameClientPlayer`) | registers of roads, wares, jobs; distribution | find warehouse, carrier, client of a ware | partly stale registers | registers contain what exists | P (treaties: M) |
| Computer players (`AIPlayerJH` and others) | plans, events | commands like a player's | own picture of the world is late | heuristics | – |
| World, territory, path finding, building quality | the map | set, get, recalculate | loops over neighbours | agreement with a reference definition | – |
| Messages, queues, sockets (`libutil`, `GameMessages`) | buffers | send, receive | framing | FIFO, whole messages | used as such |
| Windows, controls, drawing, sound, resources, lobby-server client, archives, tools, packaging | – | – | – | no effect on the simulation | – |

How they interact: `GameManager` runs one main loop, which calls
`LobbyClient::Run`, `GameServer::Run` (on the host) and `GameClient::Run` in
turn. There are no threads; the processes are the *programs* of the players,
connected by TCP in a star around the host. The host's own client is connected
to its server like every other, except for a few direct calls
(`GAMECLIENT.StartGame`, `IsHost`). Windows give orders to the client
(`AddGC`, `Command_...`), the client sends them to the server, the server
broadcasts them, and each client executes them in the next network frame
(`gc::GameCommand::Execute`) on the simulation, whose objects act through events
of the event manager.

The hazards of the code, with their lines, are listed in `PROJECT.json`.

## 2. Modules

| Module | Models | Uses |
|---|---|---|
| `FrameAgreement` | the promise of the network layer: replicas which execute numbered frames with decided contributions | |
| `Lockstep` | the running game, server and clients | |
| `LockstepRefinement` | the refinement mapping from `Lockstep` to `FrameAgreement` | both |
| `LockstepProofs` | theorems | `LockstepRefinement`, TLAPS |
| `Lobby` | from the first connection to the start of the game | |
| `LobbyProofs` | theorems | `Lobby`, TLAPS |
| `Pacts` | treaties, windows, letters, the delay of orders | |
| `PactsProofs` | theorems | `Pacts`, TLAPS |
| `Transport` | wares, flags, roads, carriers and the doors of warehouses | |
| `TransportProofs`, `TransportWorkProofs` | theorems | `Transport`, TLAPS |
| `Orders` | who expects which ware: orders and destruction of buildings, roads, flags | |
| `Siege` | one military building, its garrison, its attackers | |
| `SiegeProofs` | theorems | `Siege`, TLAPS |
| `Traffic` | figures on roads, fights, the event manager under them | |
| `TrafficProofs` | theorems | `Traffic`, TLAPS |
| `Ships` | harbours and ships: transports, expeditions, explorations | |
| `ShipsProofs` | theorems | `Ships`, TLAPS |
| `MCLockstep`, `MCLobby`, `MCPacts`, `MCTransport`, `MCOrders`, `MCSiege`, `MCTraffic`, `MCShips` | instances for TLC; each `.cfg` beside them is one run | |

### 2.1 Lockstep

*Correspondence.* A network frame (NWF) consists of `nwf_length` game frames;
only its boundaries matter to the protocol, so a step of the model is a whole
NWF on a client (`ExecuteFrame`: `ExecuteGameFrame` at
`nr % nwf_length = 0`, then `ExecuteGameFrame_Game`). All messages of a running game are broadcast
with `SendToAll`; each connection is FIFO; hence one sequence `log` of broadcasts
and one reading position `rd[c]` per client stand for all send queues and
sockets. A slot's messages to the server are `up[c]`, cut short when the
connection breaks (`eof`). `queue[c][p]` is a client's queue of slot `p`,
`gcq[p]` the server's (`gc_queue`), `world[c]` the history of executed frames (it
determines the state of a deterministic simulation and so its checksum). `part`
holds the slots a client takes for players, `at` where in the log the
contributions of a slot stand (history). `ClientWatchDog` is a loop over the slots;
`BeginNWF`, `NWFMessage`/`NWFNoMessage` (per slot) and `EndNWF` are its parts, so that a kick
or a message between two loops is possible, but not within what the code
does without returning to `Run`.

*Abstractions.* Commands are members of a small set, except
`gc::SwitchPlayer`, which the server looks at. Time is left out: a frame may
come at any moment after its conditions hold. The lag kick and the loss of a
connection are one: a client in `Unstable` may be kicked at any time, with any
suffix of its messages lost. A client may diverge (`Diverging`) in its
object counts or in its random numbers.

*Runs.* `lockstep_game`: two humans and an AI, two frames; player 2 may be kicked at any time,
may take over the AI's slot, and the host may pause. It checks that every client executes
what was broadcast, in the same frames, and that the protocol implements `FrameAgreement`.
`lockstep_divergence`: three frames, as `DifferenceNoticed` speaks of a difference
being seen two frames later. `lockstep_progress`: the game goes
on although a player is lost and the host pauses and resumes at any point, whenever it is not paused.

*Restriction.* `LoadingKicks = FALSE`: nobody is kicked while a client is still loading. With `TRUE`
a client that is loading clears the slot of the kicked player and forgets what it has received for it, where the
others have an AI (`GameClient.cpp:753`): `SameFrames` is violated.

*Bounds.* Two frames suffice for safety: a client is at most one frame ahead
(`OneFrameAhead`, proved for any number of frames while nobody changes slots), so the first
frame shows messages of two frames in flight at once. Three slots give every kind of
pair: host and client, human and AI, three messages of one frame. The theorems
below do not depend on these bounds.

*Fairness.* `WF` of the server's step and of each client's step: the main loop
calls `GameServer::Run` and `GameClient::Run` again and again, and each handles
what has arrived and executes the frame that is due. A client whose program
is gone is noticed by its socket (`KickPlayer` for a lost client is part of the
fair step). No fairness is assumed of users: nobody has to resume, to order or
to leave.

### 2.2 Lobby

*Correspondence.* `slot`, `conn`, `ggs`, `counting` are the server's list,
sockets, settings and countdown; `list[c]`, `self[c]`, `cggs[c]` the client's
`players`, `playerid` and `ggs`. `down[c]` and `up[c]` are the two directions of
the connection. The server handles a request by changing its list and
broadcasting the *difference* to everybody who is connected and not reserved
(`Receives`, `SendToAll`), the client applies the difference to its own list
(`ReadUpdate`). Buttons of the player's own row change the own list before
the request is sent (`ChooseTeam`, `ChooseColor`, `ChooseReady`). The handshake
(type, password, name, map parts, checksum) is `Reserve` and `Join`: between
them the slot is reserved and no broadcast reaches the joiner.

*Runs.* `lobby_game` has several openings: a new game with all three players
seated, with one seated while another connects and may time out, with an AI; and a loaded
game (`savegame`), where the host may swap slots. Then everybody joins, leaves,
toggles, chooses and starts. Bounds: three slots and
colours, two teams, two settings, and two or three operations by players and
host together, after which the connections drain: two differences under way in opposite
directions are what can confuse a list. Each client connects once.

*Restrictions, by constants.* `Timeouts`: whether a joiner may be dropped by
`doTimeout`; the openings have a single joiner then, as no broadcast is missed by anybody
who stays (with two, see section 4).
`Meddles = FALSE`: the host does not toggle or swap a slot just being
joined; with `TRUE` the lists differ, since the server leaves a reserved slot
alone but broadcasts the toggle (`GameServer.cpp:604`, `:650`). `Swaps` says
whether the host may swap slots in a new game too; it is `FALSE`, since there a team message
that is on its way when its player is moved is attributed to another slot
(in a loaded game teams and colours are fixed).
`OthersStartAlike` leaves out a player's own slot: a choice made while the
start message is on its way changes the own list only.

### 2.3 Treaties

*Correspondence.* `pacts[<<p, q, t>>]` is `GameClientPlayer::pacts[q][t]` of player
`p`. A button appends to `gcs[p]`; the network frame takes what
the previous one sent into `queue` (`BeginFrame`), and executes the orders slot by slot
(`turn`, `ExecuteGC`); `EndFrame` then lets treaties expire
(`TestPacts`). Game frames between network frames only expire treaties.
`window` is the suggestion window which is open while everything goes on.
`offer` and `asked` are history: the last proposal not withdrawn, and who
asked to cancel.

*Runs.* `pacts_game` starts from a loaded game in which a short treaty of one kind binds the two
players, perhaps with an old wish to cancel in the records; it is ended or runs out, and
treaties are proposed by either, made, ended, and expire, with two game frames per network
frame. Bounds: two players, one order under
way per player, ten game frames, enough to end a treaty and to make and end
another; a letter box of one letter, so that the oldest is dropped.

*Restriction.* `Careful`: players look again before they confirm a suggestion
window. The code does not make them: with `FALSE`, a window confirmed late takes one half of a treaty
in force back (`GameClientPlayer.cpp:1633`), and `PartnersSafe` is violated.

### 2.4 Transport of wares

*Correspondence.* `ware[w]` is a `Ware` (`state`, `goal`, `next_dir`), `lying[f]` a
flag's `wares`, `car[<<r, i>>]` carrier `i` of road `r` with its state, its position
(`rs_pos`), the end it faces (`to`, from `rs_dir`) and the ware in its hands. `house[h]` is a warehouse behind flag `h`:
`waiting_wares`, `go_out` (`awake`), `fetch_double_protection` (`dontfetch`), and its workers: those in `leave_house` (`queued`), on the way to the flag without
a ware (`fetching`) or with one (`out`), and on the way back (`back`, `in`).

The code is single-threaded, and its handlers call each other: a carrier that takes a ware makes
the flag tell the roads, and these the carriers. A handler therefore is an operator
from a record of all objects to the set of records it may leave; an action is
one event of the game, with everything it calls, in the order of the code. Walking
is a step per field (`Walk`), so that everything can happen between two fields.

| Action | Code |
|---|---|
| `Walk`, `Arrive` | `nofCarrier::Walked`, `GoalReached` with `FetchWare`, `LookForWares`, `WantInBuilding`, `noFlag::AddWare`, `SelectWare` |
| `Leave` | the leaving event of `nobBaseWarehouse` |
| `WorkerAtFlag`, `WorkerFetches`, `AddWaitingWare`, `AddWare` | `nofWarehouseWorker::GoalReached`, `Walked` |
| `OrderWare` | `nobBaseWarehouse::OrderWare` |
| `DestroyRoad` | `noRoadNode::DestroyRoad`, `nofCarrier::LostWork`, `GameClientPlayer::RoadDestroyed` |
| `BuildRoad` | `GameWorldGame::BuildRoad`, `GameClientPlayer::NewRoad` |

*Abstractions.* A route is the first road of any path that does not come back to the
flag; what makes a path cheap (length, waiting wares) only chooses between
such paths. Which ware of several is taken (`transport`, a setting), which of
two carriers is asked first and in which order wares are registered are choices. A
called carrier arrives at some time at either end, if a warehouse reaches it.
Carriers do not stand in each other's way. The code that would run if
a carrier found no ware (`CARRS_GOTOMIDDLEOFROAD` without a step) is kept as a
state of its own, `stranded`, and `NothingOverlooked` says that it is never entered.

*Properties.* Nobody in this code polls. A carrier that stands, one that waits for room, and a warehouse
that stopped sending workers move only when they are told, by handlers that run
while the state they look at is half changed. The invariants say who has to be
under way in which state: `NothingOverlooked` for wares that want to move and for
carriers that come for a ware, `HouseAtWork` for the workers of a warehouse,
`OnePlace` (with the types) for the wares, `RoutesStand` for
the wares after roads were destroyed and built; these four are proved. `Delivered` is what all this is for. For
a road with a donkey `NothingOverlooked` is weaker: the comment at
`RoadSegment.cpp:265` leaves a ware to the partner that seems to go there, and he
may turn; that one of the two is under way is what remains.

*Runs.* `transport_game`: flags fa, fb, fc in a row, warehouses at fa and fc, a carrier and
a donkey between fa and fb (two fields), a carrier between fb and fc (three fields,
so that the road has two middles), two wares at fa and one at fc of which two are
ordered to the other side, and the road fb-fc destroyed and built again up to twice. A flag is full with
one ware instead of eight (`Capacity`): this is what makes exchanging, waiting, going
back, and a worker in front of a full flag happen with three wares.

*Bounds.* `MaxOrders`, `MaxCuts`: two wares that meet from opposite sides fill
all hands and the flag between them; a second cut shows a road destroyed while
the wares the first one turned back are under way. The instance is a line. On a
cycle of roads full flags can block each other, since a carrier goes on to a full flag only to exchange
wares; the code has no means against it.

*Fairness.* `WF` for each carrier and for each warehouse with its workers: the event
manager fires each event in its frame, and each walking figure and each `go_out`
has an event. No fairness for the player's roads and orders. A road that is not built again
leaves wares at a flag without a goal; `Delivered` allows it (`Settled`).

### 2.5 The siege of a military building

*Correspondence.* `troops`, `need`, `ordered`, `capturing`, `capturing_soldiers`,
`aggressors` and `far_away_capturers` are the members of `nobMilitary` and
`nobBaseMilitary`; `queued` and `out` are `troops_on_mission`, those who still queue at the
door and those who are outside. `defender` and `foe` are the soldier at the flag and
his `attacker`, `man[a]` an attacker with his state and his two
pointers, `attacked_goal` and `building`. As in `Transport` a handler is an
operator from a scene to the scenes it may leave; paths, distances, dice and ranks are
choices. `Attack` is the player's command, the other actions of an attacker are one step
(`nofAttacker::Walked`, `ReachedDestination`, `CapturingWalking`) or the end of a
fight. The fight at the flag is the state `fighting` of both; one in the
field is `MeetEnemy` and its end.

*Properties.* The building and its soldiers hold pointers to each other in several lists, and it
counts soldiers it does not see. `GoalKnowsAttackers` and `EverybodyCounted` relate the two
sides, `NeverDeserted`, `OneEnemyAtTheFlag` and `TakenByRight` say who may be where and who may take
what, `SiegeEnds` that neither a capture nor somebody at the flag waits for ever. All but `SiegeEnds` are proved
(`SiegeProofs`).

*Run.* `siege_game`: a building of D with a garrison of three, two soldiers of A and one of B, where A
and B are enemies or allies. The building may be taken, attacked again by its former owner's
enemies, hit and pulled down, homes burn, soldiers leave on missions and return or not. Three attackers are one
at the flag, one around it and one on his way. Bounds: `MaxQueue` soldiers in the
door, `MaxEntering` for the counter of those walking in (`UnsignedMax` keeps an
underflow apart, which would be seen as 2^32 - 1), a garrison of at most three. Treaties do not change
during a siege. An attacker who moves on around the building makes room for others in a chain
(`SendSuccessor`), of which two links are followed.

*Fairness.* `WF` of the steps of who walks in and of the defender: each step is an
event, and every event comes. None for users, fights in the field, or soldiers on missions.

### 2.6 Figures on the roads

*Correspondence.* `fig[f]` is a figure on a road with its event, whether it waits for a
node (`waiting_for_free_node`) and what `PauseWalking` remembered; `fight[i]` a `noFighting`,
`guard[n]` an attacker who waits for a defender at a flag, `eis` the list of the event manager
with elapsed frames and length. `NextGF` ends a game frame when all that is due has been
handled; within one frame events are handled in any order, which covers the
order of a loaded game. Between the moment an attacker comes to a flag and its being blocked pass
`BlockTime` frames (`BLOCK_OFFSET`, 10), less than a step (20) as in the code.
`walked` is history: the frames a figure has walked since its node.
Whom a stop, or a node that becomes free, reaches is found in the code by calls that go from figure to figure; in the
model it is the least set that holds the first ones and everybody behind one of its members (`Chain`), who are
then stopped, or told, all at once. It is the same: a figure that stands is not stopped again and one that has gone on is not told
again, and neither changes which nodes are blocked.

*Properties.* `EventsKnown` (with the types): an event for everybody who walks, none for who stands.
`KeepsItsProgress`: however often a figure is stopped in mid-step, it takes the time of one
step. `NobodyWalksIntoAFight`. `NoJam`: everybody who stands waits, directly or behind others, for a node that is blocked; whoever moves
away has told those behind.

*Run.* `traffic_game`: a triangle of roads, so that figures may stand behind each other in a
circle, one road with a node between, pulled down and built again; three figures, one
fight, one guarded flag; steps of two frames, so that a figure is stopped at the start, in the
middle and at the end of a step. The figures are interchangeable. Where to go is a choice; who wanders off the
roads is out of the model (`Off`), and so is the moment a dying soldier takes, in which
nobody is blocked. No liveness: fights may go on for ever.

### 2.7 Orders

*Correspondence.* `ware[w]` is a `Ware` of the one type that is modelled, with
`state`, `location`, `goal`, and where it is: waiting in a house, carried out by a
worker or back in, at a flag, on a road, in a door, or fetched. `ordered[b]` is the list
of the building (`ordered_wares`, `ordered_boards`, `dependent_wares`), as counts
so that a double entry shows. `stock` and `goods` are `real_goods` and `goods`, `have`
what a workshop or site has got. Again a handler is an operator on scenes, including what it sets off: the
destruction of a flag tells the building, whose wares find other goals, whose
roads tell carriers, which lose wares, whose goals order again.

| Action | Code |
|---|---|
| `PullDownBuilding`, `PullDownRoad`, `PullDownFlag` | `GameWorldGame::DestroyBuilding`, `noRoadNode::DestroyRoad`, `GameWorldGame::DestroyFlag` and all they call |
| `BuildRoad`, `ChangeSetting` | `GameClientPlayer::NewRoad`, `nobBaseWarehouse::ChangeRealInventorySetting` |
| `OrderEvent`, `ConsumeWares` | `nobUsual` |
| `PlaningFinished`, `Complete` | `noBuildingSite`, `nofBuilder` |
| `LeaveHouse`, `EmptyEvent`, `StoreEvent` | events of `nobBaseWarehouse` |
| `WorkerAtFlag`, `AddWaitingWare`, `FetchWare`, `WorkerBack` | `nofWarehouseWorker` |
| `TakeAlong`, `Waits`, `Arrive`, `Deliver` | `nofCarrier`, `AddWare` of the buildings |

*Abstractions.* Any building that qualifies and is reached by a path is chosen, whatever its
distance and points; a carrier takes any road of a path; whether a flag is full is a choice. Module `Transport` is about
exactly these. The wares of a registry are told in any order.

*Properties.* `NothingDangles` and `ListedOnce` (with the types): the pointers between wares and buildings, in both
directions. `CountsExact`: the inventory of the player, the shown stock, and what a client expects: a
site is deleted when it is built, together with its list; no ware may still be meant for it. `NotLeftAtTheDoor`: no ware ends at the flag of the very building
it is for, where nobody fetches it.

*Runs.* `orders_game`: a line of four flags, a house at each end, a site and a workshop between, which
both need one ware (`Room`; more only repeats orders); two wares
in stock. One house sends the ware out and may be closed, the other collects it; the flag of the former gets new wares.
Both houses, the site, the workshop, the middle road and a flag may be pulled down. Two wares are two places in any list and
two stages of a journey. `Patient` keeps the defect out that `orders_lost` shows: the player does not build a road or
open a house while a ware without a goal is in somebody's hands. No liveness: a ware
without any house left stays where it is.

### 2.8 Harbours and ships

*Correspondence.* `ship[x]` is a `noShip`: `state`, `goal_harborId` and `home_harbor` (`goal`, `home`), `route` and
`pos` (`route_dirs`, `curRouteIdx`), the node it is at and the one it is on its way to (`step`), `tasks`, the
events of anchoring and loading that will come, `lost`, `covered` (`covered_distance`) and its `hold` (`figures`,
`wares`). `queue[h]` is `figures_for_ships` and `wares_for_ships`; `item[i].spot` is the harbour a waiting person
or ware wants to be landed in (`dest`, `next_harbor`); `expedition[h]`, `exploration[h]`, `stock[h]` are the
preparations in a harbour, `sites` the harbour sites founded from the sea. A handler is an operator on scenes with all it calls.

| Action | Code |
|---|---|
| `Walk` | `noShip::Walked`, `Driven` and `HandleState_...Driving` |
| `HandleEvent` | `noShip::HandleEvent`, `nobHarborBuilding::ReceiveGoodsFromShip`, `ContinueExplorationExpedition` |
| `Launch`, `ContinueExpedition`, `FoundColony`, `CancelExpedition` | the new ship; the player's commands to an expedition |
| `StartExpedition`, `ExpeditionReady`, `StartExplorationExpedition`, `ExplorationReady` | `nobHarborBuilding` |
| `Embark` | `AddFigureForShip`, `AddWareForShip`, and `OrderShip` with `ShipArrived` |
| `WorkDestroyed`, `PullDown`, `HarborBuilt` | loss of a goal, `nobHarborBuilding::Destroy`, `HarborDestroyed`, `NewHarborBuilt` |

*Abstractions.* Every harbour lies at one sea with one node between any two coasts, so a voyage has two steps
and can be interrupted at sea and before the coast. Distances and points of need only choose between candidates: any of
them is chosen. What an expedition needs comes in whole sets. People and wares sail from the harbour they are in; nobody
walks to another harbour of the island to sail from there. Sea attacks and the building of ships are left out.

*Properties.* `ShipsAtWork` (with the types): a ship has exactly one event to come, whatever is built and
destroyed around it, and lands what it carries where it was to go. `NothingLost`: everybody under way is in one place, and the
materials of expeditions are conserved. `BoundForHarbours`: nobody waits for a harbour that is gone, where
no ship would ever take him, and those aboard know where they are going. `Served`: who waits is fetched and who is aboard is landed.

*Runs.* `ships_game`: one ship, a harbour on one island and up to two on another, a person and a
ware, room for one, one expedition, explorations, and two harbours pulled down, so that there may be none and the ship is lost, and
others built at any moment. One ship that carries one is enough
to be called, reloaded, turned round and landed in every state with others waiting. `ships_served`: two
ships and two harbours with room for all who wait, no expeditions; harbours and works may be destroyed. A single ship, or room for fewer than
wait, starves some (section 4.2). Both stop when nothing is left to be done, hence no check of deadlock.

*Restriction.* `Careful`: harbours are pulled down and built, and expeditions called off, only when the ships can
cope (`CopeWithout`, `CopeWith`); what happens otherwise is listed in section 4.2. Two of these conditions were found by the
proofs, which did not go through without them, for a reason: a ship on its last step to a harbour that
stands, while the one it sails for goes; and a lost ship at the very place of a new harbour, with a route to another one left over. With two
harbours pulled down TLC finds both.

*Fairness.* `WF` of each ship's step or task: each is an event of the event manager, and every event
comes. None for players, people and wares.

## 3. What is proved

`tlapm` proves, for every value of the constants that satisfies the named
assumptions of the modules:

* `LockstepProofs!TypeCorrect`, `BroadcastsExecuted`, `Lockstepped`, all
  from `Invariance`: the inductive invariant `IInv`. `ExecutesBroadcasts`
  alone is not inductive: it speaks of what was executed, and a step executes what lies at the
  head of queues. `IInv` therefore adds where the contributions
  stand: `PlacesOK`, `PlacesOrdered` and `PlacesComplete` (the history `at`
  lists exactly the log positions of each slot's contributions, in order),
  `CursorOK` (a client has read the log up to `rd`), `QueueOK` (a client's
  queue of a slot is what stands between the frames it executed and its position), `WorldOK` (what it executed), and `LoopOK` (the frame loop of the server).
* `LockstepProofs!Refinement`: `Spec => AbstractSpec`; initial states
  map to initial states and each action to a `Decide`, an `Execute` or a stutter.
* `LockstepProofs!AheadByOne`, `AlarmsJustified`, `DifferencesNoticed`, from the invariance of
  `AInv` and `DInv`. `OneFrameAhead` says what is waiting, so the invariant numbers it: the messages of a slot which the server
  holds and those under way are consecutive, from the frame the server needs next (`Numbered`); a client has sent one for its
  start and one for each frame (`AllSent`); a slot contributes exactly what the server has received of a human, and of an AI one more than
  it has handled (`Contributed`); a frame of the server begins with a message of every human and none of the kicked under
  way (`Ready`). With the numbers known, the messages compared in one loop are those of one frame: `DInv` says
  what has been compared so far (`FirstOK`, `Compared`).
* `PactsProofs!TypeCorrect`, `TreatiesMutual`, `PartnersProtected`, `AlliesSeen`.
  `Mutual` needs to know that a record which is accepted on one side is equal on
  the other whatever orders are under way; the orders in flight matter, as an
  acceptance is only effective for the proposal's id. `AlliesSeen` adds that the view of a player changes with each half of an alliance.
* `PactsProofs!ByConsent`, `EndedByBoth`: who has proposed and who has asked for an end is history, which the invariant
  ties to the records: an answer or a wish under way is to a proposal, or a treaty, which was really made.

* `SiegeProofs!GoalsKnown`, `WalkersCounted`, `AlwaysHeld`, `FlagForOne`, `EnemiesAtTheFlag`, `RightlyTaken`, all from
  `Inductive`. The handlers of `Siege` are operators on scenes, so the invariant `Good` is one, and each handler has a lemma: what the
  garrison does changes nothing but counts (`Garrisoned`), what happens in the field concerns nobody at the flag or at the door
  (`Calm`), a leave is a leave whoever causes it (`Left`). `Good` relates the two lists to the goals (`Listed`); the state of the
  defender to that of the one man at the flag (`AtTheFlag`: somebody waits only while the defender is under way to him or turns round for him); and the
  flag of the capture to those who take part in it (`TakingBut`: nobody but the owner's men is called in, one after another, and
  only while no fight is possible). In the middle of a handler somebody is in no list while he still walks in, or is
  counted when he no longer does, hence the parameters of `GoodBut`. `FlagForOne` holds for any alliances; `EnemiesAtTheFlag` needs `Unallied`, a
  game without them: see `nobMilitary.cpp:859` in section 4.2.

* `TransportProofs!WaresInOnePlace`. The handlers of `Transport` are operators on nets, and so is the invariant `Good`: every ware is at
  the one place of the kind its state names and at no other (`PlacedAt`, `Where`), waits nowhere twice, no flag holds more than
  it has places for, and each carrier is on its road with a ware in its hands in exactly the states in which it has one
  (`CarOK`). Most of what a handler calls is *quiet* (`Quiet`: it wakes, sends or redirects, and moves nothing); the loud
  steps take a ware from its place and put it at another, in the field (`Fetched`, `Put`) or within a house (`Moves`). In the middle of a handler a carrier
  holds nothing in a state in which it should, or a ware is nowhere: `GoodFor` leaves one carrier out, `GoodExcept` one ware.
  That the calls for all wares after a road was pulled down or built (`nets`, a recursive function) exist and keep `Good`, in any order, follows
  from a least index at which they would not (`Least`, `CallsEnd`, `CallsGood`).

* `TransportWorkProofs!RoutesAlwaysStand`, `HousesAlwaysAtWork`, `NothingIsOverlooked`, from `Good` and `Well` together. `Well` is what is said
  of routes (`RouteOK`: a ware at a flag leaves by the first road of a way to its goal, one that is carried or waits has a goal), of
  houses (`Served`, `AtWork`) and of carriers (`Attended`: who has to be under way when something lies at an end of his road; `Finds`: who comes for
  a ware finds one). It needs `Good`, since whether a ware is told twice depends on where it is, and `RouteOK` needs that a
  flag which reaches a house at all reaches it by a way that does not come back (`WayLeadsOut`). While a carrier turns
  round, its own road and it are left out (`Away`, `WellBut`), until it has looked at both ends (`Covered`). A ware put down at a flag
  is not yet told of (`Unheard`) until its road or house is; one that is redirected leaves carriers who came for it without one until
  they are told (`TurnedWatch`, `CurrentDirHeard`), and the house keeps its count because it is told not to fetch the next one (`RedirectedWork`). After
  a road was pulled down routes are only `Loose` (their road may be gone), after one was built only `Lax` (a house given up may be
  in reach again); each ware's turn mends its own and spoils nobody else's (`Rerouted`, `CallScene`), and everybody has a turn (`AllInOrder`).
  The only assumption of these theorems is `TransportAssumption`; any shape of roads is allowed, and any number of wares at a flag.

* `TrafficProofs!EventsAreKnown`, `ProgressIsKept`, `FightsAreAvoided`, `NobodyIsJammed`. The handlers of `Traffic` are operators on worlds and have
  lemmas of their own (`PauseGood`, `MoveGood`, `FreedGood`, `LeaveGood`, `HandledIs` for the smallest), from which each action follows.
  The first three theorems follow from `IInv`: `Good` says that who walks has exactly one event, which is at the frame he has walked
  of his step and has the step's length, that who stands has none and remembers what he has walked (`Walks`, `Stands`), and
  that who is off the roads has none (`Away`); fights and attackers have one in time or none (`Timed`). `Clear` says that nobody walks to a blocked node.
  Neither is inductive alone: that an event is at most due is known only while a stopped step keeps its time, and a
  node may be blocked only because the figures who are stopped then are all that walk there. While a figure arrives, is sent home or sets off, it is left out
  (`GoodFor`). `NoJam` is inductive with these (`Told`), but not from call to call: `Flows(w, ns)` says that among any
  figures that wait there is one who waits for a blocked node, for somebody outside the set, or for one of the nodes `ns` that have
  become free and of which nobody has been told yet. Whoever leaves a place adds its node to `ns` (`Frees`, `Leaves`), telling takes it
  away (`FreeWorks`): a set of figures that waited only for each other after the telling would have had a reason before it
  among `ns`, and then its member, or one it waits for, would have gone on. A stop adds to those who wait only people who wait for somebody who has stopped before, up to
  the first ones, who wait for the node that is blocked now (`StopWorks`). That the chains are what they are meant to be (`ChainIs`: closed, and in every
  closed set) takes no induction, as they are least sets. The theorems assume `RoadsAssumption`, so roads may have any shape, cycles included;
  `NobodyIsJammed` also `Homeless = {}`, without which TLC finds `NoJam` violated: see `noFigure.cpp:767` in section 4.2.

* `ShipsProofs!ShipsAtWorkAlways`, `NothingLostAlways`, `BoundForHarboursAlways`, all from `Invariant`, for any number of harbours, ships,
  people and wares. `ShipsAtWork` alone is not inductive: that a ship which arrives has a task, and is where it was to go, depends on its
  route, so `ShipOK` says for each state what else is true of a ship: a step which is the last of its route exactly when it leads to
  the goal (`Course`), a place at a coast with so many events to come (`Anchored`), a home that stands, an empty hold. That
  a ship arrives where a harbour stands, or is lost because none does, holds only since everybody is told; between the first and
  the last `HarborDestroyed` some ships know and others do not, and the harbour is still in the list. `GoodBut(s, X, I)` therefore leaves the ships `X` out, and the
  items `I`, which are in nobody's hands while they are landed. The counts of `NothingLost` are numbers of elements;
  the invariant says instead where everybody is (`Placed`), and of the materials that the sets of harbours, sites and ships which
  have them add up (`Supplied`). Calls for all ships, all people landed, or as many ships as a harbour needs are functions on the list, which
  keep `GoodBut` because there is no least number of calls after which it fails (`CallsKeep`).
  The theorems assume `Careful`.

* `LobbyProofs!ColorsKept`, `ColorSearchEnds`. `ColorsUnique` alone is inductive only in a new game, where every way to become a
  player looks for a free colour. In a loaded game nobody looks for one who is moved, so the invariant `Inv` adds that all the
  players the game has had keep different colours (`PastColorsDiffer`, which `LobbyAssumption` says of the saved game itself),
  that nobody asks for a team or a colour, and that whoever has a socket is in a slot that is not free or closed. That the search
  ends is a count: the other players have at most `N - 1` of the `NumColors` colours (`ColorLeft`).

* `LobbyProofs!ListsKept`, `StartedAlike`: `ListsAgree` and `OthersStartAlike`, from `LInv`. What is true of a client whose
  messages are still under way is that they *lead* from what it has to what the server has. A fold would say so, but
  to unfold it over a sequence takes induction; the invariant says instead that there is a chain of views
  (`Leads`): the list without readiness, the own number and the settings, one view before each message,
  each the last one after its message (`After`). The last view agrees with the server's list (`Agrees`), but for a team or colour the player
  has asked for and the server has not answered; the first with the client's list (`Tied`), but for a team or colour asked for,
  or in an answer under way. A broadcast makes the chain longer at its end (`Broadcast`: one lemma per kind of
  change says that the last view takes it as the server's list does, `TakesKind`, `TakesChoice`, `TakesSwap`), reading makes it
  shorter at its beginning (`ReadOK`), a choice only widens what is excepted (`ChooseOK`). In front of a start
  message stands the view of `X`, which is the same for everybody (`Alike`): what the server had when it sent the message.
  A reserved slot may look free to somebody who joined before it was reserved
  (`Shows`); `Places` and `Joins` say who is in which slot, and that nobody has anything to read before he has joined.

`ColorsKept` assumes `~Swaps`, see `GamePlayerInfo.cpp:104` in section 4.2;
`ListsKept` and `StartedAlike` assume `Orderly`, the restrictions of `lobby_game` (section 2.2), `Swaps = Meddles = FALSE` and at
most one guest who may time out: without any of them the lists differ (`GameServer.cpp:604`, `:1294`, `GameServerPlayer.cpp:100` there).
`Lockstepped` and `Refinement` assume `~LoadingKicks`, the theorems about ships and those about treaties except `TypeCorrect` assume
`Careful`; without these TLC finds executions in which
the code does not have the property (section 4.2). `AheadByOne`, `AlarmsJustified` and `DifferencesNoticed` assume `SwitchTargets = {}`, a game in
which nobody changes slots: a player can only change to the slot of a dummy AI (`dskGameInterface.cpp:663`), so
these are all games without one. With a change of slots the server compares messages of different frames,
and need not wait for the player who has changed (section 4.2).

Only model-checked: the invariants of `Orders`, and `GameGoesOn`, `Delivered`, `SiegeEnds`, `Served`, as liveness
under fairness (and `ENABLED`) is out of the prover's reach. `Orders` makes its calls in the order of lists, by folds; what a fold keeps is
shown by induction over the list, which is out of reach too, and the way around it (section 5) changes the model. `NothingDangles` could
be proved under `Patient` only, as `orders_lost` shows.
No module declares a RECURSIVE operator. That a flag is full never for ever depends on the shape of the roads (section 4.2, `nofCarrier.cpp:554`),
so no invariant of `TransportWorkProofs` says it.

## 4. Where the code falls short

### 4.1 Violation

This run states what a comment of the repository says and shows
an execution of the code in which it is not so (quotation in `PROJECT.json`).

| Run | Property | Place |
|---|---|---|
| `orders_lost` | `NothingDangles` | `Ware.cpp:295`: a ware without a goal that is carried or waits in a house gets a warehouse as its goal which does not know it; pulled down, it leaves a dangling pointer |

### 4.2 What the other runs exclude

These were met while modelling. The runs and theorems hold under restrictions that keep
them out; each restriction is a constant, or a state the runs do not start from.

| Place | What happens | Excluded by |
|---|---|---|
| `GameClient.cpp:753` | a client that is still loading when a player is kicked frees the slot, though an AI takes it over (`GameServer.cpp:799`), and simulates another game than the others | `LoadingKicks = FALSE` |
| `GameServer.cpp:963` | a change of slots leaves what the player has sent in the queue of his old slot (`:1587`), and the server compares checksums of different frames | no `SwitchTargets` in `lockstep_divergence` |
| `GameServer.cpp:1587` | who takes over the slot of an AI that continues a kicked player's finds the messages the latter has sent still in its queue: the server goes on by so many frames without waiting for him | `SwitchTargets` in `lockstep_game` is a slot no human has played; `SwitchTargets = {}` in `LockstepProofs!AheadByOne` |
| `GameClient.cpp:430` | a pause received while loading is forgotten when loading ends | no property speaks of the clients' pause |
| `GameServerPlayer.cpp:100` | the slot of a joiner that timed out is freed silently; another joiner that got its list meanwhile keeps it | openings with one joiner |
| `GameServer.cpp:604`, `:650` | the toggle of a reserved slot is broadcast but not done | `Meddles = FALSE` |
| `GameServer.cpp:1294` | after a swap in a new game a choice under way is attributed to the other slot | `Swaps = FALSE` |
| `GamePlayerInfo.cpp:104` | colours stay with the slots when the host moves to an open slot of a new game, where nobody looks whether its colour is free: two players may have the same until one chooses again; the countdown is refused meanwhile | `Swaps = FALSE` |
| `GameServer.cpp:377` | the game starts although a player left, or a slot was changed, in the countdown | no property says it is complete |
| `GameServer.cpp:570` | the host's game starts before its own client has read the last broadcasts | `OthersStartAlike` leaves the host out |
| `GameClientPlayer.cpp:1633` | a suggestion confirmed after the treaty has come into force takes the proposer's half of it back: he may attack a partner who is still bound (against `:1231`) | `Careful` |
| `GameClientPlayer.cpp:1645` | the id of a proposal is its game frame, so two proposals of one frame share it | `Careful` and `MaxOrders = 1` |
| `GameClientPlayer.cpp:1764` | a withdrawn proposal can still be accepted: both are told of a treaty that has no duration | `Consent` speaks of treaties in force |
| `GameClientPlayer.cpp:1730` | an old wish to cancel, once answered, ends a new proposal | `EndsByBoth` speaks of treaties in force |
| `GameServer.cpp:1382` | a client whose handshake ends after the countdown becomes a player of the running game, which it is never told to start; the server waits for it | no property speaks of it |
| `GameServer.cpp:1434` | `async_player1` is not reset after a report, so a second one is never collected, and whoever uploads last is kicked | not modelled |
| `GameClientPlayer.cpp:538` | a ware brought back from a full flag counts as carried and is not cancelled when its way is cut; it is carried out and turns round at the flag | `RoutesStand` speaks of wares that have not been out |
| `GameClientPlayer.cpp:538` | the cancelled ware leaves the registry but is not deleted (a leak) | memory is not modelled |
| `noFlag.cpp:322` | a free place is offered to the warehouse and to nobody after it; if its wares are cancelled, a carrier waits for ever. With eight places the flag has to be emptied while wares wait in the house, which happens while figures leave it first (`nobBaseWarehouse.cpp:325`) | no third warehouse in `transport_game` |
| `nofCarrier.cpp:554` | full flags around a cycle of roads wait for each other | a line of roads in `transport_game` |
| `nobBaseWarehouse.cpp:769` | `CheckOuthousing` is called with the type of the building instead of the ware's | the sending out of a ware is an event that may come at any time |
| `nobBaseWarehouse.cpp:863` | a cancelled ware goes back into stock without the sites being told, one of which may wait for it | no liveness in `Orders` |
| `nofWarehouseWorker.cpp:110` | the test whether the ware is to stay in (`goal != location`) compares the goal with the flag and is always true | modelled as it is |
| `nobMilitary.cpp:1082` | a coin on its last step when coins are stopped is forgotten and delivered nevertheless; more may be ordered than there is room for | coins are not modelled |
| `nofAttacker.cpp:893` | for want of a way or a home, any attacker around the building is called in, also one of another player, against the assertion at `nobMilitary.cpp:623` | no property speaks of it; `AddActiveSoldier` takes him |
| `nobBaseMilitary.cpp:377` | if the attacker called to the defender finds no way, the defender waits for nobody; `CheckArrestedAttackers`, which would help, is called nowhere | `SiegeEnds` speaks of attackers |
| `nobMilitary.cpp:937` | `capturing_soldiers` stays too high when capturers leave or are stopped | `EverybodyCounted` is an inequality |
| `nobMilitary.cpp:1013` | a far-away capturer who arrives while somebody walks in takes a place around the building and is never called again | `SiegeEnds` speaks of the flag |
| `nobMilitary.cpp:859` | `Capture` does not tell `far_away_capturers`: one of A's, on his way to help in the building A had taken, attacks there even when B, an ally of A, has taken it from a third player meanwhile, and is let in as "a far away attacker" or fights | one owner without attackers in `siege_game`; `Unallied` in `SiegeProofs` |
| `noFigure.cpp:767` | a waiting figure that starts to wander does not tell those behind it | `Homeless = {}` |
| `noShip.cpp:676` | an expedition can be cancelled at sea or twice (the comment at `:674` says "nur wenn es steht"): it unloads where it is, or its materials are there twice | `Careful` |
| `noShip.cpp:714` | an expedition on its way home does not look whether the harbour stands: the ship stops for ever | `Careful` |
| `noShip.cpp:399` | the harbour goes while a ship unloads: it keeps its state, and stops, becomes an exploration, or meets an assertion (`:1238`) later | `Careful` |
| `noShip.cpp:798`, `:831` | a new harbour is searched for, but the place in the route not reset: an assertion, or arrival in the midst of the sea | `Careful` |
| `GameClientPlayer.cpp:2068` | a ship at the coast of the best harbour, or on its last step to it, is told that there is none, and has its goal and route changed nevertheless | `Careful` |
| `noShip.cpp:1231` | a lost ship that lies where the new harbour is built, with a route to another one left over (that has been destroyed too), finds no way to where it is (`:1006`, `:623`) and idles with its load aboard; whoever it carries is never landed | `Careful` |
| `Ware.cpp:119` | a ware that waits for a ship when no warehouse is left keeps its old destination and is never fetched after it has got a goal again | `Careful` |
| `noShip.cpp:831` | an exploration without its home ends as a transport, its scouts vanish; those of a destroyed harbour do too | `NothingLost` does not count scouts |
| `noShip.cpp:527`, `:546` | a ship idle after it went to a harbour which needs it no more does not ask who else does | `Served` speaks of those who wait only while nothing is called off or destroyed |
| `nobHarborBuilding.cpp:867` | people come before wares, expeditions before both: who waits may do so for ever while others keep coming | room for all in `ships_served`, and two ships |
| `noMovable.cpp:106` | a missing `break`: steps on level ground take the time of steps uphill | times are parameters |

## 5. Plan

Twelve runs are kept, each below five minutes; a new one takes the place of one whose
question another answers too, or of a violation once its code is repaired.

In this order; proofs where the argument is an invariant.

1. Proofs about `Orders`. Its folds over lists have to become recursive functions as in `Transport` and `Ships`; that
   such a function has a value, and what holds along it, follows from a least index at which it would fail
   (`TransportProofs!Least`, `ShipsProofs!CallsKeep`), not from an induction theorem.
2. `AsyncReport` — on top of the states `Lockstep` calls `async`.
3. Attacks over the sea, between `Siege` and `Ships`.
4. `Replay` — the recorded commands and their replay; a crash while recording.
5. Coins in `Orders` and `Siege`; splitting a road in `Transport`.

## 6. Not modelled, and why

Clocks (frame lengths, ping times, the countdown's seconds): every order of the
events they trigger is allowed instead; only `Traffic` counts game frames. Chat, names and pings: no effect on the
state. What a path costs, territory and building quality: sequential loops over a map. AI
decisions: a source of commands. Fights in detail, ranks and dice: a choice of who wins. Attacks over the sea, trade,
catapults, geologists, hunters and scouts: each is a component of its own and not yet modelled. The larger part of the
lines of the repository are vendored libraries (`s-c`, `contrib`), drawing, windows and AI heuristics. Graphics, sound, resources, the client of
the lobby server, archives, tools and packaging: no state of the game. Message
framing and sockets: used as FIFO connections which may break.
