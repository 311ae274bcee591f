------------------------------ MODULE Lockstep ------------------------------
(***************************************************************************)
(* The running game: GameServer (one process, on the host) and the         *)
(* GameClient of every human player, after GameServer::StartGame.          *)
(*                                                                         *)
(* Every client simulates the whole game by itself.  Time is cut into      *)
(* network frames (NWF); the player of each slot contributes one message   *)
(* (GameMessage_GameCommand) per frame, the server broadcasts it, and a    *)
(* client executes a frame when it holds the next message of every slot.   *)
(*                                                                         *)
(* Every message of the running game is broadcast with SendToAll, in one   *)
(* order, over one TCP connection per client.  So the broadcasts are one   *)
(* sequence, log, and each client reads it at its own position, rd[c].     *)
(* Broadcasts a client ignores in this phase (NWFDone, ping, chat) are not *)
(* in the log.  The game frames between two network frames only advance    *)
(* the deterministic simulation and are part of the frame.                 *)
(***************************************************************************)
EXTENDS Naturals, Sequences

CONSTANTS
  N,              \* number of player slots in use (serverconfig.playercount)
  Humans,         \* slots played by humans when the game starts
  Host,           \* the human whose program also runs the server
  Cmds,           \* the game commands (gc::GameCommand) of one message
  SwitchTargets,  \* slots a human may name in a gc::SwitchPlayer command
  Unstable,       \* clients whose connection may break, or who may leave
  Diverging,      \* clients whose simulation may leave the common state
  LoadingKicks,   \* may a player be kicked while a client is still loading?
  MaxFrames,      \* bound: network frames of the run
  MaxToggles,     \* bound: how often the host toggles the pause
  Orders(_, _)    \* Orders(p, k): what slot p's player may order in frame k

ASSUME LockstepAssumption ==
  /\ N \in Nat \ {0}
  /\ Humans \subseteq 1..N /\ Host \in Humans
  /\ SwitchTargets \subseteq 1..N
  /\ Unstable \subseteq Humans /\ Diverging \subseteq Humans
  /\ LoadingKicks \in BOOLEAN
  /\ MaxFrames \in Nat /\ MaxToggles \in Nat
  /\ \A p \in 1..N, k \in 1..(MaxFrames + 1) :
       Orders(p, k) \subseteq [cmds : SUBSET Cmds, switch : SwitchTargets \cup {0}]

Slots == 1..N
Nobody == 0   \* no client behind a slot; no target of a switch
NoSwitch == [old |-> Nobody, new |-> Nobody]
SwitchNote == [old : Slots, new : Slots] \cup {NoSwitch}

(***************************************************************************)
(* The commands of one message: ordinary commands and at most one          *)
(* SwitchPlayer, whose target the server and the clients look at.          *)
(***************************************************************************)
Payload == [cmds : SUBSET Cmds, switch : SwitchTargets \cup {Nobody}]
Nothing == [cmds |-> {}, switch |-> Nobody]

(* A client's message: its sender, the number of frames the sender had     *)
(* executed (which fixes the checksum it carries), and its commands.       *)
Message == [from : Humans, n : Nat, gcs : Payload]
Msg(c, n, g) == [from |-> c, n |-> n, gcs |-> g]

(* The broadcasts of the running game. *)
Entry == [type : {"start", "async"}]
           \cup [type : {"gc"}, slot : Slots, gcs : Payload]
           \cup [type : {"kick"}, slot : Slots]
           \cup [type : {"pause"}, on : BOOLEAN]
Start == [type |-> "start"]
Async == [type |-> "async"]
GC(p, g) == [type |-> "gc", slot |-> p, gcs |-> g]
Kicked(p) == [type |-> "kick", slot |-> p]
Pause(b) == [type |-> "pause", on |-> b]

VARIABLES
  mode,   \* where GameServer::Run is: "starting", "idle" or "nwf"
  cur,    \* the slot the loop of "starting" or "nwf" handles next
  ps,     \* players[p].ps: "occupied" or "ki"
  conn,   \* the client whose socket slot p reads, or Nobody
  gcq,    \* players[p].gc_queue of the server
  pause,  \* framesinfo.pause of the server
  nr,     \* framesinfo.nr: network frames the server has done
  first,  \* firstPlayer of the running frame: <<its message>> or <<>>
  sw,     \* the switch noted in the running frame, or NoSwitch
  async,  \* has the server reported an asynchronous game?
  toggles \* how often the host has toggled the pause

VARIABLES
  log,    \* all broadcasts, in order
  up,     \* up[c]: messages client c sent which the server has not handled
  eof     \* eof[c]: what a kicked client can still read of the log

VARIABLES
  phase,  \* "config", "loading", "game" or "lost" (CS_STOPPED)
  rd,     \* how much of the log the client has handled
  queue,  \* players[p].gc_queue of the client
  part,   \* slots the client takes for players (ps occupied or KI)
  cpause, \* framesinfo.pause of the client
  world   \* the frames the client's simulation has executed

(* History: at[p][n] is the place in the log of the n-th message of slot p.*)
VARIABLE at

serverVars == <<mode, cur, ps, conn, gcq, pause, nr, first, sw, async, toggles>>
loopVars   == <<mode, cur, nr, first, sw>>
clientVars == <<phase, rd, queue, part, cpause, world>>
vars == <<serverVars, log, up, eof, clientVars, at>>

(***************************************************************************)
(* A frame of a client's simulation: the slots it took for players, the    *)
(* commands executed for each slot (Nothing for one which is no player),   *)
(* and whether this simulation left the common state in it: by another     *)
(* number of game objects, or only by other random numbers later on.       *)
(***************************************************************************)
Drift == {"none", "random", "objects"}
Frame == [players : SUBSET Slots, gcs : [Slots -> Payload], drift : Drift]

TypeOK ==
  /\ mode \in {"starting", "idle", "nwf"}
  /\ cur \in 1..(N + 1)
  /\ ps \in [Slots -> {"occupied", "ki"}]
  /\ conn \in [Slots -> Humans \cup {Nobody}]
  /\ gcq \in [Slots -> Seq(Message)]
  /\ pause \in BOOLEAN /\ async \in BOOLEAN
  /\ nr \in 0..MaxFrames /\ toggles \in Nat
  /\ first \in Seq(Message)
  /\ sw \in SwitchNote
  /\ log \in Seq(Entry)
  /\ up \in [Humans -> Seq(Message)]
  /\ eof \in [Humans -> Nat]
  /\ phase \in [Humans -> {"config", "loading", "game", "lost"}]
  /\ rd \in [Humans -> Nat]
  /\ queue \in [Humans -> [Slots -> Seq(Payload)]]
  /\ part \in [Humans -> SUBSET Slots]
  /\ cpause \in [Humans -> BOOLEAN]
  /\ world \in [Humans -> Seq(Frame)]
  /\ at \in [Slots -> Seq(Nat)]

-----------------------------------------------------------------------------
(* Sending.  SendToAll puts a copy of the message into the queue of every  *)
(* connected client; here it is one more entry of the log.                 *)

Send(e) == log' = Append(log, e) /\ UNCHANGED at

SendGC(p, g) ==
  /\ log' = Append(log, GC(p, g))
  /\ at' = [at EXCEPT ![p] = Append(@, Len(log) + 1)]

Connected(c) == \E p \in Slots : ps[p] = "occupied" /\ conn[p] = c

(* What the server sends a client it has kicked ends with the flush of its *)
(* send queue in KickPlayer.                                               *)
Readable(c) == IF Connected(c) THEN Len(log) ELSE eof[c]

(* A client's message reaches the server only while its socket is open.    *)
SendUp(c, m) == up' = [up EXCEPT ![c] = IF Connected(c) THEN Append(@, m) ELSE @]

Init ==
  /\ mode = "starting" /\ cur = 1
  /\ ps = [p \in Slots |-> IF p \in Humans THEN "occupied" ELSE "ki"]
  /\ conn = [p \in Slots |-> IF p \in Humans THEN p ELSE Nobody]
  /\ gcq = [p \in Slots |-> <<>>]
  /\ pause = FALSE /\ async = FALSE
  /\ nr = 0 /\ toggles = 0
  /\ first = <<>> /\ sw = NoSwitch
  /\ log = <<Start>>
  /\ up = [c \in Humans |-> <<>>]
  /\ eof = [c \in Humans |-> 0]
  /\ phase = [c \in Humans |-> "config"]
  /\ rd = [c \in Humans |-> 0]
  /\ queue = [c \in Humans |-> [p \in Slots |-> <<>>]]
  /\ part = [c \in Humans |-> Slots]
  /\ cpause = [c \in Humans |-> FALSE]
  /\ world = [c \in Humans |-> <<>>]
  /\ at = [p \in Slots |-> <<>>]

-----------------------------------------------------------------------------
(* GameServer.  One iteration of a loop over the slots is one step; while  *)
(* a loop runs (mode # "idle") the server does nothing else.               *)

(* The loop of StartGame: every AI gets the message of its first frame.    *)
StartSlot ==
  /\ mode = "starting" /\ cur \in Slots
  /\ cur' = cur + 1
  /\ IF ps[cur] = "ki" THEN SendGC(cur, Nothing) ELSE UNCHANGED <<log, at>>
  /\ UNCHANGED <<mode, ps, conn, gcq, pause, nr, first, sw, async, toggles,
                 up, eof, clientVars>>

StartDone ==
  /\ mode = "starting" /\ cur = N + 1
  /\ mode' = "idle" /\ cur' = 1
  /\ UNCHANGED <<ps, conn, gcq, pause, nr, first, sw, async, toggles,
                 log, up, eof, clientVars, at>>

(* What is broadcast of a player's commands: none of them in a pause.  The *)
(* code also asks isDefeated() of the server's own player object, a flag   *)
(* nothing on the server ever sets.                                        *)
Forwarded(g) == IF pause THEN Nothing ELSE g

(* OnNMSGameCommand, for the next message on the socket of slot p. *)
RecvGC(p) ==
  /\ mode = "idle"
  /\ conn[p] # Nobody
  /\ up[conn[p]] # <<>>
  /\ LET c == conn[p]
         m == Head(up[c])
     IN  /\ up' = [up EXCEPT ![c] = Tail(@)]
         /\ gcq' = [gcq EXCEPT ![p] = Append(@, m)]
         /\ SendGC(p, Forwarded(m.gcs))
  /\ UNCHANGED <<mode, cur, ps, conn, pause, nr, first, sw, async, toggles,
                 eof, clientVars>>

(* Messages of a kicked player which were received before its socket was   *)
(* closed are handled before the next network frame.                       *)
Drained == \A p \in Slots : ps[p] = "ki" /\ conn[p] # Nobody => up[conn[p]] = <<>>

(* Mutant: the slot of a kicked player becomes free, as in a lobby. *)
KickedFree == "free"

(* The state of a slot whose player was kicked: an AI takes over. *)
KickedState == "ki"

(* KickPlayer(p): a socket error, a failed receive, a time-out, or the end *)
(* of an async log.  The first "kept" of the client's messages had already *)
(* been received into recv_queue, the others are lost with the socket.     *)
KickPlayer(p) ==
  /\ mode = "idle"
  /\ ps[p] = "occupied" /\ conn[p] \in Unstable
  /\ LoadingKicks \/ \A d \in Humans : phase[d] \in {"game", "lost"}
  /\ ps' = [ps EXCEPT ![p] = KickedState]
  /\ \E kept \in 0..Len(up[conn[p]]) :
       up' = [up EXCEPT ![conn[p]] = SubSeq(@, 1, kept)]
  /\ eof' = [eof EXCEPT ![conn[p]] = Len(log)]
  /\ log' = Append(Append(log, Kicked(p)), GC(p, Nothing))
  /\ at' = [at EXCEPT ![p] = Append(@, Len(log) + 2)]
  /\ UNCHANGED <<mode, cur, conn, gcq, pause, nr, first, sw, async, toggles,
                 clientVars>>

(* The host presses the pause key of the game interface. *)
TogglePause ==
  /\ mode = "idle" /\ toggles < MaxToggles
  /\ phase[Host] = "game"
  /\ toggles' = toggles + 1
  /\ pause' = ~pause
  /\ Send(Pause(~pause))
  /\ UNCHANGED <<mode, cur, ps, conn, gcq, nr, first, sw, async, up, eof,
                 clientVars>>

-----------------------------------------------------------------------------
(* The network frame of ClientWatchDog.  Its timer is not modelled: a      *)
(* frame is tried at any time, and waits for every connected player.       *)

(* Mutants: nobody is waited for; the AIs are waited for as well. *)
NobodyLags(p) == p \notin Slots
AILags(p) == gcq[p] = <<>>

Lagging(p) == ps[p] = "occupied" /\ gcq[p] = <<>>

BeginNWF ==
  /\ mode = "idle" /\ ~pause /\ Drained
  /\ nr < MaxFrames
  /\ \A p \in Slots : ~Lagging(p)
  /\ mode' = "nwf" /\ cur' = 1
  /\ first' = <<>> /\ sw' = NoSwitch
  /\ UNCHANGED <<ps, conn, gcq, pause, nr, async, toggles, log, up, eof,
                 clientVars, at>>

(* Mutant: the numbers of the messages are compared, not the checksums. *)
NumberOnly(m) == [n |-> m.n, history |-> <<>>, objects |-> FALSE]

(* The checksum of a message: the random number generator's value at the   *)
(* start of the frame the sender executed last, for which the number of    *)
(* that frame and the history before it stand (two histories never share   *)
(* a value), and the object counters after it.                             *)
Checksum(m) == [n |-> m.n,
                history |-> SubSeq(world[m.from], 1, m.n - 1),
                objects |-> m.n > 0 /\ world[m.from][m.n].drift = "objects"]

(* The first player with a message sets the standard, also for itself. *)
Reference(m) == IF first = <<>> THEN m ELSE first[1]

(* A player asynchronous to the first: report it and toggle the pause. *)
ReportAsync ==
  /\ async' = TRUE
  /\ pause' = ~pause
  /\ log' = Append(Append(log, Async), Pause(~pause))
  /\ UNCHANGED at

(* The commands of an AI, for a slot the server plays itself. *)
SendAI(p) ==
  /\ IF ps[p] = "ki" THEN \E g \in Orders(p, nr + 1) : SendGC(p, g)
                     ELSE UNCHANGED <<log, at>>
  /\ UNCHANGED <<pause, async>>

(* The loop body for a slot with a message: note its checksum and switch,  *)
(* drop it, compare.                                                       *)
NWFMessage(p) ==
  /\ mode = "nwf" /\ cur = p
  /\ gcq[p] # <<>>
  /\ LET m == Head(gcq[p])
     IN  /\ first' = <<Reference(m)>>
         /\ sw' = IF m.gcs.switch # Nobody THEN [old |-> p, new |-> m.gcs.switch] ELSE sw
         /\ gcq' = [gcq EXCEPT ![p] = Tail(@)]
         /\ IF Checksum(m) # Checksum(Reference(m)) THEN ReportAsync ELSE SendAI(p)
  /\ cur' = cur + 1
  /\ UNCHANGED <<mode, ps, conn, nr, toggles, up, eof, clientVars>>

(* The loop body for a slot without one: an AI. *)
NWFNoMessage(p) ==
  /\ mode = "nwf" /\ cur = p
  /\ gcq[p] = <<>>
  /\ SendAI(p)
  /\ cur' = cur + 1
  /\ UNCHANGED <<mode, ps, conn, gcq, nr, first, sw, toggles, up, eof,
                 clientVars>>

(* ChangePlayer(old, new): a human takes over the slot of an AI. *)
MayChange == /\ sw # NoSwitch
             /\ ps[sw.old] = "occupied" /\ ps[sw.new] = "ki"

EndNWF ==
  /\ mode = "nwf" /\ cur = N + 1
  /\ mode' = "idle" /\ cur' = 1
  /\ nr' = nr + 1
  /\ first' = <<>> /\ sw' = NoSwitch
  /\ IF MayChange
       THEN /\ ps' = [ps EXCEPT ![sw.old] = "ki", ![sw.new] = "occupied"]
            /\ conn' = [conn EXCEPT ![sw.old] = Nobody, ![sw.new] = conn[sw.old]]
       ELSE UNCHANGED <<ps, conn>>
  /\ UNCHANGED <<gcq, pause, async, toggles, log, up, eof, clientVars, at>>

-----------------------------------------------------------------------------
(* GameClient.                                                             *)

(* OnNMSServerStart: load the game, send the message of the first frame.   *)
ReadStart(c) ==
  /\ phase[c] = "config" /\ rd[c] < Readable(c)
  /\ log[rd[c] + 1] = Start
  /\ rd' = [rd EXCEPT ![c] = @ + 1]
  /\ phase' = [phase EXCEPT ![c] = "loading"]
  /\ cpause' = [cpause EXCEPT ![c] = TRUE]
  /\ SendUp(c, Msg(c, 0, Nothing))
  /\ UNCHANGED <<serverVars, log, eof, queue, part, world, at>>

(* The next broadcast of a client which has started, of the given type.    *)
NextIs(c, type) ==
  /\ phase[c] \in {"loading", "game"}
  /\ rd[c] < Readable(c)
  /\ log[rd[c] + 1].type = type

(* Mutant: gc_queue.push_front *)
EnqueueFirst(q, g) == <<g>> \o q

(* OnNMSGameCommand: gc_queue.push_back *)
Enqueue(q, g) == Append(q, g)

ReadGC(c) ==
  /\ NextIs(c, "gc")
  /\ LET e == log[rd[c] + 1]
     IN  queue' = [queue EXCEPT ![c][e.slot] = Enqueue(@, e.gcs)]
  /\ rd' = [rd EXCEPT ![c] = @ + 1]
  /\ UNCHANGED <<serverVars, log, up, eof, phase, part, cpause, world, at>>

(* Mutant: the slot is cleared in the running game, too. *)
NeverPlays(c) == c \notin Humans

(* OnNMSPlayerKicked: in the game an AI has taken the slot over, but while *)
(* this client is loading it clears the slot, as in a lobby.               *)
StillPlays(c) == phase[c] = "game"

ReadKicked(c) ==
  /\ NextIs(c, "kick")
  /\ part' = IF StillPlays(c) THEN part
             ELSE [part EXCEPT ![c] = @ \ {log[rd[c] + 1].slot}]
  /\ rd' = [rd EXCEPT ![c] = @ + 1]
  /\ UNCHANGED <<serverVars, log, up, eof, phase, queue, cpause, world, at>>

(* Mutant: the client takes every pause message for the start of a pause. *)
AlwaysPause(e) == e.type = "pause"

PauseOf(e) == e.on

(* OnNMSPause *)
ReadPause(c) ==
  /\ NextIs(c, "pause")
  /\ cpause' = [cpause EXCEPT ![c] = PauseOf(log[rd[c] + 1])]
  /\ rd' = [rd EXCEPT ![c] = @ + 1]
  /\ UNCHANGED <<serverVars, log, up, eof, phase, queue, part, world, at>>

(* OnNMSServerAsync: a message for the player, nothing else. *)
ReadAsync(c) ==
  /\ NextIs(c, "async")
  /\ rd' = [rd EXCEPT ![c] = @ + 1]
  /\ UNCHANGED <<serverVars, log, up, eof, phase, queue, part, cpause, world, at>>

(* RealStart, when the loading screen is done. *)
RealStart(c) ==
  /\ phase[c] = "loading"
  /\ phase' = [phase EXCEPT ![c] = "game"]
  /\ cpause' = [cpause EXCEPT ![c] = FALSE]
  /\ UNCHANGED <<serverVars, log, up, eof, rd, queue, part, world, at>>

(* IsPlayerLagging: does the client wait for a message of this slot? *)
Awaited(c, p) == p \in part[c] /\ queue[c][p] = <<>>

(* ExecuteGameFrame_Game: execute the commands of all players, drop them,  *)
(* and send the commands g which this player has given since.              *)
ExecuteFrame(c, g, drift) ==
  /\ phase[c] = "game" /\ ~cpause[c]
  /\ Len(world[c]) < MaxFrames
  /\ \A p \in Slots : ~Awaited(c, p)
  /\ drift # "none" => c \in Diverging
  /\ world' = [world EXCEPT ![c] =
                 Append(@, [players |-> part[c],
                            gcs |-> [p \in Slots |-> IF p \in part[c]
                                     THEN Head(queue[c][p]) ELSE Nothing],
                            drift |-> drift])]
  /\ queue' = [queue EXCEPT ![c] =
                 [p \in Slots |-> IF p \in part[c] THEN Tail(@[p]) ELSE @[p]]]
  /\ SendUp(c, Msg(c, Len(world[c]) + 1, g))
  /\ UNCHANGED <<serverVars, log, eof, phase, rd, part, cpause, at>>

(* ServerLost: the connection breaks, or the server has closed it. *)
ServerLost(c) ==
  /\ phase[c] # "lost"
  /\ c \in Unstable \/ ~Connected(c)
  /\ phase' = [phase EXCEPT ![c] = "lost"]
  /\ UNCHANGED <<serverVars, log, up, eof, rd, queue, part, cpause, world, at>>

-----------------------------------------------------------------------------
Server == \/ StartSlot \/ StartDone
          \/ \E p \in Slots : RecvGC(p) \/ KickPlayer(p)
          \/ TogglePause
          \/ BeginNWF \/ EndNWF
          \/ \E p \in Slots : NWFMessage(p) \/ NWFNoMessage(p)

Client(c) == \/ ReadStart(c) \/ ReadGC(c) \/ ReadKicked(c)
             \/ ReadPause(c) \/ ReadAsync(c)
             \/ RealStart(c) \/ ServerLost(c)
             \/ \E g \in Orders(c, Len(world[c]) + 1), drift \in Drift : ExecuteFrame(c, g, drift)

Next == Server \/ \E c \in Humans : Client(c)

Spec == Init /\ [][Next]_vars

(***************************************************************************)
(* Fairness: the main loop calls GameServer::Run and GameClient::Run again *)
(* and again, each of which handles what has arrived and does the next     *)
(* frame when it can; a client which is gone is noticed by its socket.     *)
(* Nothing makes the host resume, a player order, or a connection break.   *)
(***************************************************************************)
ServerStep ==
  \/ StartSlot \/ StartDone \/ BeginNWF \/ EndNWF
  \/ \E p \in Slots : \/ NWFMessage(p) \/ NWFNoMessage(p) \/ RecvGC(p)
                      \/ KickPlayer(p) /\ phase[conn[p]] = "lost"

ClientStep(c) ==
  \/ ReadStart(c) \/ RealStart(c)
  \/ ReadGC(c) \/ ReadKicked(c) \/ ReadPause(c) \/ ReadAsync(c)
  \/ \E g \in Orders(c, Len(world[c]) + 1), drift \in Drift :
       ExecuteFrame(c, g, drift)

Fairness == /\ WF_vars(ServerStep)
            /\ \A c \in Humans : WF_vars(ClientStep(c))

FairSpec == Spec /\ Fairness

-----------------------------------------------------------------------------
(* Safety.                                                                 *)

(* What slot p contributes to its n-th frame, in the order of the log.     *)
Contribution(p, n) == log[at[p][n]].gcs

(* Every client executes, in its k-th network frame and for every slot it  *)
(* takes for a player, exactly the slot's k-th broadcast commands: no      *)
(* message is skipped, doubled or taken a frame early, whatever the pause  *)
(* strips, whoever is kicked or switches slots, and however late or early  *)
(* the client reads.  (ExecuteGameFrame_Game, OnNMSGameCommand, SendToAll) *)
ExecutesBroadcasts ==
  \A c \in Humans : \A k \in 1..Len(world[c]) :
    \A p \in world[c][k].players :
      /\ k <= Len(at[p])
      /\ world[c][k].gcs[p] = Contribution(p, k)

(* Lockstep: two clients which have both executed their k-th network frame *)
(* have executed the same commands of the same slots in it.                *)
SameFrames ==
  \A c, d \in Humans :
    \A k \in 1..Len(world[c]) :
      k <= Len(world[d]) => /\ world[c][k].players = world[d][k].players
                            /\ world[c][k].gcs = world[d][k].gcs

(* The histories two clients have in common up to frame k. *)
Agree(c, d, k) == SubSeq(world[c], 1, k) = SubSeq(world[d], 1, k)

(* The server reports an asynchronous game only if the simulations of two  *)
(* clients really differ (the comparison in ClientWatchDog pairs messages  *)
(* by their place in the queues only).                                     *)
NoFalseAlarm ==
  async => \E c, d \in Humans :
             \E k \in 1..Len(world[c]) : k <= Len(world[d]) /\ ~Agree(c, d, k)

(* A difference is noticed: when two clients are still connected after the *)
(* server's frame nr, their simulations agreed up to frame nr - 2, their   *)
(* object counts even up to frame nr - 1, or the asynchronous game has     *)
(* been reported.                                                          *)
DifferenceNoticed ==
  (mode = "idle" /\ ~async /\ nr >= 2) =>
    \A c, d \in Humans :
      Connected(c) /\ Connected(d) =>
        /\ Agree(c, d, nr - 2)
        /\ world[c][nr - 1].drift = "objects" <=> world[d][nr - 1].drift = "objects"

FramesBegun == IF mode = "nwf" THEN nr + 1 ELSE nr

(* No connected client gets more than one network frame ahead of another,  *)
(* nor the server more than one ahead of a client, and no client more than *)
(* one ahead of the server if an AI plays: the queues stay short.          *)
OneFrameAhead ==
  /\ \A c, d \in Humans :
       Connected(c) /\ Connected(d) => Len(world[c]) <= Len(world[d]) + 1
  /\ \A c \in Humans : Connected(c) => nr <= Len(world[c]) + 1
  /\ Humans # Slots => \A c \in Humans : Len(world[c]) <= FramesBegun + 1

-----------------------------------------------------------------------------
(* Liveness.                                                               *)

(* The game goes on: unless the host keeps it paused, every client with a  *)
(* good connection executes every frame, although others drop out: a lost  *)
(* player is kicked and an AI takes its slot, so that nobody waits for it. *)
GameGoesOn ==
  <>[]~pause => \A c \in Humans \ Unstable : <>(Len(world[c]) = MaxFrames)

=============================================================================
