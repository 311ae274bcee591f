------------------------------- MODULE Lobby -------------------------------
(***************************************************************************)
(* The lobby of a game (dskHostGame): the GameServer on the host, and the  *)
(* GameClient of every player, from the first connection to the start of   *)
(* the game.                                                               *)
(*                                                                         *)
(* The server owns the list of player slots.  A client gets the list once, *)
(* when it joins; after that the server broadcasts what happened to a slot *)
(* and every client does the same to its own list.  The simulation of the  *)
(* game starts from these lists, so they have to be equal.  The host's own *)
(* client is a client like the others, except that the server starts its   *)
(* game by a call instead of a message.                                    *)
(***************************************************************************)
EXTENDS Naturals, Sequences

CONSTANTS
  N,             \* number of player slots (serverconfig.playercount)
  Clients,       \* the programs which may join; each connects once
  Host,          \* the client of the program which runs the server
  Teams,         \* what a player chooses for its slot: team and nation
  NumColors,     \* PLAYER_COLORS_COUNT
  Settings,      \* GlobalGameSettings
  Openings,      \* the lobbies the model begins with, everybody up to date
  Timeouts,      \* may a client take longer than PING_TIMEOUT to join?
  Meddles,       \* may the host toggle or swap a slot somebody is joining?
  Swaps,         \* may the host swap players in a new game?
  MaxOps         \* bound: what the players do, leaving included

Nobody == 0
Slots == 1..N
Colors == 0..(NumColors - 1)

(* PlayerState, and for PS_KI the type of the AI.                          *)
AIs == {"jh", "dummy"}
Kinds == {"free", "reserved", "occupied", "locked"} \cup AIs
Slot == [kind : Kinds, team : Teams, color : Colors, ready : BOOLEAN]

(* The slots which play: occupied or KI. *)
Plays(L) == {p \in Slots : L[p].kind \in {"occupied"} \cup AIs}

(* No two of them have the same colour. *)
ColorsDiffer(L) == \A p, q \in Plays(L) : p # q => L[p].color # L[q].color

(* In a saved game also those whose players have left keep theirs. *)
PastColorsDiffer(L) ==
  \A p, q \in Slots : (p # q /\ "locked" \notin {L[p].kind, L[q].kind}) => L[p].color # L[q].color

ASSUME LobbyAssumption ==
  /\ N \in Nat \ {0} /\ NumColors \in Nat /\ N <= NumColors
  /\ Host \in Clients /\ Nobody \notin Clients
  /\ Timeouts \in BOOLEAN
  /\ Meddles \in BOOLEAN /\ Swaps \in BOOLEAN
  /\ MaxOps \in Nat
  /\ Openings \subseteq [slot : [Slots -> Slot], conn : [Slots -> Clients \cup {Nobody}],
                          guests : SUBSET Clients, settings : Settings, ops : 0..MaxOps,
                          savegame : BOOLEAN]
  /\ \A o \in Openings :
       /\ o.conn[1] = Host /\ o.slot[1].ready
       /\ ColorsDiffer(o.slot) /\ (o.savegame => PastColorsDiffer(o.slot))
       /\ \A p \in Slots : /\ o.slot[p].kind # "reserved"
                           /\ o.slot[p].kind = "occupied" <=> o.conn[p] # Nobody
                           /\ \A q \in Slots \ {p} : o.conn[p] = o.conn[q] => o.conn[p] = Nobody

(* Messages of the server.  Chat, ping, names and the countdown's numbers  *)
(* change nothing here.                                                    *)
Message == [type : {"list"}, list : [Slots -> Slot]]
             \cup [type : {"new", "state", "kicked"}, slot : Slots]
             \cup [type : {"team"}, slot : Slots, team : Teams]
             \cup [type : {"color"}, slot : Slots, color : Colors]
             \cup [type : {"ready"}, slot : Slots, ready : BOOLEAN]
             \cup [type : {"swap"}, slot : Slots, with : Slots]
             \cup [type : {"settings"}, settings : Settings]
             \cup [type : {"start"}]

(* Messages of a client which has joined; the server knows its slot by the *)
(* socket.                                                                 *)
Request == [type : {"ready"}, ready : BOOLEAN]
             \cup [type : {"team"}, team : Teams]
             \cup [type : {"color"}]

VARIABLES
  status,   \* GameServer: "config" (SS_CONFIG) or "game" (SS_GAME)
  counting, \* countdown.do_countdown
  slot,     \* players
  conn,     \* the client whose socket slot p has, or Nobody
  ggs,      \* the server's settings
  down, up  \* messages on their way to, and from, client c

VARIABLES
  phase,    \* "out", "joining", "lobby", "game", or "gone"
  self,     \* playerid of the client
  list,     \* players of the client
  cggs,     \* ggs of the client
  ops,      \* what the players have done
  savegame  \* is the map a saved game (MAPTYPE_SAVEGAME)?

(* History: what client c started its game with; <<>> before.              *)
VARIABLE started

serverVars == <<status, counting, slot, conn, ggs>>
clientVars == <<phase, self, list, cggs>>
vars == <<serverVars, down, up, clientVars, ops, savegame, started>>

Beginning == [list : [Slots -> Slot], settings : Settings, self : Slots]

TypeOK ==
  /\ status \in {"config", "game"} /\ counting \in BOOLEAN
  /\ slot \in [Slots -> Slot]
  /\ conn \in [Slots -> Clients \cup {Nobody}]
  /\ ggs \in Settings
  /\ down \in [Clients -> Seq(Message)] /\ up \in [Clients -> Seq(Request)]
  /\ phase \in [Clients -> {"out", "joining", "lobby", "game", "gone"}]
  /\ self \in [Clients -> Slots]
  /\ list \in [Clients -> [Slots -> Slot]]
  /\ cggs \in [Clients -> Settings]
  /\ ops \in Nat /\ savegame \in BOOLEAN
  /\ started \in [Clients -> Seq(Beginning)]

(* The host has opened the game and joined it, as others may have, too; the *)
(* guests may come.                                                        *)
Init ==
  /\ status = "config" /\ counting = FALSE
  /\ \E o \in Openings :
       /\ slot = o.slot /\ conn = o.conn /\ ops = o.ops
       /\ ggs = o.settings /\ savegame = o.savegame
       /\ phase = [c \in Clients |-> IF \E p \in Slots : conn[p] = c THEN "lobby"
                                     ELSE IF c \in o.guests THEN "out" ELSE "gone"]
  /\ down = [c \in Clients |-> <<>>] /\ up = [c \in Clients |-> <<>>]
  /\ self \in [Clients -> Slots] /\ \A p \in Slots : conn[p] # Nobody => self[conn[p]] = p
  /\ \A c \in Clients : phase[c] \in {"out", "gone"} => self[c] = 1
  /\ list = [c \in Clients |-> slot]
  /\ cggs = [c \in Clients |-> ggs]
  /\ started = [c \in Clients |-> <<>>]

Operate == ops < MaxOps /\ ops' = ops + 1

-----------------------------------------------------------------------------
(* GameServer.                                                             *)

Receives(S, c, C) == \E p \in Slots : S[p].kind = "occupied" /\ C[p] = c

(* Mutant: the new message overtakes those which are waiting. *)
ToAllFirst(D, S, C, m) == [c \in Clients |-> IF Receives(S, c, C) THEN <<m>> \o D[c] ELSE D[c]]

(* SendToAll: message m, with the slots S and sockets C, behind D. *)
ToAll(D, S, C, m) == [c \in Clients |-> IF Receives(S, c, C) THEN Append(D[c], m) ELSE D[c]]

(* clear() keeps the team and the colour. *)
Cleared(s) == [s EXCEPT !.kind = "free", !.ready = FALSE]

(* WaitForClients: a connection gets the first free slot, or is refused. *)
Reserve(c) ==
  /\ status = "config" /\ phase[c] = "out"
  /\ LET free == {p \in Slots : slot[p].kind = "free"} IN
     IF free = {}
       THEN /\ phase' = [phase EXCEPT ![c] = "gone"]
            /\ UNCHANGED <<slot, conn, self>>
       ELSE \E p \in free :
              /\ \A q \in free : p <= q
              /\ slot' = [slot EXCEPT ![p] = [Cleared(@) EXCEPT !.kind = "reserved"]]
              /\ conn' = [conn EXCEPT ![p] = c]
              /\ phase' = [phase EXCEPT ![c] = "joining"]
              /\ self' = [self EXCEPT ![c] = p]
  /\ UNCHANGED <<status, counting, ggs, down, up, list, cggs, ops, started>>

Taken(L, p) == {L[q].color : q \in Plays(L) \ {p}}
Steps(x, y) == (y + NumColors - 1 - x) % NumColors

(* Mutant: the next colour, taken or not. *)
AnyNextColor(L, p) == (L[p].color + 1) % NumColors

(* The next colour, after slot p's own, which no other slot plays with. *)
NextColor(L, p) ==
  CHOOSE x \in Colors \ Taken(L, p) :
    \A y \in Colors \ Taken(L, p) : Steps(L[p].color, x) <= Steps(L[p].color, y)

Painted(S, p) == [S EXCEPT ![p].color = NextColor(S, p)]
ColorMsg(S, p) == [type |-> "color", slot |-> p, color |-> S[p].color]

(* OnNMSPlayerToggleColor, after the slots have become S and D was sent. *)
ToggleColor(S, D, C, p) ==
  /\ slot' = Painted(S, p)
  /\ down' = ToAll(D, S, C, ColorMsg(Painted(S, p), p))

(* OnNMSMapChecksum, after the handshake of version, password, name and    *)
(* map: the client has joined.  The state of the server is not looked at.  *)
Join(p) ==
  /\ slot[p].kind = "reserved"
  /\ LET S == [slot EXCEPT ![p].kind = "occupied"]
         told == ToAll(down, slot, conn, [type |-> "new", slot |-> p])
         D == [told EXCEPT ![conn[p]] = Append(@, [type |-> "list", list |-> S])]
         settings == [type |-> "settings", settings |-> ggs]
         T == IF S[p].color \in Taken(S, p) THEN Painted(S, p) ELSE S
         E == IF S[p].color \in Taken(S, p) THEN ToAll(D, T, conn, ColorMsg(T, p)) ELSE D
     IN  slot' = T /\ down' = [E EXCEPT ![conn[p]] = Append(@, settings)]
  /\ UNCHANGED <<status, counting, conn, ggs, up, clientVars, ops, started>>

Removed(p) ==
  /\ slot' = [slot EXCEPT ![p] = Cleared(@)]
  /\ conn' = [conn EXCEPT ![p] = Nobody]
  /\ phase' = [phase EXCEPT ![conn[p]] = "gone"]
  /\ up' = [up EXCEPT ![conn[p]] = <<>>]

(* KickPlayer: the connection breaks, the handshake fails, or the host     *)
(* kicks the player.  What happens in the running game is Lockstep's.      *)
KickPlayer(p) ==
  /\ status = "config" /\ Operate
  /\ conn[p] \notin {Nobody, Host}
  /\ Removed(p)
  /\ down' = ToAll([down EXCEPT ![conn[p]] = <<>>], slot', conn', [type |-> "kicked", slot |-> p])
  /\ UNCHANGED <<status, counting, ggs, self, list, cggs, started>>

(* doTimeout: nobody is told. *)
Timeout(p) ==
  /\ Timeouts /\ Operate
  /\ slot[p].kind = "reserved"
  /\ Removed(p)
  /\ UNCHANGED <<status, counting, ggs, down, self, list, cggs, started>>

(* The state after the one given, as the server and the clients each have  *)
(* it in their code; it is left as it is when somebody is joining.         *)
NextKind(k) ==
  CASE k = "free" -> "jh"
    [] k = "jh" -> "dummy"
    [] k = "dummy" -> IF savegame THEN "free" ELSE "locked"
    [] k = "locked" -> IF savegame THEN "locked" ELSE "free"
    [] OTHER -> k

Toggled(s) == [s EXCEPT !.kind = NextKind(@), !.ready = NextKind(s.kind) \in AIs]

(* TogglePlayerState: the host presses the button with a slot's name. *)
TogglePlayerState(p) ==
  /\ status = "config" /\ Operate
  /\ slot[p].kind # "occupied"
  /\ slot[p].kind = "reserved" => Meddles
  /\ LET S == [slot EXCEPT ![p] = Toggled(@)]
         D == ToAll(down, S, conn, [type |-> "state", slot |-> p])
     IN  IF S[p].kind \in AIs /\ S[p].color \in Taken(S, p)
           THEN ToggleColor(S, D, conn, p)
           ELSE slot' = S /\ down' = D
  /\ UNCHANGED <<status, counting, conn, ggs, up, clientVars, started>>

(* OnNMSPlayerToggleTeam, OnNMSPlayerToggleNation *)
ToggleTeam(p, t) ==
  /\ slot' = [slot EXCEPT ![p].team = t]
  /\ down' = ToAll(down, slot, conn, [type |-> "team", slot |-> p, team |-> t])

(* The host chooses for an AI: TogglePlayerTeam, TogglePlayerNation, ...   *)
SetAITeam(p, t) ==
  /\ status = "config" /\ ~savegame /\ Operate
  /\ slot[p].kind \in AIs /\ t # slot[p].team
  /\ ToggleTeam(p, t)
  /\ UNCHANGED <<status, counting, conn, ggs, up, clientVars, started>>

(* ... TogglePlayerColor *)
SetAIColor(p) ==
  /\ status = "config" /\ ~savegame /\ Operate
  /\ slot[p].kind \in AIs
  /\ ToggleColor(slot, down, conn, p)
  /\ UNCHANGED <<status, counting, conn, ggs, up, clientVars, started>>

(* ChangeGlobalGameSettings *)
ChangeSettings(g) ==
  /\ status = "config" /\ Operate
  /\ ggs' = g
  /\ down' = ToAll(down, slot, conn, [type |-> "settings", settings |-> g])
  /\ UNCHANGED <<status, counting, slot, conn, up, clientVars, started>>

(* GamePlayerInfo::SwapPlayer: team and colour stay with the slot. *)
Swapped(L, p, q) ==
  [L EXCEPT ![p].kind = L[q].kind, ![p].ready = L[q].ready,
            ![q].kind = L[p].kind, ![q].ready = L[p].ready]

(* SwapPlayer: in a new game only the host moves, in a saved one anybody   *)
(* may be moved to the slot of another past player.                        *)
SwapPlayer(p, q) ==
  /\ (savegame \/ Swaps) /\ status = "config" /\ Operate
  /\ p # q /\ slot[p].kind = "occupied"
  /\ slot[q].kind = "reserved" => Meddles
  /\ IF savegame THEN slot[q].kind # "locked" ELSE conn[p] = Host
  /\ down' = ToAll(down, slot, conn, [type |-> "swap", slot |-> p, with |-> q])
  /\ slot' = Swapped(slot, p, q)
  /\ conn' = [conn EXCEPT ![p] = conn[q], ![q] = conn[p]]
  /\ UNCHANGED <<status, counting, ggs, up, clientVars, started>>

(* The messages of the players, in whatever state the server is.  A player *)
(* who is not ready cancels the countdown.                                 *)
Receive(p) ==
  /\ conn[p] # Nobody /\ up[conn[p]] # <<>>
  /\ LET m == Head(up[conn[p]]) IN
     \/ /\ m.type = "ready"
        /\ slot' = [slot EXCEPT ![p].ready = m.ready]
        /\ counting' = (counting /\ m.ready)
        /\ down' = ToAll(down, slot, conn, [type |-> "ready", slot |-> p, ready |-> m.ready])
     \/ m.type = "team" /\ ToggleTeam(p, m.team) /\ UNCHANGED counting
     \/ m.type = "color" /\ ToggleColor(slot, down, conn, p) /\ UNCHANGED counting
  /\ up' = [up EXCEPT ![conn[p]] = Tail(@)]
  /\ UNCHANGED <<status, conn, ggs, clientVars, ops, started>>

(* What the host is told to wait for. *)
Complete(L) ==
  /\ \A p \in Slots : /\ L[p].kind \notin {"free", "reserved"}
                      /\ L[p].kind = "occupied" => L[p].ready
  /\ ColorsDiffer(L)

StartCountdown ==
  /\ status = "config" /\ ~counting
  /\ Complete(slot)
  /\ counting' = TRUE
  /\ UNCHANGED <<status, slot, conn, ggs, down, up, clientVars, ops, started>>

(* The host's button.  Its client answers by being ready, as it always is. *)
CancelCountdown ==
  /\ status = "config" /\ counting
  /\ counting' = FALSE
  /\ UNCHANGED <<status, slot, conn, ggs, down, up, clientVars, ops, started>>

Starts(c) == Append(started[c], [list |-> list[c], settings |-> cggs[c], self |-> self[c]])

(* StartGame, when the countdown has run out.  The host's game is started  *)
(* here and now, the others' when they read the message.                   *)
StartGame ==
  /\ status = "config" /\ counting
  /\ status' = "game" /\ counting' = FALSE
  /\ down' = ToAll(down, slot, conn, [type |-> "start"])
  /\ phase' = [phase EXCEPT ![Host] = "game"]
  /\ started' = [started EXCEPT ![Host] = Starts(Host)]
  /\ UNCHANGED <<slot, conn, ggs, up, self, list, cggs, ops>>

-----------------------------------------------------------------------------
(* GameClient.                                                             *)

NextIs(c, types) == down[c] # <<>> /\ Head(down[c]).type \in types
Consume(c) == down' = [down EXCEPT ![c] = Tail(@)]

Ask(c, ms) == up' = [up EXCEPT ![c] = @ \o ms]

(* TogglePlayerReady: the host is ready whatever is asked.                 *)
Ready(c, b) == c = Host \/ b
ReadyMsg(c, b) == [type |-> "ready", ready |-> Ready(c, b)]

(* OnNMSPlayerList opens dskHostGame, which declares the player not ready. *)
ReadList(c) ==
  /\ NextIs(c, {"list"}) /\ Consume(c)
  /\ phase' = [phase EXCEPT ![c] = "lobby"]
  /\ list' = [list EXCEPT ![c] = [p \in Slots |->
                [Head(down[c]).list[p] EXCEPT !.ready = Head(down[c]).list[p].kind \in AIs]]]
  /\ Ask(c, <<ReadyMsg(c, FALSE)>>)
  /\ UNCHANGED <<serverVars, self, cggs, ops, started>>

(* OnNMSGGSChange: new settings, and nobody is ready any more. *)
ReadSettings(c) ==
  /\ NextIs(c, {"settings"}) /\ Consume(c)
  /\ cggs' = [cggs EXCEPT ![c] = Head(down[c]).settings]
  /\ IF phase[c] = "lobby"
       THEN /\ list' = [list EXCEPT ![c][self[c]].ready = Ready(c, FALSE)]
            /\ Ask(c, <<ReadyMsg(c, FALSE)>>)
       ELSE UNCHANGED <<list, up>>
  /\ UNCHANGED <<serverVars, phase, self, ops, started>>

(* Mutant: the slot of a player who has left is not cleared. *)
Stays(s) == [s EXCEPT !.ready = FALSE]

Left(s) == Cleared(s)

(* What the other messages do to their slot in the client's list. *)
Updated(s, m) ==
  CASE m.type = "new" -> [s EXCEPT !.kind = "occupied"]
    [] m.type = "state" -> Toggled(s)
    [] m.type = "team" -> [s EXCEPT !.team = m.team]
    [] m.type = "color" -> [s EXCEPT !.color = m.color]
    [] m.type = "ready" -> [s EXCEPT !.ready = m.ready]
    [] m.type = "kicked" -> Left(s)

ReadUpdate(c) ==
  /\ NextIs(c, {"new", "state", "team", "color", "ready", "kicked"}) /\ Consume(c)
  /\ list' = [list EXCEPT ![c][Head(down[c]).slot] = Updated(@, Head(down[c]))]
  /\ UNCHANGED <<serverVars, up, phase, self, cggs, ops, started>>

Moved(x, p, q) == IF x = p THEN q ELSE IF x = q THEN p ELSE x

(* OnNMSPlayerSwap *)
ReadSwap(c) ==
  /\ NextIs(c, {"swap"}) /\ Consume(c)
  /\ LET p == Head(down[c]).slot
         q == Head(down[c]).with
     IN  /\ list' = [list EXCEPT ![c] = Swapped(@, p, q)]
         /\ self' = [self EXCEPT ![c] = Moved(@, p, q)]
  /\ UNCHANGED <<serverVars, up, phase, cggs, ops, started>>

(* OnNMSServerStart: the host's game has been started already. *)
ReadStart(c) ==
  /\ NextIs(c, {"start"}) /\ Consume(c)
  /\ IF c = Host THEN UNCHANGED <<phase, started>>
     ELSE /\ phase' = [phase EXCEPT ![c] = "game"]
          /\ started' = [started EXCEPT ![c] = Starts(c)]
  /\ UNCHANGED <<serverVars, up, self, list, cggs, ops>>

(* A player presses a button of its own row: its own list changes at once, *)
(* the others' when the server has answered.                               *)
ChooseReady(c, b) ==
  /\ phase[c] = "lobby" /\ c # Host /\ Operate
  /\ list' = [list EXCEPT ![c][self[c]].ready = b]
  /\ Ask(c, <<ReadyMsg(c, b)>>)
  /\ UNCHANGED <<serverVars, down, phase, self, cggs, started>>

ChooseTeam(c, t) ==
  /\ phase[c] = "lobby" /\ ~savegame /\ Operate
  /\ t # list[c][self[c]].team
  /\ list' = [list EXCEPT ![c][self[c]] = [@ EXCEPT !.ready = Ready(c, FALSE), !.team = t]]
  /\ Ask(c, <<ReadyMsg(c, FALSE), [type |-> "team", team |-> t]>>)
  /\ UNCHANGED <<serverVars, down, phase, self, cggs, started>>

ChooseColor(c) ==
  /\ phase[c] = "lobby" /\ ~savegame /\ Operate
  /\ list' = [list EXCEPT ![c][self[c]] =
                [@ EXCEPT !.ready = Ready(c, FALSE), !.color = NextColor(list[c], self[c])]]
  /\ Ask(c, <<ReadyMsg(c, FALSE), [type |-> "color"]>>)
  /\ UNCHANGED <<serverVars, down, phase, self, cggs, started>>

-----------------------------------------------------------------------------
HostActs ==
  \/ \E p \in Slots : \/ TogglePlayerState(p) \/ SetAIColor(p)
                      \/ \E t \in Teams : SetAITeam(p, t)
                      \/ \E q \in Slots : SwapPlayer(p, q)
  \/ \E g \in Settings : ChangeSettings(g)
  \/ StartCountdown \/ CancelCountdown \/ StartGame

Connections ==
  \/ \E c \in Clients : Reserve(c)
  \/ \E p \in Slots : Join(p) \/ KickPlayer(p) \/ Timeout(p) \/ Receive(p)

Client(c) ==
  \/ ReadList(c) \/ ReadSettings(c) \/ ReadUpdate(c) \/ ReadSwap(c) \/ ReadStart(c)
  \/ \E b \in BOOLEAN : ChooseReady(c, b)
  \/ \E t \in Teams : ChooseTeam(c, t)
  \/ ChooseColor(c)

Next ==
  /\ HostActs \/ Connections \/ \E c \in Clients : Client(c)
  /\ UNCHANGED savegame

Spec == Init /\ [][Next]_vars

-----------------------------------------------------------------------------
(* What the players see of a slot: one which somebody is joining is open   *)
(* (UpdatePlayerRow); whether a player is ready is not part of the list.   *)
Shown(s) == [kind |-> IF s.kind = "reserved" THEN "free" ELSE s.kind,
             team |-> s.team, color |-> s.color]
SameLists(L, M) == \A p \in Slots : Shown(L[p]) = Shown(M[p])

(* A client in the lobby or the game for which nothing is on its way, in   *)
(* either direction, has the server's list and settings, whoever joined,   *)
(* left or changed what in the meantime, and knows its own slot.           *)
(* (Every broadcast is a difference which the client applies to its list.) *)
ListsAgree ==
  /\ TypeOK
  /\ \A c \in Clients :
       (phase[c] \in {"lobby", "game"} /\ down[c] = <<>> /\ up[c] = <<>>) =>
         /\ SameLists(list[c], slot) /\ cggs[c] = ggs
         /\ conn[self[c]] = c

(* Two clients which the start message has reached begin with the same     *)
(* settings, and the same players in every slot but their own, where they  *)
(* may have chosen something the server has yet to hear of.                *)
OthersStartAlike ==
  \A c, d \in Clients \ {Host} :
    (started[c] # <<>> /\ started[d] # <<>>) =>
      /\ started[c][1].settings = started[d][1].settings
      /\ \A p \in Slots \ {started[c][1].self, started[d][1].self} :
           Shown(started[c][1].list[p]) = Shown(started[d][1].list[p])

(* The server's slots which play have different colours (the loops which   *)
(* look for a free colour in OnNMSMapChecksum, TogglePlayerState and       *)
(* OnNMSPlayerToggleColor).                                                *)
ColorsUnique == ColorsDiffer(slot)
=============================================================================
