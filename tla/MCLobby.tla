------------------------------ MODULE MCLobby ------------------------------
(* Small instances of Lobby: three slots, the host and two other players.  *)
EXTENDS Lobby

CONSTANTS c, d

Player(x) == [kind |-> "occupied", team |-> "a", color |-> x, ready |-> TRUE]
Open(x) == [kind |-> "free", team |-> "a", color |-> x, ready |-> FALSE]
Closed(x) == [kind |-> "locked", team |-> "a", color |-> x, ready |-> FALSE]
AI(x) == [kind |-> "jh", team |-> "a", color |-> x, ready |-> TRUE]

Opening(saved, s2, s3, c2, c3, others, setting, done) ==
  [savegame |-> saved, slot |-> <<Player(0), s2, s3>>, conn |-> <<Host, c2, c3>>,
   guests |-> others, settings |-> setting, ops |-> done]

(* Everybody has joined and is ready. *)
Seated == Opening(FALSE, Player(1), Player(2), c, d, {}, "s", 1)

(* c has joined and is ready; the third slot is open. *)
OneJoined == Opening(FALSE, Player(1), Open(0), c, Nobody, {d}, "s", 2)

(* c has joined and is ready; the third player is an AI. *)
WithAI == Opening(FALSE, Player(1), AI(2), c, Nobody, {d}, "s", 2)

(* A loaded game of three, and one of two. *)
LoadedGame == {Opening(TRUE, Open(1), AI(2), Nobody, Nobody, {c}, "s", 1),
               Opening(TRUE, Open(1), Closed(0), Nobody, Nobody, {c}, "s", 0)}

AnyGame == {Seated, OneJoined, WithAI} \cup LoadedGame
=============================================================================
