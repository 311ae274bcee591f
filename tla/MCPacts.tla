------------------------------ MODULE MCPacts ------------------------------
(* Small instances of Pacts: two players in a new game, or in one loaded  *)
(* while a short treaty binds them.                                        *)
EXTENDS Pacts

Rivals == [p \in 1..2 |-> 0]

(* A treaty t of one game frame which player p, or nobody (0), wants to cancel. *)
Running(t, p) == [k \in Keys |->
  IF k[3] = t THEN [accepted |-> TRUE, duration |-> 1, start |-> 0, want_cancel |-> k[1] = p]
  ELSE NoPact]
RunningTreaty == {Running(t, p) : t \in Types, p \in 0..1}

(* One of them, or both, may propose an alliance. *)
OneAlliance == {<<1, 2, "alliance">>}
AnyAlliance == {<<1, 2, "alliance">>, <<2, 1, "alliance">>}

Short == {1}
ShortOrLong == {1, 2}
=============================================================================
