----------------------------- MODULE MCLockstep -----------------------------
(* Small instances of Lockstep.  Every message of a player carries a command *)
(* of its own, so that no two messages can be mistaken for each other; what  *)
(* a player orders is otherwise of no interest to the protocol.              *)
EXTENDS LockstepRefinement

MCCmds == (1..3) \X (1..4)

Order(p, k, target) == [cmds |-> {<<p, k>>}, switch |-> target]

(* Every player gives one command per frame. *)
PlainOrders(p, k) == {Order(p, k, Nobody)}

(* Player 2 may also ask, in its first frame, for the slot of the AI, 3. *)
SwitchOrders(p, k) ==
  PlainOrders(p, k) \cup IF p = 2 /\ k = 1 THEN {Order(p, k, 3)} ELSE {}
=============================================================================
