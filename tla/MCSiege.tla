------------------------------ MODULE MCSiege ------------------------------
EXTENDS Siege, TLC
CONSTANTS D, A, B, a1, a2, b1
MCParty == (a1 :> A) @@ (a2 :> A) @@ (b1 :> B)
(* Everybody is against everybody, or A and B are allies. *)
War == {<<p, q>> \in {D, A, B} \X {D, A, B} : p # q}
Alliance == War \ {<<A, B>>, <<B, A>>}
MCLeagues == {War, Alliance}
=============================================================================
