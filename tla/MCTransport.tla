---------------------------- MODULE MCTransport ----------------------------
(* Three flags in a row, fa -- fb -- fc, a short and a longer road, so that a *)
(* carrier can stand in the middle of both kinds.                            *)
EXTENDS Transport
CONSTANTS fa, fb, fc, ab, bc, w1, w2, w3

MCEnds == (ab :> <<fa, fb>>) @@ (bc :> <<fb, fc>>)
MCLength == (ab :> 2) @@ (bc :> 3)
(* Wares at both ends of the line. *)
HomeAtEnds == (w1 :> fa) @@ (w2 :> fa) @@ (w3 :> fc)
NoEarly == {}
=============================================================================
