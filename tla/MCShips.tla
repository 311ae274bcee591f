------------------------------ MODULE MCShips ------------------------------
(* Ships on a sea with three harbour points and two islands. *)
EXTENDS Ships
CONSTANTS h1, h2, h3, fort, i1, i2, x1, x2, f1, w1

MCIslandOf == (h1 :> i1) @@ (h2 :> i2) @@ (h3 :> i2) @@ (fort :> i2)
=============================================================================
