----------------------------- MODULE MCTraffic -----------------------------
(* Small instances of Traffic: flags a, b, c in a triangle of roads, that from *)
(* c to a with a node d between.                                               *)
EXTENDS Traffic, TLC

CONSTANTS a, b, c, d, ab, bc, ca

MCRoute == ab :> <<a, b>> @@ bc :> <<b, c>> @@ ca :> <<c, d, a>>
MCSteps == [e \in Nodes \X Nodes |-> 2]

(* The figures are alike: no operator prefers one of them. *)
Alike == Permutations(Figures)
=============================================================================
