------------------------- MODULE LockstepRefinement -------------------------
(* The lockstep protocol implements FrameAgreement: a slot's contributions *)
(* are decided when the server broadcasts them.                            *)
EXTENDS Lockstep

Contributions(p) == [n \in 1..Len(at[p]) |-> Contribution(p, n)]
Executed(c) == [k \in 1..Len(world[c]) |-> world[c][k].gcs]

Abstract == INSTANCE FrameAgreement
              WITH Replicas <- Humans, Slots <- Slots,
                   decided <- [p \in Slots |-> Contributions(p)],
                   executed <- [c \in Humans |-> Executed(c)]

AbstractSpec == Abstract!Spec
=============================================================================
