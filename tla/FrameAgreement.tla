--------------------------- MODULE FrameAgreement ---------------------------
(***************************************************************************)
(* What the network layer promises the simulations: replicas which execute *)
(* numbered frames.  For every slot the contribution to each frame is      *)
(* decided once, in the order of the frames; a replica executes a frame    *)
(* with the decided contribution of every slot, and never skips a frame.   *)
(***************************************************************************)
EXTENDS Naturals, Sequences

CONSTANTS Replicas, Slots

VARIABLES
  decided,   \* decided[p][k]: what slot p contributes to frame k
  executed   \* executed[r][k]: what replica r executed in frame k, per slot

vars == <<decided, executed>>

Init == /\ decided = [p \in Slots |-> <<>>]
        /\ executed = [r \in Replicas |-> <<>>]

Decide(p) ==
  /\ Len(decided'[p]) = Len(decided[p]) + 1
  /\ decided' = [decided EXCEPT ![p] = Append(@, decided'[p][Len(decided[p]) + 1])]
  /\ UNCHANGED executed

Execute(r) ==
  LET k == Len(executed[r]) + 1 IN
  /\ \A p \in Slots : k <= Len(decided[p])
  /\ executed' = [executed EXCEPT ![r] = Append(@, [p \in Slots |-> decided[p][k]])]
  /\ UNCHANGED decided

Next == (\E p \in Slots : Decide(p)) \/ (\E r \in Replicas : Execute(r))

Spec == Init /\ [][Next]_vars

=============================================================================
