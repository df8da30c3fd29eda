----------------------------- MODULE QKDRounds -----------------------------
(***************************************************************************)
(* What the users of a QKD link may rely on from post-processing: key      *)
(* material comes in rounds of KeyRate bits, at the slave first and at the *)
(* master next, and no round starts before the last one is over.  The      *)
(* actions ChargeSlave and ChargeMaster of QKDLink follow this order.      *)
(***************************************************************************)
EXTENDS Naturals

CONSTANT KeyRate    \* bits of one round

VARIABLE ahead      \* bits the slave has been charged more than the master

Init == ahead = 0

ChargeSlave  == ahead = 0 /\ ahead' = KeyRate

ChargeMaster == ahead = KeyRate /\ ahead' = 0

Next == ChargeSlave \/ ChargeMaster

Spec == Init /\ [][Next]_ahead
=============================================================================
