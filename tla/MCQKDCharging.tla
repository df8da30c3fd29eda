--------------------------- MODULE MCQKDCharging ---------------------------
(* Small instances of post-processing for TLC. *)
EXTENDS QKDCharging

CONSTANTS m, s

Limit(a, b) == [e \in {m, s} |-> IF e = m THEN a ELSE b]

MC_Limits == {Limit(3, 3), Limit(2, 3), Limit(3, 2)}

\* An uninitialised number: more than a round, with digits to be cut off.
MC_Uninit == {20}
=============================================================================
