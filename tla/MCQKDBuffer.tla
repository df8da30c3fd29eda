---------------------------- MODULE MCQKDBuffer ----------------------------
(* Small instances of one key buffer for TLC. *)
EXTENDS QKDBuffer

\* A buffer that starts between the minimum and the capacity, in every status.
MC_Amounts    == {2, 5, 8, 12}
MC_Threshold  == {6}
MC_Charges    == {1, 3}
MC_Keys       == {1, 4}
MC_NoThresholds == {}
MC_Thresholds   == {4, 9}
MC_Metric     == {0}
=============================================================================
