-------------------------- MODULE MCQKDReassembly --------------------------
(* Small instances of the reassembly of frames for TLC. *)
EXTENDS QKDReassembly

\* A ciphertext shorter than, as long as, and longer than the header.
MC_Bodies  == {1, 3, 5}
MC_Garbage == {0, 3, 4, 15}
=============================================================================
