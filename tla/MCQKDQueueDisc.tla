--------------------------- MODULE MCQKDQueueDisc ---------------------------
(* A small instance of the queue disc for TLC. *)
EXTENDS QKDQueueDisc

Packet(enc, auth, top) ==
    [enc |-> enc, auth |-> auth, top |-> top, size |-> 2, plain |-> 3]

MC_Amounts  == {3, 9}
MC_Requests == {Packet("OTP", "VMAC", TRUE), Packet("OTP", "VMAC", FALSE)}
MC_Keys     == {4}
=============================================================================
