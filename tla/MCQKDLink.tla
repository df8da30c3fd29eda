----------------------------- MODULE MCQKDLink -----------------------------
(* Small instances of a QKD link for TLC. *)
EXTENDS QKDLink

CONSTANTS m, s

Packet(enc, auth, top) ==
    [enc |-> enc, auth |-> auth, top |-> top, size |-> 2, plain |-> 3]

OneTime == {Packet("OTP", "VMAC", TRUE), Packet("OTP", "VMAC", FALSE)}
Keyed   == OneTime \cup {Packet("AES", "VMAC", FALSE)}
Hash    == {Packet("none", "hash", FALSE)}
Mixed   == Keyed \cup Hash \cup
           {Packet("none", "none", FALSE), Packet("AES", "none", TRUE), Packet("none", "VMAC", FALSE)}

MC_Amounts == {5, 9}
MC_Both    == [senders |-> {m, s}, requests |-> Keyed, flight |-> 2]
MC_OneWay  == [senders |-> {m}, requests |-> Mixed, flight |-> 3]
MC_Traffic == {MC_Both, MC_OneWay}
MC_OneTime == {[senders |-> {m}, requests |-> OneTime, flight |-> 1]}
MC_Hash    == {[senders |-> {m}, requests |-> Hash, flight |-> 1]}
=============================================================================
