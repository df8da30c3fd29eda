--------------------------- MODULE QKDPacketKeys ---------------------------
(***************************************************************************)
(* The key material a packet costs: what a manager asks the key buffer     *)
(* before it protects a packet, and the keys it then takes                 *)
(* (QKDCrypto::CheckForResourcesToProcessThePacket, ProcessOutgoingPacket, *)
(* Decrypt).                                                               *)
(***************************************************************************)
EXTENDS QKDKeyStoreOps

CONSTANTS
    AesBits,    \* CryptoPP::AES::MAX_KEYLENGTH, 32
    VmacBits,   \* m_authenticationTagLengthInBits, 32
    HeaderBits  \* what the QKD header adds to a packet

ASSUME KeysAssumption ==
    AesBits \in Nat \ {0} /\ VmacBits \in Nat \ {0} /\ HeaderBits \in Nat

(* A packet: its QKDInternalTag (encryption and authentication), whether   *)
(* its TOS maps to band 0, its size and the size of its serialised form.   *)
Request == [enc : {"none", "OTP", "AES"}, auth : {"none", "VMAC", "hash"},
            top : BOOLEAN, size : Nat \ {0}, plain : Nat \ {0}]

EncBits(r) ==
    CASE r.enc = "OTP" -> r.plain [] r.enc = "AES" -> AesBits [] OTHER -> 0

AuthBits(r) == IF r.auth = "VMAC" THEN VmacBits ELSE 0

Bits(r) == EncBits(r) + AuthBits(r)

(* What CheckForResourcesToProcessThePacket compares with the amount, for  *)
(* a packet of the given size that carries its tag.  A packet without tag  *)
(* is checked with the algorithms an uninitialised tag holds.              *)
TagBits(r, size) == (IF r.enc = "OTP" THEN size ELSE EncBits(r)) + AuthBits(r)

AnyBits(size) == {x + y : x \in {0, AesBits, size}, y \in {0, VmacBits}}

Tagged(r) == r.enc # "none" \/ r.auth # "none"

(* The first check sees the packet: for OTP, its size and not the size of  *)
(* its serialised form, which is what is encrypted.                        *)
FirstNeeds(r) == IF Tagged(r) THEN {TagBits(r, r.size)} ELSE AnyBits(r.size)

(* The second check, in ForwardToSocket, sees the protected packet, which  *)
(* has lost its tag.                                                       *)
SecondNeeds(r) == AnyBits(HeaderBits + r.plain)

\* Mutant: every packet may leave while there is key material.
CheckIgnoresBand(s, need, top) == s.cur > need

Check(s, need, top) == (s.status = EMPTY => top) /\ s.cur > need

\* Mutant: the amount in the buffer is not looked at.
TakeKeyUnchecked(s, need) == {[store |-> t, ok |-> TRUE] : t \in AfterTake(s, need)}

(* The ways to take a key of the given size from s; no key, no change. *)
TakeKey(s, need) ==
    IF need = 0 THEN {[store |-> s, ok |-> TRUE]}
    ELSE IF Enough(s, need) THEN {[store |-> t, ok |-> TRUE] : t \in AfterTake(s, need)}
    ELSE {[store |-> s, ok |-> FALSE]}

(* ... and then a second one, if the first was there. *)
TakeKeys(s, first, second) ==
    UNION {IF a.ok THEN TakeKey(a.store, second) ELSE {a} : a \in TakeKey(s, first)}
=============================================================================
