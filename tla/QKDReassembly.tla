--------------------------- MODULE QKDReassembly ---------------------------
(***************************************************************************)
(* Cutting the TCP byte stream of the overlay back into protected packets: *)
(* QKDManager::VirtualReceive reads the socket until it is dry, and        *)
(* QKDCrypto::CheckForFragmentation puts each read behind the bytes cached *)
(* for the channel, emits every packet that is whole and caches the rest.  *)
(*                                                                         *)
(* A byte is its offset in the stream of one sender, so the cache is the   *)
(* interval lo .. got - 1 and substr, += and clear are moves of its ends.  *)
(* A frame is the serialised QKD header (H bytes) and its ciphertext.      *)
(***************************************************************************)
EXTENDS Naturals, Sequences

CONSTANTS
    H,              \* m_qkdHeaderSize, 72
    BodyLens,       \* sizes of the ciphertexts sent
    GarbageLengths, \* what GetLength may be when no header is where it is read
    UIntMod,        \* 2^32
    MaxFrames       \* bound of the model: frames sent

ASSUME StreamAssumption ==
    /\ H \in Nat \ {0} /\ BodyLens \subseteq Nat \ {0}
    /\ UIntMod \in Nat /\ H < UIntMod /\ \A b \in BodyLens : H + b < UIntMod
    /\ GarbageLengths \subseteq 0 .. UIntMod - 1
    /\ MaxFrames \in Nat

VARIABLES
    frames,     \* what the sender wrote: the place of each frame in the stream
    written,    \* bytes the sender has written to the socket
    got,        \* bytes the receiver has read from the socket
    lo,         \* first byte held (cache, or the string being cut)
    phase,      \* "idle": outside the handler; "cut": in its while loop;
                \* "crashed": std::out_of_range left the handler
    at,         \* the place of pointer in the stream
    needHeader, \* newQkdHeaderNeeded
    length,     \* GetLength() of qkdHeader, the header cut off first
    out,        \* the packets pushed to packetOutput, as places in the stream
    lone,       \* history: has a read left at most one header in the buffer?
    firm        \* history: the packets pushed before that

vars == <<frames, written, got, lo, phase, at, needHeader, length, out, lone, firm>>

Place == [start : Nat, len : Nat]

(* What is read was written, the cache holds bytes that were read, and the *)
(* pointer never leaves the string, whatever lengths it is moved by: it is *)
(* never past the bytes read, and in the loop never before the first held. *)
TypeOK ==
    /\ frames \in Seq(Place) /\ out \in Seq(Place)
    /\ written \in Nat /\ got \in 0 .. written /\ lo \in 0 .. got
    /\ phase \in {"idle", "cut", "crashed"}
    /\ at \in 0 .. got /\ (phase = "cut" => lo <= at)
    /\ needHeader \in BOOLEAN /\ length \in Nat
    /\ lone \in BOOLEAN /\ firm \in Seq(Place)

Init ==
    /\ frames = << >> /\ written = 0
    /\ got = 0 /\ lo = 0 /\ out = << >>
    /\ phase = "idle" /\ at = 0 /\ needHeader = FALSE /\ length = 0
    /\ lone = FALSE /\ firm = << >>

-----------------------------------------------------------------------------

(* What the length field of the header read at byte b may hold: the length *)
(* of the frame that starts there, anything where none does.               *)
LengthsAt(b) ==
    LET here == {i \in DOMAIN frames : frames[i].start = b}
    IN  IF here = {} THEN GarbageLengths ELSE {frames[i].len : i \in here}

(* The ciphertext bytes a header of length n announces (uint32_t). *)
BodyLength(n) == IF n >= H THEN n - H ELSE n + UIntMod - H

(* The sender writes header and ciphertext with one Send of the socket. *)
SendFrame(b) ==
    /\ phase = "idle" /\ Len(frames) < MaxFrames
    /\ frames' = Append(frames, [start |-> written, len |-> H + b])
    /\ written' = written + H + b
    /\ UNCHANGED <<got, lo, phase, at, needHeader, length, out, lone, firm>>

(* RecvFrom returns n more bytes; the cache is put in front of them and    *)
(* the first H bytes are cut off as the header.                            *)
Receive(n) ==
    /\ phase = "idle" /\ n > 0 /\ got + n <= written
    /\ got' = got + n
    /\ lone' = (lone \/ got' - lo <= H)
    /\ IF got' - lo < H
       THEN /\ phase' = "crashed"
            /\ UNCHANGED <<at, needHeader, length>>
       ELSE /\ phase' = "cut" /\ at' = lo + H /\ needHeader' = FALSE
            /\ length' \in LengthsAt(lo)
    /\ UNCHANGED <<frames, written, lo, out, firm>>

(* The loop is left: the bytes from b on are the new cache. *)
KeepFrom(b) ==
    /\ phase' = "idle" /\ lo' = b
    /\ UNCHANGED <<frames, written, got, at, needHeader, length, out, lone, firm>>

(* pointer has reached the end of the string. *)
Finish == phase = "cut" /\ at >= got /\ KeepFrom(got)

\* Mutant: the rest of the string is forgotten.
DropHalfHeader ==
    /\ phase = "cut" /\ at < got
    /\ needHeader /\ got - at <= H
    /\ KeepFrom(got)

(* A new header is needed and no more than a header is left. *)
KeepHalfHeader ==
    /\ phase = "cut" /\ at < got
    /\ needHeader /\ got - at <= H
    /\ KeepFrom(at)

\* Mutants: the header length taken off twice for the first header; the first
\* header used for every packet; an off-by-one in the check of completeness.
HeaderStartTwice == IF needHeader THEN at ELSE at - H - H
HeaderLengthsStale == {length}

(* The header that counts in this round: the first one, or the next one    *)
(* in the string; the ciphertext starts H bytes further.                   *)
HeaderStart == IF needHeader THEN at ELSE at - H
HeaderLengths == IF needHeader THEN LengthsAt(at) ELSE {length}
InRound == phase = "cut" /\ at < got /\ (needHeader => got - at > H)
WholeStrict(n) == got - (HeaderStart + H) > BodyLength(n)
Whole(n) == got - (HeaderStart + H) >= BodyLength(n)

\* Mutant: the pointer is not moved past a header that was read from it.
EmitInPlace ==
    /\ InRound
    /\ \E n \in HeaderLengths :
        /\ Whole(n)
        /\ out' = Append(out, [start |-> HeaderStart, len |-> H + BodyLength(n)])
        /\ at' = at + BodyLength(n)
    /\ needHeader' = TRUE
    /\ firm' = IF lone THEN firm ELSE out'
    /\ UNCHANGED <<frames, written, got, lo, phase, length, lone>>

(* The whole ciphertext is there: emit the packet, look for a new header. *)
EmitFrame ==
    /\ InRound
    /\ \E n \in HeaderLengths :
        /\ Whole(n)
        /\ out' = Append(out, [start |-> HeaderStart, len |-> H + BodyLength(n)])
        /\ at' = HeaderStart + H + BodyLength(n)
    /\ needHeader' = TRUE
    /\ firm' = IF lone THEN firm ELSE out'
    /\ UNCHANGED <<frames, written, got, lo, phase, length, lone>>

\* Mutant: the rest is cached with the packets emitted.
KeepAll ==
    /\ InRound
    /\ \E n \in HeaderLengths : ~ Whole(n)
    /\ KeepFrom(lo)

(* It is not: the header and what follows it wait in the cache. *)
KeepFragment ==
    /\ InRound
    /\ \E n \in HeaderLengths : ~ Whole(n)
    /\ KeepFrom(HeaderStart)

Cut == Finish \/ KeepHalfHeader \/ EmitFrame \/ KeepFragment

Read == \E n \in 1 .. written - got : Receive(n)

Next ==
    \/ \E b \in BodyLens : SendFrame(b)
    \/ Read
    \/ Cut

Spec == Init /\ [][Next]_vars

(* TCP delivers what was written, and the handler runs to its end. *)
FairSpec == Spec /\ WF_vars(Read) /\ WF_vars(Cut)

-----------------------------------------------------------------------------

(* Where the frames emitted so far end in the stream. *)
Delivered == IF out = << >> THEN 0
             ELSE out[Len(out)].start + out[Len(out)].len

CacheFollowsPackets == phase = "idle" => lo = Delivered

\* Between two reads no packet is withheld: the next frame is not complete.
NoFrameHeldBack ==
    phase = "idle" /\ ~ lone =>
        \A i \in DOMAIN frames : i > Len(out) =>
            frames[i].start + frames[i].len > got

\* However short the reads are and whatever stands where a header is looked
\* for, no byte is in two packets, and none of a packet is still in the cache.
NoByteTwice ==
    /\ \A i, j \in DOMAIN out :
        i < j => out[i].start + out[i].len <= out[j].start
    /\ phase = "idle" => Delivered <= lo

\* The loop ends whatever lengths the headers hold (a body may seem to be empty,
\* or 2^32 bytes less than a header): every round that goes on has moved pointer
\* within the string, or has used up the first header.
RoundsAdvance ==
    [][phase = "cut" /\ phase' = "cut" =>
        /\ at <= at' /\ at' <= got
        /\ at < at' \/ (~ needHeader /\ needHeader')]_vars

(* The overlay as the layer above sees it, up to the first read that is    *)
(* too short.                                                              *)
Channel == INSTANCE QKDFrameChannel WITH
    Frames <- Place, sent <- frames, received <- firm

\* Reassembly implements the channel of whole frames: every step of the byte
\* level is a Send, the delivery of the next frame unchanged, or a stutter, and
\* firm is all that came out until a read was too short.
ImplementsChannel == Channel!Spec /\ [](~ lone => out = firm)

\* Under the fairness of TCP and of the handler every frame sent comes out,
\* unless a read is too short.
EveryFrameDelivered ==
    \A k \in 1 .. MaxFrames : (Len(frames) >= k) ~> (Len(out) >= k \/ lone)

\* qkd-crypto.cc:396 ff. on fragments: "we need to store this small fragment
\* and wait until we receive whole packet"; the bytes of a piece of exactly one
\* header are dropped, because the loop is not entered.
DocLoneHeaderIsStored == CacheFollowsPackets
=============================================================================
