------------------------ MODULE QKDReassembly_proofs ------------------------
(***************************************************************************)
(* Reassembly is correct for every header size, every size of ciphertext   *)
(* and every number of frames, however TCP cuts the stream.                *)
(*                                                                         *)
(* Two invariants.  Loose holds whatever the reads and the length fields   *)
(* are: the packets emitted lie one behind the other, and where the        *)
(* handler stands is behind them all.  WInv holds until a read leaves at   *)
(* most one header in the buffer: the frames lie end to end in the stream  *)
(* and the packets emitted are a prefix of them, so Delivered, the end of  *)
(* the last packet emitted, is where the next frame starts, and each phase *)
(* of the handler has its place relative to it.                            *)
(***************************************************************************)
EXTENDS QKDReassembly, TLAPS

(* Where the first k frames end. *)
Boundary(k) == IF k = 0 THEN 0 ELSE frames[k].start + frames[k].len

(* The frames lie end to end, and each is longer than a header. *)
EndToEnd ==
    /\ written = Boundary(Len(frames))
    /\ \A i \in DOMAIN frames :
        /\ frames[i].start = Boundary(i - 1)
        /\ frames[i].len > H
        /\ frames[i].start + frames[i].len <= written
    /\ \A i, j \in DOMAIN frames :
        i < j => frames[i].start + frames[i].len <= frames[j].start

(* What has been emitted is what was sent first. *)
Prefix ==
    /\ Len(out) <= Len(frames)
    /\ \A i \in DOMAIN out : out[i] = frames[i]

NextFrame == frames[Len(out) + 1]

AtRest ==
    /\ lo = Boundary(Len(out))
    /\ Len(out) < Len(frames) => NextFrame.start + NextFrame.len > got

FirstRound ==
    /\ Len(out) < Len(frames)
    /\ lo = Boundary(Len(out)) /\ at = lo + H /\ at < got
    /\ length = NextFrame.len

LaterRound == at = Boundary(Len(out)) /\ at <= got

(* What lies behind the handler: nothing before it is looked at again. *)
Reached == IF phase = "cut" /\ needHeader THEN at ELSE lo

Loose ==
    /\ \A i, j \in DOMAIN out :
        i < j => out[i].start + out[i].len <= out[j].start
    /\ Delivered <= Reached
    /\ phase = "cut" => lo + H <= at /\ at <= got
    /\ phase = "cut" /\ ~ needHeader => at = lo + H

LInv == TypeOK /\ Loose

WInv ==
    /\ TypeOK /\ EndToEnd /\ Prefix /\ firm = out
    /\ phase # "crashed"
    /\ phase = "idle" => AtRest
    /\ phase = "cut" /\ ~ needHeader => FirstRound
    /\ phase = "cut" /\ needHeader => LaterRound

IInv == LInv /\ (lone \/ WInv)

-----------------------------------------------------------------------------

(* Whatever the reads are: typing and Loose. *)

LEMMA InitLInv == Init => LInv
  <1>1. SUFFICES ASSUME Init PROVE LInv
    OBVIOUS
  <1>2. frames \in Seq(Place) /\ out \in Seq(Place) /\ firm \in Seq(Place)
    BY <1>1 DEF Init
  <1>3. needHeader \in BOOLEAN /\ lone \in BOOLEAN
    BY <1>1, Zenon DEF Init
  <1>4. TypeOK
    BY <1>1, <1>2, <1>3 DEF Init, TypeOK
  <1>5. Delivered = 0 /\ Reached = 0
    BY <1>1 DEF Init, Delivered, Reached
  <1>6. Loose
    BY <1>1, <1>5 DEF Init, Loose
  <1> QED  BY <1>4, <1>6 DEF LInv

(* The lengths a header may hold, and the ciphertext they announce, are    *)
(* natural numbers.                                                        *)
LEMMA LengthsAreNat ==
    ASSUME TypeOK, NEW b, NEW n \in LengthsAt(b)
    PROVE  n \in Nat
  <1>1. frames \in Seq(Place) /\ GarbageLengths \subseteq Nat
    BY StreamAssumption DEF TypeOK
  <1>2. ASSUME NEW i \in DOMAIN frames PROVE frames[i].len \in Nat
    <2>1. frames[i] \in Place
      BY <1>1
    <2> QED  BY <2>1 DEF Place
  <1> QED  BY <1>1, <1>2 DEF LengthsAt

LEMMA BodyLengthIsNat ==
    ASSUME NEW n \in Nat PROVE BodyLength(n) \in Nat
  BY StreamAssumption DEF BodyLength

LEMMA DeliveredIsNat == ASSUME TypeOK PROVE Delivered \in Nat
  <1>1. out \in Seq(Place)
    BY DEF TypeOK
  <1>2. CASE out = << >>
    BY <1>2 DEF Delivered
  <1>3. CASE out # << >>
    <2>1. Len(out) \in DOMAIN out
      BY <1>1, <1>3
    <2>2. out[Len(out)] \in Place
      BY <1>1, <2>1
    <2> QED  BY <1>3, <2>2 DEF Delivered, Place
  <1> QED  BY <1>2, <1>3

(* The header of a round stands behind all that was emitted, and ends at   *)
(* the pointer or H bytes further.                                         *)
LEMMA HeaderBehind ==
    ASSUME LInv, InRound
    PROVE  /\ HeaderStart \in Nat /\ Delivered <= HeaderStart
           /\ HeaderStart + H <= got /\ at <= HeaderStart + H
           /\ needHeader => HeaderStart = at
           /\ HeaderLengths \subseteq Nat
  <1>0. /\ H \in Nat \ {0} /\ got \in Nat /\ lo \in Nat /\ at \in Nat
        /\ Delivered \in Nat /\ length \in Nat
    BY StreamAssumption, DeliveredIsNat DEF LInv, TypeOK
  <1>1. phase = "cut" /\ at < got /\ Delivered <= Reached
    BY DEF LInv, Loose, InRound
  <1>2. CASE needHeader
    <2>1. HeaderStart = at /\ Reached = at /\ HeaderLengths = LengthsAt(at)
      BY <1>1, <1>2 DEF HeaderStart, Reached, HeaderLengths
    <2>2. got - at > H
      BY <1>2 DEF InRound
    <2>3. LengthsAt(at) \subseteq Nat
      BY LengthsAreNat DEF LInv
    <2> QED  BY <1>0, <1>1, <2>1, <2>2, <2>3
  <1>3. CASE ~ needHeader
    <2>1. HeaderStart = at - H /\ Reached = lo /\ HeaderLengths = {length}
      BY <1>1, <1>3 DEF HeaderStart, Reached, HeaderLengths
    <2>2. at = lo + H
      BY <1>1, <1>3 DEF LInv, Loose
    <2> QED  BY <1>0, <1>1, <1>3, <2>1, <2>2
  <1> QED  BY <1>2, <1>3

(* The handler is left with a cache that starts behind the packets. *)
LEMMA KeepKeepsLInv ==
    ASSUME LInv, NEW b \in Nat, KeepFrom(b), Delivered <= b, b <= got
    PROVE  LInv'
  <1>1. TypeOK'
    BY DEF LInv, TypeOK, KeepFrom
  <1>2. Delivered' = Delivered /\ Reached' = b /\ phase' = "idle" /\ out' = out
    BY DEF KeepFrom, Delivered, Reached
  <1>3. Loose'
    BY <1>2 DEF LInv, Loose
  <1> QED  BY <1>1, <1>3 DEF LInv

LEMMA EmitKeepsLInv ==
    ASSUME LInv, EmitFrame
    PROVE  /\ LInv'
           /\ at <= at' /\ at' <= got /\ needHeader'
           /\ needHeader => at < at'
  <1>0. /\ H \in Nat \ {0} /\ got \in Nat /\ lo \in Nat /\ at \in Nat
        /\ Delivered \in Nat /\ out \in Seq(Place) /\ lo \in 0 .. got
    BY StreamAssumption, DeliveredIsNat DEF LInv, TypeOK
  <1>1. InRound /\ phase = "cut" /\ lo + H <= at
    BY DEF EmitFrame, InRound, LInv, Loose
  <1>2. /\ HeaderStart \in Nat /\ Delivered <= HeaderStart
        /\ HeaderStart + H <= got /\ at <= HeaderStart + H
        /\ needHeader => HeaderStart = at
        /\ HeaderLengths \subseteq Nat
    BY <1>1, HeaderBehind
  <1>3. PICK n \in HeaderLengths :
            /\ Whole(n)
            /\ out' = Append(out, [start |-> HeaderStart, len |-> H + BodyLength(n)])
            /\ at' = HeaderStart + H + BodyLength(n)
    BY DEF EmitFrame
  <1>4. BodyLength(n) \in Nat
    BY <1>2, <1>3, BodyLengthIsNat
  <1> DEFINE p == [start |-> HeaderStart, len |-> H + BodyLength(n)]
  <1>5. p \in Place /\ p.start = HeaderStart /\ p.start + p.len = at'
    BY <1>0, <1>2, <1>3, <1>4 DEF Place
  <1>6. at' \in Nat /\ at <= at' /\ at' <= got /\ (needHeader => at < at')
    BY <1>0, <1>2, <1>3, <1>4 DEF Whole
  <1>7. /\ needHeader' = TRUE /\ phase' = "cut"
        /\ UNCHANGED <<frames, written, got, lo, length, lone>>
        /\ firm' = IF lone THEN firm ELSE out'
    BY <1>1 DEF EmitFrame
  <1> HIDE DEF p
  <1>8. /\ out' = Append(out, p) /\ out' \in Seq(Place)
        /\ Len(out) \in Nat /\ Len(out') = Len(out) + 1
        /\ DOMAIN out' = 1 .. Len(out) + 1 /\ DOMAIN out = 1 .. Len(out)
        /\ out'[Len(out) + 1] = p
        /\ \A i \in 1 .. Len(out) : out'[i] = out[i]
    <2>1. out' = Append(out, p)
      BY <1>3 DEF p
    <2> QED  BY <2>1, <1>0, <1>5
  <1>9. TypeOK'
    <2>1. needHeader' \in BOOLEAN /\ lone' \in BOOLEAN
      BY <1>7, Zenon DEF LInv, TypeOK
    <2>2. firm' \in Seq(Place)
      BY <1>7, <1>8 DEF LInv, TypeOK
    <2> QED  BY <2>1, <2>2, <1>1, <1>6, <1>7, <1>8 DEF LInv, TypeOK
  <1>10. Delivered' = at' /\ Reached' = at'
    <2>1. out' # << >>
      BY <1>8
    <2> QED  BY <2>1, <1>5, <1>7, <1>8 DEF Delivered, Reached
  <1>11. ASSUME NEW i \in DOMAIN out
         PROVE  out[i] \in Place /\ out[i].start + out[i].len <= Delivered
    <2>1. out[i] \in Place /\ i \in 1 .. Len(out) /\ out # << >>
      BY <1>0, <1>8
    <2>2. Delivered = out[Len(out)].start + out[Len(out)].len
      BY <2>1 DEF Delivered
    <2>3. Len(out) \in DOMAIN out /\ out[Len(out)] \in Place
      BY <2>1, <1>0, <1>8
    <2>4. CASE i = Len(out)
      BY <2>1, <2>2, <2>4, <1>0
    <2>5. CASE i < Len(out)
      <3>1. out[i].start + out[i].len <= out[Len(out)].start
        BY <2>3, <2>5 DEF LInv, Loose
      <3> QED  BY <3>1, <2>1, <2>2, <2>3 DEF Place
    <2> QED  BY <2>1, <2>4, <2>5, <1>8
  <1>12. ASSUME NEW i \in DOMAIN out', NEW j \in DOMAIN out', i < j
         PROVE  out'[i].start + out'[i].len <= out'[j].start
    <2>1. i \in DOMAIN out /\ out'[i] = out[i]
      BY <1>8, <1>12
    <2>2. CASE j \in DOMAIN out
      BY <1>8, <1>12, <2>1, <2>2 DEF LInv, Loose
    <2>3. CASE j = Len(out) + 1
      <3>1. out[i].start \in Nat /\ out[i].len \in Nat
        BY <2>1, <1>11 DEF Place
      <3>2. out[i].start + out[i].len <= Delivered
        BY <2>1, <1>11
      <3>3. out'[j].start = HeaderStart
        BY <1>5, <1>8, <2>3
      <3> QED  BY <3>1, <3>2, <3>3, <2>1, <1>0, <1>2
    <2> QED  BY <2>2, <2>3, <1>8
  <1>13. Loose'
    <2>1. Delivered' <= Reached'
      BY <1>6, <1>10
    <2>2. lo' + H <= at' /\ at' <= got'
      BY <1>0, <1>1, <1>6, <1>7
    <2> QED  BY <2>1, <2>2, <1>7, <1>12 DEF Loose
  <1> QED  BY <1>6, <1>7, <1>9, <1>13 DEF LInv

LEMMA SendKeepsLInv ==
    ASSUME LInv, NEW b \in BodyLens, SendFrame(b)
    PROVE  LInv'
  <1>1. /\ frames \in Seq(Place) /\ written \in Nat /\ H + b \in Nat
        /\ H \in Nat /\ b \in Nat
    BY StreamAssumption DEF LInv, TypeOK
  <1>2. [start |-> written, len |-> H + b] \in Place
    BY <1>1 DEF Place
  <1>3. frames' \in Seq(Place) /\ written' \in Nat /\ written <= written'
    BY <1>1, <1>2 DEF SendFrame
  <1>4. UNCHANGED <<got, lo, phase, at, needHeader, length, out, lone, firm>>
    BY DEF SendFrame
  <1>5. TypeOK'
    BY <1>1, <1>3, <1>4 DEF LInv, TypeOK
  <1>6. Delivered' = Delivered /\ Reached' = Reached
    BY <1>4 DEF Delivered, Reached
  <1> QED  BY <1>4, <1>5, <1>6 DEF LInv, Loose

LEMMA ReceiveKeepsLInv ==
    ASSUME LInv, NEW n \in Nat, Receive(n)
    PROVE  LInv'
  <1>0. /\ H \in Nat \ {0} /\ got \in Nat /\ lo \in 0 .. got /\ written \in Nat
        /\ Delivered \in Nat
    BY StreamAssumption, DeliveredIsNat DEF LInv, TypeOK
  <1>1. /\ phase = "idle" /\ got' = got + n /\ got' <= written
        /\ lone' = (lone \/ got' - lo <= H)
        /\ UNCHANGED <<frames, written, lo, out, firm>>
    BY <1>0 DEF Receive
  <1>2. Delivered <= lo /\ Delivered' = Delivered
    BY <1>1 DEF LInv, Loose, Delivered, Reached
  <1>3. lone' \in BOOLEAN
    BY <1>1, Zenon
  <1>4. CASE got' - lo < H
    <2>1. phase' = "crashed" /\ UNCHANGED <<at, needHeader, length>>
      BY <1>4 DEF Receive
    <2>2. TypeOK'
      BY <2>1, <1>0, <1>1, <1>3 DEF LInv, TypeOK
    <2>3. Reached' = lo
      BY <2>1, <1>1 DEF Reached
    <2> QED  BY <2>1, <2>2, <2>3, <1>1, <1>2 DEF LInv, Loose
  <1>5. CASE ~ (got' - lo < H)
    <2>1. /\ phase' = "cut" /\ at' = lo + H /\ needHeader' = FALSE
          /\ length' \in LengthsAt(lo)
      BY <1>5 DEF Receive
    <2>2. length' \in Nat
      BY <2>1, LengthsAreNat DEF LInv
    <2>3. needHeader' \in BOOLEAN
      BY <2>1, Zenon
    <2>4. lo' + H <= at' /\ at' \in 0 .. got'
      BY <2>1, <1>0, <1>1, <1>5
    <2>5. TypeOK'
      BY <2>1, <2>2, <2>3, <2>4, <1>0, <1>1, <1>3 DEF LInv, TypeOK
    <2>6. Reached' = lo /\ at' <= got'
      BY <2>1, <2>4, <1>0, <1>1 DEF Reached
    <2> QED  BY <2>1, <2>4, <2>5, <2>6, <1>1, <1>2 DEF LInv, Loose
  <1> QED  BY <1>4, <1>5

LEMMA CutKeepsLInv ==
    ASSUME LInv, Cut PROVE LInv'
  <1>0. /\ at \in Nat /\ got \in Nat /\ H \in Nat /\ Delivered \in Nat
        /\ lo \in 0 .. got
    BY StreamAssumption, DeliveredIsNat DEF LInv, TypeOK
  <1>1. Delivered <= Reached /\ (phase = "cut" => at <= got)
    BY DEF LInv, Loose
  <1>2. CASE Finish
    <2>1. Delivered <= got
      BY <1>0, <1>1, <1>2 DEF Finish, Reached
    <2> QED  BY <2>1, <1>0, <1>2, KeepKeepsLInv DEF Finish
  <1>3. CASE KeepHalfHeader
    <2>1. Delivered <= at /\ at <= got
      BY <1>1, <1>3 DEF KeepHalfHeader, Reached
    <2> QED  BY <2>1, <1>0, <1>3, KeepKeepsLInv DEF KeepHalfHeader
  <1>4. CASE EmitFrame
    BY <1>4, EmitKeepsLInv
  <1>5. CASE KeepFragment
    <2>1. HeaderStart \in Nat /\ Delivered <= HeaderStart /\ HeaderStart + H <= got
      BY <1>5, HeaderBehind DEF KeepFragment
    <2>2. HeaderStart <= got
      BY <2>1, <1>0
    <2> QED  BY <2>1, <2>2, <1>5, KeepKeepsLInv DEF KeepFragment
  <1> QED  BY <1>2, <1>3, <1>4, <1>5 DEF Cut

LEMMA NextLInv ==
    ASSUME LInv, [Next]_vars PROVE LInv'
  <1>1. CASE \E b \in BodyLens : SendFrame(b)
    BY <1>1, SendKeepsLInv
  <1>2. CASE Read
    <2>1. PICK n \in 1 .. written - got : Receive(n)
      BY <1>2 DEF Read
    <2>2. n \in Nat
      BY <2>1 DEF LInv, TypeOK
    <2> QED  BY <2>1, <2>2, ReceiveKeepsLInv
  <1>3. CASE Cut
    BY <1>3, CutKeepsLInv
  <1>4. CASE UNCHANGED vars
    BY <1>4 DEF vars, LInv, TypeOK, Loose, Delivered, Reached
  <1> QED  BY <1>1, <1>2, <1>3, <1>4 DEF Next

-----------------------------------------------------------------------------
(* Until a read leaves at most one header: WInv. *)

(* A boundary before the last frame is where the next frame starts, and no *)
(* other frame starts there; a stream read past a boundary has a frame     *)
(* behind that boundary.                                                   *)
LEMMA NextStartsHere ==
    ASSUME WInv
    PROVE  /\ Len(out) \in Nat /\ Len(frames) \in Nat
           /\ Boundary(Len(out)) \in Nat
           /\ Len(out) < Len(frames) =>
                /\ Len(out) + 1 \in DOMAIN frames
                /\ NextFrame \in Place /\ NextFrame.len > H
                /\ NextFrame.start = Boundary(Len(out))
                /\ LengthsAt(Boundary(Len(out))) = {NextFrame.len}
           /\ Boundary(Len(out)) < got => Len(out) < Len(frames)
  <1>0. /\ frames \in Seq(Place) /\ out \in Seq(Place)
        /\ H \in Nat \ {0} /\ got \in Nat /\ written \in Nat /\ got <= written
    BY StreamAssumption DEF WInv, TypeOK
  <1>1. Len(out) \in Nat /\ Len(frames) \in Nat
    BY <1>0
  <1>2. Len(out) <= Len(frames)
    BY DEF WInv, Prefix
  <1>3. Boundary(Len(out)) \in Nat
    <2>1. CASE Len(out) = 0
      BY <2>1 DEF Boundary
    <2>2. CASE Len(out) # 0
      <3>1. Len(out) \in DOMAIN frames
        BY <2>2, <1>0, <1>1, <1>2
      <3>2. frames[Len(out)] \in Place
        BY <3>1, <1>0
      <3> QED  BY <3>2, <2>2 DEF Boundary, Place
    <2> QED  BY <2>1, <2>2
  <1>4. ASSUME Len(out) < Len(frames)
        PROVE  /\ Len(out) + 1 \in DOMAIN frames
               /\ NextFrame \in Place /\ NextFrame.len > H
               /\ NextFrame.start = Boundary(Len(out))
               /\ LengthsAt(Boundary(Len(out))) = {NextFrame.len}
    <2>1. Len(out) + 1 \in DOMAIN frames
      BY <1>0, <1>1, <1>4
    <2>2. NextFrame \in Place
      BY <2>1, <1>0 DEF NextFrame
    <2>3. NextFrame.len > H /\ NextFrame.start = Boundary(Len(out))
      BY <2>1, <1>1 DEF NextFrame, WInv, EndToEnd
    <2>4. ASSUME NEW i \in DOMAIN frames, frames[i].start = NextFrame.start
          PROVE  i = Len(out) + 1
      <3>1. i \in Nat /\ frames[i] \in Place
        BY <1>0
      <3>2. frames[i].start \in Nat /\ frames[i].len \in Nat
            /\ NextFrame.start \in Nat /\ NextFrame.len \in Nat
        BY <3>1, <2>2 DEF Place
      <3>3. frames[i].len > H
        BY DEF WInv, EndToEnd
      <3>4. ~ i < Len(out) + 1
        <4>1. SUFFICES ASSUME i < Len(out) + 1 PROVE FALSE
          OBVIOUS
        <4>2. frames[i].start + frames[i].len <= NextFrame.start
          BY <4>1, <2>1 DEF WInv, EndToEnd, NextFrame
        <4> QED  BY <4>2, <3>2, <3>3, <2>4, <1>0
      <3>5. ~ Len(out) + 1 < i
        <4>1. SUFFICES ASSUME Len(out) + 1 < i PROVE FALSE
          OBVIOUS
        <4>2. NextFrame.start + NextFrame.len <= frames[i].start
          BY <4>1, <2>1 DEF WInv, EndToEnd, NextFrame
        <4> QED  BY <4>2, <3>2, <2>3, <2>4, <1>0
      <3> QED  BY <3>1, <3>4, <3>5, <1>1
    <2>5. {i \in DOMAIN frames : frames[i].start = NextFrame.start} = {Len(out) + 1}
      BY <2>1, <2>4 DEF NextFrame
    <2>6. LengthsAt(NextFrame.start) = {NextFrame.len}
      BY <2>5 DEF LengthsAt, NextFrame
    <2> QED  BY <2>1, <2>2, <2>3, <2>6
  <1>5. ASSUME Boundary(Len(out)) < got PROVE Len(out) < Len(frames)
    <2>1. SUFFICES ASSUME Len(out) = Len(frames) PROVE FALSE
      BY <1>1, <1>2
    <2>2. written = Boundary(Len(out))
      BY <2>1 DEF WInv, EndToEnd
    <2> QED  BY <2>2, <1>5, <1>0, <1>3
  <1> QED  BY <1>1, <1>3, <1>4, <1>5

(* The end of the last packet emitted is a boundary. *)
LEMMA DeliveredIsBoundary ==
    ASSUME WInv PROVE Delivered = Boundary(Len(out))
  <1>1. out \in Seq(Place) /\ \A i \in DOMAIN out : out[i] = frames[i]
    BY DEF WInv, TypeOK, Prefix
  <1>2. CASE out = << >>
    BY <1>2 DEF Delivered, Boundary
  <1>3. CASE out # << >>
    <2>1. Len(out) # 0 /\ Len(out) \in DOMAIN out
      BY <1>1, <1>3
    <2> QED  BY <2>1, <1>1, <1>3 DEF Delivered, Boundary
  <1> QED  BY <1>2, <1>3

LEMMA InitWInv == Init => WInv
  <1>1. SUFFICES ASSUME Init PROVE WInv
    OBVIOUS
  <1>2. TypeOK
    BY <1>1, InitLInv DEF LInv
  <1>3. EndToEnd /\ Prefix /\ AtRest
    BY <1>1 DEF Init, EndToEnd, Prefix, AtRest, Boundary
  <1> QED  BY <1>1, <1>2, <1>3 DEF WInv, Init

-----------------------------------------------------------------------------

LEMMA SendKeepsWInv ==
    ASSUME WInv, TypeOK', NEW b \in BodyLens, SendFrame(b)
    PROVE  WInv'
  <1> DEFINE f == [start |-> written, len |-> H + b]
  <1>0. /\ frames \in Seq(Place) /\ out \in Seq(Place)
        /\ H \in Nat \ {0} /\ b \in Nat \ {0} /\ written \in Nat
        /\ got \in 0 .. written /\ lo \in 0 .. got
    BY StreamAssumption DEF WInv, TypeOK
  <1>1. f \in Place /\ f.start = written /\ f.len = H + b
    BY <1>0 DEF Place
  <1>2. /\ frames' = Append(frames, f) /\ written' = written + H + b
        /\ phase = "idle" /\ phase' = "idle"
        /\ UNCHANGED <<got, lo, at, needHeader, length, out, firm>>
    BY DEF SendFrame
  <1>3. /\ Len(frames) \in Nat
        /\ Len(frames') = Len(frames) + 1
        /\ frames' \in Seq(Place)
        /\ DOMAIN frames = 1 .. Len(frames)
        /\ DOMAIN frames' = 1 .. Len(frames) + 1
        /\ frames'[Len(frames) + 1] = f
        /\ \A i \in DOMAIN frames : frames'[i] = frames[i] /\ i \in DOMAIN frames'
    BY <1>0, <1>1, <1>2
  <1>5. \A k \in 0 .. Len(frames) : Boundary(k)' = Boundary(k)
    BY <1>3 DEF Boundary
  <1>6. Boundary(Len(frames))' = written'
    <2>1. Len(frames)' = Len(frames) + 1 /\ Len(frames) + 1 # 0
      BY <1>3
    <2>2. frames'[Len(frames)'] = f
      BY <2>1, <1>3
    <2> QED  BY <2>1, <2>2, <1>0, <1>1, <1>2 DEF Boundary
  <1>7. \A i \in DOMAIN frames :
            /\ frames[i] \in Place
            /\ frames[i].start = Boundary(i - 1) /\ frames[i].len > H
            /\ frames[i].start + frames[i].len <= written
    BY <1>0 DEF WInv, EndToEnd
  <1>8. EndToEnd'
    <2>1. written' = Boundary(Len(frames))'
      BY <1>6
    <2>2. ASSUME NEW i \in DOMAIN frames'
          PROVE  /\ frames'[i].start = Boundary(i - 1)'
                 /\ frames'[i].len > H
                 /\ frames'[i].start + frames'[i].len <= written'
      <3>1. CASE i \in DOMAIN frames
        <4>1. frames'[i] = frames[i] /\ i - 1 \in 0 .. Len(frames)
          BY <3>1, <1>3
        <4>2. frames[i].start \in Nat /\ frames[i].len \in Nat
          BY <3>1, <1>7 DEF Place
        <4> QED  BY <4>1, <4>2, <3>1, <1>0, <1>2, <1>5, <1>7
      <3>2. CASE i = Len(frames) + 1
        <4>1. Boundary(i - 1)' = written
          BY <3>2, <1>3, <1>5 DEF WInv, EndToEnd
        <4> QED  BY <4>1, <3>2, <1>0, <1>1, <1>2, <1>3
      <3> QED  BY <3>1, <3>2, <1>3
    <2>3. ASSUME NEW i \in DOMAIN frames', NEW j \in DOMAIN frames', i < j
          PROVE  frames'[i].start + frames'[i].len <= frames'[j].start
      <3>1. i \in DOMAIN frames /\ frames'[i] = frames[i]
        BY <2>3, <1>3
      <3>2. CASE j \in DOMAIN frames
        BY <3>1, <3>2, <2>3, <1>3 DEF WInv, EndToEnd
      <3>3. CASE j = Len(frames) + 1
        BY <3>1, <3>3, <1>1, <1>3, <1>7
      <3> QED  BY <3>2, <3>3, <1>3
    <2> QED  BY <2>1, <2>2, <2>3 DEF EndToEnd
  <1>9. Len(out) \in 0 .. Len(frames) /\ \A i \in DOMAIN out : i \in DOMAIN frames
    BY <1>0, <1>3 DEF WInv, Prefix
  <1>10. Prefix'
    BY <1>2, <1>3, <1>9 DEF WInv, Prefix
  <1>11. AtRest'
    <2>1. lo' = Boundary(Len(out))'
      BY <1>2, <1>5, <1>9 DEF WInv, AtRest
    <2>2. CASE Len(out) < Len(frames)
      <3>1. Len(out) + 1 \in DOMAIN frames
        BY <2>2, <1>3, <1>9
      <3>2. NextFrame' = NextFrame
        BY <3>1, <1>2, <1>3 DEF NextFrame
      <3> QED  BY <2>1, <2>2, <3>2, <1>2 DEF WInv, AtRest
    <2>3. CASE Len(out) = Len(frames)
      <3>1. NextFrame' = f
        BY <2>3, <1>2, <1>3 DEF NextFrame
      <3>2. f.start + f.len > got
        BY <1>0, <1>1
      <3> QED  BY <2>1, <3>1, <3>2, <1>2 DEF AtRest
    <2> QED  BY <2>2, <2>3, <1>9
  <1> QED  BY <1>2, <1>8, <1>10, <1>11 DEF WInv

(* The conjuncts about the sender and the output survive a step that       *)
(* touches neither.                                                        *)
LEMMA StreamKept ==
    ASSUME WInv, UNCHANGED <<frames, written, out>>
    PROVE  /\ EndToEnd' /\ Prefix'
           /\ \A k : Boundary(k)' = Boundary(k)
           /\ Len(out)' = Len(out) /\ Len(frames)' = Len(frames)
           /\ NextFrame' = NextFrame
  BY DEF WInv, EndToEnd, Prefix, Boundary, NextFrame

LEMMA ReceiveKeepsWInv ==
    ASSUME WInv, TypeOK', ~ lone', NEW n \in Nat, Receive(n)
    PROVE  WInv'
  <1>0. /\ H \in Nat \ {0} /\ written \in Nat /\ got \in 0 .. written
        /\ lo \in 0 .. got /\ frames \in Seq(Place) /\ out \in Seq(Place)
    BY StreamAssumption DEF WInv, TypeOK
  <1>1. /\ phase = "idle" /\ n > 0 /\ got' = got + n /\ got' <= written
        /\ UNCHANGED <<frames, written, lo, out, firm>>
    BY <1>0 DEF Receive
  <1>a. got' - lo > H
    <2>1. ~ (got' - lo <= H)
      BY Zenon DEF Receive
    <2> DEFINE held == got' - lo
    <2>2. held \in Nat /\ H \in Nat
      BY <1>0, <1>1
    <2>3. ~ (held <= H)
      BY <2>1
    <2> HIDE DEF held
    <2>4. held > H
      BY <2>2, <2>3
    <2> QED  BY <2>4 DEF held
  <1>2. /\ phase' = "cut" /\ at' = lo + H /\ needHeader' = FALSE
        /\ length' \in LengthsAt(lo)
    BY <1>0, <1>1, <1>a DEF Receive
  <1>3. lo = Boundary(Len(out))
    BY <1>1 DEF WInv, AtRest
  <1>4. Len(out) < Len(frames)
    <2>1. SUFFICES ASSUME Len(out) = Len(frames) PROVE FALSE
      BY <1>0 DEF WInv, Prefix
    <2>2. written = lo
      BY <2>1, <1>3 DEF WInv, EndToEnd
    <2> QED  BY <2>2, <1>0, <1>1, <1>a
  <1>5. length' = NextFrame.len /\ NextFrame \in Place
    BY <1>2, <1>3, <1>4, NextStartsHere
  <1>7. FirstRound'
    BY <1>0, <1>1, <1>a, <1>2, <1>3, <1>4, <1>5, StreamKept DEF FirstRound
  <1>8. ~ (needHeader')
    BY <1>2
  <1> QED  BY <1>1, <1>2, <1>7, <1>8, StreamKept DEF WInv

(* Leaving the loop at the boundary with the next frame incomplete. *)
LEMMA KeepKeepsWInv ==
    ASSUME WInv, TypeOK', NEW b, KeepFrom(b), b = Boundary(Len(out)), b <= got,
           Len(out) < Len(frames) => NextFrame.start + NextFrame.len > got
    PROVE  WInv'
  <1>3. AtRest'
    BY StreamKept DEF KeepFrom, AtRest
  <1> QED  BY <1>3, StreamKept DEF KeepFrom, WInv

(* In a round the header is the next frame's. *)
LEMMA RoundIsNextFrame ==
    ASSUME WInv, InRound
    PROVE  /\ Len(out) < Len(frames)
           /\ HeaderStart = Boundary(Len(out))
           /\ HeaderLengths = {NextFrame.len}
           /\ BodyLength(NextFrame.len) = NextFrame.len - H
  <1>0. at \in Nat /\ got \in Nat /\ H \in Nat
    BY StreamAssumption DEF WInv, TypeOK
  <1>1. CASE needHeader
    <2>1. at = Boundary(Len(out)) /\ at < got
      BY <1>1 DEF WInv, InRound, LaterRound
    <2>2. Len(out) < Len(frames)
      BY <2>1, NextStartsHere
    <2>3. NextFrame.len > H /\ NextFrame.len \in Nat
      BY <2>2, NextStartsHere DEF Place
    <2> QED  BY <1>0, <1>1, <2>1, <2>2, <2>3, NextStartsHere
             DEF HeaderStart, HeaderLengths, BodyLength
  <1>2. CASE ~ needHeader
    <2>1. FirstRound
      BY <1>2 DEF WInv, InRound
    <2>2. NextFrame.len > H /\ NextFrame.len \in Nat /\ Boundary(Len(out)) \in Nat
      BY <2>1, NextStartsHere DEF FirstRound, Place
    <2> QED  BY <1>0, <1>2, <2>1, <2>2
             DEF FirstRound, HeaderStart, HeaderLengths, BodyLength
  <1> QED  BY <1>1, <1>2

LEMMA EmitKeepsWInv ==
    ASSUME WInv, TypeOK', ~ lone, EmitFrame
    PROVE  /\ WInv'
           /\ Len(out) < Len(frames) /\ out' = Append(out, NextFrame)
           /\ UNCHANGED frames
  <1> DEFINE n == NextFrame.len
  <1>0. /\ H \in Nat \ {0} /\ written \in Nat /\ got \in 0 .. written
        /\ lo \in 0 .. got /\ frames \in Seq(Place) /\ out \in Seq(Place)
    BY StreamAssumption DEF WInv, TypeOK
  <1>1. /\ Len(out) < Len(frames) /\ HeaderStart = Boundary(Len(out))
        /\ HeaderLengths = {n} /\ BodyLength(n) = n - H
    BY RoundIsNextFrame DEF EmitFrame
  <1>2. /\ Len(out) + 1 \in DOMAIN frames /\ NextFrame \in Place /\ n > H
        /\ NextFrame.start = Boundary(Len(out)) /\ Len(out) \in Nat
        /\ Len(frames) \in Nat
    BY <1>1, NextStartsHere
  <1>3. n \in Nat /\ NextFrame.start \in Nat
    BY <1>2 DEF Place
  <1>4. /\ Whole(n)
        /\ out' = Append(out, [start |-> HeaderStart, len |-> H + BodyLength(n)])
        /\ at' = HeaderStart + H + BodyLength(n)
        /\ needHeader' = TRUE
        /\ firm' = out'
        /\ UNCHANGED <<frames, written, got, lo, phase, length>>
        /\ phase = "cut"
    BY <1>1 DEF EmitFrame, InRound
  <1>5. [start |-> HeaderStart, len |-> H + BodyLength(n)] = NextFrame
    BY <1>0, <1>1, <1>2, <1>3 DEF Place
  <1>6. at' = NextFrame.start + n /\ at' <= got
    BY <1>0, <1>1, <1>2, <1>3, <1>4 DEF Whole
  <1>7. out' = Append(out, NextFrame)
    BY <1>4, <1>5
  <1>8. /\ out' \in Seq(Place) /\ Len(out') = Len(out) + 1
        /\ DOMAIN out' = 1 .. Len(out) + 1
        /\ out'[Len(out) + 1] = NextFrame
        /\ \A i \in 1 .. Len(out) : out'[i] = out[i]
    BY <1>0, <1>2, <1>7
  <1>9. Prefix'
    BY <1>0, <1>1, <1>2, <1>4, <1>8 DEF WInv, Prefix, NextFrame
  <1>10. EndToEnd'
    BY <1>4 DEF WInv, EndToEnd, Boundary
  <1>11. Boundary(Len(out))' = NextFrame.start + n
    BY <1>2, <1>4, <1>8 DEF Boundary, NextFrame
  <1>12. LaterRound'
    BY <1>4, <1>6, <1>11 DEF LaterRound
  <1>14. WInv'
    BY <1>4, <1>9, <1>10, <1>12 DEF WInv
  <1> QED  BY <1>1, <1>4, <1>7, <1>14

LEMMA CutKeepsWInv ==
    ASSUME WInv, TypeOK', ~ lone, Cut
    PROVE  WInv'
  <1>0. /\ at \in Nat /\ got \in Nat /\ H \in Nat \ {0}
        /\ (phase = "cut" /\ ~ needHeader) => at < got
        /\ (phase = "cut" /\ needHeader) => at = Boundary(Len(out)) /\ at <= got
    BY StreamAssumption DEF WInv, TypeOK, FirstRound, LaterRound
  <1>1. Len(out) < Len(frames) =>
            /\ NextFrame.start = Boundary(Len(out))
            /\ NextFrame.len > H /\ NextFrame.len \in Nat
    BY NextStartsHere DEF Place
  <1>2. CASE Finish
    <2>1. phase = "cut" /\ at >= got /\ KeepFrom(got)
      BY <1>2 DEF Finish
    <2>2. got = Boundary(Len(out))
      BY <2>1, <1>0
    <2>3. Len(out) < Len(frames) => NextFrame.start + NextFrame.len > got
      BY <2>2, <1>0, <1>1
    <2> QED  BY <2>1, <2>2, <2>3, <1>0, KeepKeepsWInv
  <1>3. CASE KeepHalfHeader
    <2>1. /\ phase = "cut" /\ needHeader /\ at < got /\ got - at <= H
          /\ KeepFrom(at)
      BY <1>3 DEF KeepHalfHeader
    <2>2. Len(out) < Len(frames) => NextFrame.start + NextFrame.len > got
      BY <2>1, <1>0, <1>1
    <2> QED  BY <2>1, <2>2, <1>0, KeepKeepsWInv
  <1>4. CASE EmitFrame
    BY <1>4, EmitKeepsWInv
  <1>5. CASE KeepFragment
    <2>1. /\ InRound /\ KeepFrom(HeaderStart)
          /\ \E n \in HeaderLengths : ~ Whole(n)
      BY <1>5 DEF KeepFragment
    <2>2. /\ Len(out) < Len(frames) /\ HeaderStart = Boundary(Len(out))
          /\ HeaderLengths = {NextFrame.len}
          /\ BodyLength(NextFrame.len) = NextFrame.len - H
      BY <2>1, RoundIsNextFrame
    <2>3. Boundary(Len(out)) \in Nat
      BY NextStartsHere
    <2>4. NextFrame.start + NextFrame.len > got
      BY <2>1, <2>2, <2>3, <1>0, <1>1 DEF Whole
    <2>5. HeaderStart <= got
      <3>1. CASE needHeader
        BY <3>1, <2>1, <1>0 DEF InRound, HeaderStart
      <3>2. CASE ~ needHeader
        BY <3>2, <2>1, <1>0 DEF InRound, HeaderStart
      <3> QED  BY <3>1, <3>2
    <2> QED  BY <2>1, <2>2, <2>4, <2>5, KeepKeepsWInv
  <1> QED  BY <1>2, <1>3, <1>4, <1>5 DEF Cut

LEMMA NextWInv ==
    ASSUME WInv, TypeOK', ~ lone', [Next]_vars
    PROVE  ~ lone /\ WInv'
  <1>0. ~ lone
    BY DEF Next, SendFrame, Read, Receive, Cut, Finish, KeepHalfHeader, EmitFrame,
           KeepFragment, KeepFrom, vars
  <1>1. CASE \E b \in BodyLens : SendFrame(b)
    BY <1>1, <1>0, SendKeepsWInv
  <1>2. CASE Read
    <2>1. PICK n \in 1 .. written - got : Receive(n)
      BY <1>2 DEF Read
    <2>2. n \in Nat
      BY <2>1 DEF WInv, TypeOK
    <2> QED  BY <2>1, <2>2, <1>0, ReceiveKeepsWInv
  <1>3. CASE Cut
    BY <1>3, <1>0, CutKeepsWInv
  <1>4. CASE UNCHANGED vars
    <2>1. UNCHANGED <<frames, written, got, lo, phase, at, needHeader, length,
                      out, lone, firm>>
      BY <1>4 DEF vars
    <2> QED
      BY <2>1, <1>0 DEF WInv, TypeOK, EndToEnd, Prefix, AtRest, FirstRound,
                  LaterRound, Boundary, NextFrame
  <1> QED  BY <1>1, <1>2, <1>3, <1>4 DEF Next

(* Both together are inductive. *)
LEMMA NextIInv ==
    ASSUME IInv, [Next]_vars PROVE IInv'
  <1>1. LInv'
    BY NextLInv DEF IInv
  <1>2. ASSUME ~ lone' PROVE WInv'
    <2>1. ~ lone
      BY <1>2 DEF Next, SendFrame, Read, Receive, Cut, Finish, KeepHalfHeader,
                  EmitFrame, KeepFragment, KeepFrom, vars
    <2>2. WInv /\ TypeOK'
      BY <2>1, <1>1 DEF IInv, LInv
    <2> QED  BY <2>2, <1>2, NextWInv
  <1> QED  BY <1>1, <1>2 DEF IInv

-----------------------------------------------------------------------------

LEMMA WInvImplies ==
    ASSUME WInv PROVE CacheFollowsPackets /\ NoFrameHeldBack
  <1>2. CacheFollowsPackets
    BY DeliveredIsBoundary DEF WInv, AtRest, CacheFollowsPackets
  <1>3. ASSUME phase = "idle", NEW i \in DOMAIN frames, i > Len(out)
        PROVE  frames[i].start + frames[i].len > got
    <2>0. /\ frames \in Seq(Place) /\ got \in Nat /\ Len(out) \in Nat
          /\ Len(frames) \in Nat /\ H \in Nat
      BY StreamAssumption, NextStartsHere DEF WInv, TypeOK
    <2>1. Len(out) < Len(frames)
      BY <1>3, <2>0
    <2>2. /\ NextFrame.start + NextFrame.len > got
          /\ NextFrame \in Place /\ Len(out) + 1 \in DOMAIN frames
      BY <1>3, <2>1, NextStartsHere DEF WInv, AtRest
    <2>3. CASE i = Len(out) + 1
      BY <2>2, <2>3 DEF NextFrame
    <2>4. CASE i > Len(out) + 1
      <3>1. NextFrame.start + NextFrame.len <= frames[i].start
        BY <2>2, <2>4, <2>0 DEF WInv, EndToEnd, NextFrame
      <3>2. frames[i].len > H /\ frames[i] \in Place
        BY <2>0 DEF WInv, EndToEnd
      <3> QED  BY <3>1, <3>2, <2>0, <2>2 DEF Place
    <2> QED  BY <1>3, <2>0, <2>3, <2>4
  <1> QED  BY <1>2, <1>3 DEF NoFrameHeldBack

(* Between two reads the cache starts exactly where the emitted packets    *)
(* end, until a read is too short: no byte is lost, and none is kept to be *)
(* emitted twice.                                                          *)
NothingLost == ~ lone => CacheFollowsPackets

LEMMA IInvImplies ==
    ASSUME IInv PROVE TypeOK /\ NothingLost /\ NoFrameHeldBack /\ NoByteTwice
  <1>1. TypeOK
    BY DEF IInv, LInv
  <1>2. NothingLost
    BY WInvImplies DEF IInv, NothingLost
  <1>3. NoFrameHeldBack
    <2>1. CASE lone
      BY <2>1 DEF NoFrameHeldBack
    <2>2. CASE WInv
      BY <2>2, WInvImplies
    <2> QED  BY <2>1, <2>2 DEF IInv
  <1>4. NoByteTwice
    BY DEF IInv, LInv, Loose, Reached, NoByteTwice
  <1> QED  BY <1>1, <1>2, <1>3, <1>4

(* The inductive invariant, for every way in which TCP cuts the stream. *)
THEOREM Invariance == Spec => []IInv
  <1>1. Init => IInv
    BY InitLInv, InitWInv DEF IInv
  <1>2. IInv /\ [Next]_vars => IInv'
    BY NextIInv
  <1> QED  BY <1>1, <1>2, PTL DEF Spec

(* Every variable keeps its type; in particular pointer never leaves the   *)
(* string of the bytes read, however the stream is cut and whatever        *)
(* lengths are read from it.                                               *)
THEOREM TypeCorrect == Spec => []TypeOK
  <1>1. IInv => TypeOK
    BY IInvImplies
  <1> QED  BY <1>1, Invariance, PTL

(* Between two reads CheckForFragmentation has lost no byte and keeps none *)
(* twice, until a read leaves at most one header in the buffer.            *)
THEOREM NoByteLost == Spec => []NothingLost
  <1>1. IInv => NothingLost
    BY IInvImplies
  <1> QED  BY <1>1, Invariance, PTL

(* Between two reads no complete packet waits in the cache, until then. *)
THEOREM FramesReleased == Spec => []NoFrameHeldBack
  <1>1. IInv => NoFrameHeldBack
    BY IInvImplies
  <1> QED  BY <1>1, Invariance, PTL

(* No byte is emitted twice, however TCP cuts the stream and whatever the  *)
(* bytes read as a length are.                                             *)
THEOREM BytesUsedOnce == Spec => []NoByteTwice
  <1>1. IInv => NoByteTwice
    BY IInvImplies
  <1> QED  BY <1>1, Invariance, PTL

(* Every round of the loop moves pointer within the string or uses up the  *)
(* first header, so the loop of the handler ends.                          *)
THEOREM LoopAdvances == Spec => RoundsAdvance
  <1>1. ASSUME IInv, [Next]_vars, phase = "cut" /\ phase' = "cut"
        PROVE  \/ /\ at <= at' /\ at' <= got
                  /\ at < at' \/ (~ needHeader /\ needHeader')
               \/ UNCHANGED vars
    <2>1. EmitFrame \/ UNCHANGED vars
      BY <1>1 DEF Next, SendFrame, Read, Receive, Cut, Finish, KeepHalfHeader,
                  KeepFragment, KeepFrom
    <2> QED  BY <2>1, <1>1, EmitKeepsLInv DEF IInv
  <1>2. IInv /\ [Next]_vars =>
            [phase = "cut" /\ phase' = "cut" =>
                /\ at <= at' /\ at' <= got
                /\ at < at' \/ (~ needHeader /\ needHeader')]_vars
    BY <1>1
  <1> QED  BY <1>2, Invariance, PTL DEF Spec, RoundsAdvance

LEMMA StepSimulates ==
    ASSUME IInv, [Next]_vars
    PROVE  [Channel!Next]_(Channel!vars)
  <1>0. frames \in Seq(Place) /\ written \in Nat /\ H \in Nat /\ Len(frames) \in Nat
    BY StreamAssumption DEF IInv, LInv, TypeOK
  <1>1. ASSUME NEW b \in BodyLens, SendFrame(b) PROVE Channel!Send
    <2> DEFINE f == [start |-> written, len |-> H + b]
    <2>1. f \in Place
      BY <1>0, StreamAssumption DEF Place
    <2>2. frames' = Append(frames, f) /\ UNCHANGED firm
      BY <1>1 DEF SendFrame
    <2>3. Len(frames') = Len(frames) + 1 /\ frames'[Len(frames')] = f
      BY <2>1, <2>2, <1>0
    <2> QED  BY <2>1, <2>2, <2>3 DEF Channel!Send
  <1>2. CASE EmitFrame /\ ~ lone
    <2>1. WInv /\ TypeOK'
      BY <1>2, NextLInv DEF IInv, LInv
    <2>2. /\ Len(out) < Len(frames) /\ out' = Append(out, NextFrame)
          /\ UNCHANGED frames
      BY <1>2, <2>1, EmitKeepsWInv
    <2>3. firm = out /\ firm' = out'
      BY <1>2, <2>1 DEF WInv, EmitFrame
    <2> QED  BY <2>2, <2>3 DEF Channel!Next, Channel!Deliver, NextFrame
  <1>3. CASE \/ Read \/ Finish \/ KeepHalfHeader \/ KeepFragment \/ UNCHANGED vars
             \/ EmitFrame /\ lone
    <2>1. UNCHANGED <<frames, firm>>
      BY <1>3 DEF Read, Receive, Finish, KeepHalfHeader, KeepFragment,
                  EmitFrame, KeepFrom, vars
    <2> QED  BY <2>1 DEF Channel!vars
  <1> QED  BY <1>1, <1>2, <1>3 DEF Next, Cut, Channel!Next

(* The byte level implements the channel of whole frames. *)
THEOREM Refinement == Spec => ImplementsChannel
  <1>1. Init => Channel!Init
    BY DEF Init, Channel!Init
  <1>2. IInv /\ [Next]_vars => [Channel!Next]_(Channel!vars)
    BY StepSimulates
  <1>3. IInv => (~ lone => out = firm)
    BY DEF IInv, WInv
  <1> QED  BY <1>1, <1>2, <1>3, Invariance, PTL DEF Spec, ImplementsChannel, Channel!Spec
=============================================================================
