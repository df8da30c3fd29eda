------------------------- MODULE QKDCharging_proofs -------------------------
(***************************************************************************)
(* Proofs about post-processing, for all rates and lengths of a round.     *)
(* That the ends take turns needs a TCP connection that hands over each    *)
(* message in one piece (~ splits), as it does for the default size of a   *)
(* message; type correctness and that the slave is charged first do not.   *)
(***************************************************************************)
EXTENDS QKDCharging, SequenceTheorems, TLAPS

LEMMA TwoEnds ==
    /\ Master \in Ends /\ Slave \in Ends /\ Master # Slave
    /\ \A e \in Ends : Peer(e) \in Ends /\ Peer(e) # e
    /\ \A e, x \in Ends : x = e \/ x = Peer(e)
  BY ChargingAssumption DEF Ends, Peer

(* The attributes of the applications never change. *)
LEMMA ConfigStep == [Next]_vars => splits' = splits /\ maxPackets' = maxPackets
  BY DEF Next, vars, config, ConnectionSucceeded, SendPacket, HandleRead, StopApplication, Refuse

(* Taking an element out of a sequence. *)
LEMMA WithoutOne ==
    ASSUME NEW s \in Seq(Message), NEW i \in DOMAIN s
    PROVE  Without(s, i) \in Seq(Message) /\ Len(Without(s, i)) = Len(s) - 1
<1>1. i \in 1 .. Len(s) /\ Len(s) \in Nat
  OBVIOUS
<1>2. SubSeq(s, 1, i - 1) \in Seq(Message) /\ Len(SubSeq(s, 1, i - 1)) = i - 1
  BY <1>1
<1>3. /\ SubSeq(s, i + 1, Len(s)) \in Seq(Message)
      /\ Len(SubSeq(s, i + 1, Len(s))) = Len(s) - i
  BY <1>1
<1> DEFINE a == SubSeq(s, 1, i - 1)
           b == SubSeq(s, i + 1, Len(s))
<1> HIDE DEF a, b
<1>4. a \in Seq(Message) /\ b \in Seq(Message) /\ Len(a) = i - 1 /\ Len(b) = Len(s) - i
  BY <1>2, <1>3 DEF a, b
<1>5. a \o b \in Seq(Message) /\ Len(a \o b) = Len(a) + Len(b)
  BY <1>4, ConcatProperties
<1>6. Len(a \o b) = Len(s) - 1
  BY <1>1, <1>4, <1>5
<1>. QED  BY <1>5, <1>6 DEF Without, a, b

(* SendData prepares one message; only the master asks for key material. *)
LEMMA SendDataResult ==
    ASSUME TypeOK, NEW e \in Ends, NEW n \in Nat, NEW asked \in BOOLEAN, SendData(e, n, asked)
    PROVE  /\ packetNumber' \in [Ends -> Nat]
           /\ \A x \in Ends : packetNumber'[x] < maxPackets[x]
           /\ sendKeyRate' \in [Ends -> BOOLEAN]
           /\ \E m \in Message :
                /\ scheduled' = [scheduled EXCEPT ![e] = Append(@, m)]
                /\ m.label \in {"QKDPPS", "ADDKEY"}
                /\ m.label = "ADDKEY" => m.value = KeyRate /\ e = Master
                /\ n = 0 /\ ~ asked => m.label = "QKDPPS"
<1> DEFINE over == n >= maxPackets[e]
           next == IF over THEN 0 ELSE n
           m    == IF e = Master /\ (asked \/ over) THEN AddKey(KeyRate) ELSE QkdPps(next)
<1>1. /\ packetNumber' = [packetNumber EXCEPT ![e] = next]
      /\ sendKeyRate' = [sendKeyRate EXCEPT ![e] = asked \/ over]
      /\ scheduled' = [scheduled EXCEPT ![e] = Append(@, m)]
  BY DEF SendData, PrepareOutput
<1>2. maxPackets[e] \in Nat \ {0} /\ KeyRate \in Nat
  BY ChargingAssumption DEF TypeOK
<1>3. next \in Nat /\ next < maxPackets[e]
  BY <1>2
<1>4. packetNumber' \in [Ends -> Nat] /\ \A x \in Ends : packetNumber'[x] < maxPackets[x]
  BY <1>1, <1>3 DEF TypeOK
<1>5. sendKeyRate' \in [Ends -> BOOLEAN]
  <2>1. (asked \/ over) \in BOOLEAN
    OBVIOUS
  <2> HIDE DEF over
  <2>. QED  BY <1>1, <2>1 DEF TypeOK
<1>6. /\ m \in Message /\ m.label \in {"QKDPPS", "ADDKEY"}
      /\ m.label = "ADDKEY" => m.value = KeyRate /\ e = Master
  BY <1>2, <1>3 DEF Message, AddKey, QkdPps
<1>7. n = 0 /\ ~ asked => m.label = "QKDPPS"
  BY <1>2 DEF QkdPps
<1>. QED  BY <1>1, <1>4, <1>5, <1>6, <1>7

-----------------------------------------------------------------------------

(* What a message read does to the application. *)
LEMMA ProcessResult ==
    ASSUME TypeOK, NEW e \in Ends, NEW msg \in Message, ProcessIncomingPacket(e, msg)
    PROVE  /\ packetNumber' \in [Ends -> Nat]
           /\ \A x \in Ends : packetNumber'[x] < maxPackets[x]
           /\ sendKeyRate' \in [Ends -> BOOLEAN] /\ ahead' \in Int
           /\ \E m \in Message :
                /\ scheduled' = [scheduled EXCEPT ![e] = Append(@, m)]
                /\ m.label \in {"QKDPPS", "ADDKEY"}
                /\ msg.label = "ADDKEY" /\ e = Slave =>
                            m = AddKey(msg.value) /\ ahead' = ahead + msg.value
                /\ msg.label = "ADDKEY" /\ e = Master =>
                            m.label = "QKDPPS" /\ ahead' = ahead - msg.value
                /\ msg.label # "ADDKEY" =>
                            /\ m.label = "ADDKEY" => e = Master /\ m.value = KeyRate
                            /\ ahead' = ahead
<1> USE TwoEnds
<1>t. /\ packetNumber \in [Ends -> Nat] /\ sendKeyRate \in [Ends -> BOOLEAN]
      /\ \A x \in Ends : packetNumber[x] < maxPackets[x]
      /\ scheduled \in [Ends -> Seq(Message)] /\ ahead \in Int
      /\ msg.value \in Nat /\ maxPackets[e] \in Nat \ {0}
  BY ChargingAssumption DEF TypeOK, Message
<1>1. CASE msg.label = "ADDKEY" /\ ReceiveAddKey(e, msg.value)
  <2>1. CASE e = Slave
    <3> DEFINE m == AddKey(msg.value)
    <3>1. /\ packetNumber' = [packetNumber EXCEPT ![e] = 0]
          /\ sendKeyRate' = [sendKeyRate EXCEPT ![e] = FALSE]
          /\ scheduled' = [scheduled EXCEPT ![e] = Append(@, m)]
          /\ ahead' = ahead + msg.value
      BY <1>1, <2>1 DEF ReceiveAddKey, AddNewKeyMaterial, PrepareOutput
    <3>2. m \in Message /\ m.label = "ADDKEY"
      BY <1>t DEF AddKey, Message
    <3>3. /\ packetNumber' \in [Ends -> Nat] /\ sendKeyRate' \in [Ends -> BOOLEAN]
          /\ \A x \in Ends : packetNumber'[x] < maxPackets[x]
      BY <1>t, <3>1
    <3>4. ahead' \in Int
      BY <1>t, <3>1
    <3> HIDE DEF m
    <3>5. m \in Message /\ m.label \in {"QKDPPS", "ADDKEY"} /\ m = AddKey(msg.value)
      BY <3>2 DEF m
    <3>. QED  BY <1>1, <2>1, <3>1, <3>3, <3>4, <3>5
  <2>2. CASE e = Master
    <3>1. SendData(e, 0, FALSE) /\ ahead' = ahead - msg.value
      BY <1>1, <2>2 DEF ReceiveAddKey, AddNewKeyMaterial
    <3>2. ahead' \in Int
      BY <1>t, <3>1
    <3>. QED  BY <1>1, <2>2, <3>1, <3>2, SendDataResult
  <2>. QED  BY <2>1, <2>2 DEF Ends
<1>2. ASSUME NEW v \in Nat, ReceiveNumber(e, v), msg.label # "ADDKEY"
      PROVE  /\ packetNumber' \in [Ends -> Nat]
             /\ \A x \in Ends : packetNumber'[x] < maxPackets[x]
             /\ sendKeyRate' \in [Ends -> BOOLEAN] /\ ahead' = ahead
             /\ \E m \in Message :
                  /\ scheduled' = [scheduled EXCEPT ![e] = Append(@, m)]
                  /\ m.label \in {"QKDPPS", "ADDKEY"}
                  /\ m.label = "ADDKEY" => e = Master /\ m.value = KeyRate
  <2> DEFINE n == IF v < maxPackets[e] THEN v + 1 ELSE packetNumber[e] + 1
  <2>1. SendData(e, n, sendKeyRate[e]) /\ ahead' = ahead
    BY <1>2 DEF ReceiveNumber
  <2>2. n \in Nat /\ sendKeyRate[e] \in BOOLEAN
    BY <1>t
  <2> HIDE DEF n
  <2>. QED  BY <2>1, <2>2, SendDataResult
<1>3. CASE msg.label = "QKDPPS" /\ ReceiveNumber(e, msg.value)
  BY <1>t, <1>2, <1>3
<1>4. CASE msg.label = "padding" /\ \E v \in 0 .. maxPackets[e] : ReceiveNumber(e, v)
  BY <1>t, <1>2, <1>4
<1>. QED  BY <1>1, <1>3, <1>4 DEF ProcessIncomingPacket

(* What a read shows is a message. *)
LEMMA ShownType ==
    ASSUME NEW msg \in Message, NEW cut \in BOOLEAN, NEW shown \in Shown(msg, cut)
    PROVE  /\ shown \in Message
           /\ ~ cut /\ msg.label # "padding" => shown = msg
<1>1. CASE shown = msg \/ (cut /\ shown = Padding)
  BY <1>1 DEF Padding, Message
<1>2. CASE ~ (shown = msg \/ (cut /\ shown = Padding))
  <2>1. PICK v \in Misread(msg, cut) : shown = AddKey(v)
    BY <1>2 DEF Shown
  <2>2. /\ cut \/ msg.label = "padding"
        /\ v \in Truncated(msg.value) \cup UninitValues
    BY <2>1 DEF Misread
  <2>3. v \in Nat
    <3>1. msg.value \in Nat
      BY DEF Message
    <3>2. Truncated(msg.value) \subseteq 1 .. msg.value
      BY Zenon DEF Truncated
    <3>3. CASE v \in Truncated(msg.value)
      <4>1. v \in 1 .. msg.value
        BY <3>2, <3>3
      <4>. QED  BY <3>1, <4>1
    <3>. QED  BY <2>2, <3>3, ChargingAssumption
  <2>. QED  BY <2>1, <2>2, <2>3 DEF AddKey, Message
<1>. QED  BY <1>1, <1>2

(* One read: what it takes off the wire and what it shows of the first     *)
(* message: that message itself unless it was cut, now or before.          *)
Read(e, n, cut, shown) ==
    /\ wire' = [wire EXCEPT ![e] =
                    (IF cut THEN << Padding >> ELSE << >>) \o SubSeq(@, n + 1, Len(@))]
    /\ ProcessIncomingPacket(e, shown)
    /\ invented' = invented + Surplus(e, Head(wire[e]), shown)

LEMMA ReadResult ==
    ASSUME TypeOK, NEW e \in Ends, HandleRead(e)
    PROVE  /\ wire[e] # << >> /\ wire[e] \in Seq(Message) /\ Head(wire[e]) \in Message
           /\ UNCHANGED <<connected, stopped>>
           /\ \E n \in 1 .. Len(wire[e]), cut \in BOOLEAN, shown \in Message :
                /\ cut => splits
                /\ ~ cut /\ Head(wire[e]).label # "padding" => shown = Head(wire[e])
                /\ Read(e, n, cut, shown)
<1>1. /\ wire[e] # << >> /\ wire[e] \in Seq(Message) /\ Head(wire[e]) \in Message
      /\ UNCHANGED <<connected, stopped>>
  BY DEF HandleRead, TypeOK
<1>2. PICK n \in 1 .. Len(wire[e]),
           cut \in IF splits /\ Outstanding < MaxMessages THEN BOOLEAN ELSE {FALSE} :
         \E shown \in Shown(Head(wire[e]), cut /\ n = 1) :
            Read(e, n, cut, shown)
  BY Zenon DEF HandleRead, Read
<1>3. PICK shown \in Shown(Head(wire[e]), cut /\ n = 1) :
            Read(e, n, cut, shown)
  BY <1>2
<1>4. cut \in BOOLEAN /\ (cut => splits)
  BY <1>2
<1>5. /\ shown \in Message
      /\ ~ cut /\ Head(wire[e]).label # "padding" => shown = Head(wire[e])
  <2>1. (cut /\ n = 1) \in BOOLEAN
    OBVIOUS
  <2>. QED  BY <1>1, <1>3, <2>1, ShownType
<1>. QED  BY <1>1, <1>3, <1>4, <1>5

LEMMA SurplusType ==
    ASSUME NEW e, NEW msg \in Message, NEW shown \in Message
    PROVE  Surplus(e, msg, shown) \in Nat
  BY DEF Surplus, Worth, Message

(* Every step keeps the types. *)
LEMMA TypeStep ==
    ASSUME TypeOK, [Next]_vars
    PROVE  TypeOK'
<1>t. /\ connected \in [Ends -> BOOLEAN] /\ stopped \in [Ends -> BOOLEAN]
      /\ packetNumber \in [Ends -> Nat]
      /\ \A x \in Ends : packetNumber[x] < maxPackets[x]
      /\ sendKeyRate \in [Ends -> BOOLEAN]
      /\ scheduled \in [Ends -> Seq(Message)] /\ wire \in [Ends -> Seq(Message)]
      /\ ahead \in Int /\ invented \in Nat /\ maxPackets' \in Limits /\ splits' \in BOOLEAN
      /\ maxPackets' = maxPackets
  BY ConfigStep DEF TypeOK
<1>1. ASSUME NEW e \in Ends, ConnectionSucceeded(e)  PROVE TypeOK'
  <2>1. /\ connected' \in [Ends -> BOOLEAN] /\ stopped' = stopped /\ wire' = wire
        /\ ahead' = ahead /\ invented' = invented
    BY <1>t, <1>1 DEF ConnectionSucceeded
  <2>2. CASE e = Master
    <3>1. SendData(e, packetNumber[e], sendKeyRate[e])
      BY <1>1, <2>2 DEF ConnectionSucceeded
    <3>2. packetNumber[e] \in Nat /\ sendKeyRate[e] \in BOOLEAN
      BY <1>t
    <3>3. PICK m \in Message : scheduled' = [scheduled EXCEPT ![e] = Append(@, m)]
      BY <3>1, <3>2, SendDataResult
    <3>4. scheduled' \in [Ends -> Seq(Message)]
      BY <1>t, <3>3
    <3>5. /\ packetNumber' \in [Ends -> Nat] /\ sendKeyRate' \in [Ends -> BOOLEAN]
          /\ \A x \in Ends : packetNumber'[x] < maxPackets[x]
      BY <3>1, <3>2, SendDataResult
    <3>. QED  BY <1>t, <2>1, <3>4, <3>5 DEF TypeOK
  <2>3. CASE e # Master
    BY <1>t, <1>1, <2>1, <2>3 DEF ConnectionSucceeded, TypeOK
  <2>. QED  BY <2>2, <2>3
<1>2. ASSUME NEW e \in Ends, SendPacket(e)  PROVE TypeOK'
  <2>1. PICK i \in DOMAIN scheduled[e] :
        /\ scheduled' = [scheduled EXCEPT ![e] = Without(@, i)]
        /\ wire' = IF connected[e] THEN [wire EXCEPT ![Peer(e)] = Append(@, scheduled[e][i])]
                   ELSE wire
    BY <1>2 DEF SendPacket
  <2>2. Without(scheduled[e], i) \in Seq(Message) /\ scheduled[e][i] \in Message
    BY <1>t, WithoutOne
  <2>3. scheduled' \in [Ends -> Seq(Message)] /\ wire' \in [Ends -> Seq(Message)]
    <3>1. Peer(e) \in Ends
      BY TwoEnds
    <3>2. Append(wire[Peer(e)], scheduled[e][i]) \in Seq(Message)
      BY <1>t, <2>2, <3>1
    <3>. QED  BY <1>t, <2>1, <2>2, <3>1, <3>2
  <2>. QED  BY <1>t, <1>2, <2>3 DEF SendPacket, TypeOK
<1>3. ASSUME NEW e \in Ends, HandleRead(e)  PROVE TypeOK'
  <2>0. PICK n \in 1 .. Len(wire[e]), cut \in BOOLEAN, shown \in Message :
            Read(e, n, cut, shown)
    BY <1>3, ReadResult
  <2>1. wire' = [wire EXCEPT ![e] =
                    (IF cut THEN << Padding >> ELSE << >>) \o SubSeq(@, n + 1, Len(@))]
    BY <2>0 DEF Read
  <2>2. /\ (IF cut THEN << Padding >> ELSE << >>) \in Seq(Message)
        /\ SubSeq(wire[e], n + 1, Len(wire[e])) \in Seq(Message)
    <3>1. Padding \in Message
      BY DEF Padding, Message
    <3>2. << Padding >> \in Seq(Message) /\ << >> \in Seq(Message)
      BY <3>1
    <3>3. wire[e] \in Seq(Message) /\ n \in Int /\ n + 1 >= 1
      BY <1>t
    <3>4. SubSeq(wire[e], n + 1, Len(wire[e])) \in Seq(Message)
      BY <3>3
    <3>. QED  BY <3>2, <3>4
  <2>3. wire' \in [Ends -> Seq(Message)]
    <3>1. (IF cut THEN << Padding >> ELSE << >>) \o SubSeq(wire[e], n + 1, Len(wire[e]))
            \in Seq(Message)
      BY <2>2, ConcatProperties
    <3>. QED  BY <1>t, <2>1, <3>1
  <2>4. /\ ProcessIncomingPacket(e, shown) /\ invented' \in Nat
        /\ UNCHANGED <<connected, stopped>>
    <3>1. Head(wire[e]) \in Message /\ UNCHANGED <<connected, stopped>>
      BY <1>3, ReadResult
    <3>2. Surplus(e, Head(wire[e]), shown) \in Nat
      BY <3>1, SurplusType
    <3>. QED  BY <1>t, <2>0, <3>1, <3>2 DEF Read
  <2>5. PICK m \in Message : scheduled' = [scheduled EXCEPT ![e] = Append(@, m)]
    BY <2>4, ProcessResult
  <2>6. scheduled' \in [Ends -> Seq(Message)]
    BY <1>t, <2>5
  <2>7. /\ packetNumber' \in [Ends -> Nat] /\ sendKeyRate' \in [Ends -> BOOLEAN]
        /\ \A x \in Ends : packetNumber'[x] < maxPackets[x]
        /\ ahead' \in Int
    BY <2>4, ProcessResult
  <2>. QED  BY <1>t, <2>3, <2>4, <2>6, <2>7 DEF TypeOK
<1>4. ASSUME NEW e \in Ends, StopApplication(e)  PROVE TypeOK'
  <2>1. << >> \in Seq(Message)
    OBVIOUS
  <2>. QED  BY <1>t, <1>4, <2>1 DEF StopApplication, TypeOK
<1>5. ASSUME NEW e \in Ends, Refuse(e)  PROVE TypeOK'
  <2>1. Tail(wire[e]) \in Seq(Message)
    BY <1>t, <1>5 DEF Refuse
  <2>. QED  BY <1>t, <1>5, <2>1 DEF Refuse, TypeOK
<1>6. CASE UNCHANGED vars
  BY <1>t, <1>6 DEF vars, TypeOK
<1>. QED  BY <1>1, <1>2, <1>3, <1>4, <1>5, <1>6 DEF Next

LEMMA TypeInit == Init => TypeOK
<1> SUFFICES ASSUME Init PROVE TypeOK
  OBVIOUS
<1>1. << >> \in Seq(Message)
  OBVIOUS
<1>2. scheduled \in [Ends -> Seq(Message)] /\ wire \in [Ends -> Seq(Message)]
  BY <1>1 DEF Init
<1>3. \A e \in Ends : packetNumber[e] < maxPackets[e]
  BY ChargingAssumption DEF Init
<1>. QED  BY <1>2, <1>3 DEF Init, TypeOK

(* Type correctness, cut messages included: the packet number of an        *)
(* application stays below m_maxPackets, whatever numbers it reads.        *)
THEOREM TypeCorrect == Spec => []TypeOK
<1>1. TypeOK /\ [Next]_vars => TypeOK'
  BY TypeStep
<1>. QED  BY TypeInit, <1>1, PTL DEF Spec

-----------------------------------------------------------------------------
(* The order of the charges. *)

(* A whole message, at the end that sends it or on its way from there: the *)
(* slave's ADDKEY tells of a round the master has still to store, no other *)
(* message is sent while there is such a round.                            *)
Tells(m, fromSlave, a) ==
    /\ m.label \in {"QKDPPS", "ADDKEY"}
    /\ m.label = "ADDKEY" => m.value = KeyRate
    /\ a = IF m.label = "ADDKEY" /\ fromSlave THEN KeyRate ELSE 0

AllTell ==
    \A e \in Ends :
        /\ \A i \in DOMAIN scheduled[e] : Tells(scheduled[e][i], e = Slave, ahead)
        /\ \A i \in DOMAIN wire[e] : Tells(wire[e][i], e = Master, ahead)

(* Before its connection is up the master has sent nothing, and the slave  *)
(* only answers.                                                           *)
NotStarted == ~ connected[Master] /\ ~ stopped[Master] => Outstanding = 0 /\ ahead = 0

AtMostOne == Outstanding <= 1

IInv == AtMostOne /\ AllTell /\ NotStarted /\ ahead \in {0, KeyRate}

(* The sum of the four lengths, seen from either end. *)
LEMMA SumAt ==
    \A s, w \in [Ends -> Seq(Message)] : \A e \in Ends :
        /\ Len(s[Master]) + Len(s[Slave]) + Len(w[Master]) + Len(w[Slave])
             = Len(s[e]) + Len(s[Peer(e)]) + Len(w[e]) + Len(w[Peer(e)])
        /\ \A x \in Ends : Len(s[x]) \in Nat /\ Len(w[x]) \in Nat
<1> SUFFICES ASSUME NEW s \in [Ends -> Seq(Message)], NEW w \in [Ends -> Seq(Message)],
                    NEW e \in Ends
             PROVE  /\ Len(s[Master]) + Len(s[Slave]) + Len(w[Master]) + Len(w[Slave])
                         = Len(s[e]) + Len(s[Peer(e)]) + Len(w[e]) + Len(w[Peer(e)])
                    /\ \A x \in Ends : Len(s[x]) \in Nat /\ Len(w[x]) \in Nat
  OBVIOUS
<1>1. \A x \in Ends : Len(s[x]) \in Nat /\ Len(w[x]) \in Nat
  OBVIOUS
<1>2. /\ Len(s[Master]) \in Nat /\ Len(s[Slave]) \in Nat
      /\ Len(w[Master]) \in Nat /\ Len(w[Slave]) \in Nat
  <2>1. Master \in Ends /\ Slave \in Ends
    BY DEF Ends
  <2>. QED  BY <1>1, <2>1
<1>3. \/ e = Master /\ Peer(e) = Slave
      \/ e = Slave /\ Peer(e) = Master
  BY ChargingAssumption DEF Ends, Peer
<1> DEFINE a == Len(s[Master])  b == Len(s[Slave])  c == Len(w[Master])  d == Len(w[Slave])
<1>4. a \in Nat /\ b \in Nat /\ c \in Nat /\ d \in Nat
  BY <1>2
<1>5. \/ /\ Len(s[e]) = a /\ Len(s[Peer(e)]) = b /\ Len(w[e]) = c /\ Len(w[Peer(e)]) = d
      \/ /\ Len(s[e]) = b /\ Len(s[Peer(e)]) = a /\ Len(w[e]) = d /\ Len(w[Peer(e)]) = c
  BY <1>3
<1>6. a + b + c + d = Len(s[e]) + Len(s[Peer(e)]) + Len(w[e]) + Len(w[Peer(e)])
  <2> HIDE DEF a, b, c, d
  <2>1. a + b + c + d = b + a + d + c
    BY <1>4
  <2>. QED  BY <1>5, <2>1
<1>. QED  BY <1>1, <1>6

(* One message at e, scheduled or to be read: there is no other. *)
LEMMA Alone ==
    ASSUME TypeOK, AtMostOne, NEW e \in Ends
    PROVE  /\ scheduled[e] # << >> =>
                /\ Len(scheduled[e]) = 1 /\ scheduled[Peer(e)] = << >>
                /\ \A x \in Ends : wire[x] = << >>
           /\ wire[e] # << >> =>
                /\ Len(wire[e]) = 1 /\ wire[Peer(e)] = << >>
                /\ \A x \in Ends : scheduled[x] = << >>
<1>1. scheduled \in [Ends -> Seq(Message)] /\ wire \in [Ends -> Seq(Message)]
  BY DEF TypeOK
<1>2. Len(scheduled[e]) + Len(scheduled[Peer(e)]) + Len(wire[e]) + Len(wire[Peer(e)]) <= 1
  BY <1>1, SumAt DEF AtMostOne, Outstanding
<1>3. \A x \in Ends : /\ Len(scheduled[x]) \in Nat /\ Len(wire[x]) \in Nat
                      /\ scheduled[x] = << >> <=> Len(scheduled[x]) = 0
                      /\ wire[x] = << >> <=> Len(wire[x]) = 0
  BY <1>1
<1>4. Peer(e) \in Ends /\ \A x \in Ends : x = e \/ x = Peer(e)
  BY TwoEnds
<1> DEFINE a == Len(scheduled[e])  b == Len(scheduled[Peer(e)])
           c == Len(wire[e])       d == Len(wire[Peer(e)])
<1>5. a \in Nat /\ b \in Nat /\ c \in Nat /\ d \in Nat /\ a + b + c + d <= 1
  BY <1>2, <1>3, <1>4
<1>6. /\ a # 0 => a = 1 /\ b = 0 /\ c = 0 /\ d = 0
      /\ c # 0 => c = 1 /\ a = 0 /\ b = 0 /\ d = 0
  <2> HIDE DEF a, b, c, d
  <2>. QED  BY <1>5
<1>. QED  BY <1>3, <1>4, <1>6

(* What a step that keeps the message, or loses it, must show. *)
LEMMA NewMessage ==
    ASSUME TypeOK', NEW e \in Ends, NEW m \in Message,
           \/ /\ scheduled'[e] = << m >> /\ Tells(m, e = Slave, ahead')
              /\ scheduled'[Peer(e)] = << >> /\ \A x \in Ends : wire'[x] = << >>
           \/ /\ wire'[e] = << m >> /\ Tells(m, e = Master, ahead')
              /\ wire'[Peer(e)] = << >> /\ \A x \in Ends : scheduled'[x] = << >>
    PROVE  AtMostOne' /\ AllTell'
<1>1. scheduled' \in [Ends -> Seq(Message)] /\ wire' \in [Ends -> Seq(Message)]
  BY DEF TypeOK
<1>2. Peer(e) \in Ends /\ \A x \in Ends : x = e \/ x = Peer(e)
  BY TwoEnds
<1>3. Len(<< m >>) = 1 /\ Len(<< >>) = 0 /\ DOMAIN << >> = {} /\ DOMAIN << m >> = {1}
      /\ << m >>[1] = m
  OBVIOUS
<1>4. Outstanding' = Len(scheduled'[e]) + Len(scheduled'[Peer(e)])
                        + Len(wire'[e]) + Len(wire'[Peer(e)])
  BY <1>1, SumAt DEF Outstanding
<1>5. AtMostOne'
  <2>1. \/ /\ Len(scheduled'[e]) = 1 /\ Len(scheduled'[Peer(e)]) = 0
           /\ Len(wire'[e]) = 0 /\ Len(wire'[Peer(e)]) = 0
        \/ /\ Len(scheduled'[e]) = 0 /\ Len(scheduled'[Peer(e)]) = 0
           /\ Len(wire'[e]) = 1 /\ Len(wire'[Peer(e)]) = 0
    <3>1. ASSUME wire'[e] = << m >>, wire'[Peer(e)] = << >>,
                 \A x \in Ends : scheduled'[x] = << >>
          PROVE  /\ Len(scheduled'[e]) = 0 /\ Len(scheduled'[Peer(e)]) = 0
                 /\ Len(wire'[e]) = 1 /\ Len(wire'[Peer(e)]) = 0
      BY <1>2, <1>3, <3>1
    <3>2. ASSUME scheduled'[e] = << m >>, scheduled'[Peer(e)] = << >>,
                 \A x \in Ends : wire'[x] = << >>
          PROVE  /\ Len(scheduled'[e]) = 1 /\ Len(scheduled'[Peer(e)]) = 0
                 /\ Len(wire'[e]) = 0 /\ Len(wire'[Peer(e)]) = 0
      BY <1>2, <1>3, <3>2
    <3>. QED  BY <3>1, <3>2
  <2>2. Outstanding' = 1 + 0 + 0 + 0 \/ Outstanding' = 0 + 0 + 1 + 0
    BY <1>4, <2>1
  <2>3. Outstanding' = 1
    BY <2>2
  <2>. QED  BY <2>3 DEF AtMostOne
<1>6. AllTell'
  <2>1. SUFFICES ASSUME NEW x \in Ends
                 PROVE  /\ \A i \in DOMAIN scheduled'[x] : Tells(scheduled'[x][i], x = Slave, ahead')
                        /\ \A i \in DOMAIN wire'[x] : Tells(wire'[x][i], x = Master, ahead')
    BY DEF AllTell
  <2>. QED  BY <1>2, <1>3
<1>. QED  BY <1>5, <1>6

LEMMA NoMessage ==
    ASSUME TypeOK', \A x \in Ends : scheduled'[x] = << >> /\ wire'[x] = << >>
    PROVE  Outstanding' = 0 /\ AtMostOne' /\ AllTell'
<1>1. Len(<< >>) = 0 /\ DOMAIN << >> = {}
  OBVIOUS
<1>2. Outstanding' = 0
  <2>1. /\ scheduled'[Master] = << >> /\ scheduled'[Slave] = << >>
        /\ wire'[Master] = << >> /\ wire'[Slave] = << >>
    BY TwoEnds
  <2>2. Len(scheduled'[Master]) = 0 /\ Len(scheduled'[Slave]) = 0
        /\ Len(wire'[Master]) = 0 /\ Len(wire'[Slave]) = 0
    BY <1>1, <2>1
  <2>. QED  BY <2>2 DEF Outstanding
<1>3. AtMostOne'
  BY <1>2 DEF AtMostOne
<1>4. AllTell'
  BY <1>1 DEF AllTell
<1>. QED  BY <1>2, <1>3, <1>4

(* Removing the only element of a sequence. *)
LEMMA LastOne ==
    ASSUME NEW s \in Seq(Message), Len(s) = 1
    PROVE  /\ DOMAIN s = {1} /\ s = << s[1] >> /\ s[1] \in Message /\ Head(s) = s[1]
           /\ Without(s, 1) = << >> /\ Tail(s) = << >>
           /\ SubSeq(s, 2, Len(s)) = << >>
<1>1. DOMAIN s = {1} /\ s[1] \in Message /\ Head(s) = s[1]
  OBVIOUS
<1>e. << s[1] >> \in Seq(Message) /\ Len(<< s[1] >>) = 1 /\ << s[1] >>[1] = s[1]
  BY <1>1
<1>s. s = << s[1] >>
  <2>1. \A i \in 1 .. Len(s) : s[i] = << s[1] >>[i]
    BY <1>e
  <2> DEFINE t == << s[1] >>
  <2> HIDE DEF t
  <2>2. t \in Seq(Message) /\ Len(t) = 1 /\ \A i \in 1 .. Len(s) : s[i] = t[i]
    BY <1>e, <2>1 DEF t
  <2>3. s = t
    BY <2>2, SeqEqual
  <2>. QED  BY <2>3 DEF t
<1>t. Tail(s) = << >>
  <2>1. Tail(s) \in Seq(Message) /\ Len(Tail(s)) = 0
    BY <1>1, HeadTailProperties
  <2>. QED  BY <2>1, EmptySeq
<1>2. SubSeq(s, 2, 1) = << >> /\ SubSeq(s, 1, 0) = << >>
  BY SubSeqEmpty
<1>3. << >> \o << >> = << >>
  OBVIOUS
<1>4. Without(s, 1) = << >>
  BY <1>2, <1>3 DEF Without
<1>5. SubSeq(s, 2, Len(s)) = << >>
  BY <1>2
<1>. QED  BY <1>1, <1>4, <1>5, <1>s, <1>t

(* Nothing outstanding: every sequence is empty. *)
LEMMA Nothing ==
    ASSUME TypeOK, Outstanding = 0, NEW x \in Ends
    PROVE  scheduled[x] = << >> /\ wire[x] = << >>
<1>1. scheduled \in [Ends -> Seq(Message)] /\ wire \in [Ends -> Seq(Message)]
  BY DEF TypeOK
<1> DEFINE a == Len(scheduled[x])  b == Len(scheduled[Peer(x)])
           c == Len(wire[x])       d == Len(wire[Peer(x)])
<1>2. Peer(x) \in Ends
  BY TwoEnds
<1>3. a + b + c + d = 0 /\ a \in Nat /\ b \in Nat /\ c \in Nat /\ d \in Nat
  BY <1>1, <1>2, SumAt DEF Outstanding
<1>4. a = 0 /\ c = 0
  <2> HIDE DEF a, b, c, d
  <2>. QED  BY <1>3
<1>. QED  BY <1>1, <1>4

(* While there is a message, the master's connection has been up. *)
LEMMA Started ==
    ASSUME TypeOK, IInv, NEW x \in Ends, scheduled[x] # << >> \/ wire[x] # << >>
    PROVE  ~ (~ connected[Master] /\ ~ stopped[Master])
  BY Nothing DEF IInv, NotStarted

LEMMA RoundStep ==
    ASSUME ~ splits, TypeOK, TypeOK', IInv, [Next]_vars
    PROVE  IInv' /\ [Rounds!Next]_Charged
<1>t. /\ connected \in [Ends -> BOOLEAN] /\ stopped \in [Ends -> BOOLEAN]
      /\ scheduled \in [Ends -> Seq(Message)] /\ wire \in [Ends -> Seq(Message)]
      /\ ahead \in {0, KeyRate}
  BY DEF TypeOK, IInv
<1>p. /\ Master \in Ends /\ Slave \in Ends /\ Master # Slave
      /\ \A e \in Ends : Peer(e) \in Ends /\ Peer(e) # e /\ Peer(Peer(e)) = e
                         /\ (Peer(e) = Master <=> e = Slave)
      /\ \A e, x \in Ends : x = e \/ x = Peer(e)
  BY TwoEnds DEF Ends, Peer
<1>k. KeyRate \in Nat \ {0}
  BY ChargingAssumption
<1>s. ~ splits /\ ~ splits' /\ Charged = ahead /\ Charged' = ahead'
  BY ConfigStep DEF Charged
<1>1. ASSUME NEW e \in Ends, ConnectionSucceeded(e)
      PROVE  IInv' /\ ahead' = ahead
  <2>0. /\ ~ connected[e] /\ ~ stopped[e]
        /\ connected' = [connected EXCEPT ![e] = TRUE] /\ UNCHANGED <<stopped, wire, ahead>>
    BY <1>1 DEF ConnectionSucceeded
  <2>1. CASE e = Master
    <3>1. Outstanding = 0 /\ ahead = 0
      BY <2>0, <2>1 DEF IInv, NotStarted
    <3>2. \A x \in Ends : scheduled[x] = << >> /\ wire[x] = << >>
      BY <3>1, Nothing
    <3>3. SendData(e, packetNumber[e], sendKeyRate[e])
      BY <1>1, <2>1 DEF ConnectionSucceeded
    <3>4. packetNumber[e] \in Nat /\ sendKeyRate[e] \in BOOLEAN
      BY DEF TypeOK
    <3>5. PICK m \in Message :
              /\ scheduled' = [scheduled EXCEPT ![e] = Append(@, m)]
              /\ m.label \in {"QKDPPS", "ADDKEY"} /\ (m.label = "ADDKEY" => m.value = KeyRate)
      BY <3>3, <3>4, SendDataResult
    <3>6. Append(<< >>, m) = << m >>
      OBVIOUS
    <3>7. scheduled'[e] = << m >> /\ scheduled'[Peer(e)] = << >>
          /\ \A x \in Ends : wire'[x] = << >>
      BY <1>t, <1>p, <2>0, <3>2, <3>5, <3>6
    <3>8. Tells(m, e = Slave, ahead')
      BY <1>p, <2>0, <2>1, <3>1, <3>5 DEF Tells
    <3>9. AtMostOne' /\ AllTell'
      BY <3>7, <3>8, NewMessage
    <3>10. connected'[Master]
      BY <1>t, <2>0, <2>1
    <3>. QED  BY <1>t, <2>0, <3>9, <3>10 DEF IInv, NotStarted
  <2>2. CASE e # Master
    <3>1. UNCHANGED <<scheduled, wire, ahead, stopped>> /\ connected'[Master] = connected[Master]
      BY <1>t, <1>p, <1>1, <2>0, <2>2 DEF ConnectionSucceeded
    <3>. QED  BY <3>1 DEF IInv, AtMostOne, Outstanding, AllTell, NotStarted
  <2>. QED  BY <2>0, <2>1, <2>2
<1>2. ASSUME NEW e \in Ends, SendPacket(e)
      PROVE  IInv' /\ ahead' = ahead
  <2>1. PICK i \in DOMAIN scheduled[e] :
        /\ scheduled' = [scheduled EXCEPT ![e] = Without(@, i)]
        /\ wire' = IF connected[e] THEN [wire EXCEPT ![Peer(e)] = Append(@, scheduled[e][i])]
                   ELSE wire
    BY <1>2 DEF SendPacket
  <2>2. UNCHANGED <<connected, stopped, ahead>>
    BY <1>2 DEF SendPacket
  <2>3. scheduled[e] # << >> /\ scheduled[e] \in Seq(Message)
    BY <1>t, <2>1
  <2>4. /\ Len(scheduled[e]) = 1 /\ scheduled[Peer(e)] = << >>
        /\ \A x \in Ends : wire[x] = << >>
    BY <2>3, Alone DEF IInv
  <2> DEFINE m == scheduled[e][1]
  <2>5. i = 1 /\ m \in Message /\ Without(scheduled[e], 1) = << >>
    BY <2>1, <2>3, <2>4, LastOne
  <2>6. \A x \in Ends : scheduled'[x] = << >>
    BY <1>t, <1>p, <2>1, <2>4, <2>5
  <2>7. Tells(m, e = Slave, ahead)
    BY <2>1, <2>5 DEF IInv, AllTell
  <2>8. AtMostOne' /\ AllTell'
    <3>1. CASE connected[e]
      <4>1. Append(<< >>, m) = << m >>
        OBVIOUS
      <4>2. wire'[Peer(e)] = << m >> /\ wire'[Peer(Peer(e))] = << >>
        BY <1>t, <1>p, <2>1, <2>4, <2>5, <3>1, <4>1
      <4>3. Tells(m, Peer(e) = Master, ahead')
        BY <1>p, <2>2, <2>7
      <4> HIDE DEF m
      <4>. QED  BY <1>p, <2>5, <2>6, <4>2, <4>3, NewMessage
    <3>2. CASE ~ connected[e]
      BY <2>1, <2>4, <2>6, <3>2, NoMessage
    <3>. QED  BY <3>1, <3>2
  <2>9. NotStarted'
    BY <2>2, <2>3, Started DEF NotStarted
  <2>. QED  BY <1>t, <2>2, <2>8, <2>9 DEF IInv
<1>3. ASSUME NEW e \in Ends, HandleRead(e)
      PROVE  IInv' /\ [Rounds!Next]_Charged
  <2>0. PICK n \in 1 .. Len(wire[e]), cut \in BOOLEAN, shown \in Message :
            ~ cut /\ shown = Head(wire[e]) /\ Read(e, n, cut, shown)
    <3>1. wire[e] # << >> /\ wire[e] \in Seq(Message)
      BY <1>3, ReadResult
    <3>2. Head(wire[e]) = wire[e][1] /\ 1 \in DOMAIN wire[e]
      BY <3>1
    <3>3. Head(wire[e]).label # "padding"
      BY <3>2 DEF IInv, AllTell, Tells
    <3>. QED  BY <1>3, <1>s, <3>3, ReadResult
  <2>1. /\ wire[e] # << >> /\ ProcessIncomingPacket(e, Head(wire[e]))
        /\ UNCHANGED <<connected, stopped>>
    BY <1>3, <2>0, ReadResult DEF Read
  <2>2. wire[e] \in Seq(Message)
    BY <1>t
  <2>3. /\ Len(wire[e]) = 1 /\ wire[Peer(e)] = << >>
        /\ \A x \in Ends : scheduled[x] = << >>
    BY <2>1, Alone DEF IInv
  <2> DEFINE msg == wire[e][1]
  <2>4. /\ msg \in Message /\ Head(wire[e]) = msg /\ SubSeq(wire[e], 2, Len(wire[e])) = << >>
        /\ 1 \in DOMAIN wire[e]
    BY <2>2, <2>3, LastOne
  <2>5. wire' = [wire EXCEPT ![e] = << >>]
    <3>1. wire' = [wire EXCEPT ![e] = << >> \o SubSeq(@, n + 1, Len(@))]
      BY <2>0 DEF Read
    <3>2. n = 1 /\ n + 1 = 2 /\ << >> \o << >> = << >>
      BY <2>3
    <3>. QED  BY <1>t, <2>4, <3>1, <3>2
  <2>6. Tells(msg, e = Master, ahead)
    BY <2>4 DEF IInv, AllTell
  <2> HIDE DEF msg
  <2>7. ProcessIncomingPacket(e, msg)
    BY <2>1, <2>4
  <2>8. PICK m \in Message :
            /\ scheduled' = [scheduled EXCEPT ![e] = Append(@, m)]
            /\ m.label \in {"QKDPPS", "ADDKEY"}
            /\ msg.label = "ADDKEY" /\ e = Slave =>
                        m = AddKey(msg.value) /\ ahead' = ahead + msg.value
            /\ msg.label = "ADDKEY" /\ e = Master =>
                        m.label = "QKDPPS" /\ ahead' = ahead - msg.value
            /\ msg.label # "ADDKEY" =>
                        /\ m.label = "ADDKEY" => e = Master /\ m.value = KeyRate
                        /\ ahead' = ahead
    BY <2>4, <2>7, ProcessResult
  <2>9. Tells(m, e = Slave, ahead') /\ ahead' \in {0, KeyRate} /\ [Rounds!Next]_Charged
    <3>1. CASE msg.label = "ADDKEY" /\ e = Slave
      <4>1. m = AddKey(msg.value) /\ ahead' = ahead + msg.value
        BY <2>8, <3>1
      <4>2. msg.value = KeyRate /\ ahead = 0 /\ ahead' = KeyRate
        BY <1>p, <1>k, <2>6, <3>1, <4>1 DEF Tells
      <4>. QED  BY <1>s, <3>1, <4>1, <4>2 DEF Tells, AddKey, Rounds!Next, Rounds!ChargeSlave
    <3>2. CASE msg.label = "ADDKEY" /\ e = Master
      <4>1. m.label = "QKDPPS" /\ ahead' = ahead - msg.value
        BY <1>p, <2>8, <3>2
      <4>2. msg.value = KeyRate /\ ahead = KeyRate /\ ahead' = 0
        BY <1>k, <2>6, <3>2, <4>1 DEF Tells
      <4>. QED  BY <1>s, <4>1, <4>2 DEF Tells, Rounds!Next, Rounds!ChargeMaster
    <3>3. CASE msg.label # "ADDKEY"
      <4>1. (m.label = "ADDKEY" => e = Master /\ m.value = KeyRate) /\ ahead' = ahead
        BY <2>8, <3>3
      <4>2. ahead = 0
        BY <2>6, <3>3 DEF Tells
      <4>. QED  BY <1>p, <1>s, <2>8, <4>1, <4>2 DEF Tells
    <3>. QED  BY <3>1, <3>2, <3>3 DEF Ends
  <2>10. AtMostOne' /\ AllTell'
    <3>1. Append(<< >>, m) = << m >>
      OBVIOUS
    <3>2. scheduled'[e] = << m >> /\ scheduled'[Peer(e)] = << >>
          /\ \A x \in Ends : wire'[x] = << >>
      BY <1>t, <1>p, <2>3, <2>5, <2>8, <3>1
    <3>. QED  BY <2>9, <3>2, NewMessage
  <2>11. NotStarted'
    BY <2>1, Started DEF NotStarted
  <2>. QED  BY <2>9, <2>10, <2>11 DEF IInv
<1>4. ASSUME NEW e \in Ends, StopApplication(e)
      PROVE  IInv' /\ ahead' = ahead
  <2>1. /\ stopped' = [stopped EXCEPT ![e] = TRUE] /\ connected' = [connected EXCEPT ![e] = FALSE]
        /\ scheduled' = [scheduled EXCEPT ![e] = << >>] /\ UNCHANGED <<wire, ahead>>
    BY <1>4 DEF StopApplication
  <2>2. CASE scheduled[e] = << >>
    <3>1. scheduled' = scheduled
      BY <1>t, <2>1, <2>2
    <3>2. ~ connected'[Master] /\ ~ stopped'[Master]
            => ~ connected[Master] /\ ~ stopped[Master]
      BY <1>t, <1>p, <2>1
    <3>. QED  BY <2>1, <3>1, <3>2 DEF IInv, AtMostOne, Outstanding, AllTell, NotStarted
  <2>3. CASE scheduled[e] # << >>
    <3>1. scheduled[Peer(e)] = << >> /\ \A x \in Ends : wire[x] = << >>
      BY <2>3, Alone DEF IInv
    <3>2. \A x \in Ends : scheduled'[x] = << >> /\ wire'[x] = << >>
      BY <1>t, <1>p, <2>1, <3>1
    <3>3. ~ connected'[Master] /\ ~ stopped'[Master] => FALSE
      BY <1>t, <1>p, <2>1, <2>3, Started
    <3>. QED  BY <1>t, <2>1, <3>2, <3>3, NoMessage DEF IInv, NotStarted
  <2>. QED  BY <2>1, <2>2, <2>3
<1>5. ASSUME NEW e \in Ends, Refuse(e)
      PROVE  IInv' /\ ahead' = ahead
  <2>1. /\ wire[e] # << >> /\ wire' = [wire EXCEPT ![e] = Tail(@)]
        /\ UNCHANGED <<connected, stopped, scheduled, ahead>>
    BY <1>5 DEF Refuse
  <2>2. /\ Len(wire[e]) = 1 /\ wire[Peer(e)] = << >>
        /\ \A x \in Ends : scheduled[x] = << >>
    BY <2>1, Alone DEF IInv
  <2>3. Tail(wire[e]) = << >>
    BY <1>t, <2>2, LastOne
  <2>4. \A x \in Ends : scheduled'[x] = << >> /\ wire'[x] = << >>
    BY <1>t, <1>p, <2>1, <2>2, <2>3
  <2>5. NotStarted'
    BY <2>1, Started DEF NotStarted
  <2>. QED  BY <1>t, <2>1, <2>4, <2>5, NoMessage DEF IInv
<1>6. ASSUME UNCHANGED vars
      PROVE  IInv' /\ ahead' = ahead
  BY <1>6 DEF vars, IInv, AtMostOne, Outstanding, AllTell, NotStarted
<1>7. IInv' /\ (ahead' = ahead \/ [Rounds!Next]_Charged)
  BY <1>1, <1>2, <1>3, <1>4, <1>5, <1>6 DEF Next
<1>8. ahead' = ahead => Charged' = Charged
  BY <1>s
<1>. QED  BY <1>7, <1>8

LEMMA RoundInit == Init => IInv /\ Rounds!Init
<1> SUFFICES ASSUME Init PROVE IInv /\ Rounds!Init
  OBVIOUS
<1>1. Master \in Ends /\ Slave \in Ends
  BY TwoEnds
<1>2. Len(<< >>) = 0 /\ DOMAIN << >> = {}
  OBVIOUS
<1>3. \A x \in Ends : scheduled[x] = << >> /\ wire[x] = << >>
  BY DEF Init
<1>4. Len(scheduled[Master]) = 0 /\ Len(scheduled[Slave]) = 0
      /\ Len(wire[Master]) = 0 /\ Len(wire[Slave]) = 0
  BY <1>1, <1>2, <1>3
<1>5. Outstanding = 0 /\ ahead = 0
  <2>1. Outstanding = 0
    BY <1>4 DEF Outstanding
  <2>. QED  BY <2>1 DEF Init
<1>6. AllTell
  BY <1>2, <1>3 DEF AllTell
<1>7. Charged = 0
  BY <1>5 DEF Charged
<1>. QED  BY <1>5, <1>6, <1>7 DEF IInv, AtMostOne, NotStarted, Rounds!Init

LEMMA RoundInvariance == Spec => [](TypeOK /\ (~ splits => IInv))
<1>1. [Next]_vars => splits' = splits
  BY ConfigStep
<1>2. TypeOK /\ (~ splits => IInv) /\ [Next]_vars => TypeOK' /\ (~ splits => IInv)'
  BY <1>1, TypeStep, RoundStep
<1>. QED  BY TypeInit, RoundInit, <1>2, PTL DEF Spec

(* There is one post-processing message at most, scheduled or on its way:  *)
(* an application sends only when it has read (HandleRead), and only the   *)
(* master starts (ConnectionSucceeded).                                    *)
THEOREM OneAtATime == Spec => []OneMessage
<1>1. (~ splits => IInv) => OneMessage
  BY DEF IInv, AtMostOne, OneMessage
<1>. QED  BY <1>1, RoundInvariance, PTL

(* The slave stores the key material of a round, then the master, then the *)
(* next round may start (ProcessIncomingPacket at both ends).              *)
THEOREM Refinement == Spec => ImplementsRounds
<1>1. TypeOK /\ TypeOK' /\ (~ splits => IInv) /\ [Next]_vars => [Rounds!Next]_Charged
  <2> SUFFICES ASSUME TypeOK, TypeOK', ~ splits => IInv, [Next]_vars
               PROVE  [Rounds!Next]_Charged
    OBVIOUS
  <2>1. CASE splits
    BY <2>1, ConfigStep DEF Charged
  <2>2. CASE ~ splits
    BY <2>2, RoundStep
  <2>. QED  BY <2>1, <2>2
<1>2. Init => Rounds!Init
  BY RoundInit
<1>3. Spec => Rounds!Init /\ [][Rounds!Next]_Charged
  BY <1>1, <1>2, RoundInvariance, PTL DEF Spec
<1>. QED  BY <1>3 DEF ImplementsRounds, Rounds!Spec

-----------------------------------------------------------------------------
(* A smaller maximum at the slave.  Neither end ever asks for key material:*)
(* the numbers the slave sends stay below its own maximum, so the master   *)
(* never counts to a larger one.                                           *)

Unequal == ~ splits /\ maxPackets[Slave] < maxPackets[Master]

Small(m, k) == m.label = "QKDPPS" /\ m.value < k

AllSmall(s, k) == \A i \in DOMAIN s : Small(s[i], k)

Quiet ==
    /\ ahead = 0 /\ ~ sendKeyRate[Master]
    /\ \A e \in Ends : /\ AllSmall(scheduled[e], maxPackets[e])
                       /\ AllSmall(wire[e], maxPackets[Peer(e)])

LEMMA Joined ==
    ASSUME NEW S, NEW a \in Seq(S), NEW b \in Seq(S)
    PROVE  \A j \in DOMAIN (a \o b) :
               (a \o b)[j] \in {a[x] : x \in DOMAIN a} \cup {b[x] : x \in DOMAIN b}
<1> SUFFICES ASSUME NEW j \in DOMAIN (a \o b)
             PROVE  (a \o b)[j] \in {a[x] : x \in DOMAIN a} \cup {b[x] : x \in DOMAIN b}
  OBVIOUS
<1>1. CASE j <= Len(a)
  BY <1>1
<1>2. CASE j > Len(a)
  BY <1>2
<1>. QED  BY <1>1, <1>2

LEMMA SmallParts ==
    ASSUME NEW s \in Seq(Message), NEW k, AllSmall(s, k)
    PROVE  /\ \A m \in Message : Small(m, k) => AllSmall(Append(s, m), k)
           /\ \A i \in DOMAIN s : AllSmall(Without(s, i), k)
           /\ \A n \in 1 .. Len(s) : AllSmall(<< >> \o SubSeq(s, n + 1, Len(s)), k)
           /\ s # << >> => AllSmall(Tail(s), k)
<1>1. ASSUME NEW m \in Message, Small(m, k)  PROVE AllSmall(Append(s, m), k)
  BY <1>1 DEF AllSmall
<1>2. ASSUME NEW i \in DOMAIN s  PROVE AllSmall(Without(s, i), k)
  <2> DEFINE a == SubSeq(s, 1, i - 1)  b == SubSeq(s, i + 1, Len(s))
  <2>1. /\ a \in Seq(Message) /\ Len(a) = i - 1 /\ \A j \in 1 .. i - 1 : a[j] = s[j]
        /\ b \in Seq(Message) /\ Len(b) = Len(s) - i /\ \A j \in 1 .. Len(s) - i : b[j] = s[i + j]
        /\ i \in 1 .. Len(s)
    OBVIOUS
  <2> HIDE DEF a, b
  <2>0. a \in Seq(Message) /\ b \in Seq(Message)
    BY <2>1
  <2>2. \A m \in {a[j] : j \in DOMAIN a} \cup {b[j] : j \in DOMAIN b} : Small(m, k)
    <3>1. \A j \in DOMAIN a : a[j] = s[j] /\ j \in DOMAIN s
      BY <2>0, <2>1
    <3>2. \A j \in DOMAIN b : b[j] = s[i + j] /\ i + j \in DOMAIN s
      BY <2>0, <2>1
    <3>. QED  BY <3>1, <3>2 DEF AllSmall
  <2>3. \A j \in DOMAIN (a \o b) :
            (a \o b)[j] \in {a[x] : x \in DOMAIN a} \cup {b[x] : x \in DOMAIN b}
    BY <2>0, Joined
  <2>4. ASSUME NEW j \in DOMAIN (a \o b)  PROVE Small((a \o b)[j], k)
    BY <2>2, <2>3
  <2>. QED  BY <2>4 DEF AllSmall, Without, a, b
<1>3. ASSUME NEW n \in 1 .. Len(s)  PROVE AllSmall(<< >> \o SubSeq(s, n + 1, Len(s)), k)
  <2> DEFINE b == SubSeq(s, n + 1, Len(s))
  <2>1. /\ b \in Seq(Message) /\ Len(b) = Len(s) - n
        /\ \A j \in 1 .. Len(s) - n : b[j] = s[n + j]
    OBVIOUS
  <2> HIDE DEF b
  <2>2. << >> \o b = b
    BY <2>1
  <2>3. \A j \in DOMAIN b : b[j] = s[n + j] /\ n + j \in DOMAIN s
    BY <2>1
  <2>. QED  BY <2>2, <2>3 DEF AllSmall, b
<1>4. ASSUME s # << >>  PROVE AllSmall(Tail(s), k)
  BY <1>4 DEF AllSmall
<1>. QED  BY <1>1, <1>2, <1>3, <1>4

LEMMA QuietSend ==
    ASSUME TypeOK, Unequal, NEW e \in Ends, NEW n \in Nat, NEW asked \in BOOLEAN,
           SendData(e, n, asked), e = Master => ~ asked /\ n < maxPackets[Master]
    PROVE  /\ e = Master => sendKeyRate'[Master] = FALSE
           /\ e # Master => sendKeyRate'[Master] = sendKeyRate[Master]
           /\ \E m \in Message : /\ scheduled' = [scheduled EXCEPT ![e] = Append(@, m)]
                                /\ Small(m, maxPackets[e])
<1> DEFINE over == n >= maxPackets[e]
           next == IF over THEN 0 ELSE n
<1>1. maxPackets[e] \in Nat \ {0} /\ sendKeyRate \in [Ends -> BOOLEAN] /\ Master \in Ends
  BY ChargingAssumption DEF TypeOK, Ends
<1>2. next \in Nat /\ next < maxPackets[e] /\ over \in BOOLEAN /\ (e = Master => ~ over)
  BY <1>1
<1>3. /\ sendKeyRate' = [sendKeyRate EXCEPT ![e] = asked \/ over]
      /\ scheduled' = [scheduled EXCEPT ![e] =
                          Append(@, IF e = Master /\ (asked \/ over) THEN AddKey(KeyRate) ELSE QkdPps(next))]
  BY DEF SendData, PrepareOutput
<1>4. QkdPps(next) \in Message /\ Small(QkdPps(next), maxPackets[e])
  BY <1>2 DEF QkdPps, Message, Small
<1> HIDE DEF over, next
<1>5. ~ (e = Master /\ (asked \/ over))
  BY <1>2
<1>6. scheduled' = [scheduled EXCEPT ![e] = Append(@, QkdPps(next))]
  BY <1>3, <1>5
<1>7. e = Master => sendKeyRate'[Master] = FALSE
  <2>1. e = Master => asked = FALSE /\ over = FALSE
    BY <1>2
  <2>. QED  BY <1>1, <1>3, <2>1
<1>8. e # Master => sendKeyRate'[Master] = sendKeyRate[Master]
  BY <1>1, <1>3
<1>. QED  BY <1>4, <1>6, <1>7, <1>8

LEMMA QuietStep ==
    ASSUME TypeOK, Unequal, Quiet, [Next]_vars
    PROVE  Quiet'
<1>t. /\ scheduled \in [Ends -> Seq(Message)] /\ wire \in [Ends -> Seq(Message)]
      /\ sendKeyRate \in [Ends -> BOOLEAN] /\ packetNumber \in [Ends -> Nat]
      /\ \A x \in Ends : packetNumber[x] < maxPackets[x] /\ maxPackets[x] \in Nat \ {0}
      /\ maxPackets' = maxPackets /\ ~ splits
  BY ConfigStep, ChargingAssumption DEF TypeOK, Unequal
<1>p. /\ Master \in Ends /\ Slave \in Ends /\ Master # Slave
      /\ \A e \in Ends : Peer(e) \in Ends /\ Peer(e) # e /\ Peer(Peer(e)) = e
      /\ Peer(Master) = Slave
  BY TwoEnds DEF Ends, Peer
<1>q. /\ ahead = 0 /\ ~ sendKeyRate[Master]
      /\ \A e \in Ends : /\ AllSmall(scheduled[e], maxPackets[e])
                         /\ AllSmall(wire[e], maxPackets[Peer(e)])
  BY DEF Quiet
<1>s. ASSUME NEW e \in Ends, NEW m \in Message, scheduled' = [scheduled EXCEPT ![e] = Append(@, m)],
             Small(m, maxPackets[e])
      PROVE  \A x \in Ends : AllSmall(scheduled'[x], maxPackets[x])
  BY <1>t, <1>q, <1>s, SmallParts
<1>1. ASSUME NEW e \in Ends, ConnectionSucceeded(e)  PROVE Quiet'
  <2>1. CASE e = Master
    <3>1. SendData(e, packetNumber[e], sendKeyRate[e]) /\ UNCHANGED <<wire, ahead>>
      BY <1>1, <2>1 DEF ConnectionSucceeded
    <3>2. packetNumber[e] \in Nat /\ sendKeyRate[e] = FALSE /\ packetNumber[e] < maxPackets[Master]
      BY <1>t, <1>q, <1>p, <2>1
    <3>. QED  BY <1>t, <1>q, <1>s, <2>1, <3>1, <3>2, QuietSend DEF Quiet
  <2>2. CASE e # Master
    BY <1>1, <1>t, <1>q, <2>2 DEF ConnectionSucceeded, Quiet
  <2>. QED  BY <2>1, <2>2
<1>2. ASSUME NEW e \in Ends, SendPacket(e)  PROVE Quiet'
  <2>1. PICK i \in DOMAIN scheduled[e] :
        /\ scheduled' = [scheduled EXCEPT ![e] = Without(@, i)]
        /\ wire' = IF connected[e] THEN [wire EXCEPT ![Peer(e)] = Append(@, scheduled[e][i])]
                   ELSE wire
    BY <1>2 DEF SendPacket
  <2>2. scheduled[e][i] \in Message /\ Small(scheduled[e][i], maxPackets[Peer(Peer(e))])
    BY <1>t, <1>q, <1>p, <2>1 DEF AllSmall
  <2>3. \A x \in Ends : AllSmall(scheduled'[x], maxPackets[x])
    BY <1>t, <1>q, <2>1, SmallParts
  <2>4. \A x \in Ends : AllSmall(wire'[x], maxPackets[Peer(x)])
    <3>1. AllSmall(Append(wire[Peer(e)], scheduled[e][i]), maxPackets[Peer(Peer(e))])
      BY <1>t, <1>q, <1>p, <2>2, SmallParts
    <3>. QED  BY <1>t, <1>q, <1>p, <2>1, <3>1
  <2>. QED  BY <1>2, <1>t, <1>q, <2>3, <2>4 DEF SendPacket, Quiet
<1>3. ASSUME NEW e \in Ends, HandleRead(e)  PROVE Quiet'
  <2>0. PICK k \in 1 .. Len(wire[e]), cut \in BOOLEAN, shown \in Message :
            ~ cut /\ shown = Head(wire[e]) /\ Read(e, k, cut, shown)
    <3>1. wire[e] # << >> /\ wire[e] \in Seq(Message)
      BY <1>3, ReadResult
    <3>2. Head(wire[e]) = wire[e][1] /\ 1 \in DOMAIN wire[e]
      BY <3>1
    <3>3. Head(wire[e]).label # "padding"
      BY <1>q, <3>2 DEF AllSmall, Small
    <3>. QED  BY <1>3, <1>t, <3>3, ReadResult
  <2>1. /\ wire[e] # << >> /\ ProcessIncomingPacket(e, Head(wire[e]))
        /\ wire[e] \in Seq(Message)
    BY <1>3, <2>0, ReadResult DEF Read
  <2> DEFINE v == Head(wire[e]).value
  <2>2. /\ Head(wire[e]).label = "QKDPPS" /\ v \in Nat /\ v < maxPackets[Peer(e)]
    <3>1. Head(wire[e]) = wire[e][1] /\ 1 \in DOMAIN wire[e] /\ wire[e][1] \in Message
      BY <2>1
    <3>2. Small(wire[e][1], maxPackets[Peer(e)])
      BY <1>q, <3>1 DEF AllSmall
    <3>. QED  BY <3>1, <3>2 DEF Small, Message
  <2>3. ReceiveNumber(e, v)
    BY <2>1, <2>2 DEF ProcessIncomingPacket
  <2> DEFINE n == IF v < maxPackets[e] THEN v + 1 ELSE packetNumber[e] + 1
  <2>4. SendData(e, n, sendKeyRate[e]) /\ ahead' = ahead
    BY <2>3 DEF ReceiveNumber
  <2>5. n \in Nat /\ sendKeyRate[e] \in BOOLEAN
    BY <1>t, <2>2
  <2>6. e = Master => sendKeyRate[e] = FALSE /\ n < maxPackets[Master]
    <3>1. e = Master => v < maxPackets[Slave] /\ maxPackets[Slave] < maxPackets[Master]
      BY <1>p, <2>2 DEF Unequal
    <3>. QED  BY <1>t, <1>p, <1>q, <2>2, <3>1
  <2> HIDE DEF n, v
  <2>7. /\ sendKeyRate'[Master] = FALSE
        /\ \A x \in Ends : AllSmall(scheduled'[x], maxPackets[x])
    BY <1>q, <1>s, <1>t, <1>p, <2>4, <2>5, <2>6, QuietSend
  <2>8. \A x \in Ends : AllSmall(wire'[x], maxPackets[Peer(x)])
    <3>1. wire' = [wire EXCEPT ![e] = << >> \o SubSeq(@, k + 1, Len(@))]
      BY <2>0 DEF Read
    <3>. QED  BY <1>t, <1>q, <3>1, SmallParts
  <2>. QED  BY <1>t, <1>q, <2>4, <2>7, <2>8 DEF Quiet
<1>4. ASSUME NEW e \in Ends, StopApplication(e)  PROVE Quiet'
  <2>1. AllSmall(<< >>, maxPackets[e])
    BY DEF AllSmall
  <2>. QED  BY <1>4, <1>t, <1>q, <2>1 DEF StopApplication, Quiet
<1>5. ASSUME NEW e \in Ends, Refuse(e)  PROVE Quiet'
  <2>1. AllSmall(Tail(wire[e]), maxPackets[Peer(e)])
    BY <1>5, <1>t, <1>q, SmallParts DEF Refuse
  <2>. QED  BY <1>5, <1>t, <1>q, <2>1 DEF Refuse, Quiet
<1>6. CASE UNCHANGED vars
  BY <1>6, <1>q DEF vars, Quiet
<1>. QED  BY <1>1, <1>2, <1>3, <1>4, <1>5, <1>6 DEF Next

(* With a smaller m_maxPackets at the slave post-processing charges nobody, *)
(* however long it goes on (ProcessIncomingPacket, SendData).               *)
THEOREM NeverCharged == Spec => []NeverCharges
<1>1. Init => Quiet
  BY TwoEnds DEF Init, Quiet, AllSmall
<1>2. TypeOK /\ (Unequal => Quiet) /\ [Next]_vars => (Unequal => Quiet)'
  <2>1. [Next]_vars => (Unequal' <=> Unequal)
    BY ConfigStep DEF Unequal
  <2>. QED  BY <2>1, QuietStep
<1>3. (Unequal => Quiet) => NeverCharges
  BY DEF NeverCharges, Unequal, Quiet
<1>. QED  BY <1>1, <1>2, <1>3, TypeCorrect, PTL DEF Spec

-----------------------------------------------------------------------------
(* The slave is charged first even when messages are cut.  What the slave  *)
(* has and the master has not is at least what the echoes on their way to  *)
(* the master say; no step makes one that was not charged, and a cut, a    *)
(* merge or a lost connection can only lose some.                          *)

(* A message announces a natural number of bits. *)
LEMMA WorthType == ASSUME NEW m \in Message PROVE Worth(m) \in Nat
  BY DEF Worth, Message

(* f bounds what the first L messages of w announce, from each place on,   *)
(* and n all of them.                                                      *)
Bounds(f, w, L, n) ==
    /\ \A i \in Nat : f[i] \in Nat
    /\ f[1] <= n
    /\ \A i, j \in Nat : i <= j => f[i] >= f[j]
    /\ \A i \in 1 .. L : f[i] >= f[i + 1] + Worth(w[i])

(* The messages of w announce n bits at most. *)
Announces(w, n) == \E f : Bounds(f, w, Len(w), n)

Messages(w, L) == \A i \in 1 .. L : Worth(w[i]) \in Nat

(* v is w with a message worth k at the end: g is f, raised by k. *)
Longer(v, w, L, k) == (\A i \in 1 .. L : v[i] = w[i]) /\ Worth(v[L + 1]) = k
Raised(g, f, L, k) == \A i \in Nat : g[i] = IF i <= L + 1 THEN f[i] + k ELSE 0

LEMMA BoundsLonger ==
    ASSUME NEW L \in Nat, NEW n \in Nat, NEW k \in Nat, NEW f, NEW w,
           Bounds(f, w, L, n), Messages(w, L),
           NEW v, Longer(v, w, L, k), NEW g, Raised(g, f, L, k)
    PROVE  Bounds(g, v, L + 1, n + k)
<1>1. ASSUME NEW i \in Nat
      PROVE  f[i] \in Nat /\ g[i] = (IF i <= L + 1 THEN f[i] + k ELSE 0) /\ g[i] \in Nat
  <2>1. f[i] \in Nat
    BY DEF Bounds
  <2>2. g[i] = IF i <= L + 1 THEN f[i] + k ELSE 0
    BY DEF Raised
  <2>. QED  BY <2>1, <2>2
<1>2. g[1] <= n + k
  <2>1. g[1] = (IF 1 <= L + 1 THEN f[1] + k ELSE 0) /\ f[1] \in Nat
    BY <1>1
  <2>2. f[1] <= n
    BY DEF Bounds
  <2>. QED  BY <2>1, <2>2
<1>3. ASSUME NEW i \in Nat, NEW j \in Nat, i <= j PROVE g[i] >= g[j]
  <2>1. f[i] >= f[j]
    BY <1>3 DEF Bounds
  <2>2. g[i] = (IF i <= L + 1 THEN f[i] + k ELSE 0) /\ f[i] \in Nat
    BY <1>1
  <2>3. g[j] = (IF j <= L + 1 THEN f[j] + k ELSE 0) /\ f[j] \in Nat
    BY <1>1
  <2>. QED  BY <1>3, <2>1, <2>2, <2>3
<1>4. ASSUME NEW i \in 1 .. L + 1 PROVE g[i] >= g[i + 1] + Worth(v[i])
  <2>0. i \in Nat /\ i + 1 \in Nat
    OBVIOUS
  <2>1. g[i] = (IF i <= L + 1 THEN f[i] + k ELSE 0) /\ f[i] \in Nat
    BY <1>1, <2>0
  <2>2. g[i + 1] = (IF i + 1 <= L + 1 THEN f[i + 1] + k ELSE 0) /\ f[i + 1] \in Nat
    BY <1>1, <2>0
  <2>3. CASE i = L + 1
    <3>1. Worth(v[i]) = k
      BY <2>3 DEF Longer
    <3>. QED  BY <2>1, <2>2, <2>3, <3>1
  <2>4. CASE i \in 1 .. L
    <3>1. v[i] = w[i]
      BY <2>4 DEF Longer
    <3>2. f[i] >= f[i + 1] + Worth(w[i])
      BY <2>4 DEF Bounds
    <3>3. Worth(w[i]) \in Nat
      BY <2>4 DEF Messages
    <3>. QED  BY <2>1, <2>2, <2>4, <3>1, <3>2, <3>3
  <2>. QED  BY <2>3, <2>4
<1>. QED  BY <1>1, <1>2, <1>3, <1>4 DEF Bounds

(* v is w without its j-th message, worth k. *)
Shorter(v, w, L, j) ==
    \A i \in 1 .. L - 1 : (i < j => v[i] = w[i]) /\ (i >= j => v[i] = w[i + 1])
Lowered(g, f, j, k) == \A i \in Nat : g[i] = IF i <= j THEN f[i] - k ELSE f[i + 1]

LEMMA BoundsShorter ==
    ASSUME NEW L \in Nat, NEW n \in Nat, NEW f, NEW w, Bounds(f, w, L, n), Messages(w, L),
           NEW j \in 1 .. L, NEW k \in Nat, k = Worth(w[j]),
           NEW v, Shorter(v, w, L, j), NEW g, Lowered(g, f, j, k)
    PROVE  k <= n /\ Bounds(g, v, L - 1, n - k)
<1>1. \A i \in Nat : f[i] \in Nat
  BY DEF Bounds
<1>2. ASSUME NEW i \in Nat PROVE g[i] = IF i <= j THEN f[i] - k ELSE f[i + 1]
  BY DEF Lowered
<1>3. j \in Nat /\ j + 1 \in Nat /\ 1 <= j
  OBVIOUS
<1>4. f[j] >= f[j + 1] + k /\ f[j] \in Nat /\ f[j + 1] \in Nat
  BY <1>1, <1>3 DEF Bounds
<1>5. ASSUME NEW i \in Nat, i <= j
      PROVE  f[i] >= f[j + 1] + k /\ f[i] - k \in Nat
  <2>1. f[i] >= f[j]
    BY <1>3, <1>5 DEF Bounds
  <2>2. f[i] \in Nat
    BY <1>1
  <2>. QED  BY <1>4, <2>1, <2>2
<1>6. ASSUME NEW i \in Nat PROVE g[i] \in Nat
  <2>1. f[i + 1] \in Nat
    BY <1>1
  <2>2. i <= j => f[i] - k \in Nat
    BY <1>5
  <2>. QED  BY <1>2, <2>1, <2>2
<1>7. k <= n /\ g[1] <= n - k
  <2>1. g[1] = f[1] - k
    BY <1>2, <1>3
  <2>2. f[1] - k \in Nat
    BY <1>3, <1>5
  <2>3. f[1] <= n /\ f[1] \in Nat
    BY DEF Bounds
  <2>. QED  BY <2>1, <2>2, <2>3
<1>8. ASSUME NEW a \in Nat, NEW b \in Nat, a <= b PROVE g[a] >= g[b]
  <2>0. a + 1 \in Nat /\ b + 1 \in Nat /\ a + 1 <= b + 1
    BY <1>8
  <2>1. f[a] >= f[b] /\ f[a] \in Nat /\ f[b] \in Nat
    BY <1>8 DEF Bounds
  <2>2. f[a + 1] >= f[b + 1] /\ f[a + 1] \in Nat /\ f[b + 1] \in Nat
    BY <2>0 DEF Bounds
  <2>3. g[a] = IF a <= j THEN f[a] - k ELSE f[a + 1]
    BY <1>2
  <2>4. g[b] = IF b <= j THEN f[b] - k ELSE f[b + 1]
    BY <1>2
  <2>5. CASE b <= j
    BY <1>3, <1>8, <2>1, <2>3, <2>4, <2>5
  <2>6. CASE a <= j /\ ~ (b <= j)
    <3>1. f[a] >= f[j + 1] + k
      BY <1>5, <2>6
    <3>2. j + 1 <= b + 1
      BY <1>3, <2>6
    <3>3. f[j + 1] >= f[b + 1]
      BY <1>3, <2>0, <3>2 DEF Bounds
    <3>. QED  BY <1>4, <2>1, <2>2, <2>3, <2>4, <2>6, <3>1, <3>3
  <2>7. CASE ~ (a <= j)
    BY <1>3, <1>8, <2>2, <2>3, <2>4, <2>7
  <2>. QED  BY <2>5, <2>6, <2>7
<1>9. ASSUME NEW i \in 1 .. L - 1 PROVE g[i] >= g[i + 1] + Worth(v[i])
  <2>0. i \in 1 .. L /\ i + 1 \in 1 .. L /\ i \in Nat /\ i + 1 \in Nat /\ i + 2 \in Nat
        /\ (i + 1) + 1 = i + 2
    OBVIOUS
  <2>1. f[i] \in Nat /\ f[i + 1] \in Nat /\ f[i + 2] \in Nat
    BY <1>1, <2>0
  <2>2. Worth(w[i]) \in Nat /\ Worth(w[i + 1]) \in Nat
    BY <2>0 DEF Messages
  <2>3. f[i] >= f[i + 1] + Worth(w[i])
    BY <2>0 DEF Bounds
  <2>4. f[i + 1] >= f[(i + 1) + 1] + Worth(w[i + 1])
    BY <2>0 DEF Bounds
  <2>5. f[i + 1] >= f[i + 2] + Worth(w[i + 1])
    BY <2>0, <2>4
  <2>6. (i < j => v[i] = w[i]) /\ (i >= j => v[i] = w[i + 1])
    BY DEF Shorter
  <2>7. g[i] = IF i <= j THEN f[i] - k ELSE f[i + 1]
    BY <1>2, <2>0
  <2>8. g[i + 1] = IF i + 1 <= j THEN f[i + 1] - k ELSE f[(i + 1) + 1]
    BY <1>2, <2>0
  <2>9. g[i + 1] = IF i + 1 <= j THEN f[i + 1] - k ELSE f[i + 2]
    BY <2>0, <2>8
  <2>a. CASE i < j
    <3>1. i <= j /\ i + 1 <= j /\ v[i] = w[i]
      BY <1>3, <2>0, <2>6, <2>a
    <3>. QED  BY <2>1, <2>2, <2>3, <2>7, <2>9, <3>1
  <2>b. CASE i = j
    <3>1. i <= j /\ ~ (i + 1 <= j) /\ v[i] = w[i + 1]
      BY <1>3, <2>0, <2>6, <2>b
    <3>2. k = Worth(w[i])
      BY <2>b
    <3>. QED  BY <2>1, <2>2, <2>3, <2>5, <2>7, <2>9, <3>1, <3>2
  <2>c. CASE i > j
    <3>1. ~ (i <= j) /\ ~ (i + 1 <= j) /\ v[i] = w[i + 1]
      BY <1>3, <2>0, <2>6, <2>c
    <3>. QED  BY <2>1, <2>2, <2>5, <2>7, <2>9, <3>1
  <2>. QED  BY <1>3, <2>0, <2>a, <2>b, <2>c
<1>. QED  BY <1>6, <1>7, <1>8, <1>9 DEF Bounds

(* v is what is left of w after its first c messages. *)
After(v, w, L, c)   == \A i \in 1 .. L - c : v[i] = w[i + c]
Shifted(g, f, c)    == \A i \in Nat : g[i] = f[i + c]

LEMMA BoundsAfter ==
    ASSUME NEW L \in Nat, NEW n \in Nat, NEW f, NEW w, Bounds(f, w, L, n),
           NEW c \in 1 .. L, NEW k \in Nat, k = Worth(w[1]),
           NEW v, After(v, w, L, c), NEW g, Shifted(g, f, c)
    PROVE  k <= n /\ Bounds(g, v, L - c, n - k)
<1>1. \A i \in Nat : f[i] \in Nat
  BY DEF Bounds
<1>2. ASSUME NEW i \in Nat PROVE g[i] = f[i + c] /\ i + c \in Nat
  BY DEF Shifted
<1>3. k <= n /\ g[1] <= n - k
  <2>1. 1 \in 1 .. L /\ 1 + 1 = 2 /\ 2 <= 1 + c /\ 1 + c \in Nat /\ 2 \in Nat
    OBVIOUS
  <2>2. f[1] >= f[1 + 1] + Worth(w[1])
    BY <2>1 DEF Bounds
  <2>3. f[2] >= f[1 + c] /\ f[1] <= n
    BY <2>1 DEF Bounds
  <2>4. f[1] \in Nat /\ f[2] \in Nat /\ f[1 + c] \in Nat
    BY <1>1, <2>1
  <2>5. g[1] = f[1 + c]
    BY <1>2
  <2>6. f[1] >= f[2] + k
    BY <2>1, <2>2
  <2>. QED  BY <2>3, <2>4, <2>5, <2>6
<1>4. ASSUME NEW a \in Nat, NEW b \in Nat, a <= b PROVE g[a] >= g[b]
  <2>1. a + c <= b + c /\ a + c \in Nat /\ b + c \in Nat
    BY <1>4
  <2>2. f[a + c] >= f[b + c]
    BY <2>1 DEF Bounds
  <2>. QED  BY <1>2, <2>2
<1>5. ASSUME NEW i \in 1 .. L - c PROVE g[i] >= g[i + 1] + Worth(v[i])
  <2>1. i + c \in 1 .. L /\ (i + c) + 1 = (i + 1) + c /\ i \in Nat /\ i + 1 \in Nat
    OBVIOUS
  <2>2. f[i + c] >= f[(i + c) + 1] + Worth(w[i + c])
    BY <2>1 DEF Bounds
  <2>3. f[i + c] >= f[(i + 1) + c] + Worth(w[i + c])
    BY <2>1, <2>2
  <2>4. g[i] = f[i + c] /\ g[i + 1] = f[(i + 1) + c] /\ v[i] = w[i + c]
    BY <1>2, <2>1 DEF After
  <2>. QED  BY <2>3, <2>4
<1>. QED  BY <1>1, <1>2, <1>3, <1>4, <1>5 DEF Bounds

(* v is w after a message that announces nothing. *)
Padded(v, w, L)  == Worth(v[1]) = 0 /\ \A i \in 1 .. L : v[i + 1] = w[i]
Repeated(g, f)   == \A i \in Nat : g[i] = IF i <= 1 THEN f[1] ELSE f[i - 1]

LEMMA BoundsPadded ==
    ASSUME NEW L \in Nat, NEW n \in Nat, NEW f, NEW w, Bounds(f, w, L, n),
           NEW v, Padded(v, w, L), NEW g, Repeated(g, f)
    PROVE  Bounds(g, v, L + 1, n)
<1>1. \A i \in Nat : f[i] \in Nat
  BY DEF Bounds
<1>2. ASSUME NEW i \in Nat PROVE g[i] = IF i <= 1 THEN f[1] ELSE f[i - 1]
  BY DEF Repeated
<1>3. ASSUME NEW i \in Nat PROVE \E y \in Nat : y = (IF i <= 1 THEN 1 ELSE i - 1) /\ g[i] = f[y]
  <2>1. CASE i <= 1
    BY <1>2, <2>1
  <2>2. CASE ~ (i <= 1)
    <3>1. i - 1 \in Nat
      BY <2>2
    <3>. QED  BY <1>2, <2>2, <3>1
  <2>. QED  BY <2>1, <2>2
<1>4. g[1] <= n
  BY <1>2 DEF Bounds
<1>5. ASSUME NEW a \in Nat, NEW b \in Nat, a <= b PROVE g[a] >= g[b]
  <2>1. PICK y \in Nat : y = (IF a <= 1 THEN 1 ELSE a - 1) /\ g[a] = f[y]
    BY <1>3
  <2>2. PICK z \in Nat : z = (IF b <= 1 THEN 1 ELSE b - 1) /\ g[b] = f[z]
    BY <1>3
  <2>3. y <= z
    BY <1>5, <2>1, <2>2
  <2>4. f[y] >= f[z]
    BY <2>3 DEF Bounds
  <2>. QED  BY <2>1, <2>2, <2>4
<1>6. ASSUME NEW i \in 1 .. L + 1 PROVE g[i] >= g[i + 1] + Worth(v[i])
  <2>1. CASE i = 1
    <3>1. g[1] = f[1] /\ f[1] \in Nat /\ Worth(v[1]) = 0
      BY <1>1, <1>2 DEF Padded
    <3>2. g[2] = f[2 - 1] /\ 2 - 1 = 1
      BY <1>2
    <3>3. g[2] = f[1] /\ i + 1 = 2
      BY <2>1, <3>2
    <3>. QED  BY <2>1, <3>1, <3>3
  <2>2. CASE i > 1
    <3>1. PICK h \in 1 .. L : h + 1 = i /\ i - 1 = h /\ (i + 1) - 1 = h + 1
      <4>1. i - 1 \in 1 .. L /\ (i - 1) + 1 = i /\ (i + 1) - 1 = (i - 1) + 1
        BY <2>2
      <4>. QED  BY <4>1
    <3>2. f[h] >= f[h + 1] + Worth(w[h])
      BY DEF Bounds
    <3>3. i \in Nat /\ i + 1 \in Nat /\ ~ (i <= 1) /\ ~ (i + 1 <= 1)
      BY <2>2
    <3>4. g[i] = f[i - 1] /\ g[i + 1] = f[(i + 1) - 1]
      BY <1>2, <3>3
    <3>5. v[h + 1] = w[h]
      BY DEF Padded
    <3>. QED  BY <3>1, <3>2, <3>4, <3>5
  <2>. QED  BY <2>1, <2>2
<1>7. ASSUME NEW i \in Nat PROVE g[i] \in Nat
  BY <1>1, <1>3
<1>. QED  BY <1>4, <1>5, <1>6, <1>7 DEF Bounds

LEMMA MessagesOf == ASSUME NEW w \in Seq(Message) PROVE Messages(w, Len(w))
<1>1. \A i \in 1 .. Len(w) : w[i] \in Message
  OBVIOUS
<1>. QED  BY <1>1, WorthType DEF Messages

LEMMA AnnouncesAppend ==
    ASSUME NEW w \in Seq(Message), NEW m \in Message, NEW n \in Nat, Announces(w, n)
    PROVE  Announces(Append(w, m), n + Worth(m))
<1>1. PICK f : Bounds(f, w, Len(w), n)
  BY DEF Announces
<1>2. Len(w) \in Nat /\ Len(Append(w, m)) = Len(w) + 1 /\ Append(w, m)[Len(w) + 1] = m
      /\ \A i \in 1 .. Len(w) : Append(w, m)[i] = w[i]
  OBVIOUS
<1>3. Longer(Append(w, m), w, Len(w), Worth(m))
  BY <1>2 DEF Longer
<1>4. \E g : Raised(g, f, Len(w), Worth(m))
  <2> DEFINE g == [i \in Nat |-> IF i <= Len(w) + 1 THEN f[i] + Worth(m) ELSE 0]
  <2>1. Raised(g, f, Len(w), Worth(m))
    BY DEF Raised
  <2> HIDE DEF g
  <2>. QED  BY <2>1
<1>5. PICK g : Raised(g, f, Len(w), Worth(m))
  BY <1>4
<1>6. Bounds(g, Append(w, m), Len(w) + 1, n + Worth(m))
  BY <1>1, <1>2, <1>3, <1>5, MessagesOf, WorthType, BoundsLonger
<1>. QED  BY <1>2, <1>6 DEF Announces

LEMMA AnnouncesWithout ==
    ASSUME NEW w \in Seq(Message), NEW n \in Nat, Announces(w, n), NEW j \in DOMAIN w
    PROVE  Worth(w[j]) <= n /\ Announces(Without(w, j), n - Worth(w[j]))
<1>1. PICK f : Bounds(f, w, Len(w), n)
  BY DEF Announces
<1>2. Len(w) \in Nat /\ j \in 1 .. Len(w) /\ w[j] \in Message /\ j \in Nat
  OBVIOUS
<1>3. Len(Without(w, j)) = Len(w) - 1
  BY WithoutOne
<1>4. Shorter(Without(w, j), w, Len(w), j)
  <2> DEFINE a == SubSeq(w, 1, j - 1)
             b == SubSeq(w, j + 1, Len(w))
             L == Len(w)
  <2>1. a \in Seq(Message) /\ Len(a) = j - 1 /\ \A i \in 1 .. j - 1 : a[i] = w[i]
    BY <1>2
  <2>2. b \in Seq(Message) /\ Len(b) = L - j /\ \A i \in 1 .. L - j : b[i] = w[j + i]
    BY <1>2
  <2>3. Without(w, j) = a \o b
    BY DEF Without
  <2>4. L \in Nat /\ j \in 1 .. L /\ j \in Nat
    BY <1>2
  <2> HIDE DEF a, b, L
  <2>5. \A i \in 1 .. Len(a) + Len(b) :
            (a \o b)[i] = IF i <= Len(a) THEN a[i] ELSE b[i - Len(a)]
    <3>1. a \in Seq(Message) /\ b \in Seq(Message)
      BY <2>1, <2>2
    <3>. QED  BY <3>1, ConcatProperties
  <2>6. (j - 1) + (L - j) = L - 1
    BY <2>4
  <2>7. \A i \in 1 .. L - 1 : (a \o b)[i] = IF i <= j - 1 THEN a[i] ELSE b[i - (j - 1)]
    BY <2>1, <2>2, <2>5, <2>6
  <2>8. ASSUME NEW i \in 1 .. L - 1, i < j PROVE (a \o b)[i] = w[i]
    <3>1. i <= j - 1 /\ i \in 1 .. j - 1
      BY <2>4, <2>8
    <3>. QED  BY <2>1, <2>7, <3>1
  <2>9. ASSUME NEW i \in 1 .. L - 1, i >= j PROVE (a \o b)[i] = w[i + 1]
    <3>1. ~ (i <= j - 1) /\ i - (j - 1) \in 1 .. L - j /\ j + (i - (j - 1)) = i + 1
      BY <2>4, <2>9
    <3>2. (a \o b)[i] = b[i - (j - 1)]
      BY <2>7, <3>1
    <3>. QED  BY <2>2, <3>1, <3>2
  <2>. QED  BY <2>3, <2>8, <2>9 DEF Shorter, L
<1>5. \E g : Lowered(g, f, j, Worth(w[j]))
  <2> DEFINE g == [i \in Nat |-> IF i <= j THEN f[i] - Worth(w[j]) ELSE f[i + 1]]
  <2>1. Lowered(g, f, j, Worth(w[j]))
    BY DEF Lowered
  <2> HIDE DEF g
  <2>. QED  BY <2>1
<1>6. PICK g : Lowered(g, f, j, Worth(w[j]))
  BY <1>5
<1>7. Worth(w[j]) <= n /\ Bounds(g, Without(w, j), Len(w) - 1, n - Worth(w[j]))
  BY <1>1, <1>2, <1>4, <1>6, MessagesOf, WorthType, BoundsShorter
<1>. QED  BY <1>3, <1>7 DEF Announces

(* One read: the first c messages are gone, or padding is left of the last.*)
LEMMA AnnouncesRead ==
    ASSUME NEW w \in Seq(Message), NEW n \in Nat, Announces(w, n), NEW c \in 1 .. Len(w)
    PROVE  /\ Worth(Head(w)) <= n
           /\ Announces(<< >> \o SubSeq(w, c + 1, Len(w)), n - Worth(Head(w)))
           /\ Announces(<< Padding >> \o SubSeq(w, c + 1, Len(w)), n - Worth(Head(w)))
<1> DEFINE b == SubSeq(w, c + 1, Len(w))
           k == Worth(Head(w))
<1>1. PICK f : Bounds(f, w, Len(w), n)
  BY DEF Announces
<1>2. Len(w) \in Nat /\ c \in Nat /\ Head(w) = w[1] /\ Head(w) \in Message
  <2>1. w # << >>
    OBVIOUS
  <2>. QED  BY <2>1
<1>3. b \in Seq(Message) /\ Len(b) = Len(w) - c /\ \A i \in 1 .. Len(w) - c : b[i] = w[c + i]
  OBVIOUS
<1>4. k \in Nat /\ k = Worth(w[1])
  BY <1>2, WorthType
<1> HIDE DEF b, k
<1>5. After(b, w, Len(w), c)
  <2>1. \A i \in 1 .. Len(w) - c : c + i = i + c
    BY <1>2
  <2>. QED  BY <1>3, <2>1 DEF After
<1>6. \E g : Shifted(g, f, c)
  <2> DEFINE g == [i \in Nat |-> f[i + c]]
  <2>1. Shifted(g, f, c)
    BY DEF Shifted
  <2> HIDE DEF g
  <2>. QED  BY <2>1
<1>7. PICK g : Shifted(g, f, c)
  BY <1>6
<1>8. k <= n /\ Bounds(g, b, Len(w) - c, n - k)
  BY <1>1, <1>2, <1>4, <1>5, <1>7, BoundsAfter
<1>9. << >> \o b = b
  BY <1>3
<1>10. Len(b) \in Nat /\ n - k \in Nat /\ Bounds(g, b, Len(b), n - k)
  BY <1>2, <1>3, <1>4, <1>8
<1> DEFINE v == << Padding >> \o b
<1>11. Len(v) = Len(b) + 1 /\ Padded(v, b, Len(b))
  <2> DEFINE a == << Padding >>
  <2>1. a \in Seq(Message) /\ Len(a) = 1 /\ a[1] = Padding
    BY DEF Padding, Message
  <2>2. v = a \o b
    OBVIOUS
  <2> HIDE DEF a, v
  <2>3. /\ Len(v) = Len(a) + Len(b)
        /\ \A i \in 1 .. Len(a) + Len(b) :
              v[i] = IF i <= Len(a) THEN a[i] ELSE b[i - Len(a)]
    BY <1>3, <2>1, <2>2, ConcatProperties
  <2>4. /\ Len(v) = Len(b) + 1
        /\ \A i \in 1 .. Len(b) + 1 : v[i] = IF i <= 1 THEN a[i] ELSE b[i - 1]
    BY <1>10, <2>1, <2>3
  <2>5. v[1] = Padding
    BY <1>10, <2>1, <2>4
  <2>6. ASSUME NEW i \in 1 .. Len(b) PROVE v[i + 1] = b[i]
    <3>1. i + 1 \in 1 .. Len(b) + 1 /\ ~ (i + 1 <= 1) /\ (i + 1) - 1 = i
      BY <1>10
    <3>2. v[i + 1] = b[(i + 1) - 1]
      BY <2>4, <3>1
    <3>. QED  BY <3>1, <3>2
  <2>7. Worth(v[1]) = 0
    BY <2>5 DEF Worth, Padding
  <2>. QED  BY <2>4, <2>6, <2>7 DEF Padded
<1> HIDE DEF v
<1>12. \E h : Repeated(h, g)
  <2> DEFINE h == [i \in Nat |-> IF i <= 1 THEN g[1] ELSE g[i - 1]]
  <2>1. Repeated(h, g)
    BY DEF Repeated
  <2> HIDE DEF h
  <2>. QED  BY <2>1
<1>13. PICK h : Repeated(h, g)
  BY <1>12
<1>14. Bounds(h, v, Len(b) + 1, n - k)
  BY <1>10, <1>11, <1>13, BoundsPadded
<1>15. Announces(v, n - k)
  BY <1>11, <1>14 DEF Announces
<1>16. Announces(b, n - k)
  BY <1>10 DEF Announces
<1>. QED  BY <1>8, <1>9, <1>15, <1>16 DEF b, k, v

LEMMA AnnouncesNothing == ASSUME NEW n \in Nat PROVE Announces(<< >>, n)
<1> DEFINE f == [i \in Nat |-> 0]
<1>1. \A i \in Nat : f[i] = 0
  OBVIOUS
<1> HIDE DEF f
<1>2. Bounds(f, << >>, 0, n)
  BY <1>1 DEF Bounds
<1>3. Len(<< >>) = 0
  OBVIOUS
<1>. QED  BY <1>2, <1>3 DEF Announces

(* The echoes the slave has not sent, and those the master has not read.   *)
Covered(s, w, n) ==
    \E x, y \in Nat : x + y <= n /\ Announces(s, x) /\ Announces(w, y)

LEMMA CoveredStep ==
    ASSUME NEW s \in Seq(Message), NEW w \in Seq(Message), NEW n \in Int, Covered(s, w, n)
    PROVE  /\ n >= 0
           /\ Covered(<< >>, w, n)
           /\ \A m \in Message : Covered(Append(s, m), w, n + Worth(m))
           /\ \A i \in DOMAIN s : Covered(Without(s, i), w, n)
                                    /\ Covered(Without(s, i), Append(w, s[i]), n)
           /\ \A c \in 1 .. Len(w), cut \in BOOLEAN :
                Covered(s, (IF cut THEN << Padding >> ELSE << >>) \o SubSeq(w, c + 1, Len(w)),
                        n - Worth(Head(w)))
<1>1. PICK x \in Nat, y \in Nat : x + y <= n /\ Announces(s, x) /\ Announces(w, y)
  BY DEF Covered
<1>2. n >= 0 /\ Covered(<< >>, w, n)
  <2>1. n >= 0 /\ 0 + y <= n
    BY <1>1
  <2>. QED  BY <1>1, <2>1, AnnouncesNothing DEF Covered
<1>3. ASSUME NEW m \in Message PROVE Covered(Append(s, m), w, n + Worth(m))
  <2>1. Worth(m) \in Nat
    BY WorthType
  <2>2. x + Worth(m) \in Nat /\ (x + Worth(m)) + y <= n + Worth(m)
    BY <1>1, <2>1
  <2>3. Announces(Append(s, m), x + Worth(m))
    BY <1>1, AnnouncesAppend
  <2>. QED  BY <1>1, <2>2, <2>3 DEF Covered
<1>4. ASSUME NEW i \in DOMAIN s
      PROVE  Covered(Without(s, i), w, n) /\ Covered(Without(s, i), Append(w, s[i]), n)
  <2> DEFINE k == Worth(s[i])
  <2>1. s[i] \in Message
    OBVIOUS
  <2>2. k \in Nat
    BY <2>1, WorthType
  <2>3. k <= x /\ Announces(Without(s, i), x - k)
    BY <1>1, AnnouncesWithout
  <2>4. Announces(Append(w, s[i]), y + k)
    BY <1>1, <2>1, AnnouncesAppend
  <2> HIDE DEF k
  <2>5. x - k \in Nat /\ y + k \in Nat /\ (x - k) + y <= n /\ (x - k) + (y + k) <= n
    BY <1>1, <2>2, <2>3
  <2>. QED  BY <1>1, <2>3, <2>4, <2>5 DEF Covered
<1>5. ASSUME NEW c \in 1 .. Len(w), NEW cut \in BOOLEAN
      PROVE  Covered(s, (IF cut THEN << Padding >> ELSE << >>) \o SubSeq(w, c + 1, Len(w)),
                     n - Worth(Head(w)))
  <2> DEFINE k == Worth(Head(w))
             v == (IF cut THEN << Padding >> ELSE << >>) \o SubSeq(w, c + 1, Len(w))
  <2>1. k \in Nat
    <3>1. w # << >>
      OBVIOUS
    <3>. QED  BY <3>1, WorthType
  <2>2. k <= y /\ Announces(v, y - k)
    BY <1>1, AnnouncesRead
  <2> HIDE DEF k, v
  <2>3. y - k \in Nat /\ x + (y - k) <= n - k
    BY <1>1, <2>1, <2>2
  <2>4. Covered(s, v, n - k)
    BY <1>1, <2>2, <2>3 DEF Covered
  <2>. QED  BY <2>4 DEF k, v
<1>. QED  BY <1>2, <1>3, <1>4, <1>5

(* What is covered by n bits is covered by more. *)
LEMMA CoveredMore ==
    ASSUME NEW s, NEW w, NEW n \in Int, NEW k \in Int, n <= k, Covered(s, w, n)
    PROVE  Covered(s, w, k)
<1>1. PICK x \in Nat, y \in Nat : x + y <= n /\ Announces(s, x) /\ Announces(w, y)
  BY DEF Covered
<1>2. x + y <= k
  BY <1>1
<1>. QED  BY <1>1, <1>2 DEF Covered

(* What the slave got, less what the master holds that was in a message. *)
Margin == ahead + invented

EchoesCovered == Covered(scheduled[Slave], wire[Master], Margin)

(* Of a message the master takes no more from the margin than it announces. *)
LEMMA MasterReads ==
    ASSUME NEW a \in Int, NEW c \in Int, NEW v \in Nat, NEW k \in Nat
    PROVE  (a + c) - k <= (a - v) + (c + (IF v > k THEN v - k ELSE 0))
  OBVIOUS

LEMMA EchoesStep ==
    ASSUME TypeOK, EchoesCovered, [Next]_vars
    PROVE  EchoesCovered'
<1> DEFINE s == scheduled[Slave]
           w == wire[Master]
<1>t. /\ s \in Seq(Message) /\ w \in Seq(Message)
      /\ ahead \in Int /\ invented \in Nat /\ Margin \in Int
      /\ scheduled \in [Ends -> Seq(Message)] /\ wire \in [Ends -> Seq(Message)]
      /\ Master \in Ends /\ Slave \in Ends /\ Master # Slave
      /\ Peer(Slave) = Master /\ Peer(Master) = Slave
  BY TwoEnds DEF TypeOK, Ends, Peer, Margin
<1>c. Covered(s, w, Margin)
  BY DEF EchoesCovered
<1>e. \A e \in Ends : e = Slave \/ e = Master
  BY DEF Ends
<1> SUFFICES Covered(scheduled'[Slave], wire'[Master], Margin')
  BY DEF EchoesCovered
<1>0. ASSUME scheduled'[Slave] = s, wire'[Master] = w, Margin' = Margin
      PROVE  Covered(scheduled'[Slave], wire'[Master], Margin')
  BY <1>0, <1>c
<1>1. ASSUME NEW e \in Ends, ConnectionSucceeded(e)
      PROVE  Covered(scheduled'[Slave], wire'[Master], Margin')
  <2>1. wire' = wire /\ Margin' = Margin
    BY <1>1 DEF ConnectionSucceeded, Margin
  <2>2. scheduled'[Slave] = s
    BY <1>1, <1>t DEF ConnectionSucceeded, SendData, PrepareOutput
  <2>. QED  BY <1>0, <2>1, <2>2
<1>2. ASSUME NEW e \in Ends, SendPacket(e)
      PROVE  Covered(scheduled'[Slave], wire'[Master], Margin')
  <2>1. PICK i \in DOMAIN scheduled[e] :
        /\ scheduled' = [scheduled EXCEPT ![e] = Without(@, i)]
        /\ wire' = IF connected[e] THEN [wire EXCEPT ![Peer(e)] = Append(@, scheduled[e][i])]
                   ELSE wire
    BY <1>2 DEF SendPacket
  <2>2. Margin' = Margin
    BY <1>2 DEF SendPacket, Margin
  <2>3. CASE e = Master
    <3>1. scheduled'[Slave] = s /\ wire'[Master] = w
      BY <1>t, <2>1, <2>3
    <3>. QED  BY <1>0, <2>2, <3>1
  <2>4. CASE e = Slave
    <3>1. scheduled'[Slave] = Without(s, i) /\ i \in DOMAIN s
          /\ (wire'[Master] = w \/ wire'[Master] = Append(w, s[i]))
      BY <1>t, <2>1, <2>4
    <3> HIDE DEF s, w
    <3>2. Covered(Without(s, i), w, Margin) /\ Covered(Without(s, i), Append(w, s[i]), Margin)
      BY <1>t, <1>c, <3>1, CoveredStep
    <3>. QED  BY <2>2, <3>1, <3>2
  <2>. QED  BY <1>e, <2>3, <2>4
<1>3. ASSUME NEW e \in Ends, HandleRead(e)
      PROVE  Covered(scheduled'[Slave], wire'[Master], Margin')
  <2>1. PICK c \in 1 .. Len(wire[e]), cut \in BOOLEAN, msg \in Message :
            Read(e, c, cut, msg)
    BY <1>3, ReadResult
  <2>2. /\ wire' = [wire EXCEPT ![e] =
                        (IF cut THEN << Padding >> ELSE << >>) \o SubSeq(@, c + 1, Len(@))]
        /\ ProcessIncomingPacket(e, msg)
        /\ invented' = invented + Surplus(e, Head(wire[e]), msg)
    BY <2>1 DEF Read
  <2>3. wire[e] # << >> /\ wire[e] \in Seq(Message) /\ Head(wire[e]) \in Message
    BY <1>3, ReadResult
  <2>4. PICK m \in Message :
                /\ scheduled' = [scheduled EXCEPT ![e] = Append(@, m)]
                /\ m.label \in {"QKDPPS", "ADDKEY"}
                /\ msg.label = "ADDKEY" /\ e = Slave =>
                            m = AddKey(msg.value) /\ ahead' = ahead + msg.value
                /\ msg.label = "ADDKEY" /\ e = Master =>
                            m.label = "QKDPPS" /\ ahead' = ahead - msg.value
                /\ msg.label # "ADDKEY" =>
                            /\ m.label = "ADDKEY" => e = Master /\ m.value = KeyRate
                            /\ ahead' = ahead
    BY <2>2, ProcessResult
  <2>5. CASE e = Slave
    <3>1. scheduled'[Slave] = Append(s, m) /\ wire'[Master] = w
      BY <1>t, <2>2, <2>4, <2>5
    <3>2. Margin' = Margin + Worth(m)
      <4>1. Surplus(e, Head(wire[e]), msg) = 0
        BY <1>t, <2>5 DEF Surplus
      <4>2. invented' = invented
        BY <1>t, <2>2, <4>1
      <4>3. CASE msg.label = "ADDKEY"
        <5>1. ahead' = ahead + Worth(m) /\ Worth(m) \in Nat
          BY <2>4, <2>5, <4>3, WorthType DEF Worth, AddKey
        <5>. QED  BY <1>t, <4>2, <5>1 DEF Margin
      <4>4. CASE msg.label # "ADDKEY"
        <5>1. m.label # "ADDKEY" /\ ahead' = ahead
          BY <1>t, <2>4, <2>5, <4>4
        <5>2. Worth(m) = 0
          BY <5>1 DEF Worth
        <5>. QED  BY <1>t, <4>2, <5>1, <5>2 DEF Margin
      <4>. QED  BY <4>3, <4>4
    <3> HIDE DEF s, w
    <3>3. Covered(Append(s, m), w, Margin + Worth(m))
      BY <1>t, <1>c, CoveredStep
    <3>. QED  BY <3>1, <3>2, <3>3
  <2>6. CASE e = Master
    <3>1. /\ scheduled'[Slave] = s /\ c \in 1 .. Len(w)
          /\ wire'[Master] = (IF cut THEN << Padding >> ELSE << >>) \o SubSeq(w, c + 1, Len(w))
      BY <1>t, <2>2, <2>4, <2>6
    <3>2. /\ Head(w) \in Message /\ Head(w) = Head(wire[e]) /\ Worth(Head(w)) \in Nat
          /\ Margin' \in Int
      <4>1. Head(w) \in Message /\ Head(w) = Head(wire[e])
        BY <2>3, <2>6
      <4>2. invented' \in Nat
        BY <1>t, <2>2, <2>3, SurplusType
      <4>3. ahead' \in Int
        BY <2>2, ProcessResult
      <4>. QED  BY <4>1, <4>2, <4>3, WorthType DEF Margin
    <3>3. Margin - Worth(Head(w)) <= Margin'
      <4> DEFINE v == Worth(msg)
                 k == Worth(Head(wire[e]))
      <4>1. v \in Nat /\ k \in Nat /\ Worth(Head(w)) = k
        BY <2>1, <2>3, <3>2, WorthType
      <4>2. ahead' = ahead - v
        BY <1>t, <2>4, <2>6 DEF Worth
      <4>3. invented' = invented + (IF v > k THEN v - k ELSE 0)
        BY <2>2, <2>6 DEF Surplus
      <4> HIDE DEF v, k
      <4>. QED  BY <1>t, <4>1, <4>2, <4>3, MasterReads DEF Margin
    <3> HIDE DEF s, w
    <3>4. Covered(s, (IF cut THEN << Padding >> ELSE << >>) \o SubSeq(w, c + 1, Len(w)),
                  Margin - Worth(Head(w)))
      BY <1>t, <1>c, <3>1, CoveredStep
    <3>5. Margin - Worth(Head(w)) \in Int
      BY <1>t, <3>2
    <3>. QED  BY <3>1, <3>2, <3>3, <3>4, <3>5, CoveredMore
  <2>. QED  BY <1>e, <2>5, <2>6
<1>4. ASSUME NEW e \in Ends, StopApplication(e)
      PROVE  Covered(scheduled'[Slave], wire'[Master], Margin')
  <2>1. wire' = wire /\ Margin' = Margin /\ (scheduled'[Slave] = s \/ scheduled'[Slave] = << >>)
    BY <1>4, <1>t DEF StopApplication, Margin
  <2> HIDE DEF s
  <2>2. Covered(s, w, Margin) /\ Covered(<< >>, w, Margin)
    BY <1>t, <1>c, CoveredStep
  <2>. QED  BY <2>1, <2>2
<1>5. ASSUME NEW e \in Ends, Refuse(e)
      PROVE  Covered(scheduled'[Slave], wire'[Master], Margin')
  <2>1. scheduled' = scheduled /\ Margin' = Margin /\ wire[e] # << >>
        /\ wire' = [wire EXCEPT ![e] = Tail(@)]
    BY <1>5 DEF Refuse, Margin
  <2>2. CASE e = Slave
    <3>1. wire'[Master] = w
      BY <1>t, <2>1, <2>2
    <3>. QED  BY <1>0, <2>1, <3>1
  <2>3. CASE e = Master
    <3>1. wire'[Master] = Tail(w) /\ w # << >>
      BY <1>t, <2>1, <2>3
    <3> HIDE DEF s, w
    <3>2. Covered(s, (IF FALSE THEN << Padding >> ELSE << >>) \o SubSeq(w, 1 + 1, Len(w)),
                  Margin - Worth(Head(w)))
      <4>1. 1 \in 1 .. Len(w) /\ FALSE \in BOOLEAN
        BY <1>t, <3>1
      <4>. QED  BY <1>t, <1>c, <4>1, CoveredStep
    <3>3. << >> \o SubSeq(w, 1 + 1, Len(w)) = Tail(w)
      <4>1. << >> \o SubSeq(w, 1 + 1, Len(w)) = SubSeq(w, 2, Len(w))
        BY <1>t, <3>1
      <4>2. SubSeq(w, 2, Len(w)) = Tail(w)
        BY <1>t, <3>1
      <4>. QED  BY <4>1, <4>2
    <3>4. Covered(s, Tail(w), Margin - Worth(Head(w)))
      BY <3>2, <3>3
    <3>5. Worth(Head(w)) \in Nat
      BY <1>t, <3>1, WorthType
    <3>6. Covered(s, Tail(w), Margin)
      BY <1>t, <3>4, <3>5, CoveredMore
    <3>. QED  BY <2>1, <3>1, <3>6 DEF s
  <2>. QED  BY <1>e, <2>2, <2>3
<1>6. CASE UNCHANGED vars
  BY <1>0, <1>6 DEF vars, Margin
<1>. QED  BY <1>1, <1>2, <1>3, <1>4, <1>5, <1>6 DEF Next

(* The master holds no key material of post-processing the slave has not   *)
(* got, but for the bits it read into a number that was cut off: wherever  *)
(* TCP cuts and merges messages, and whatever packetValue then holds, the  *)
(* slave stores a key before it echoes the message with the same number,   *)
(* and the master stores one only for an echo                              *)
(* (QKDChargingApplication::ProcessIncomingPacket).                        *)
THEOREM SlaveFirst == Spec => []SlaveChargedFirst
<1>1. Init => EchoesCovered
  <2> SUFFICES ASSUME Init PROVE EchoesCovered
    OBVIOUS
  <2>1. scheduled[Slave] = << >> /\ wire[Master] = << >> /\ Margin = 0
    BY TwoEnds DEF Init, Margin
  <2>2. 0 + 0 <= 0 /\ 0 \in Nat /\ Announces(<< >>, 0)
    BY AnnouncesNothing
  <2>. QED  BY <2>1, <2>2 DEF EchoesCovered, Covered
<1>2. TypeOK /\ EchoesCovered /\ [Next]_vars => EchoesCovered'
  BY EchoesStep
<1>3. TypeOK /\ EchoesCovered => SlaveChargedFirst
  <2> SUFFICES ASSUME TypeOK, EchoesCovered PROVE SlaveChargedFirst
    OBVIOUS
  <2>1. PICK x \in Nat, y \in Nat : x + y <= Margin
    BY DEF EchoesCovered, Covered
  <2>. QED  BY <2>1 DEF SlaveChargedFirst, TypeOK, Margin
<1>. QED  BY <1>1, <1>2, <1>3, TypeCorrect, PTL DEF Spec
=============================================================================
