---------------------------- MODULE QKDCharging ----------------------------
(***************************************************************************)
(* Post-processing of one QKD link: two QKDChargingApplications that send  *)
(* each other numbered messages over two TCP connections and, after        *)
(* m_maxPackets of them, an ADDKEY message with the key material of the    *)
(* round.  The slave stores the key and echoes the message; the master     *)
(* stores the key when the echo arrives.                                   *)
(*                                                                         *)
(* A handler schedules at most one message; it is sent by a later event.   *)
(* The sifting, authentication and temporary trains of packets carry       *)
(* nothing that is looked at and are left out.                             *)
(***************************************************************************)
EXTENDS Integers, Sequences

CONSTANTS
    Master, Slave,
    Limits,         \* values m_maxPackets may have at the two applications
    KeyRate,        \* m_keyRate
    UninitValues,   \* what packetValue may hold when the number is not read
    MaxMessages,    \* bound of the model: messages, when they are cut
    MaxAhead        \* bound of the model: bits one end is ahead

Ends == {Master, Slave}
Peer(e) == IF e = Master THEN Slave ELSE Master

ASSUME ChargingAssumption ==
    /\ Master # Slave
    /\ Limits \subseteq [Ends -> Nat \ {0}] /\ KeyRate \in Nat \ {0}
    /\ UninitValues \subseteq Nat
    /\ MaxMessages \in Nat /\ MaxAhead \in Nat

VARIABLES
    maxPackets,     \* m_maxPackets, an attribute of each application
    splits,         \* may TCP cut a message (it is longer than a segment)?
    connected,      \* m_connected
    stopped,        \* StopApplication has run
    packetNumber,   \* m_packetNumber
    sendKeyRate,    \* m_sendKeyRateMessage
    scheduled,      \* messages whose SendPacket event is still to come
    wire,           \* messages sent to each application and not read yet
    ahead,          \* history: bits added at the slave and not at the master
    invented        \* history: bits the master added that no message announced

config == <<maxPackets, splits>>    \* never changes
vars   == <<maxPackets, splits,
            connected, stopped, packetNumber, sendKeyRate, scheduled, wire, ahead,
          invented>>

QkdPps(n) == [label |-> "QKDPPS", value |-> n]
AddKey(k) == [label |-> "ADDKEY", value |-> k]
Padding   == [label |-> "padding", value |-> 0]   \* the rest of a cut message

Message == [label : {"QKDPPS", "ADDKEY", "padding"}, value : Nat]

Outstanding ==
    Len(scheduled[Master]) + Len(scheduled[Slave]) + Len(wire[Master]) + Len(wire[Slave])

TypeOK ==
    /\ maxPackets \in Limits /\ splits \in BOOLEAN
    /\ connected \in [Ends -> BOOLEAN] /\ stopped \in [Ends -> BOOLEAN]
    /\ packetNumber \in [Ends -> Nat]
    /\ \A e \in Ends : packetNumber[e] < maxPackets[e]
    /\ sendKeyRate \in [Ends -> BOOLEAN]
    /\ scheduled \in [Ends -> Seq(Message)] /\ wire \in [Ends -> Seq(Message)]
    /\ ahead \in Int /\ invented \in Nat

Init ==
    /\ maxPackets \in Limits /\ splits \in BOOLEAN
    /\ connected = [e \in Ends |-> FALSE] /\ stopped = [e \in Ends |-> FALSE]
    /\ packetNumber = [e \in Ends |-> 0] /\ sendKeyRate = [e \in Ends |-> FALSE]
    /\ scheduled = [e \in Ends |-> << >>] /\ wire = [e \in Ends |-> << >>]
    /\ ahead = 0 /\ invented = 0

-----------------------------------------------------------------------------

PrepareOutput(e, msg) == scheduled' = [scheduled EXCEPT ![e] = Append(@, msg)]

\* Mutant: the end of a round is looked for only after it has passed.
SendDataLate(e, n, asked) ==
    LET over == n > maxPackets[e]
    IN  /\ packetNumber' = [packetNumber EXCEPT ![e] = IF over THEN 0 ELSE n]
        /\ sendKeyRate' = [sendKeyRate EXCEPT ![e] = asked \/ over]
        /\ PrepareOutput(e, IF e = Master /\ (asked \/ over)
                            THEN AddKey(KeyRate) ELSE QkdPps(IF over THEN 0 ELSE n))

\* Mutant: the message is made with the number before it is set back.
SendDataOldNumber(e, n, asked) ==
    LET over == n >= maxPackets[e]
    IN  /\ packetNumber' = [packetNumber EXCEPT ![e] = IF over THEN 0 ELSE n]
        /\ sendKeyRate' = [sendKeyRate EXCEPT ![e] = asked \/ over]
        /\ PrepareOutput(e, IF e = Master /\ (asked \/ over) THEN AddKey(KeyRate) ELSE QkdPps(n))

(* The next message of an application whose packet number is n and whose   *)
(* m_sendKeyRateMessage is asked.                                          *)
SendData(e, n, asked) ==
    LET over == n >= maxPackets[e]
        next == IF over THEN 0 ELSE n
    IN  /\ packetNumber' = [packetNumber EXCEPT ![e] = next]
        /\ sendKeyRate' = [sendKeyRate EXCEPT ![e] = asked \/ over]
        /\ PrepareOutput(e, IF e = Master /\ (asked \/ over) THEN AddKey(KeyRate) ELSE QkdPps(next))

\* Mutant: both applications start.
BothStart(e) ==
    /\ ~ connected[e] /\ ~ stopped[e]
    /\ connected' = [connected EXCEPT ![e] = TRUE]
    /\ SendData(e, packetNumber[e], sendKeyRate[e])
    /\ UNCHANGED <<config, stopped, wire, ahead, invented>>

(* The connection of e's send socket is established; the master starts. *)
ConnectionSucceeded(e) ==
    /\ ~ connected[e] /\ ~ stopped[e]
    /\ connected' = [connected EXCEPT ![e] = TRUE]
    /\ IF e = Master THEN SendData(e, packetNumber[e], sendKeyRate[e])
       ELSE UNCHANGED <<packetNumber, sendKeyRate, scheduled>>
    /\ UNCHANGED <<config, stopped, wire, ahead, invented>>

Without(s, i) == SubSeq(s, 1, i - 1) \o SubSeq(s, i + 1, Len(s))

(* A scheduled message is sent, or dropped while there is no connection. *)
SendPacket(e) ==
    /\ \E i \in DOMAIN scheduled[e] :
        /\ scheduled' = [scheduled EXCEPT ![e] = Without(@, i)]
        /\ wire' = IF connected[e] THEN [wire EXCEPT ![Peer(e)] = Append(@, scheduled[e][i])]
                   ELSE wire
    /\ UNCHANGED <<config, connected, stopped, packetNumber, sendKeyRate, ahead, invented>>

-----------------------------------------------------------------------------

(* The key material of a round, at e. *)
AddNewKeyMaterial(e, k) ==
    ahead' = IF e = Slave THEN ahead + k ELSE ahead - k

\* Mutant: the slave answers with its next message and does not echo.
ReceiveAddKeySilent(e, k) ==
    /\ AddNewKeyMaterial(e, k)
    /\ SendData(e, 0, FALSE)

\* Mutant: the slave echoes the message and leaves the key for later.
ReceiveAddKeyLate(e, k) ==
    IF e = Slave THEN
        /\ packetNumber' = [packetNumber EXCEPT ![e] = 0]
        /\ sendKeyRate' = [sendKeyRate EXCEPT ![e] = FALSE]
        /\ PrepareOutput(e, AddKey(k)) /\ UNCHANGED ahead
    ELSE AddNewKeyMaterial(e, k) /\ SendData(e, 0, FALSE)

ReceiveAddKey(e, k) ==
    /\ AddNewKeyMaterial(e, k)
    /\ IF e = Slave
       THEN /\ packetNumber' = [packetNumber EXCEPT ![e] = 0]
            /\ sendKeyRate' = [sendKeyRate EXCEPT ![e] = FALSE]
            /\ PrepareOutput(e, AddKey(k))
       ELSE SendData(e, 0, FALSE)

\* Mutant: the number in the message is taken as it is.
ReceiveNumberAsIs(e, v) ==
    /\ SendData(e, IF v < maxPackets[e] THEN v ELSE packetNumber[e] + 1, sendKeyRate[e])
    /\ UNCHANGED ahead

ReceiveNumber(e, v) ==
    /\ SendData(e, IF v < maxPackets[e] THEN v + 1 ELSE packetNumber[e] + 1, sendKeyRate[e])
    /\ UNCHANGED ahead

(* ProcessIncomingPacket for what one read shows.  Without a label the     *)
(* number is an uninitialised variable: it may or may not be below the     *)
(* maximum.                                                                *)
ProcessIncomingPacket(e, msg) ==
    \/ msg.label = "ADDKEY" /\ ReceiveAddKey(e, msg.value)
    \/ msg.label = "QKDPPS" /\ ReceiveNumber(e, msg.value)
    \/ msg.label = "padding" /\ \E v \in 0 .. maxPackets[e] : ReceiveNumber(e, v)

(* The leading digits of a number of up to ten. *)
Truncated(k) == {v \in 1 .. k : \E i \in 1 .. 9 : v = k \div 10 ^ i}

(* What may be taken for the number of an ADDKEY that msg is not.  In a    *)
(* read that ends behind the label the number is not read; in one that     *)
(* ends in the number its first digits are, and whatever stands in memory  *)
(* behind them.  The read after that starts with the semicolon: label and  *)
(* number are then what an earlier call has left on the stack.             *)
Misread(msg, cut) ==
    {v \in Truncated(msg.value) \cup UninitValues :
        (cut /\ msg.label = "ADDKEY") \/ msg.label = "padding"}

(* What a read may show of msg, the first message in it.  One that ends in *)
(* the padding shows it whole; one that ends in the label shows none, and  *)
(* a QKDPPS with a number that was cut is as good as none.                 *)
Shown(msg, cut) ==
    {msg} \cup (IF cut THEN {Padding} ELSE {}) \cup {AddKey(v) : v \in Misread(msg, cut)}

\* The bits a message announces.
Worth(msg) == IF msg.label = "ADDKEY" THEN msg.value ELSE 0

(* The bits the master takes from a message beyond those it announces. *)
Surplus(e, msg, shown) ==
    IF e = Master /\ Worth(shown) > Worth(msg) THEN Worth(shown) - Worth(msg) ELSE 0

(* One read: it returns the first n messages, of which the last may be     *)
(* cut, and what is looked at ends with the first.                         *)
HandleRead(e) ==
    /\ wire[e] # << >>
    /\ splits => (IF e = Slave THEN ahead ELSE invented) <= MaxAhead
    /\ \E n \in 1 .. Len(wire[e]),
          cut \in IF splits /\ Outstanding < MaxMessages THEN BOOLEAN ELSE {FALSE} :
       \E shown \in Shown(Head(wire[e]), cut /\ n = 1) :
        /\ wire' = [wire EXCEPT ![e] =
                        (IF cut THEN << Padding >> ELSE << >>) \o SubSeq(@, n + 1, Len(@))]
        /\ ProcessIncomingPacket(e, shown)
        /\ invented' = invented + Surplus(e, Head(wire[e]), shown)
    /\ UNCHANGED <<config, connected, stopped>>

(* The sockets are closed and the pending event is cancelled; any other    *)
(* pending event will find m_connected FALSE.                              *)
StopApplication(e) ==
    /\ ~ stopped[e]
    /\ stopped' = [stopped EXCEPT ![e] = TRUE]
    /\ connected' = [connected EXCEPT ![e] = FALSE]
    /\ scheduled' = [scheduled EXCEPT ![e] = << >>]
    /\ UNCHANGED <<config, packetNumber, sendKeyRate, wire, ahead, invented>>

(* The accepted sockets keep their callback after Close: a message that    *)
(* was on its way is read (HandleRead) or refused by TCP.                  *)
Refuse(e) ==
    /\ stopped[e] /\ wire[e] # << >>
    /\ wire' = [wire EXCEPT ![e] = Tail(@)]
    /\ UNCHANGED <<config, connected, stopped, packetNumber, sendKeyRate, scheduled, ahead,
                   invented>>

Next ==
    \E e \in Ends :
        \/ ConnectionSucceeded(e) \/ SendPacket(e) \/ HandleRead(e)
        \/ StopApplication(e) \/ Refuse(e)

Spec == Init /\ [][Next]_vars

(* The simulator runs every scheduled event and TCP delivers what it sends. *)
FairSpec == Spec /\ \A e \in Ends : WF_vars(SendPacket(e)) /\ WF_vars(HandleRead(e))

-----------------------------------------------------------------------------

\* Post-processing never has two messages under way, whichever connection is
\* established first and whenever an application stops: SendPacket and
\* HandleRead pass one message back and forth.
OneMessage == ~ splits => Outstanding <= 1

Charged == IF splits THEN 0 ELSE ahead

Rounds == INSTANCE QKDRounds WITH ahead <- Charged

\* While TCP hands over whole messages, the two ends get every round of key
\* material in turn, the slave first: no end is ever charged twice in a row,
\* whatever stops or stalls, and whatever maximum each end counts to.
ImplementsRounds == Rounds!Spec

Exchanging ==
    /\ ~ splits /\ maxPackets[Master] <= maxPackets[Slave]
    /\ (\A e \in Ends : connected[e]) /\ Outstanding > 0

\* Once both connections are up and a message is under way, each end is
\* charged again and again until an application stops.
KeepsCharging ==
    /\ (Exchanging /\ ahead = 0) ~> (ahead > 0 \/ \E e \in Ends : stopped[e])
    /\ (Exchanging /\ ahead > 0) ~> (ahead = 0 \/ \E e \in Ends : stopped[e])

\* With a smaller maximum at the slave the exchange goes on for ever and
\* charges nobody: the slave starts again before the master has counted to its
\* own maximum.
NeverCharges == ~ splits /\ maxPackets[Slave] < maxPackets[Master] => ahead = 0

\* Even when messages are cut or merged, so that several are under way and
\* some are lost or misread, the master holds no key material the slave did not
\* get, but for bits that no message announced: those ProcessIncomingPacket
\* charges when the label or the number it looks at is not, or not all, there.
SlaveChargedFirst == ahead + invented >= 0
=============================================================================
