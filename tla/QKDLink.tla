------------------------------ MODULE QKDLink ------------------------------
(***************************************************************************)
(* One QKD link: two managers, each with its own key buffer, that protect  *)
(* packets for each other (QKDManager::VirtualSend and VirtualReceive,     *)
(* QKDCrypto::ProcessOutgoingPacket and Decrypt).  A call runs to its end  *)
(* before the next event of the simulator, so each is one action; packets  *)
(* in flight and the post-processing that charges one end after the other  *)
(* are what interleaves.                                                   *)
(*                                                                         *)
(* The key buffer is the abstract QKDKeyStore, which QKDBuffer implements. *)
(***************************************************************************)
EXTENDS QKDPacketKeys, Sequences

CONSTANTS
    Master, Slave,  \* the ends, named for their part in post-processing
    Thr,            \* threshold of both buffers
    InitialAmounts, \* amounts both buffers may start with
    Traffics,       \* what the applications may do, see Traffic
    KeyRate,        \* bits one round of post-processing yields
    Refusing,       \* may the device queue be stopped, or the socket full?
    Lossy           \* may a packet in flight be lost? (not on the TCP overlay)

Ends == {Master, Slave}
Peer(e) == IF e = Master THEN Slave ELSE Master

(* The ends that send, the packets they protect (see Request) and, a bound *)
(* of the model, how many are in flight to one end.                        *)
Traffic == [senders : SUBSET Ends, requests : SUBSET Request, flight : Nat]

ASSUME LinkAssumption ==
    /\ Master # Slave
    /\ Thr \in Nat /\ InitialAmounts \subseteq 1 .. Mmax
    /\ Traffics \subseteq Traffic
    /\ KeyRate \in Nat \ {0}
    /\ Refusing \in BOOLEAN /\ Lossy \in BOOLEAN

VARIABLES
    traffic,  \* the applications of this run, chosen at the start
    store,    \* the key buffer of each end
    wire,     \* packets in flight to each end
    due,      \* bits of this round of post-processing the master still gets
    aborted,  \* the program has called through a null key
    causes,   \* history: what has set the two buffers apart
    owed      \* history: bits each end still has to take for packets in flight

vars == <<traffic, store, wire, due, aborted, causes, owed>>

(* Key material the sender alone used, or the master alone was refused; a  *)
(* round the slave was refused; a packet that could not be opened.         *)
Causes == {"lost", "slave refused", "receiver short"}

TypeOK ==
    /\ traffic \in Traffics
    /\ store \in [Ends -> Store]
    /\ wire \in [Ends -> Seq(Request)]
    /\ due \in {0, KeyRate} /\ aborted \in BOOLEAN
    /\ causes \subseteq Causes /\ owed \in [Ends -> Int]

Init ==
    /\ traffic \in Traffics
    /\ \E c \in InitialAmounts :
        store \in [Ends -> [cur : {c}, thr : {Thr}, status : Statuses \cup {UNINIT}]]
    /\ wire = [e \in Ends |-> << >>]
    /\ due = 0 /\ aborted = FALSE
    /\ causes = {} /\ owed = [e \in Ends |-> 0]

-----------------------------------------------------------------------------
(* The history of the two buffers: the reasons they differ. *)
Blame(why) == causes' = causes \cup {why}

-----------------------------------------------------------------------------
(* Sending: QKDManager::VirtualSend *)

(* The packet is discarded before anything is done to it. *)
Discard(e, r) ==
    /\ \E need \in FirstNeeds(r) : ~ Check(store[e], need, r.top)
    /\ UNCHANGED vars

(* Without VMAC there is no authentication key, and the header is given    *)
(* the ID of a null pointer: the debug build stops, an optimised one reads *)
(* a static counter and goes on.                                           *)
UsesNullKey(r) == AuthBits(r) = 0 /\ Tagged(r)

(* ProcessOutgoingPacket found no key, maybe after taking the first. *)
NoKey(e, p) ==
    /\ ~ p.ok
    /\ store' = [store EXCEPT ![e] = p.store]
    /\ IF p.store.cur # store[e].cur THEN Blame("lost") ELSE UNCHANGED causes
    /\ UNCHANGED <<wire, due, aborted, owed>>

(* ForwardToSocket finds too little key material left. *)
NotForwarded(e, r, p) ==
    /\ p.ok
    /\ \E need \in SecondNeeds(r) : ~ Check(p.store, need, r.top)
    /\ store' = [store EXCEPT ![e] = p.store]
    /\ IF Bits(r) > 0 THEN Blame("lost") ELSE UNCHANGED causes
    /\ UNCHANGED <<wire, due, aborted, owed>>

Forwardable(r, p) == p.ok /\ \E need \in SecondNeeds(r) : Check(p.store, need, r.top)

(* The device queue is stopped, or the socket has no room and its answer   *)
(* is ignored: the protected packet is gone with its keys.                 *)
Refused(e, r, p) ==
    /\ Refusing /\ Forwardable(r, p)
    /\ store' = [store EXCEPT ![e] = p.store]
    /\ IF Bits(r) > 0 THEN Blame("lost") ELSE UNCHANGED causes
    /\ UNCHANGED <<wire, due, aborted, owed>>

Sent(e, r, p) ==
    /\ Forwardable(r, p)
    /\ Len(wire[Peer(e)]) < traffic.flight
    /\ store' = [store EXCEPT ![e] = p.store]
    /\ wire' = [wire EXCEPT ![Peer(e)] = Append(@, r)]
    /\ owed' = [owed EXCEPT ![Peer(e)] = @ + Bits(r)]
    /\ UNCHANGED <<due, aborted, causes>>

(* Encryption key first, authentication key second. *)
Protected(e, r) == TakeKeys(store[e], EncBits(r), AuthBits(r))

(* A packet with a null key stops the debug build inside                   *)
(* ProcessOutgoingPacket, after its encryption key was taken.              *)
Abort(e, r, p) ==
    /\ p.ok /\ UsesNullKey(r)
    /\ aborted' = TRUE
    /\ store' = [store EXCEPT ![e] = p.store]
    /\ IF Bits(r) > 0 THEN Blame("lost") ELSE UNCHANGED causes
    /\ UNCHANGED <<wire, due, owed>>

VirtualSend(e, r) ==
    /\ ~ aborted
    /\ \/ Discard(e, r)
       \/ /\ \E need \in FirstNeeds(r) : Check(store[e], need, r.top)
          /\ \E p \in Protected(e, r) :
                \/ NoKey(e, p)
                \/ NotForwarded(e, r, p)
                \/ Refused(e, r, p)
                \/ Sent(e, r, p)
                \/ Abort(e, r, p)

-----------------------------------------------------------------------------
(* Receiving: QKDManager::VirtualReceive, QKDCrypto::Decrypt *)

\* Mutant: only the authentication key is taken for a received packet.
OpenedOneKey(e, r) == TakeKey(store[e], AuthBits(r))

\* Mutant: the one-time pad key is sized after the packet with its header.
OpenedWholePacket(e, r) ==
    TakeKeys(store[e], AuthBits(r), EncBits(r) + (IF r.enc = "OTP" THEN HeaderBits ELSE 0))

(* Authentication key first, encryption key second. *)
Opened(e, r) == TakeKeys(store[e], AuthBits(r), EncBits(r))

VirtualReceive(e) ==
    /\ ~ aborted /\ wire[e] # << >>
    /\ LET r == Head(wire[e])
       IN  /\ \E p \in Opened(e, r) :
                /\ store' = [store EXCEPT ![e] = p.store]
                /\ IF p.ok THEN UNCHANGED causes ELSE Blame("receiver short")
           /\ owed' = [owed EXCEPT ![e] = @ - Bits(r)]
    /\ wire' = [wire EXCEPT ![e] = Tail(@)]
    /\ UNCHANGED <<due, aborted>>

(* The link loses a packet. *)
Lose(e) ==
    /\ Lossy /\ ~ aborted
    /\ \E i \in DOMAIN wire[e] :
        /\ wire' = [wire EXCEPT ![e] = SubSeq(@, 1, i - 1) \o SubSeq(@, i + 1, Len(@))]
        /\ owed' = [owed EXCEPT ![e] = @ - Bits(wire[e][i])]
        /\ IF Bits(wire[e][i]) > 0 THEN Blame("lost") ELSE UNCHANGED causes
    /\ UNCHANGED <<store, due, aborted>>

-----------------------------------------------------------------------------
(* Post-processing: QKDManager::AddNewKeyMaterial at one end, then at the  *)
(* other (the slave stores the key when it is told, the master when the    *)
(* slave has answered).                                                    *)

AddNewKeyMaterial(e, k) ==
    /\ \E t \in AfterCharge(store[e], k) : store' = [store EXCEPT ![e] = t]
    /\ IF Fits(store[e], k) THEN UNCHANGED causes
       ELSE Blame(IF e = Slave THEN "slave refused" ELSE "lost")
    /\ UNCHANGED <<wire, aborted, owed>>

ChargeSlave ==
    /\ ~ aborted /\ due = 0
    /\ AddNewKeyMaterial(Slave, KeyRate)
    /\ due' = KeyRate

ChargeMaster ==
    /\ ~ aborted /\ due > 0
    /\ AddNewKeyMaterial(Master, due)
    /\ due' = 0

Next ==
    /\ \/ \E e \in traffic.senders, r \in traffic.requests : VirtualSend(e, r)
       \/ \E e \in Ends : VirtualReceive(e)
       \/ \E e \in Ends : Lose(e)
       \/ ChargeSlave
       \/ ChargeMaster
    /\ UNCHANGED traffic

Spec == Init /\ [][Next]_vars

-----------------------------------------------------------------------------

\* The two buffers hold the same key material, up to what is on its way, as
\* long as nothing was refused, lost or dropped: the two ends take keys of the
\* same size for a packet, in whatever order they take them.
Balanced ==
    causes = {} =>
        store[Master].cur + due - owed[Master] = store[Slave].cur - owed[Slave]

\* Whatever is sent in a row, a packet outside band 0 leaves only if the buffer
\* was not EMPTY before its keys were taken and is not EMPTY after.
EmptyServesTopBandOnly ==
    [][\A e \in Ends :
        LET w == wire'[Peer(e)]
        IN  Len(w) > Len(wire[Peer(e)]) /\ ~ w[Len(w)].top
                => store[e].status # EMPTY /\ store'[e].status # EMPTY]_vars

\* When only the master sends, the slave, which is charged first, can open
\* every packet that reaches it, whatever keys and packets were lost before,
\* unless its own full buffer once refused a round.
ReceiverNeverShort ==
    traffic.senders = {Master} /\ "slave refused" \notin causes
        => "receiver short" \notin causes

-----------------------------------------------------------------------------
(* What the comments say. *)

\* qkd-manager.cc:369: "we need to analyze the status of QKD buffers
\* priori processing of packet. If there is enough key material packet is
\* processed. Otherwise, packet is silently discarded"; so, where no device
\* refuses a packet, only packets that are sent or received cost key material.
DocDiscardCostsNothing ==
    [][(\E e \in Ends : store'[e].cur < store[e].cur) => wire' # wire]_vars

\* qkd-crypto.cc:490: "KEY IS NEEDED ONLY FOR VMAC", so no other packet may fail
\* for want of a key.
DocOnlyVmacNeedsKey == ~ aborted
=============================================================================
