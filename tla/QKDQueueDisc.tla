---------------------------- MODULE QKDQueueDisc ----------------------------
(***************************************************************************)
(* The queue disc in front of a device that protects its packets with key  *)
(* material (QKDL2SingleTCPIPPfifoFastQueueDisc): three bands, a place for *)
(* the packet a stopped device queue sent back, and a Run that hands       *)
(* packets to QKDManager::VirtualSend until the device, the packets, the   *)
(* quota or the key material is used up.                                   *)
(*                                                                         *)
(* Run is a loop inside one event of the simulator: it is taken apart into *)
(* one step per packet (RestartL2), and nothing else happens while         *)
(* m_running is set.                                                       *)
(***************************************************************************)
EXTENDS QKDPacketKeys, Sequences, Functions

CONSTANTS
    MaxSize,        \* MaxSize of the queue disc, 1000 packets
    Quota,          \* most packets one Run hands over, 64
    DeviceRoom,     \* packets a transmission queue of the device holds, with
                    \* the one on the wire
    Thr,            \* threshold of the key buffer
    InitialAmounts, \* amounts the key buffer may start with
    Requests,       \* packets to protect, none with a null key (see QKDLink)
    MaxTxQueues,    \* transmission queues the device may have
    KeyAmounts,     \* bits a charge adds, or a received packet takes
    MaxArrivals     \* bound of the model: packets that reach the queue disc

Bands == 0 .. 2

ASSUME DiscAssumption ==
    /\ MaxSize \in Nat \ {0} /\ Quota \in Nat \ {0}
    /\ DeviceRoom \in Nat /\ DeviceRoom > 2
    /\ Thr \in Nat /\ InitialAmounts \subseteq 1 .. Mmax
    /\ Requests \subseteq Request /\ MaxTxQueues \in Nat \ {0}
    /\ \A r \in Requests : Tagged(r) => r.auth = "VMAC"
    /\ KeyAmounts \subseteq Nat \ {0} /\ MaxArrivals \in Nat

VARIABLES
    txQueues,   \* GetNTxQueues of the device
    queue,      \* the three internal queues
    requeued,   \* m_requeued, as a sequence of at most one packet
    running,    \* m_running
    quota,      \* what is left of the quota of this Run
    device,     \* packets in each transmission queue of the device
    wakes,      \* transmission queues whose wake callback is scheduled
    store,      \* the key buffer of the connection
    arrivals,   \* history: packets that reached the queue disc, to number them
    last,       \* history: number of the last packet of a band that left
    ended,      \* history: why the last Run ended
    refused     \* history: the manager met a stopped device queue

vars == <<txQueues, queue, requeued, running, quota, device, wakes, store,
          arrivals, last, ended, refused>>

TxQueues == 1 .. txQueues

(* A packet of band b with its transmission queue and its number. *)
Item(b) == [no : Nat, band : {b}, tx : TxQueues, req : Requests]

Ends == {"none", "no packet", "no key", "stopped", "quota"}

TypeOK ==
    /\ txQueues \in 1 .. MaxTxQueues
    /\ DOMAIN queue = Bands /\ \A b \in Bands : queue[b] \in Seq(Item(b))
    /\ Len(queue[0]) + Len(queue[1]) + Len(queue[2]) <= MaxSize
    /\ \E b \in Bands : requeued \in Seq(Item(b)) /\ Len(requeued) <= 1
    /\ running \in BOOLEAN /\ quota \in 0 .. Quota
    /\ device \in [TxQueues -> 0 .. DeviceRoom]
    /\ wakes \subseteq TxQueues
    /\ store \in Store
    /\ arrivals \in Nat /\ last \in [Bands -> Nat]
    /\ ended \in Ends /\ refused \in BOOLEAN

Init ==
    /\ txQueues \in 1 .. MaxTxQueues
    /\ queue = [b \in Bands |-> << >>] /\ requeued = << >>
    /\ running = FALSE /\ quota = 0
    /\ device = [q \in TxQueues |-> 0] /\ wakes = {}
    /\ store \in [cur : InitialAmounts, thr : {Thr}, status : Statuses \cup {UNINIT}]
    /\ arrivals = 0 /\ last = [b \in Bands |-> 0]
    /\ ended = "none" /\ refused = FALSE

-----------------------------------------------------------------------------
(* The device stops a transmission queue when its last place is taken and  *)
(* wakes it when a packet leaves.                                          *)
Stopped(q) == device[q] = DeviceRoom

NPackets == Len(queue[0]) + Len(queue[1]) + Len(queue[2])

(* Run, at its beginning and its end. *)
RunBegin == running' = TRUE /\ quota' = Quota

RunEnd(why) == running' = FALSE /\ ended' = why /\ UNCHANGED quota

\* Mutant: a packet is taken when the queue disc is full.
AcceptsOneMore == NPackets <= MaxSize

Accepts == NPackets < MaxSize

(* TrafficControlLayer::Send: a packet beyond MaxSize is dropped; Run is   *)
(* called either way.                                                      *)
Send ==
    /\ ~ running /\ arrivals < MaxArrivals
    /\ arrivals' = arrivals + 1
    /\ \E b \in Bands, q \in TxQueues, r \in Requests :
        /\ r.top <=> b = 0
        /\ queue' = IF ~ Accepts THEN queue
                    ELSE [queue EXCEPT ![b] =
                            Append(@, [no |-> arrivals', band |-> b, tx |-> q, req |-> r])]
    /\ RunBegin
    /\ UNCHANGED <<txQueues, requeued, device, wakes, store, last, ended, refused>>

(* The device has sent a packet; a stopped queue is woken, which schedules *)
(* a Run for this very moment: before the queue sends its next packet.     *)
Transmitted(q) ==
    /\ ~ running /\ q \notin wakes /\ device[q] > 0
    /\ device' = [device EXCEPT ![q] = @ - 1]
    /\ wakes' = wakes \cup {x \in {q} : Stopped(x)}
    /\ UNCHANGED <<txQueues, queue, requeued, running, quota, store, arrivals,
                   last, ended, refused>>

(* The scheduled Run. *)
Wake(q) ==
    /\ ~ running /\ q \in wakes
    /\ wakes' = wakes \ {q}
    /\ RunBegin
    /\ UNCHANGED <<txQueues, queue, requeued, device, store, arrivals, last,
                   ended, refused>>

(* Key material arrives, or a packet that was received takes some; neither *)
(* looks at the queue disc.                                                *)
AddNewKeyMaterial(k) ==
    /\ ~ running
    /\ store' \in AfterCharge(store, k)
    /\ UNCHANGED <<txQueues, queue, requeued, running, quota, device, wakes,
                   arrivals, last, ended, refused>>

VirtualReceive(k) ==
    /\ ~ running
    /\ \E p \in TakeKey(store, k) : store' = p.store
    /\ UNCHANGED <<txQueues, queue, requeued, running, quota, device, wakes,
                   arrivals, last, ended, refused>>

-----------------------------------------------------------------------------
(* One round of Run: DequeuePacketL2, then TransmitL2. *)

(* The bands DoDequeue looks at: without key material only the first. *)
Served == IF store.status = EMPTY THEN {0} ELSE Bands

Waiting == {b \in Served : queue[b] # << >>}

FirstBand(b) == b \in Waiting /\ \A c \in Waiting : b <= c

(* With one transmission queue a stopped device is not asked. *)
MayDequeue == txQueues > 1 \/ ~ Stopped(1)

(* What the manager makes of a packet: the key buffer afterwards and       *)
(* whether the packet reached the device.                                  *)
VirtualSend(r) ==
    UNION {IF ~ Check(store, need, r.top) THEN {[store |-> store, sent |-> FALSE]}
           ELSE {[store |-> p.store,
                  sent |-> p.ok /\ Check(p.store, more, r.top)] :
                    p \in TakeKeys(store, EncBits(r), AuthBits(r)),
                    more \in SecondNeeds(r)} : need \in FirstNeeds(r)}

(* The packet DequeuePacketL2 returns and the internal queues without it:  *)
(* the requeued packet if there is one, of whatever band.                  *)
FromRequeued ==
    {[item |-> i, queue |-> queue] : i \in {j \in Range(requeued) : ~ Stopped(j.tx)}}

FromBands ==
    {[item |-> Head(queue[b]), queue |-> [queue EXCEPT ![b] = Tail(@)]] :
        b \in {c \in Bands : requeued = << >> /\ MayDequeue /\ FirstBand(c)}}

DequeuePacketL2 == FromRequeued \cup FromBands

(* No packet, so the loop ends. *)
NothingToSend ==
    /\ DequeuePacketL2 = {}
    /\ RunEnd(IF requeued # << >> \/ ~ MayDequeue THEN "stopped"
              ELSE IF NPackets = 0 THEN "no packet" ELSE "no key")
    /\ UNCHANGED <<queue, requeued, device, store, last, refused>>

\* Mutant: the packet goes back to the end of its band.
RequeueAtEnd(d) ==
    /\ queue' = [d.queue EXCEPT ![d.item.band] = Append(@, d.item)]
    /\ requeued' = << >>
    /\ RunEnd("stopped")
    /\ UNCHANGED <<device, store, last, refused>>

\* Mutant: the packet is not kept.
RequeueForgets(d) ==
    /\ queue' = d.queue /\ requeued' = << >>
    /\ RunEnd("stopped")
    /\ UNCHANGED <<device, store, last, refused>>

RequeueL2(d) ==
    /\ queue' = d.queue /\ requeued' = <<d.item>>
    /\ RunEnd("stopped")
    /\ UNCHANGED <<device, store, last, refused>>

(* After a packet: no more packets, a stopped queue or the quota end Run. *)
GoOn(stopped) ==
    IF NPackets' = 0 THEN RunEnd("no packet")
    ELSE IF stopped THEN RunEnd("stopped")
    ELSE /\ quota' = quota - 1
         /\ running' = (quota' > 0)
         /\ ended' = IF quota' > 0 THEN ended ELSE "quota"

\* Mutant: Run ends after a packet the manager did not send.
TransmitOrEnd(d) ==
    \E v \in VirtualSend(d.item.req), q \in {d.item.tx} :
        /\ queue' = d.queue /\ requeued' = << >>
        /\ store' = v.store
        /\ device' = IF v.sent /\ ~ Stopped(q) THEN [device EXCEPT ![q] = @ + 1] ELSE device
        /\ refused' = (refused \/ (v.sent /\ Stopped(q)))
        /\ last' = [last EXCEPT ![d.item.band] = d.item.no]
        /\ IF v.sent THEN GoOn(device'[q] = DeviceRoom) ELSE RunEnd("no packet")

(* The packet leaves, whatever VirtualSend answers; ForwardToSocket gives  *)
(* up if it finds the device queue stopped.                                *)
TransmitL2(d) ==
    \E v \in VirtualSend(d.item.req), q \in {d.item.tx} :
        /\ queue' = d.queue /\ requeued' = << >>
        /\ store' = v.store
        /\ device' = IF v.sent /\ ~ Stopped(q) THEN [device EXCEPT ![q] = @ + 1] ELSE device
        /\ refused' = (refused \/ (v.sent /\ Stopped(q)))
        /\ last' = [last EXCEPT ![d.item.band] = d.item.no]
        /\ GoOn(device'[q] = DeviceRoom)

\* Mutant: the packet is handed over without a look at the device.
RestartUnchecked ==
    /\ running
    /\ \/ NothingToSend
       \/ \E d \in DequeuePacketL2 : TransmitL2(d)
    /\ UNCHANGED <<txQueues, wakes, arrivals>>

RestartL2 ==
    /\ running
    /\ \/ NothingToSend
       \/ \E d \in DequeuePacketL2 :
            IF Stopped(d.item.tx) THEN RequeueL2(d) ELSE TransmitL2(d)
    /\ UNCHANGED <<txQueues, wakes, arrivals>>

Next ==
    \/ Send
    \/ \E q \in TxQueues : Transmitted(q)
    \/ \E q \in TxQueues : Wake(q)
    \/ \E k \in KeyAmounts : AddNewKeyMaterial(k)
    \/ \E k \in KeyAmounts : VirtualReceive(k)
    \/ RestartL2

Spec == Init /\ [][Next]_vars

-----------------------------------------------------------------------------

\* Packets of one band leave the queue disc in the order they reached it, the
\* one a stopped device sent back included: it goes before the rest of its band.
InOrder ==
    \A b \in Bands :
        /\ \A i, j \in DOMAIN queue[b] : i < j => queue[b][i].no < queue[b][j].no
        /\ \A i \in DOMAIN queue[b] : last[b] < queue[b][i].no
        /\ \A r \in Range(requeued) : r.band = b =>
                last[b] < r.no /\ \A i \in DOMAIN queue[b] : r.no < queue[b][i].no

\* Between two Runs a packet waits for a reason: a stopped device queue that
\* will call back, or key material or the quota that ended the last Run.  The
\* first band never waits for key material, and a requeued packet waits for its
\* own device queue only.
NoIdleWait ==
    ~ running /\ wakes = {} =>
        /\ NPackets > 0 =>
              ended \in {"no key", "quota"} \/ \E q \in TxQueues : Stopped(q)
        /\ queue[0] # << >> => ended = "quota" \/ \E q \in TxQueues : Stopped(q)
        /\ \A r \in Range(requeued) : Stopped(r.tx)

\* No packet that was protected is then given up because the device queue is
\* stopped (ForwardToSocket checks it after the keys were taken): the queue disc
\* looks first, and for the packet's own transmission queue.
NeverRefused == ~ refused

(* The packets the disc holds, those of some bands qu among them. *)
Packets(qu) == UNION {Range(qu[b]) : b \in Bands}

InDisc == Packets(queue) \cup Range(requeued)

\* A packet the disc has taken leaves it in one way, handed to the manager in a
\* Run and alone, and never enters it again: going to and fro between a band, the
\* place for the requeued packet and the loop, it is neither lost nor doubled.
OnlyHandedOver ==
    [][/\ \A p \in InDisc \ InDisc' :
              running /\ last' = [last EXCEPT ![p.band] = p.no]
       /\ \A p \in InDisc' \ InDisc : arrivals < p.no /\ p.no = arrivals']_vars
=============================================================================
