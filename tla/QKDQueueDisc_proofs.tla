------------------------ MODULE QKDQueueDisc_proofs ------------------------
(***************************************************************************)
(* Proofs about the queue disc, for every size, quota, device and packet.  *)
(* The inductive invariant adds to the properties of QKDQueueDisc that no  *)
(* packet has a number that was not given out yet, and that a Run in       *)
(* progress has some of its quota left.                                    *)
(***************************************************************************)
EXTENDS QKDQueueDisc, QKDPacketKeys_proofs, SequenceTheorems, TLAPS

(* Internal queues qu and requeued packets rs, as TypeOK has them ... *)
Typed(qu, rs) ==
    /\ DOMAIN qu = Bands /\ \A b \in Bands : qu[b] \in Seq(Item(b))
    /\ \A r \in rs : r.band \in Bands /\ r \in Item(r.band)

(* ... in the order of InOrder, after the packets la that left ... *)
Ordered(qu, rs, la) ==
    \A b \in Bands :
        /\ \A i, j \in DOMAIN qu[b] : i < j => qu[b][i].no < qu[b][j].no
        /\ \A i \in DOMAIN qu[b] : la[b] < qu[b][i].no
        /\ \A r \in rs : r.band = b =>
                la[b] < r.no /\ \A i \in DOMAIN qu[b] : r.no < qu[b][i].no

(* ... and with numbers up to n. *)
Numbered(qu, rs, la, n) ==
    /\ \A b \in Bands : la[b] <= n /\ \A i \in DOMAIN qu[b] : qu[b][i].no <= n
    /\ \A r \in rs : r.no <= n

Total(qu) == Len(qu[0]) + Len(qu[1]) + Len(qu[2])

IInv ==
    /\ TypeOK /\ InOrder /\ NoIdleWait /\ NeverRefused
    /\ Numbered(queue, Range(requeued), last, arrivals)
    /\ running => quota > 0

-----------------------------------------------------------------------------

(* There is at most one requeued packet, and it is of one band. *)
LEMMA RequeuedIsOne ==
    ASSUME TypeOK
    PROVE  \/ requeued = << >> /\ Range(requeued) = {}
           \/ \E b \in Bands : \E i \in Item(b) :
                requeued = <<i>> /\ Range(requeued) = {i}
<1>1. PICK b \in Bands : requeued \in Seq(Item(b)) /\ Len(requeued) <= 1
  BY DEF TypeOK
<1>2. CASE Len(requeued) = 0
  BY <1>1, <1>2 DEF Range
<1>3. CASE Len(requeued) = 1
  <2>1. requeued[1] \in Item(b) /\ requeued = <<requeued[1]>>
    BY <1>1, <1>3
  <2>2. Range(requeued) = {requeued[1]}
    BY <1>1, <1>3 DEF Range
  <2>. QED  BY <2>1, <2>2
<1>. QED  BY <1>1, <1>2, <1>3

(* What TypeOK and InOrder say, in the terms above. *)
LEMMA HeldNow ==
    ASSUME TypeOK
    PROVE  Typed(queue, Range(requeued))
<1>1. CASE requeued = << >> /\ Range(requeued) = {}
  BY <1>1 DEF TypeOK, Typed
<1>2. ASSUME NEW b \in Bands, NEW i \in Item(b), Range(requeued) = {i}
      PROVE  Typed(queue, Range(requeued))
  <2>1. i.band = b
    BY DEF Item
  <2>. QED  BY <1>2, <2>1 DEF TypeOK, Typed
<1>. QED  BY <1>1, <1>2, RequeuedIsOne

(* Without its first packet a queue is as before from the second on. *)
LEMMA TailOf ==
    ASSUME NEW S, NEW s \in Seq(S), s # << >>
    PROVE  /\ Head(s) = s[1] /\ Head(s) \in S /\ Tail(s) \in Seq(S)
           /\ Len(s) \in Nat \ {0} /\ Len(Tail(s)) = Len(s) - 1
           /\ DOMAIN s = 1 .. Len(s) /\ DOMAIN Tail(s) = 1 .. Len(s) - 1
           /\ \A i \in DOMAIN Tail(s) : Tail(s)[i] = s[i + 1] /\ i + 1 \in DOMAIN s
<1>1. Len(s) \in Nat \ {0} /\ DOMAIN s = 1 .. Len(s)
  OBVIOUS
<1>2. Head(s) = s[1] /\ Head(s) \in S /\ Tail(s) \in Seq(S) /\ Len(Tail(s)) = Len(s) - 1
  BY <1>1
<1>3. DOMAIN Tail(s) = 1 .. Len(s) - 1
  BY <1>2
<1>4. \A i \in 1 .. Len(s) - 1 : Tail(s)[i] = s[i + 1] /\ i + 1 \in 1 .. Len(s)
  BY <1>1
<1>. QED  BY <1>1, <1>2, <1>3, <1>4

(* The sum of three lengths ... *)
LEMMA TotalBelow ==
    ASSUME NEW x, NEW y, NEW n \in Nat, Total(y) <= n,
           \A c \in Bands : Len(x[c]) \in Nat /\ Len(y[c]) \in Nat /\ Len(x[c]) <= Len(y[c])
    PROVE  Total(x) <= n
<1> DEFINE x0 == Len(x[0])   x1 == Len(x[1])   x2 == Len(x[2])
           y0 == Len(y[0])   y1 == Len(y[1])   y2 == Len(y[2])
<1>1. x0 \in Nat /\ y0 \in Nat /\ x0 <= y0
  BY DEF Bands
<1>2. x1 \in Nat /\ y1 \in Nat /\ x1 <= y1
  BY DEF Bands
<1>3. x2 \in Nat /\ y2 \in Nat /\ x2 <= y2
  BY DEF Bands
<1>4. y0 + y1 + y2 <= n /\ Total(x) = x0 + x1 + x2
  BY DEF Total
<1>. HIDE DEF x0, x1, x2, y0, y1, y2
<1>. QED  BY <1>1, <1>2, <1>3, <1>4

(* ... and with one packet more. *)
LEMMA TotalOneMore ==
    ASSUME NEW x, NEW y, NEW n \in Nat, NEW b \in Bands, Total(y) < n,
           \A c \in Bands : Len(y[c]) \in Nat,
           Len(x[b]) = Len(y[b]) + 1, \A c \in Bands : c # b => x[c] = y[c]
    PROVE  Total(x) <= n
<1> DEFINE x0 == Len(x[0])   x1 == Len(x[1])   x2 == Len(x[2])
           y0 == Len(y[0])   y1 == Len(y[1])   y2 == Len(y[2])
<1>1. y0 \in Nat /\ y1 \in Nat /\ y2 \in Nat
  BY DEF Bands
<1>2. \/ x0 = y0 + 1 /\ x1 = y1 /\ x2 = y2
      \/ x0 = y0 /\ x1 = y1 + 1 /\ x2 = y2
      \/ x0 = y0 /\ x1 = y1 /\ x2 = y2 + 1
  <2>1. b = 0 \/ b = 1 \/ b = 2
    BY DEF Bands
  <2>. QED  BY <2>1 DEF Bands
<1>3. y0 + y1 + y2 < n /\ Total(x) = x0 + x1 + x2
  BY DEF Total
<1>. HIDE DEF x0, x1, x2, y0, y1, y2
<1>. QED  BY <1>1, <1>2, <1>3

(* The packet that DequeuePacketL2 returns goes before all that stay. *)
LEMMA Dequeued ==
    ASSUME IInv, NEW d \in DequeuePacketL2
    PROVE  /\ Typed(d.queue, {d.item})
           /\ Ordered(d.queue, {d.item}, last)
           /\ Numbered(d.queue, {d.item}, last, arrivals)
           /\ Total(d.queue) <= MaxSize
<1>t. Typed(queue, Range(requeued)) /\ Ordered(queue, Range(requeued), last)
      /\ Numbered(queue, Range(requeued), last, arrivals) /\ Total(queue) <= MaxSize
  BY HeldNow DEF IInv, TypeOK, InOrder, Ordered, Total
<1>1. ASSUME NEW i \in Range(requeued), d = [item |-> i, queue |-> queue]
      PROVE  /\ Typed(d.queue, {d.item})
             /\ Ordered(d.queue, {d.item}, last)
             /\ Numbered(d.queue, {d.item}, last, arrivals)
             /\ Total(d.queue) <= MaxSize
  <2>1. d.item = i /\ d.queue = queue
    BY <1>1
  <2>2. Typed(queue, {i})
    BY <1>t DEF Typed
  <2>3. Ordered(queue, {i}, last)
    BY <1>t DEF Ordered
  <2>4. Numbered(queue, {i}, last, arrivals)
    BY <1>t DEF Numbered
  <2>. QED  BY <1>t, <2>1, <2>2, <2>3, <2>4
<1>2. ASSUME NEW b \in Bands, queue[b] # << >>,
             d = [item |-> Head(queue[b]), queue |-> [queue EXCEPT ![b] = Tail(@)]]
      PROVE  /\ Typed(d.queue, {d.item})
             /\ Ordered(d.queue, {d.item}, last)
             /\ Numbered(d.queue, {d.item}, last, arrivals)
             /\ Total(d.queue) <= MaxSize
  <2> DEFINE s == queue[b]     h == Head(s)
             qu == [queue EXCEPT ![b] = Tail(@)]
  <2>1. d.item = h /\ d.queue = qu
    BY <1>2
  <2>2. s \in Seq(Item(b))
    BY <1>t DEF Typed
  <2>3. /\ h = s[1] /\ h \in Item(b) /\ Tail(s) \in Seq(Item(b))
        /\ Len(s) \in Nat \ {0} /\ Len(Tail(s)) = Len(s) - 1
        /\ DOMAIN s = 1 .. Len(s) /\ DOMAIN Tail(s) = 1 .. Len(s) - 1
        /\ \A i \in DOMAIN Tail(s) : Tail(s)[i] = s[i + 1] /\ i + 1 \in DOMAIN s
    BY <1>2, <2>2, TailOf
  <2>4. h.band = b
    BY <2>3 DEF Item
  <2>5. /\ DOMAIN qu = Bands /\ qu[b] = Tail(s)
        /\ \A c \in Bands : c # b => qu[c] = queue[c]
    BY <1>t DEF Typed
  <2>. HIDE DEF s, h, qu
  <2>6. Typed(qu, {h})
    BY <1>t, <2>3, <2>4, <2>5 DEF Typed
  <2>7. Ordered(qu, {h}, last)
    <3>s. /\ \A i, j \in DOMAIN s : i < j => s[i].no < s[j].no
          /\ \A i \in DOMAIN s : last[b] < s[i].no
      BY <1>t DEF Ordered, s
    <3>1. ASSUME NEW c \in Bands, c # b
          PROVE  /\ \A i, j \in DOMAIN qu[c] : i < j => qu[c][i].no < qu[c][j].no
                 /\ \A i \in DOMAIN qu[c] : last[c] < qu[c][i].no
                 /\ h.band # c
      BY <1>t, <2>4, <2>5, <3>1 DEF Ordered
    <3>2. \A i, j \in DOMAIN Tail(s) : i < j => Tail(s)[i].no < Tail(s)[j].no
      <4>1. SUFFICES ASSUME NEW i \in DOMAIN Tail(s), NEW j \in DOMAIN Tail(s), i < j
                     PROVE  s[i + 1].no < s[j + 1].no
        BY <2>3
      <4>2. i + 1 \in DOMAIN s /\ j + 1 \in DOMAIN s /\ i + 1 < j + 1
        BY <2>3, <4>1
      <4>. QED  BY <3>s, <4>2
    <3>3. \A i \in DOMAIN Tail(s) : last[b] < Tail(s)[i].no
      BY <2>3, <3>s
    <3>4. last[b] < h.no
      BY <2>3, <3>s
    <3>5. \A i \in DOMAIN Tail(s) : h.no < Tail(s)[i].no
      <4>1. SUFFICES ASSUME NEW i \in DOMAIN Tail(s)
                     PROVE  s[1].no < s[i + 1].no
        BY <2>3
      <4>2. 1 \in DOMAIN s /\ i + 1 \in DOMAIN s /\ 1 < i + 1
        BY <2>3
      <4>. QED  BY <3>s, <4>2
    <3>. QED  BY <2>4, <2>5, <3>1, <3>2, <3>3, <3>4, <3>5 DEF Ordered
  <2>8. Numbered(qu, {h}, last, arrivals)
    <3>1. \A i \in DOMAIN s : s[i].no <= arrivals
      BY <1>t DEF Numbered, s
    <3>2. h.no <= arrivals /\ \A i \in DOMAIN Tail(s) : Tail(s)[i].no <= arrivals
      BY <2>3, <3>1
    <3>. QED  BY <1>t, <2>5, <3>2 DEF Numbered
  <2>9. Total(qu) <= MaxSize
    <3>1. \A c \in Bands : Len(queue[c]) \in Nat
      BY <1>t DEF Typed
    <3>2. Len(qu[b]) \in Nat /\ Len(qu[b]) <= Len(queue[b])
      BY <2>3, <2>5, <3>1 DEF s
    <3>3. ASSUME NEW c \in Bands
          PROVE  Len(qu[c]) \in Nat /\ Len(queue[c]) \in Nat /\ Len(qu[c]) <= Len(queue[c])
      <4>1. CASE c = b
        BY <3>1, <3>2, <4>1
      <4>2. CASE c # b
        <5>1. qu[c] = queue[c]
          BY <2>5, <4>2
        <5>. QED  BY <3>1, <5>1
      <4>. QED  BY <4>1, <4>2
    <3>. QED  BY <1>t, <3>3, TotalBelow, DiscAssumption
  <2>. QED  BY <2>1, <2>6, <2>7, <2>8, <2>9
<1>3. (\E i \in Range(requeued) : d = [item |-> i, queue |-> queue])
      \/ (\E b \in Bands : /\ queue[b] # << >>
             /\ d = [item |-> Head(queue[b]), queue |-> [queue EXCEPT ![b] = Tail(@)]])
  BY DEF DequeuePacketL2, FromRequeued, FromBands, FirstBand, Waiting
<1>. QED  BY <1>1, <1>2, <1>3

-----------------------------------------------------------------------------

LEMMA InitInv == Init => IInv
<1>. SUFFICES ASSUME Init PROVE IInv
  OBVIOUS
<1>1. DOMAIN queue = Bands /\ \A b \in Bands : queue[b] = << >>
  BY DEF Init
<1>2. requeued = << >> /\ Range(requeued) = {} /\ requeued \in Seq(Item(0))
  BY DEF Init, Range
<1>3. queue[0] = << >> /\ queue[1] = << >> /\ queue[2] = << >>
  BY <1>1 DEF Bands
<1>4. store \in Store
  <2>1. InitialAmounts \subseteq Nat /\ Thr \in Nat
    BY DiscAssumption, StoreAssumption
  <2>. QED  BY <2>1 DEF Init, Store
<1>5. TypeOK
  BY <1>1, <1>2, <1>3, <1>4, DiscAssumption DEF Init, TypeOK, Bands, Ends, TxQueues
<1>6. InOrder
  BY <1>1, <1>2 DEF InOrder
<1>7. NoIdleWait
  BY <1>2, <1>3 DEF NoIdleWait, NPackets
<1>8. Numbered(queue, Range(requeued), last, arrivals)
  BY <1>1, <1>2 DEF Init, Numbered
<1>. QED  BY <1>5, <1>6, <1>7, <1>8 DEF Init, IInv, NeverRefused

(* Appending a packet to a queue. *)
LEMMA AppendOf ==
    ASSUME NEW S, NEW s \in Seq(S), NEW e \in S
    PROVE  /\ Append(s, e) \in Seq(S) /\ Append(s, e) # << >>
           /\ Len(s) \in Nat /\ Len(Append(s, e)) = Len(s) + 1
           /\ DOMAIN s = 1 .. Len(s) /\ DOMAIN Append(s, e) = 1 .. Len(s) + 1
           /\ \A i \in DOMAIN s : Append(s, e)[i] = s[i]
           /\ Append(s, e)[Len(s) + 1] = e
<1>1. Append(s, e) \in Seq(S) /\ Len(Append(s, e)) = Len(s) + 1 /\ Len(s) \in Nat
  OBVIOUS
<1>2. DOMAIN s = 1 .. Len(s) /\ DOMAIN Append(s, e) = 1 .. Len(s) + 1
  BY <1>1
<1>3. (\A i \in 1 .. Len(s) : Append(s, e)[i] = s[i]) /\ Append(s, e)[Len(s) + 1] = e
  OBVIOUS
<1>. QED  BY <1>1, <1>2, <1>3

(* A step that leaves the packets alone, between or at the beginning of    *)
(* Runs, needs only the conjuncts about what it changes. *)
LEMMA PacketsKept ==
    ASSUME IInv, UNCHANGED <<txQueues, queue, requeued, arrivals, last, ended, refused>>,
           running' \in BOOLEAN, quota' \in 0 .. Quota, running' => quota' > 0,
           device' \in [TxQueues -> 0 .. DeviceRoom], wakes' \subseteq TxQueues,
           store' \in Store, NoIdleWait'
    PROVE  IInv'
<1>1. TypeOK'
  <2>1. \A b \in Bands : Item(b)' = Item(b)
    BY DEF Item, TxQueues
  <2>2. TxQueues' = TxQueues
    BY DEF TxQueues
  <2>. QED  BY <2>1, <2>2 DEF IInv, TypeOK
<1>2. InOrder' /\ NeverRefused' /\ Numbered(queue, Range(requeued), last, arrivals)'
  BY DEF IInv, InOrder, NeverRefused, Numbered
<1>. QED  BY <1>1, <1>2 DEF IInv

LEMMA TransmittedStep == ASSUME IInv, NEW q \in TxQueues, Transmitted(q) PROVE IInv'
<1>. USE DEF IInv
<1>1. device \in [TxQueues -> 0 .. DeviceRoom] /\ DeviceRoom \in Nat
  BY DiscAssumption DEF TypeOK
<1>2. device[q] \in 0 .. DeviceRoom /\ device[q] > 0
  BY <1>1 DEF Transmitted
<1>3. device[q] - 1 \in 0 .. DeviceRoom
  BY <1>1, <1>2
<1>4. device' \in [TxQueues -> 0 .. DeviceRoom]
  BY <1>1, <1>3 DEF Transmitted
<1>5. wakes' \subseteq TxQueues
  BY DEF Transmitted, TypeOK
<1>6. NoIdleWait'
  <2>1. SUFFICES ASSUME wakes' = {} PROVE NoIdleWait'
    BY DEF NoIdleWait
  <2>2. ~ Stopped(q) /\ wakes = {}
    BY <2>1 DEF Transmitted
  <2>3. device'[q] = device[q] - 1 /\ \A x \in TxQueues : x # q => device'[x] = device[x]
    BY <1>1 DEF Transmitted
  <2>4. \A x \in TxQueues : Stopped(x) => Stopped(x)'
    BY <2>2, <2>3 DEF Stopped
  <2>5. TxQueues' = TxQueues /\ NPackets' = NPackets
    BY DEF Transmitted, TxQueues, NPackets
  <2>6. \A r \in Range(requeued) : r.tx \in TxQueues
    BY HeldNow DEF Typed, Item
  <2>7. UNCHANGED <<queue, requeued, running, ended>>
    BY DEF Transmitted
  <2>. QED  BY <2>2, <2>4, <2>5, <2>6, <2>7 DEF NoIdleWait
<1>7. store' \in Store /\ running' \in BOOLEAN /\ quota' \in 0 .. Quota /\ (running' => quota' > 0)
  BY DEF Transmitted, TypeOK
<1>. QED  BY <1>4, <1>5, <1>6, <1>7, PacketsKept DEF Transmitted

LEMMA WakeStep == ASSUME IInv, NEW q \in TxQueues, Wake(q) PROVE IInv'
<1>1. running' = TRUE /\ quota' = Quota
  BY DEF Wake, RunBegin
<1>2. quota' \in 0 .. Quota /\ quota' > 0
  BY <1>1, DiscAssumption
<1>3. NoIdleWait'
  BY <1>1 DEF NoIdleWait
<1>. QED  BY <1>1, <1>2, <1>3, PacketsKept DEF Wake, IInv, TypeOK

(* Key material that comes or goes: of the queue disc nothing changes. *)
LEMMA KeyStep ==
    ASSUME IInv, store' \in Store,
           UNCHANGED <<txQueues, queue, requeued, running, quota, device, wakes,
                       arrivals, last, ended, refused>>
    PROVE  IInv'
<1>1. NoIdleWait'
  BY DEF IInv, NoIdleWait, NPackets, Stopped, TxQueues
<1>. QED  BY <1>1, PacketsKept DEF IInv, TypeOK
LEMMA AddNewKeyMaterialStep ==
    ASSUME IInv, NEW k \in KeyAmounts, AddNewKeyMaterial(k) PROVE IInv'
<1>1. k \in Nat /\ store \in Store
  BY DiscAssumption DEF IInv, TypeOK
<1>2. store' \in Store
  BY <1>1, AfterChargeType DEF AddNewKeyMaterial
<1>. QED  BY <1>2, KeyStep DEF AddNewKeyMaterial

LEMMA VirtualReceiveStep ==
    ASSUME IInv, NEW k \in KeyAmounts, VirtualReceive(k) PROVE IInv'
<1>1. k \in Nat /\ store \in Store
  BY DiscAssumption DEF IInv, TypeOK
<1>2. PICK p \in TakeKey(store, k) : store' = p.store
  BY DEF VirtualReceive
<1>3. store' \in Store
  BY <1>1, <1>2, TakeKeyResult
<1>. QED  BY <1>3, KeyStep DEF VirtualReceive

-----------------------------------------------------------------------------

(* Packets in order and within MaxSize stay so in the next state ... *)
LEMMA PacketsNext ==
    ASSUME IInv, txQueues' = txQueues, arrivals' \in Nat,
           Typed(queue', Range(requeued')), Ordered(queue', Range(requeued'), last'),
           Numbered(queue', Range(requeued'), last', arrivals'), Total(queue') <= MaxSize,
           \E b \in Bands : requeued' \in Seq(Item(b)) /\ Len(requeued') <= 1,
           device' \in [TxQueues -> 0 .. DeviceRoom], wakes' \subseteq TxQueues,
           store' \in Store, last' \in [Bands -> Nat], ended' \in Ends,
           running' \in BOOLEAN, quota' \in 0 .. Quota, running' => quota' > 0,
           NoIdleWait', refused' = FALSE
    PROVE  IInv'
<1>1. TxQueues' = TxQueues /\ \A b \in Bands : Item(b)' = Item(b)
  BY DEF Item, TxQueues
<1>2. TypeOK'
  BY <1>1 DEF IInv, TypeOK, Typed, Total
<1>3. InOrder' /\ Numbered(queue, Range(requeued), last, arrivals)'
  BY DEF InOrder, Ordered, Numbered
<1>. QED  BY <1>2, <1>3 DEF IInv, NeverRefused

LEMMA SendStep == ASSUME IInv, Send PROVE IInv'
<1>t. Typed(queue, Range(requeued)) /\ Ordered(queue, Range(requeued), last)
      /\ Numbered(queue, Range(requeued), last, arrivals) /\ Total(queue) <= MaxSize
  BY HeldNow DEF IInv, TypeOK, InOrder, Ordered, Total
<1>a. /\ arrivals \in Nat /\ arrivals' = arrivals + 1 /\ arrivals' \in Nat
      /\ last \in [Bands -> Nat]
      /\ \A b \in Bands : \A i \in DOMAIN queue[b] : queue[b][i].no \in Nat
      /\ \A r \in Range(requeued) : r.no \in Nat
  <2>1. \A b \in Bands : \A i \in DOMAIN queue[b] : queue[b][i] \in Item(b)
    BY <1>t DEF Typed
  <2>. QED  BY <1>t, <2>1 DEF Send, IInv, TypeOK, Typed, Item
<1>k. UNCHANGED <<txQueues, requeued, device, wakes, store, last, ended, refused>>
      /\ running' = TRUE /\ quota' = Quota
  BY DEF Send, RunBegin
<1>r. /\ txQueues' = txQueues /\ arrivals' \in Nat
      /\ \E b \in Bands : requeued' \in Seq(Item(b)) /\ Len(requeued') <= 1
      /\ device' \in [TxQueues -> 0 .. DeviceRoom] /\ wakes' \subseteq TxQueues
      /\ store' \in Store /\ last' \in [Bands -> Nat] /\ ended' \in Ends
      /\ running' \in BOOLEAN /\ quota' \in 0 .. Quota /\ (running' => quota' > 0)
      /\ NoIdleWait' /\ refused' = FALSE
  <2>1. Quota \in 0 .. Quota /\ Quota > 0
    BY DiscAssumption
  <2>2. NoIdleWait'
    BY <1>k DEF NoIdleWait
  <2>. QED  BY <1>a, <1>k, <2>1, <2>2 DEF IInv, TypeOK, NeverRefused
<1>1. CASE queue' = queue
  <2>1. Numbered(queue', Range(requeued'), last', arrivals')
    <3>1. /\ \A b \in Bands : last[b] <= arrivals'
          /\ \A b \in Bands : \A i \in DOMAIN queue[b] : queue[b][i].no <= arrivals'
          /\ \A r \in Range(requeued) : r.no <= arrivals'
      BY <1>t, <1>a DEF Numbered
    <3>. QED  BY <1>k, <1>1, <3>1 DEF Numbered
  <2>2. Typed(queue', Range(requeued')) /\ Ordered(queue', Range(requeued'), last')
        /\ Total(queue') <= MaxSize
    BY <1>t, <1>k, <1>1
  <2>. QED  BY <1>r, <2>1, <2>2, PacketsNext
<1>2. ASSUME NEW b \in Bands, NEW e \in Item(b), e.no = arrivals', NPackets < MaxSize,
             queue' = [queue EXCEPT ![b] = Append(@, e)]
      PROVE  IInv'
  <2> DEFINE s == queue[b]
             t == Append(s, e)
  <2>1. s \in Seq(Item(b))
    BY <1>t DEF Typed
  <2>2. /\ t \in Seq(Item(b)) /\ Len(s) \in Nat /\ Len(t) = Len(s) + 1
        /\ DOMAIN s = 1 .. Len(s) /\ DOMAIN t = 1 .. Len(s) + 1
        /\ \A i \in DOMAIN s : t[i] = s[i]
        /\ t[Len(s) + 1] = e
    BY <2>1, AppendOf
  <2>3. /\ DOMAIN queue' = Bands /\ queue'[b] = t
        /\ \A c \in Bands : c # b => queue'[c] = queue[c]
    BY <1>t, <1>2 DEF Typed
  <2>n. /\ \A i \in DOMAIN s : s[i].no \in Nat /\ s[i].no < e.no
        /\ last[b] < e.no
        /\ \A r \in Range(requeued) : r.no < e.no
    BY <1>t, <1>a, <1>2 DEF Numbered
  <2>o. /\ \A i, j \in DOMAIN s : i < j => s[i].no < s[j].no
        /\ \A i \in DOMAIN s : last[b] < s[i].no
        /\ \A r \in Range(requeued) : r.band = b =>
                last[b] < r.no /\ \A i \in DOMAIN s : r.no < s[i].no
    BY <1>t DEF Ordered
  <2>e. e.no = arrivals + 1 /\ \A i \in DOMAIN s : s[i].no <= arrivals
    BY <1>t, <1>a, <1>2 DEF Numbered
  <2>. HIDE DEF s, t
  <2>d. \A i \in DOMAIN t : i \in DOMAIN s \/ i = Len(s) + 1
    BY <2>2
  <2>4. Typed(queue', Range(requeued'))
    BY <1>t, <1>k, <2>2, <2>3 DEF Typed
  <2>5. Ordered(queue', Range(requeued'), last')
    <3>1. \A i, j \in DOMAIN t : i < j => t[i].no < t[j].no
      <4>1. SUFFICES ASSUME NEW i \in DOMAIN t, NEW j \in DOMAIN t, i < j
                     PROVE  t[i].no < t[j].no
        OBVIOUS
      <4>2. i \in DOMAIN s
        BY <2>2, <4>1
      <4>. QED  BY <2>2, <2>d, <2>n, <2>o, <4>1, <4>2
    <3>2. \A i \in DOMAIN t : last[b] < t[i].no
      BY <2>2, <2>d, <2>n, <2>o
    <3>3. \A r \in Range(requeued) : r.band = b =>
                last[b] < r.no /\ \A i \in DOMAIN t : r.no < t[i].no
      BY <2>2, <2>d, <2>n, <2>o
    <3>. QED  BY <1>t, <1>k, <2>3, <3>1, <3>2, <3>3 DEF Ordered
  <2>6. Numbered(queue', Range(requeued'), last', arrivals')
    <3>1. \A i \in DOMAIN t : t[i].no <= arrivals'
      BY <1>a, <2>2, <2>d, <2>e, <2>n
    <3>2. /\ \A c \in Bands : last[c] <= arrivals'
          /\ \A c \in Bands : \A i \in DOMAIN queue[c] : queue[c][i].no <= arrivals'
          /\ \A r \in Range(requeued) : r.no <= arrivals'
      BY <1>t, <1>a DEF Numbered
    <3>. QED  BY <1>k, <2>3, <3>1, <3>2 DEF Numbered
  <2>7. Total(queue') <= MaxSize
    <3>1. \A c \in Bands : Len(queue[c]) \in Nat
      BY <1>t DEF Typed
    <3>2. Len(queue'[b]) = Len(queue[b]) + 1
      BY <2>2, <2>3 DEF s
    <3>3. Total(queue) < MaxSize
      BY <1>2 DEF NPackets, Total
    <3>. QED  BY <2>3, <3>1, <3>2, <3>3, TotalOneMore, DiscAssumption
  <2>. QED  BY <1>r, <2>4, <2>5, <2>6, <2>7, PacketsNext
<1>3. PICK b \in Bands, q \in TxQueues, r \in Requests :
         queue' = IF ~ Accepts THEN queue
                  ELSE [queue EXCEPT ![b] =
                          Append(@, [no |-> arrivals', band |-> b, tx |-> q, req |-> r])]
  BY DEF Send
<1>4. [no |-> arrivals', band |-> b, tx |-> q, req |-> r] \in Item(b)
  BY <1>a DEF Item
<1>. QED  BY <1>1, <1>2, <1>3, <1>4 DEF Accepts
-----------------------------------------------------------------------------
(* The steps of Run. *)

LEMMA NothingToSendStep ==
    ASSUME IInv, running, NothingToSend, UNCHANGED <<txQueues, wakes, arrivals>>
    PROVE  IInv'
<1>t. Typed(queue, Range(requeued)) /\ Ordered(queue, Range(requeued), last)
      /\ Numbered(queue, Range(requeued), last, arrivals) /\ Total(queue) <= MaxSize
  BY HeldNow DEF IInv, TypeOK, InOrder, Ordered, Total
<1>k. UNCHANGED <<queue, requeued, device, store, last, refused>>
      /\ running' = FALSE /\ UNCHANGED quota
  BY DEF NothingToSend, RunEnd
<1>1. \A r \in Range(requeued) : Stopped(r.tx)
  BY DEF NothingToSend, DequeuePacketL2, FromRequeued
<1>2. requeued = << >> \/ \E q \in TxQueues : Stopped(q)
  <2>1. ASSUME NEW b \in Bands, NEW i \in Item(b), Range(requeued) = {i}
        PROVE  \E q \in TxQueues : Stopped(q)
    BY <1>1, <2>1 DEF Item
  <2>. QED  BY <2>1, RequeuedIsOne DEF IInv
<1>3. MayDequeue \/ \E q \in TxQueues : Stopped(q)
  BY DiscAssumption DEF MayDequeue, TxQueues, IInv, TypeOK
<1>4. ASSUME requeued = << >>, MayDequeue, queue[0] # << >> PROVE FALSE
  <2>1. FirstBand(0)
    BY <1>4 DEF FirstBand, Waiting, Served, Bands
  <2>2. 0 \in {c \in Bands : requeued = << >> /\ MayDequeue /\ FirstBand(c)}
    BY <1>4, <2>1 DEF Bands
  <2>3. [item |-> Head(queue[0]), queue |-> [queue EXCEPT ![0] = Tail(@)]] \in FromBands
    BY <2>2 DEF FromBands
  <2>. QED  BY <2>3 DEF NothingToSend, DequeuePacketL2
<1>5. ended' = IF requeued # << >> \/ ~ MayDequeue THEN "stopped"
               ELSE IF NPackets = 0 THEN "no packet" ELSE "no key"
  BY DEF NothingToSend, RunEnd
<1>6. NPackets > 0 => NPackets # 0
  <2>1. ASSUME NPackets = 0 PROVE ~ (NPackets > 0)
    BY <2>1
  <2>. QED  BY <2>1
<1>7. NoIdleWait'
  <2>1. NPackets' = NPackets /\ TxQueues' = TxQueues /\ \A q : Stopped(q)' = Stopped(q)
    BY <1>k DEF NPackets, TxQueues, Stopped
  <2>2. NPackets > 0 => ended' \in {"no key", "quota"} \/ \E q \in TxQueues : Stopped(q)
    BY <1>2, <1>3, <1>5, <1>6
  <2>3. queue[0] # << >> => \E q \in TxQueues : Stopped(q)
    BY <1>2, <1>3, <1>4
  <2>. QED  BY <1>1, <1>k, <2>1, <2>2, <2>3 DEF NoIdleWait
<1>. QED  BY <1>t, <1>k, <1>5, <1>7, PacketsNext DEF IInv, TypeOK, NeverRefused, Ends

(* One packet as the sequence of requeued packets. *)
LEMMA OnePacket == ASSUME NEW i PROVE Range(<<i>>) = {i} /\ Len(<<i>>) = 1
  BY DEF Range

LEMMA RequeueL2Step ==
    ASSUME IInv, running, NEW d \in DequeuePacketL2, Stopped(d.item.tx), RequeueL2(d),
           UNCHANGED <<txQueues, wakes, arrivals>>
    PROVE  IInv'
<1>1. Typed(d.queue, {d.item}) /\ Ordered(d.queue, {d.item}, last)
      /\ Numbered(d.queue, {d.item}, last, arrivals) /\ Total(d.queue) <= MaxSize
  BY Dequeued
<1>2. /\ queue' = d.queue /\ requeued' = <<d.item>> /\ Range(requeued') = {d.item}
      /\ UNCHANGED <<device, store, last, refused, quota>>
      /\ running' = FALSE /\ ended' = "stopped"
  BY OnePacket DEF RequeueL2, RunEnd
<1>3. d.item.band \in Bands /\ d.item \in Item(d.item.band) /\ d.item.tx \in TxQueues
  BY <1>1 DEF Typed, Item
<1>4. requeued' \in Seq(Item(d.item.band)) /\ Len(requeued') <= 1
  BY <1>2, <1>3, OnePacket
<1>5. TxQueues' = TxQueues /\ Stopped(d.item.tx)'
  BY <1>2 DEF TxQueues, Stopped
<1>6. NoIdleWait'
  BY <1>2, <1>3, <1>5 DEF NoIdleWait
<1>. QED  BY <1>1, <1>2, <1>3, <1>4, <1>6, PacketsNext DEF IInv, TypeOK, NeverRefused, Ends

(* Whatever the manager does with a packet, the key buffer stays one. *)
LEMMA VirtualSendType ==
    ASSUME store \in Store, NEW r \in Request, NEW v \in VirtualSend(r)
    PROVE  v.store \in Store /\ v.sent \in BOOLEAN
<1>1. PICK need \in FirstNeeds(r) :
         v \in IF ~ Check(store, need, r.top) THEN {[store |-> store, sent |-> FALSE]}
               ELSE {[store |-> p.store, sent |-> p.ok /\ Check(p.store, more, r.top)] :
                        p \in TakeKeys(store, EncBits(r), AuthBits(r)),
                        more \in SecondNeeds(r)}
  BY DEF VirtualSend
<1>2. CASE v = [store |-> store, sent |-> FALSE]
  BY <1>2
<1>3. ASSUME NEW p \in TakeKeys(store, EncBits(r), AuthBits(r)), NEW more,
             v = [store |-> p.store, sent |-> p.ok /\ Check(p.store, more, r.top)]
      PROVE  v.store \in Store /\ v.sent \in BOOLEAN
  <2>1. p.store \in Store /\ p.ok \in BOOLEAN
    BY BitsType, TakeKeysResult
  <2>2. (p.ok /\ Check(p.store, more, r.top)) \in BOOLEAN
    OBVIOUS
  <2>. QED  BY <1>3, <2>1, <2>2
<1>. QED  BY <1>1, <1>2, <1>3
LEMMA TransmitL2Step ==
    ASSUME IInv, running, NEW d \in DequeuePacketL2, ~ Stopped(d.item.tx), TransmitL2(d),
           UNCHANGED <<txQueues, wakes, arrivals>>
    PROVE  IInv'
<1> DEFINE i == d.item
           q == i.tx
<1>1. Typed(d.queue, {i}) /\ Ordered(d.queue, {i}, last)
      /\ Numbered(d.queue, {i}, last, arrivals) /\ Total(d.queue) <= MaxSize
  BY Dequeued
<1>2. /\ i.band \in Bands /\ i \in Item(i.band) /\ q \in TxQueues
      /\ i.no \in Nat /\ i.req \in Request
  BY <1>1, DiscAssumption DEF Typed, Item
<1>3. PICK v \in VirtualSend(i.req) :
         /\ queue' = d.queue /\ requeued' = << >>
         /\ store' = v.store
         /\ device' = IF v.sent /\ ~ Stopped(q) THEN [device EXCEPT ![q] = @ + 1] ELSE device
         /\ refused' = (refused \/ (v.sent /\ Stopped(q)))
         /\ last' = [last EXCEPT ![i.band] = i.no]
         /\ GoOn(device'[q] = DeviceRoom)
  BY DEF TransmitL2
<1>. HIDE DEF i, q
<1>4. store' \in Store
  BY <1>2, <1>3, VirtualSendType DEF IInv, TypeOK
<1>5. refused' = FALSE
  BY <1>3 DEF IInv, NeverRefused, q, i
<1>6. device' \in [TxQueues -> 0 .. DeviceRoom]
  <2>1. device \in [TxQueues -> 0 .. DeviceRoom] /\ DeviceRoom \in Nat
    BY DiscAssumption DEF IInv, TypeOK
  <2>2. device[q] \in 0 .. DeviceRoom /\ device[q] # DeviceRoom
    BY <1>2, <2>1 DEF Stopped, q, i
  <2>3. device[q] + 1 \in 0 .. DeviceRoom
    BY <2>1, <2>2
  <2>. QED  BY <1>3, <2>1, <2>3
<1>7. last' \in [Bands -> Nat] /\ last'[i.band] = i.no
      /\ \A b \in Bands : b # i.band => last'[b] = last[b]
  BY <1>2, <1>3 DEF IInv, TypeOK
<1>8. Range(requeued') = {} /\ requeued' \in Seq(Item(0)) /\ Len(requeued') <= 1
      /\ 0 \in Bands
  BY <1>3 DEF Range, Bands
<1>9. Typed(queue', Range(requeued'))
  BY <1>1, <1>3, <1>8 DEF Typed
<1>10. Ordered(queue', Range(requeued'), last')
  <2>1. /\ \A k, l \in DOMAIN d.queue[i.band] :
                k < l => d.queue[i.band][k].no < d.queue[i.band][l].no
        /\ \A k \in DOMAIN d.queue[i.band] : i.no < d.queue[i.band][k].no
    BY <1>1, <1>2 DEF Ordered
  <2>2. ASSUME NEW b \in Bands, b # i.band
        PROVE  /\ \A k, l \in DOMAIN d.queue[b] :
                      k < l => d.queue[b][k].no < d.queue[b][l].no
               /\ \A k \in DOMAIN d.queue[b] : last[b] < d.queue[b][k].no
    BY <1>1, <2>2 DEF Ordered
  <2>. QED  BY <1>3, <1>7, <1>8, <2>1, <2>2 DEF Ordered
<1>11. Numbered(queue', Range(requeued'), last', arrivals')
  BY <1>1, <1>2, <1>3, <1>7, <1>8 DEF Numbered
<1>12. /\ running' \in BOOLEAN /\ quota' \in 0 .. Quota /\ (running' => quota' > 0)
       /\ ended' \in Ends
  <2>1. quota \in 0 .. Quota /\ quota > 0 /\ Quota \in Nat /\ ended \in Ends
    BY DiscAssumption DEF IInv, TypeOK
  <2>2. quota - 1 \in 0 .. Quota
    BY <2>1
  <2>3. CASE NPackets' = 0
    BY <1>3, <2>1, <2>3 DEF GoOn, RunEnd, Ends
  <2>4. CASE NPackets' # 0 /\ device'[q] = DeviceRoom
    BY <1>3, <2>1, <2>4 DEF GoOn, RunEnd, Ends
  <2>5. CASE NPackets' # 0 /\ device'[q] # DeviceRoom
    <3>1. quota' = quota - 1 /\ running' = (quota' > 0)
          /\ ended' = IF quota' > 0 THEN ended ELSE "quota"
      BY <1>3, <2>5 DEF GoOn
    <3>i. quota' \in Int
      BY <2>1, <3>1
    <3>2. running' \in BOOLEAN /\ (running' => quota' > 0)
      <4>1. CASE quota - 1 > 0
        <5>1. quota' > 0
          BY <3>1, <4>1
        <5>2. running' = TRUE
          BY <3>1, <5>1
        <5>. QED  BY <5>1, <5>2
      <4>2. CASE ~ (quota - 1 > 0)
        <5>1. ~ (quota' > 0)
          BY <3>1, <4>2
        <5>2. running' = (quota' > 0)
          BY <3>1
        <5>3. (quota' > 0) = FALSE
          BY <3>i, <5>1
        <5>4. running' = FALSE
          BY <5>2, <5>3
        <5>. QED  BY <5>4
      <4>. QED  BY <4>1, <4>2
    <3>3. ended' \in Ends
      BY <2>1, <3>1 DEF Ends
    <3>. QED  BY <2>2, <3>1, <3>2, <3>3
  <2>. QED  BY <2>3, <2>4, <2>5
<1>13. NoIdleWait'
  <2>1. SUFFICES ASSUME ~ running' PROVE NoIdleWait'
    BY DEF NoIdleWait
  <2>2. TxQueues' = TxQueues /\ q \in TxQueues /\ Stopped(q)' = (device'[q] = DeviceRoom)
    BY <1>2 DEF TxQueues, Stopped
  <2>3. CASE NPackets' = 0
    <3>1. \A b \in Bands : Len(queue'[b]) \in Nat
      BY <1>9 DEF Typed
    <3>2. Len(queue'[0]) \in Nat /\ Len(queue'[1]) \in Nat /\ Len(queue'[2]) \in Nat
      BY <3>1 DEF Bands
    <3>3. Len(queue'[0]) = 0
      <4> DEFINE l0 == Len(queue'[0])   l1 == Len(queue'[1])   l2 == Len(queue'[2])
      <4>1. l0 + l1 + l2 = 0
        BY <2>3 DEF NPackets
      <4>2. l0 \in Nat /\ l1 \in Nat /\ l2 \in Nat
        BY <3>2
      <4>. HIDE DEF l0, l1, l2
      <4>3. l0 = 0
        BY <4>1, <4>2
      <4>. QED  BY <4>3 DEF l0
    <3>4. queue'[0] = << >>
      <4>1. queue'[0] \in Seq(Item(0))
        BY <1>9 DEF Typed, Bands
      <4>. QED  BY <3>3, <4>1, EmptySeq
    <3>5. ~ (NPackets' > 0)
      BY <2>3
    <3>. QED  BY <1>8, <3>4, <3>5 DEF NoIdleWait
  <2>4. CASE NPackets' # 0 /\ device'[q] = DeviceRoom
    BY <1>8, <2>2, <2>4 DEF NoIdleWait
  <2>5. CASE NPackets' # 0 /\ device'[q] # DeviceRoom
    <3>1. ended' = "quota"
      BY <1>3, <2>1, <2>5 DEF GoOn
    <3>. QED  BY <1>8, <3>1 DEF NoIdleWait
  <2>. QED  BY <2>3, <2>4, <2>5
<1>14. Total(queue') <= MaxSize /\ wakes' \subseteq TxQueues /\ arrivals' \in Nat
       /\ txQueues' = txQueues
  BY <1>1, <1>3 DEF IInv, TypeOK
<1>. QED  BY <1>4, <1>5, <1>6, <1>7, <1>8, <1>9, <1>10, <1>11, <1>12, <1>13, <1>14,
             PacketsNext

LEMMA RestartL2Step == ASSUME IInv, RestartL2 PROVE IInv'
<1>1. running /\ UNCHANGED <<txQueues, wakes, arrivals>>
  BY DEF RestartL2
<1>2. CASE NothingToSend
  BY <1>1, <1>2, NothingToSendStep
<1>3. ASSUME NEW d \in DequeuePacketL2,
             IF Stopped(d.item.tx) THEN RequeueL2(d) ELSE TransmitL2(d)
      PROVE  IInv'
  BY <1>1, <1>3, RequeueL2Step, TransmitL2Step
<1>. QED  BY <1>2, <1>3 DEF RestartL2

-----------------------------------------------------------------------------

LEMMA Inductive == IInv /\ [Next]_vars => IInv'
<1>. SUFFICES ASSUME IInv, [Next]_vars PROVE IInv'
  OBVIOUS
<1>1. CASE Send
  BY <1>1, SendStep
<1>2. CASE \E q \in TxQueues : Transmitted(q)
  BY <1>2, TransmittedStep
<1>3. CASE \E q \in TxQueues : Wake(q)
  BY <1>3, WakeStep
<1>4. CASE \E k \in KeyAmounts : AddNewKeyMaterial(k)
  BY <1>4, AddNewKeyMaterialStep
<1>5. CASE \E k \in KeyAmounts : VirtualReceive(k)
  BY <1>5, VirtualReceiveStep
<1>6. CASE RestartL2
  BY <1>6, RestartL2Step
<1>7. CASE UNCHANGED vars
  <2>1. store' \in Store
    BY <1>7 DEF vars, IInv, TypeOK
  <2>. QED  BY <1>7, <2>1, KeyStep DEF vars
<1>. QED  BY <1>1, <1>2, <1>3, <1>4, <1>5, <1>6, <1>7 DEF Next

LEMMA Invariant == Spec => []IInv
  BY InitInv, Inductive, PTL DEF Spec

\* The queue disc keeps its shape: never more than MaxSize packets in the
\* bands, at most one requeued, and never a device queue past its last place.
THEOREM TypeCorrect == Spec => []TypeOK
<1>1. IInv => TypeOK
  BY DEF IInv
<1>. QED  BY <1>1, Invariant, PTL

\* Packets of one band leave in the order they reached the queue disc, whatever
\* the device sends back.
THEOREM BandsInOrder == Spec => []InOrder
<1>1. IInv => InOrder
  BY DEF IInv
<1>. QED  BY <1>1, Invariant, PTL

\* When Run has ended and no wake is scheduled, what waits does so for a
\* stopped device queue, the key material or the quota.
THEOREM WaitsForAReason == Spec => []NoIdleWait
<1>1. IInv => NoIdleWait
  BY DEF IInv
<1>. QED  BY <1>1, Invariant, PTL

\* ForwardToSocket never meets a stopped device queue after the keys of the
\* packet are spent.
THEOREM NoKeysForNothing == Spec => []NeverRefused
<1>1. IInv => NeverRefused
  BY DEF IInv
<1>. QED  BY <1>1, Invariant, PTL
-----------------------------------------------------------------------------
(* What the disc holds, step by step. *)

(* Only the bands, the requeued packet and the numbers are in the property. *)
LEMMA StaysAsItIs ==
    ASSUME UNCHANGED <<queue, requeued>>
    PROVE  InDisc' = InDisc
  BY DEF InDisc, Packets

LEMMA HeldNext == InDisc' = Packets(queue') \cup Range(requeued')
  BY DEF InDisc, Packets

(* A queue holds its head and the packets of its tail ... *)
LEMMA RangeOfTail ==
    ASSUME NEW S, NEW s \in Seq(S), s # << >>
    PROVE  Range(s) = {Head(s)} \cup Range(Tail(s))
<1>1. /\ Head(s) = s[1] /\ Len(s) \in Nat \ {0}
      /\ DOMAIN s = 1 .. Len(s) /\ DOMAIN Tail(s) = 1 .. Len(s) - 1
      /\ \A i \in DOMAIN Tail(s) : Tail(s)[i] = s[i + 1] /\ i + 1 \in DOMAIN s
  BY TailOf
<1>2. Head(s) \in Range(s)
  BY <1>1 DEF Range
<1>3. ASSUME NEW x \in Range(Tail(s)) PROVE x \in Range(s)
  BY <1>1 DEF Range
<1>4. ASSUME NEW x \in Range(s) PROVE x = Head(s) \/ x \in Range(Tail(s))
  <2>1. PICK i \in DOMAIN s : x = s[i]
    BY DEF Range
  <2>2. CASE i = 1
    BY <1>1, <2>1, <2>2
  <2>3. CASE i # 1
    <3>1. i - 1 \in DOMAIN Tail(s) /\ (i - 1) + 1 = i
      BY <1>1, <2>1, <2>3
    <3>2. Tail(s)[i - 1] = x
      BY <1>1, <2>1, <3>1
    <3>. QED  BY <3>1, <3>2 DEF Range
  <2>. QED  BY <2>2, <2>3
<1>. QED  BY <1>2, <1>3, <1>4

(* ... and what was appended with the packets before. *)
LEMMA RangeOfAppend ==
    ASSUME NEW S, NEW s \in Seq(S), NEW e \in S
    PROVE  Range(Append(s, e)) = Range(s) \cup {e}
<1>1. /\ Len(s) \in Nat
      /\ DOMAIN s = 1 .. Len(s) /\ DOMAIN Append(s, e) = 1 .. Len(s) + 1
      /\ \A i \in DOMAIN s : Append(s, e)[i] = s[i]
      /\ Append(s, e)[Len(s) + 1] = e
  BY AppendOf
<1>2. \A i \in DOMAIN Append(s, e) : i \in DOMAIN s \/ i = Len(s) + 1
  BY <1>1
<1>3. Range(Append(s, e)) \subseteq Range(s) \cup {e}
  BY <1>1, <1>2 DEF Range
<1>4. Len(s) + 1 \in DOMAIN Append(s, e) /\ DOMAIN s \subseteq DOMAIN Append(s, e)
  BY <1>1
<1>5. Range(s) \cup {e} \subseteq Range(Append(s, e))
  BY <1>1, <1>4 DEF Range
<1>. QED  BY <1>3, <1>5

(* Bands that change in one place hold the rest of what they held. *)
LEMMA OneBandChanged ==
    ASSUME NEW x, NEW y, NEW b \in Bands, \A c \in Bands : c # b => x[c] = y[c]
    PROVE  /\ Packets(x) \ Range(x[b]) \subseteq Packets(y)
           /\ Packets(y) \ Range(y[b]) \subseteq Packets(x)
           /\ Range(x[b]) \subseteq Packets(x) /\ Range(y[b]) \subseteq Packets(y)
  BY DEF Packets

(* DequeuePacketL2 takes one packet out of the disc. *)
LEMMA DequeueTakesOne ==
    ASSUME IInv, NEW d \in DequeuePacketL2
    PROVE  InDisc = Packets(d.queue) \cup {d.item}
<1>1. ASSUME NEW i \in Range(requeued), d = [item |-> i, queue |-> queue]
      PROVE  InDisc = Packets(d.queue) \cup {d.item}
  <2>1. d.item = i /\ d.queue = queue
    BY <1>1
  <2>2. Range(requeued) = {i}
    BY <1>1, RequeuedIsOne DEF IInv
  <2>. QED  BY <2>1, <2>2 DEF InDisc
<1>2. ASSUME NEW b \in Bands, queue[b] # << >>, requeued = << >>,
             d = [item |-> Head(queue[b]), queue |-> [queue EXCEPT ![b] = Tail(@)]]
      PROVE  InDisc = Packets(d.queue) \cup {d.item}
  <2> DEFINE s == queue[b]
             qu == [queue EXCEPT ![b] = Tail(@)]
  <2>1. d.item = Head(s) /\ d.queue = qu
    BY <1>2
  <2>2. s \in Seq(Item(b)) /\ DOMAIN queue = Bands
    BY DEF IInv, TypeOK
  <2>3. Range(s) = {Head(s)} \cup Range(Tail(s))
    BY <1>2, <2>2, RangeOfTail
  <2>4. qu[b] = Tail(s) /\ \A c \in Bands : c # b => qu[c] = queue[c]
    BY <2>2
  <2>5. /\ Packets(qu) \ Range(Tail(s)) \subseteq Packets(queue)
        /\ Packets(queue) \ Range(s) \subseteq Packets(qu)
        /\ Range(Tail(s)) \subseteq Packets(qu) /\ Range(s) \subseteq Packets(queue)
    <3>. HIDE DEF qu
    <3>. QED  BY <2>4, OneBandChanged
  <2>. HIDE DEF s, qu
  <2>6. Packets(queue) = Packets(qu) \cup {Head(s)}
    BY <2>3, <2>5
  <2>7. InDisc = Packets(queue)
    BY <1>2 DEF InDisc, Range
  <2>. QED  BY <2>1, <2>6, <2>7
<1>3. (\E i \in Range(requeued) : d = [item |-> i, queue |-> queue])
      \/ (\E b \in Bands : /\ queue[b] # << >> /\ requeued = << >>
             /\ d = [item |-> Head(queue[b]), queue |-> [queue EXCEPT ![b] = Tail(@)]])
  BY DEF DequeuePacketL2, FromRequeued, FromBands, FirstBand, Waiting
<1>. QED  BY <1>1, <1>2, <1>3

(* Send adds the new packet or nothing. *)
LEMMA SendAddsOne ==
    ASSUME IInv, Send
    PROVE  /\ InDisc \subseteq InDisc'
           /\ \A p \in InDisc' \ InDisc : arrivals < p.no /\ p.no = arrivals'
<1>1. PICK b \in Bands, q \in TxQueues, r \in Requests :
         queue' = IF ~ Accepts THEN queue
                  ELSE [queue EXCEPT ![b] =
                          Append(@, [no |-> arrivals', band |-> b, tx |-> q, req |-> r])]
  BY DEF Send
<1>2. /\ arrivals \in Nat /\ arrivals' = arrivals + 1 /\ requeued' = requeued
      /\ DOMAIN queue = Bands /\ queue[b] \in Seq(Item(b))
  BY DEF Send, IInv, TypeOK
<1>3. CASE queue' = queue
  BY <1>2, <1>3, StaysAsItIs
<1>4. CASE queue' # queue
  <2> DEFINE e == [no |-> arrivals', band |-> b, tx |-> q, req |-> r]
             qu == [queue EXCEPT ![b] = Append(@, e)]
  <2>1. queue' = qu /\ e.no = arrivals' /\ e \in Item(b)
    BY <1>1, <1>2, <1>4 DEF Item
  <2>2. qu[b] = Append(queue[b], e) /\ \A c \in Bands : c # b => qu[c] = queue[c]
    BY <1>2
  <2>. HIDE DEF e, qu
  <2>3. Range(qu[b]) = Range(queue[b]) \cup {e}
    BY <1>2, <2>1, <2>2, RangeOfAppend
  <2>4. /\ Packets(qu) \ Range(qu[b]) \subseteq Packets(queue)
        /\ Packets(queue) \ Range(queue[b]) \subseteq Packets(qu)
        /\ Range(qu[b]) \subseteq Packets(qu) /\ Range(queue[b]) \subseteq Packets(queue)
    BY <2>2, OneBandChanged
  <2>5. Packets(qu) = Packets(queue) \cup {e}
    BY <2>3, <2>4
  <2>6. InDisc' = InDisc \cup {e}
    <3>1. Packets(queue') = Packets(queue) \cup {e}
      BY <2>1, <2>5
    <3>. QED  BY <1>2, <3>1, HeldNext DEF InDisc
  <2>7. arrivals < e.no
    BY <1>2, <2>1
  <2>. QED  BY <2>1, <2>6, <2>7
<1>. QED  BY <1>3, <1>4

LEMMA HandedOverStep ==
    ASSUME IInv, [Next]_vars
    PROVE  /\ \A p \in InDisc \ InDisc' :
                  running /\ last' = [last EXCEPT ![p.band] = p.no]
           /\ \A p \in InDisc' \ InDisc : arrivals < p.no /\ p.no = arrivals'
<1>1. CASE Send
  BY <1>1, SendAddsOne
<1>2. CASE UNCHANGED <<queue, requeued>>
  BY <1>2, StaysAsItIs
<1>3. ASSUME running, NEW d \in DequeuePacketL2,
             IF Stopped(d.item.tx) THEN RequeueL2(d) ELSE TransmitL2(d)
      PROVE  /\ \A p \in InDisc \ InDisc' :
                    running /\ last' = [last EXCEPT ![p.band] = p.no]
             /\ InDisc' \subseteq InDisc
  <2>1. InDisc = Packets(d.queue) \cup {d.item}
    BY DequeueTakesOne
  <2>2. CASE RequeueL2(d)
    <3>1. queue' = d.queue /\ Range(requeued') = {d.item}
      BY <2>2, OnePacket DEF RequeueL2
    <3>2. InDisc' = Packets(d.queue) \cup {d.item}
      BY <3>1, HeldNext
    <3>. QED  BY <2>1, <3>2
  <2>3. CASE TransmitL2(d)
    <3>1. /\ queue' = d.queue /\ requeued' = << >>
          /\ last' = [last EXCEPT ![d.item.band] = d.item.no]
      BY <2>3 DEF TransmitL2
    <3>2. InDisc' = Packets(d.queue)
      <4>1. Range(requeued') = {}
        BY <3>1 DEF Range
      <4>. QED  BY <3>1, <4>1, HeldNext
    <3>. QED  BY <1>3, <2>1, <3>1, <3>2
  <2>. QED  BY <1>3, <2>2, <2>3
<1>4. CASE RestartL2
  <2>1. CASE NothingToSend
    BY <1>2, <2>1 DEF NothingToSend
  <2>2. CASE \E d \in DequeuePacketL2 :
               IF Stopped(d.item.tx) THEN RequeueL2(d) ELSE TransmitL2(d)
    BY <1>3, <1>4, <2>2 DEF RestartL2
  <2>. QED  BY <1>4, <2>1, <2>2 DEF RestartL2
<1>5. CASE \E q \in TxQueues : Transmitted(q) \/ Wake(q)
  BY <1>2, <1>5 DEF Transmitted, Wake
<1>6. CASE \E k \in KeyAmounts : AddNewKeyMaterial(k) \/ VirtualReceive(k)
  BY <1>2, <1>6 DEF AddNewKeyMaterial, VirtualReceive
<1>7. CASE UNCHANGED vars
  BY <1>2, <1>7 DEF vars
<1>. QED  BY <1>1, <1>4, <1>5, <1>6, <1>7 DEF Next

\* The disc neither loses nor doubles a packet: it leaves when it is handed to
\* the manager, no other leaves with it, and what enters has just arrived.
THEOREM NoneLostNorDoubled == Spec => OnlyHandedOver
<1>1. IInv /\ [Next]_vars =>
        [/\ \A p \in InDisc \ InDisc' :
                running /\ last' = [last EXCEPT ![p.band] = p.no]
         /\ \A p \in InDisc' \ InDisc : arrivals < p.no /\ p.no = arrivals']_vars
  BY HandedOverStep
<1>. QED  BY <1>1, Invariant, PTL DEF Spec, OnlyHandedOver
=============================================================================
