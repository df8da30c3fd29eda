--------------------------- MODULE QKDLink_proofs ---------------------------
(***************************************************************************)
(* Proofs about a QKD link, for all capacities, thresholds, packets and    *)
(* numbers of packets in flight.                                           *)
(***************************************************************************)
EXTENDS QKDLink, QKDPacketKeys_proofs, SequenceTheorems, TLAPS

(* Both ends have another end, and it has them. *)
LEMMA PeerEnd ==
    \A e \in Ends : Peer(e) \in Ends /\ Peer(e) # e
  BY LinkAssumption DEF Ends, Peer

(* Sums of amounts, as the steps below change them. *)
LEMMA Moved ==
    ASSUME NEW a \in Int, NEW b \in Int, NEW c \in Int, NEW d \in Int, NEW k \in Int, NEW v \in Int
    PROVE  /\ a + v - c = b - d => (a - k) + v - c = b - (d + k)
           /\ a + v - c = b - d => a + v - (c + k) = (b - k) - d
  OBVIOUS

-----------------------------------------------------------------------------

(* The key material of the two ends, without the packets on their way. *)
Even(st, ow, d) == st[Master].cur + d - ow[Master] = st[Slave].cur - ow[Slave]

LEMMA Preserved ==
    ASSUME TypeOK, Balanced, [Next]_vars
    PROVE  TypeOK' /\ Balanced'
<1>f. /\ traffic' \in Traffics
      /\ traffic.senders \subseteq Ends /\ traffic.requests \subseteq Request
  BY LinkAssumption DEF TypeOK, Next, vars, Traffic
<1> USE <1>f DEF TypeOK
<1>b. causes = {} => Even(store, owed, due)
  BY DEF Balanced, Even
<1>e. Master \in Ends /\ Slave \in Ends /\ Master # Slave
  BY LinkAssumption DEF Ends
<1>k. KeyRate \in Nat
  BY LinkAssumption
<1>s. \A e \in Ends : store[e] \in Store /\ store[e].cur \in Nat /\ owed[e] \in Int
  BY DEF Store
<1>c. due \in Nat
  BY <1>k
<1> SUFFICES TypeOK' /\ (causes' = {} => Even(store', owed', due'))
  BY DEF Balanced, Even
<1>bl. ASSUME NEW why \in Causes, Blame(why)
       PROVE  causes' \subseteq Causes /\ causes' # {}
  BY <1>bl DEF Blame, Causes
<1>1. ASSUME NEW e \in traffic.senders, NEW r \in traffic.requests, VirtualSend(e, r)
      PROVE  TypeOK' /\ (causes' = {} => Even(store', owed', due'))
  <2>t. e \in Ends /\ r \in Request /\ Peer(e) \in Ends /\ Peer(e) # e
    BY LinkAssumption, PeerEnd
  <2>k. EncBits(r) \in Nat /\ AuthBits(r) \in Nat /\ Bits(r) \in Nat
        /\ Bits(r) = EncBits(r) + AuthBits(r)
    BY <2>t, BitsType
  <2>1. CASE Discard(e, r)
    BY <1>b, <2>1 DEF Discard, vars, Even
  <2>2. ASSUME NEW p \in Protected(e, r),
               NoKey(e, p) \/ NotForwarded(e, r, p) \/ Refused(e, r, p)
                 \/ Sent(e, r, p) \/ Abort(e, r, p)
        PROVE  TypeOK' /\ (causes' = {} => Even(store', owed', due'))
    <3>p. p.store \in Store /\ p.ok \in BOOLEAN /\ p.store.cur \in Nat
          /\ (p.ok => p.store.cur = store[e].cur - Bits(r))
      <4>1. p \in TakeKeys(store[e], EncBits(r), AuthBits(r))
        BY <2>2 DEF Protected
      <4>2. p.store \in Store /\ p.ok \in BOOLEAN
            /\ (p.ok => p.store.cur = store[e].cur - EncBits(r) - AuthBits(r))
        BY <1>s, <2>t, <2>k, <4>1, TakeKeysResult
      <4>. QED  BY <1>s, <2>t, <2>k, <4>2 DEF Store
    <3>0. ASSUME store' = [store EXCEPT ![e] = p.store]
          PROVE  /\ store' \in [Ends -> Store]
                 /\ p.store.cur = store[e].cur => \A x \in Ends : store'[x].cur = store[x].cur
      BY <3>0, <3>p, <2>t
    <3>1. CASE NoKey(e, p)
      <4>1. CASE p.store.cur # store[e].cur
        BY <1>bl, <3>0, <3>1, <4>1 DEF NoKey, Causes
      <4>2. CASE p.store.cur = store[e].cur
        BY <1>b, <1>e, <3>0, <3>1, <4>2 DEF NoKey, Even
      <4>. QED  BY <4>1, <4>2
    <3>2. CASE /\ p.ok /\ store' = [store EXCEPT ![e] = p.store]
               /\ IF Bits(r) > 0 THEN Blame("lost") ELSE UNCHANGED causes
               /\ UNCHANGED <<wire, due, owed>> /\ aborted' \in BOOLEAN
      <4>1. CASE Bits(r) > 0
        BY <1>bl, <3>0, <3>2, <4>1 DEF Causes
      <4>2. CASE ~ (Bits(r) > 0)
        <5>1. p.store.cur = store[e].cur
          BY <1>s, <2>t, <2>k, <3>p, <3>2, <4>2
        <5>. QED  BY <1>b, <1>e, <3>0, <3>2, <4>2, <5>1 DEF Even
      <4>. QED  BY <4>1, <4>2
    <3>3. CASE Sent(e, r, p)
      <4> DEFINE q == Peer(e)
      <4>1. store' \in [Ends -> Store]
        BY <3>0, <3>3 DEF Sent
      <4>2. wire' \in [Ends -> Seq(Request)]
        BY <2>t, <3>3 DEF Sent
      <4>3. owed' = [owed EXCEPT ![q] = @ + Bits(r)] /\ owed' \in [Ends -> Int]
        BY <1>s, <2>t, <2>k, <3>3 DEF Sent
      <4>4. UNCHANGED <<due, aborted, causes>>
        BY <3>3 DEF Sent
      <4>5. /\ store'[e].cur = store[e].cur - Bits(r) /\ store'[q].cur = store[q].cur
            /\ owed'[q] = owed[q] + Bits(r) /\ owed'[e] = owed[e]
        BY <2>t, <3>3, <3>p, <4>3 DEF Sent, Forwardable
      <4>6. {e, q} = {Master, Slave}
        BY <2>t, <1>e DEF Ends
      <4>i. /\ store[e].cur \in Int /\ store[q].cur \in Int /\ owed[e] \in Int
            /\ owed[q] \in Int /\ due \in Int /\ Bits(r) \in Int
        BY <1>s, <1>c, <2>t, <2>k
      <4>7. causes' = {} => Even(store', owed', due')
        <5> HIDE DEF TypeOK, q
        <5>1. CASE e = Master /\ q = Slave
          <6>1. causes' = {} => store[e].cur + due - owed[e] = store[q].cur - owed[q]
            BY <1>b, <4>4, <5>1 DEF Even
          <6>2. causes' = {} => (store[e].cur - Bits(r)) + due - owed[e]
                                     = store[q].cur - (owed[q] + Bits(r))
            <7> DEFINE a == store[e].cur  b == store[q].cur  c == owed[e]  d == owed[q]
                       k == Bits(r)
            <7>1. a \in Int /\ b \in Int /\ c \in Int /\ d \in Int /\ k \in Int /\ due \in Int
              BY <4>i
            <7>2. causes' = {} => a + due - c = b - d
              BY <6>1
            <7> HIDE DEF a, b, c, d, k
            <7>3. causes' = {} => (a - k) + due - c = b - (d + k)
              BY <7>1, <7>2, Moved
            <7>. QED  BY <7>3 DEF a, b, c, d, k
          <6>. QED  BY <4>4, <4>5, <5>1, <6>2 DEF Even
        <5>2. CASE e = Slave /\ q = Master
          <6>1. causes' = {} => store[q].cur + due - owed[q] = store[e].cur - owed[e]
            BY <1>b, <4>4, <5>2 DEF Even
          <6>2. causes' = {} => store[q].cur + due - (owed[q] + Bits(r))
                                     = (store[e].cur - Bits(r)) - owed[e]
            <7> DEFINE a == store[q].cur  b == store[e].cur  c == owed[q]  d == owed[e]
                       k == Bits(r)
            <7>1. a \in Int /\ b \in Int /\ c \in Int /\ d \in Int /\ k \in Int /\ due \in Int
              BY <4>i
            <7>2. causes' = {} => a + due - c = b - d
              BY <6>1
            <7> HIDE DEF a, b, c, d, k
            <7>3. causes' = {} => a + due - (c + k) = (b - k) - d
              BY <7>1, <7>2, Moved
            <7>. QED  BY <7>3 DEF a, b, c, d, k
          <6>. QED  BY <4>4, <4>5, <5>2, <6>2 DEF Even
        <5>. QED  BY <4>6, <1>e, <5>1, <5>2
      <4>. QED  BY <4>1, <4>2, <4>3, <4>4, <4>7
    <3>. QED  BY <2>2, <3>1, <3>2, <3>3 DEF NotForwarded, Refused, Forwardable, Abort
  <2>. QED  BY <1>1, <2>1, <2>2 DEF VirtualSend
<1>2. ASSUME NEW e \in Ends, VirtualReceive(e)
      PROVE  TypeOK' /\ (causes' = {} => Even(store', owed', due'))
  <2> DEFINE r == Head(wire[e])
  <2>0. wire[e] # << >> /\ wire[e] \in Seq(Request)
    BY <1>2 DEF VirtualReceive
  <2>1. r \in Request /\ Tail(wire[e]) \in Seq(Request)
    BY <2>0
  <2>k. EncBits(r) \in Nat /\ AuthBits(r) \in Nat /\ Bits(r) \in Nat
        /\ Bits(r) = EncBits(r) + AuthBits(r)
    BY <2>1, BitsType
  <2>2. PICK p \in Opened(e, r) :
            /\ store' = [store EXCEPT ![e] = p.store]
            /\ IF p.ok THEN UNCHANGED causes ELSE Blame("receiver short")
    BY <1>2 DEF VirtualReceive
  <2>3. p.store \in Store /\ p.ok \in BOOLEAN
        /\ (p.ok => p.store.cur = store[e].cur - AuthBits(r) - EncBits(r))
    BY <1>s, <2>k, <2>2, TakeKeysResult DEF Opened
  <2>4. owed' = [owed EXCEPT ![e] = @ - Bits(r)] /\ owed' \in [Ends -> Int]
        /\ wire' \in [Ends -> Seq(Request)] /\ UNCHANGED <<due, aborted>>
    <3>1. owed' = [owed EXCEPT ![e] = @ - Bits(r)] /\ wire' = [wire EXCEPT ![e] = Tail(@)]
          /\ UNCHANGED <<due, aborted>>
      BY <1>2 DEF VirtualReceive
    <3>2. owed[e] - Bits(r) \in Int
      BY <1>s, <2>k
    <3>. QED  BY <2>1, <3>1, <3>2
  <2>5. store' \in [Ends -> Store]
    BY <2>2, <2>3
  <2>6. CASE ~ p.ok
    BY <1>bl, <2>2, <2>4, <2>5, <2>6 DEF Causes
  <2>7. CASE p.ok
    <3>1. /\ store'[e].cur = store[e].cur - Bits(r) /\ owed'[e] = owed[e] - Bits(r)
          /\ \A x \in Ends \ {e} : store'[x] = store[x] /\ owed'[x] = owed[x]
      BY <1>s, <2>2, <2>3, <2>4, <2>k, <2>7
    <3>2. store'[e].cur - owed'[e] = store[e].cur - owed[e]
      BY <1>s, <2>k, <3>1
    <3>3. causes' = causes
      BY <2>2, <2>7
    <3>4. causes' = {} => Even(store', owed', due')
      <4> HIDE DEF r
      <4>1. \A x \in Ends : store'[x].cur \in Nat /\ owed'[x] \in Int
        BY <2>4, <2>5 DEF Store
      <4>2. \A x \in Ends : store'[x].cur - owed'[x] = store[x].cur - owed[x]
        BY <3>1, <3>2
      <4>3. store'[Master].cur - owed'[Master] = store[Master].cur - owed[Master]
            /\ store'[Slave].cur - owed'[Slave] = store[Slave].cur - owed[Slave]
        BY <1>e, <4>2
      <4>4. due' = due /\ (causes' = {} => Even(store, owed, due))
        BY <1>b, <2>4, <3>3
      <4>i. /\ store[Master].cur \in Int /\ store[Slave].cur \in Int /\ due \in Int
            /\ owed[Master] \in Int /\ owed[Slave] \in Int
            /\ store'[Master].cur \in Int /\ store'[Slave].cur \in Int
            /\ owed'[Master] \in Int /\ owed'[Slave] \in Int
        BY <1>e, <1>s, <1>c, <4>1
      <4>5. store[Master].cur + due - owed[Master] = store[Slave].cur - owed[Slave]
              => store'[Master].cur + due - owed'[Master] = store'[Slave].cur - owed'[Slave]
        <5> DEFINE a == store[Master].cur      b == store[Slave].cur
                   c == owed[Master]           d == owed[Slave]
                   w == store'[Master].cur     x == store'[Slave].cur
                   y == owed'[Master]          z == owed'[Slave]
        <5>1. /\ a \in Int /\ b \in Int /\ c \in Int /\ d \in Int /\ due \in Int
              /\ w \in Int /\ x \in Int /\ y \in Int /\ z \in Int
              /\ w - y = a - c /\ x - z = b - d
          BY <4>i, <4>3
        <5> HIDE DEF a, b, c, d, w, x, y, z, TypeOK
        <5>2. ASSUME a + due - c = b - d PROVE w + due - y = x - z
          <6>1. w = a - c + y /\ x = b - d + z
            BY <5>1
          <6>. QED  BY <5>1, <5>2, <6>1
        <5>. QED  BY <5>2 DEF a, b, c, d, w, x, y, z
      <4>. QED  BY <4>4, <4>5 DEF Even
    <3>. QED  BY <2>4, <2>5, <3>3, <3>4
  <2>. QED  BY <2>3, <2>6, <2>7
<1>3. ASSUME NEW e \in Ends, Lose(e)
      PROVE  TypeOK' /\ (causes' = {} => Even(store', owed', due'))
  <2>1. PICK i \in DOMAIN wire[e] :
        /\ wire' = [wire EXCEPT ![e] = SubSeq(@, 1, i - 1) \o SubSeq(@, i + 1, Len(@))]
        /\ owed' = [owed EXCEPT ![e] = @ - Bits(wire[e][i])]
        /\ IF Bits(wire[e][i]) > 0 THEN Blame("lost") ELSE UNCHANGED causes
    BY <1>3 DEF Lose
  <2>2. wire[e] \in Seq(Request) /\ i \in 1 .. Len(wire[e]) /\ wire[e][i] \in Request
    OBVIOUS
  <2>3. Bits(wire[e][i]) \in Nat
    BY <2>2, BitsType
  <2>4. SubSeq(wire[e], 1, i - 1) \o SubSeq(wire[e], i + 1, Len(wire[e])) \in Seq(Request)
    BY <2>2
  <2>5. wire' \in [Ends -> Seq(Request)] /\ owed' \in [Ends -> Int]
    <3>1. owed[e] - Bits(wire[e][i]) \in Int
      BY <1>s, <2>3
    <3>. QED  BY <2>1, <2>4, <3>1
  <2>6. UNCHANGED <<store, due, aborted>>
    BY <1>3 DEF Lose
  <2>7. CASE Bits(wire[e][i]) > 0
    BY <1>bl, <2>1, <2>5, <2>6, <2>7 DEF Causes
  <2>8. CASE ~ (Bits(wire[e][i]) > 0)
    <3>1. \A x \in Ends : owed'[x] = owed[x]
      BY <1>s, <2>1, <2>3, <2>8
    <3>. QED  BY <1>b, <1>e, <2>1, <2>5, <2>6, <2>8, <3>1 DEF Even
  <2>. QED  BY <2>7, <2>8
<1>a. ASSUME NEW e \in Ends, NEW k \in Nat, AddNewKeyMaterial(e, k)
      PROVE  /\ store' \in [Ends -> Store] /\ causes' \subseteq Causes
             /\ UNCHANGED <<wire, aborted, owed>>
             /\ causes' = {} => /\ causes = {} /\ store'[e].cur = store[e].cur + k
                                   /\ \A x \in Ends \ {e} : store'[x] = store[x]
  <2>1. PICK t \in AfterCharge(store[e], k) : store' = [store EXCEPT ![e] = t]
    BY <1>a DEF AddNewKeyMaterial
  <2>2. /\ t \in Store
        /\ t.cur = IF Fits(store[e], k) THEN store[e].cur + k ELSE store[e].cur
    <3> DEFINE c == IF Fits(store[e], k) THEN store[e].cur + k ELSE store[e].cur
    <3>1. PICK y \in StatusesOf(c, store[e].thr) :
              t = [cur |-> c, thr |-> store[e].thr, status |-> y]
      BY <2>1 DEF AfterCharge, Holding
    <3>2. y \in Statuses
      BY <3>1 DEF StatusesOf, Statuses
    <3>3. c \in Nat
      BY <1>s
    <3>. QED  BY <1>s, <3>1, <3>2, <3>3 DEF Store
  <2>3. store' \in [Ends -> Store] /\ UNCHANGED <<wire, aborted, owed>>
    BY <1>a, <2>1, <2>2 DEF AddNewKeyMaterial
  <2>4. CASE Fits(store[e], k)
    BY <1>a, <2>1, <2>2, <2>3, <2>4 DEF AddNewKeyMaterial
  <2>5. CASE ~ Fits(store[e], k)
    BY <1>a, <1>bl, <2>3, <2>5 DEF AddNewKeyMaterial, Causes
  <2>. QED  BY <2>4, <2>5
<1>4. CASE ChargeSlave
  <2>1. AddNewKeyMaterial(Slave, KeyRate) /\ due = 0 /\ due' = KeyRate
    BY <1>4 DEF ChargeSlave
  <2>2. causes' = {} => Even(store', owed', due')
    <3>1. causes' = {} => /\ store'[Slave].cur = store[Slave].cur + KeyRate
                             /\ store'[Master] = store[Master] /\ owed' = owed
                             /\ Even(store, owed, 0)
      BY <1>a, <1>b, <1>e, <1>k, <2>1
    <3>i. /\ store[Master].cur \in Int /\ store[Slave].cur \in Int /\ KeyRate \in Int
          /\ owed[Master] \in Int /\ owed[Slave] \in Int
      BY <1>e, <1>k, <1>s
    <3>2. store[Master].cur + 0 - owed[Master] = store[Slave].cur - owed[Slave]
            => store[Master].cur + KeyRate - owed[Master]
                 = (store[Slave].cur + KeyRate) - owed[Slave]
      <4> DEFINE a == store[Master].cur  b == store[Slave].cur
                 c == owed[Master]       d == owed[Slave]
      <4>1. a \in Int /\ b \in Int /\ c \in Int /\ d \in Int /\ KeyRate \in Int
        BY <3>i
      <4> HIDE DEF a, b, c, d, TypeOK
      <4>2. a + 0 - c = b - d => a + KeyRate - c = (b + KeyRate) - d
        BY <4>1
      <4>. QED  BY <4>2 DEF a, b, c, d
    <3>. QED  BY <2>1, <3>1, <3>2 DEF Even
  <2>. QED  BY <1>a, <1>e, <1>k, <2>1, <2>2
<1>5. CASE ChargeMaster
  <2>1. AddNewKeyMaterial(Master, due) /\ due' = 0
    BY <1>5 DEF ChargeMaster
  <2>2. causes' = {} => Even(store', owed', due')
    BY <1>a, <1>b, <1>e, <1>c, <1>s, <2>1 DEF Even
  <2>. QED  BY <1>a, <1>e, <1>c, <2>1, <2>2
<1>6. CASE UNCHANGED vars
  BY <1>b, <1>6 DEF vars, Even
<1>. QED  BY <1>1, <1>2, <1>3, <1>4, <1>5, <1>6 DEF Next

LEMMA Invariance == Spec => [](TypeOK /\ Balanced)
<1>1. Init => TypeOK /\ Balanced
  <2> SUFFICES ASSUME Init PROVE TypeOK /\ Balanced
    OBVIOUS
  <2>1. PICK c \in InitialAmounts :
            store \in [Ends -> [cur : {c}, thr : {Thr}, status : Statuses \cup {UNINIT}]]
    BY DEF Init
  <2>2. c \in Nat /\ Thr \in Nat /\ Master \in Ends /\ Slave \in Ends
    BY LinkAssumption, StoreAssumption DEF Ends
  <2>3. store \in [Ends -> Store]
    BY <2>1, <2>2 DEF Store
  <2>4. TypeOK
    <3>1. wire = [e \in Ends |-> << >>] /\ << >> \in Seq(Request)
      BY DEF Init
    <3>2. wire \in [Ends -> Seq(Request)]
      BY <3>1
    <3>3. owed \in [Ends -> Int] /\ due = 0 /\ aborted = FALSE /\ causes = {}
      BY DEF Init
    <3>4. traffic \in Traffics
      BY DEF Init
    <3>. QED  BY <2>3, <3>2, <3>3, <3>4 DEF TypeOK, Causes
  <2>5. store[Master].cur = c /\ store[Slave].cur = c
    BY <2>1, <2>2
  <2>6. Balanced
    BY <2>2, <2>5 DEF Init, Balanced
  <2>. QED  BY <2>4, <2>6
<1>2. TypeOK /\ Balanced /\ [Next]_vars => (TypeOK /\ Balanced)'
  BY Preserved
<1>. QED  BY <1>1, <1>2, PTL DEF Spec

(* Type correctness: in particular no amount of key material, which the    *)
(* code keeps unsigned, is ever taken below zero.                          *)
THEOREM TypeCorrect == Spec => []TypeOK
  BY Invariance, PTL

(* Until a key or a packet is lost, a charge refused or a receiver short,  *)
(* the two buffers of a link differ exactly by the round of key material   *)
(* the master still gets and the packets on their way.                     *)
THEOREM BuffersBalanced == Spec => []Balanced
  BY Invariance, PTL

-----------------------------------------------------------------------------

(* A packet that is not of band 0 never leaves by an EMPTY buffer and      *)
(* never leaves one EMPTY behind (QKDManager::ForwardToSocket checks after *)
(* the keys were taken).                                                   *)
THEOREM OnlyTopBandWhenEmpty == Spec => EmptyServesTopBandOnly
<1> DEFINE A == \A e \in Ends :
        LET w == wire'[Peer(e)]
        IN  Len(w) > Len(wire[Peer(e)]) /\ ~ w[Len(w)].top
                => store[e].status # EMPTY /\ store'[e].status # EMPTY
<1>1. TypeOK /\ [Next]_vars => [A]_vars
  <2> SUFFICES ASSUME TypeOK, Next, NEW e \in Ends,
                      Len(wire'[Peer(e)]) > Len(wire[Peer(e)]),
                      ~ wire'[Peer(e)][Len(wire'[Peer(e)])].top
               PROVE  store[e].status # EMPTY /\ store'[e].status # EMPTY
    BY DEF vars
  <2>p. \A x \in Ends : Peer(x) \in Ends /\ (Peer(x) = Peer(e) => x = e)
    BY PeerEnd DEF Ends
  <2>w. wire \in [Ends -> Seq(Request)]
    BY DEF TypeOK
  <2>1. wire' # wire /\ wire'[Peer(e)] # wire[Peer(e)]
    BY <2>p, <2>w
  <2>2. ASSUME NEW x \in Ends, VirtualReceive(x)  PROVE FALSE
    <3>1. wire' = [wire EXCEPT ![x] = Tail(@)] /\ wire[x] # << >>
      BY <2>2 DEF VirtualReceive
    <3>2. Len(Tail(wire[x])) <= Len(wire[x])
      BY <2>w, <3>1
    <3>. QED  BY <2>p, <2>w, <2>1, <3>1, <3>2
  <2>3. ASSUME NEW x \in Ends, Lose(x)  PROVE FALSE
    <3>1. PICK i \in DOMAIN wire[x] :
            wire' = [wire EXCEPT ![x] = SubSeq(@, 1, i - 1) \o SubSeq(@, i + 1, Len(@))]
      BY <2>3 DEF Lose
    <3>2. wire[x] \in Seq(Request) /\ i \in 1 .. Len(wire[x])
      BY <2>w
    <3>3. Len(SubSeq(wire[x], 1, i - 1) \o SubSeq(wire[x], i + 1, Len(wire[x]))) <= Len(wire[x])
      <4>1. SubSeq(wire[x], 1, i - 1) \in Seq(Request) /\ Len(SubSeq(wire[x], 1, i - 1)) = i - 1
        BY <3>2
      <4>2. /\ SubSeq(wire[x], i + 1, Len(wire[x])) \in Seq(Request)
            /\ Len(SubSeq(wire[x], i + 1, Len(wire[x]))) = Len(wire[x]) - i
        BY <3>2
      <4>. QED  BY <3>2, <4>1, <4>2
    <3>. QED  BY <2>p, <2>w, <2>1, <3>1, <3>3
  <2>4. ~ ChargeSlave /\ ~ ChargeMaster
    BY <2>1 DEF ChargeSlave, ChargeMaster, AddNewKeyMaterial
  <2>5. PICK x \in traffic.senders, r \in traffic.requests : VirtualSend(x, r)
    BY <2>2, <2>3, <2>4 DEF Next
  <2>6. x \in Ends /\ r \in Request
    BY LinkAssumption DEF TypeOK, Traffic
  <2>7. PICK p \in Protected(x, r) : Sent(x, r, p)
    BY <2>1, <2>5 DEF VirtualSend, Discard, NoKey, NotForwarded, Refused, Abort, vars
  <2>8. \E need \in FirstNeeds(r) : Check(store[x], need, r.top)
    BY <2>1, <2>5 DEF VirtualSend, Discard, vars
  <2>9. wire' = [wire EXCEPT ![Peer(x)] = Append(@, r)] /\ store' = [store EXCEPT ![x] = p.store]
    BY <2>7 DEF Sent
  <2>10. x = e
    BY <2>1, <2>6, <2>9, <2>p, <2>w
  <2>11. wire'[Peer(e)] = Append(wire[Peer(e)], r)
    BY <2>9, <2>10, <2>p, <2>w
  <2>12. wire'[Peer(e)][Len(wire'[Peer(e)])] = r
    BY <2>11, <2>p, <2>w, <2>6
  <2>13. ~ r.top
    BY <2>12
  <2>14. store[e].status # EMPTY
    BY <2>8, <2>10, <2>13 DEF Check
  <2>15. \E need \in SecondNeeds(r) : Check(p.store, need, r.top)
    BY <2>7 DEF Sent, Forwardable
  <2>16. store'[e] = p.store
    BY <2>9, <2>10 DEF TypeOK
  <2>. QED  BY <2>13, <2>14, <2>15, <2>16 DEF Check
<1>2. Spec => [][A]_vars
  BY <1>1, TypeCorrect, PTL DEF Spec
<1>. QED  BY <1>2 DEF EmptyServesTopBandOnly

-----------------------------------------------------------------------------
(* With one sender the receiver is never short.  The invariant has to know *)
(* that what the receiver owes covers all packets on their way to it: from *)
(* each place on, f bounds what they cost, and stays ahead of the bounds   *)
(* of all later places (which a recursive sum would need an induction to   *)
(* say).                                                                   *)

Covers(f, w, L, n) ==
    /\ \A i \in Nat : f[i] \in Nat
    /\ f[1] <= n
    /\ \A j \in 1 .. L : \A i \in 1 .. j : f[i] >= f[j + 1] + Bits(w[j])

Debts(w, n) == \E f : Covers(f, w, Len(w), n)

(* A sequence without its j-th element. *)
Dropped(w, j) == SubSeq(w, 1, j - 1) \o SubSeq(w, j + 1, Len(w))

(* What it holds, place by place. *)
LEMMA DropOne ==
    ASSUME NEW S, NEW w \in Seq(S), NEW j \in 1 .. Len(w)
    PROVE  /\ Dropped(w, j) \in Seq(S) /\ Len(Dropped(w, j)) = Len(w) - 1
           /\ \A i \in 1 .. Len(w) - 1 :
                /\ i < j => Dropped(w, j)[i] = w[i]
                /\ i >= j => Dropped(w, j)[i] = w[i + 1]
<1> DEFINE a == SubSeq(w, 1, j - 1)
           b == SubSeq(w, j + 1, Len(w))
           L == Len(w)
<1>2. L \in Nat /\ j \in Nat /\ 1 <= j /\ j <= L
  OBVIOUS
<1>3. /\ a \in Seq(S) /\ Len(a) = j - 1
      /\ \A i \in 1 .. j - 1 : a[i] = w[i]
  OBVIOUS
<1>4. /\ b \in Seq(S) /\ Len(b) = L - j
      /\ \A i \in 1 .. L - j : b[i] = w[j + i]
  OBVIOUS
<1>5. Dropped(w, j) = a \o b
  BY DEF Dropped
<1> HIDE DEF a, b, L
<1>6. a \o b \in Seq(S) /\ Len(a \o b) = Len(a) + Len(b)
      /\ \A i \in 1 .. Len(a) + Len(b) : 
          (a \o b)[i] = IF i <= Len(a) THEN a[i] ELSE b[i - Len(a)]
  <2>1. a \in Seq(S) /\ b \in Seq(S)
    BY <1>3, <1>4
  <2>. QED  BY <2>1, ConcatProperties
<1>7. Len(a \o b) = L - 1
  <2>1. (j - 1) + (L - j) = L - 1
    BY <1>2
  <2>2. Len(a) = j - 1 /\ Len(b) = L - j
    BY <1>3, <1>4
  <2>. QED  BY <1>6, <2>1, <2>2
<1>8. ASSUME NEW i \in 1 .. L - 1, i < j PROVE (a \o b)[i] = w[i]
  <2>1. i \in 1 .. Len(a) + Len(b) /\ i <= Len(a) /\ i \in 1 .. j - 1
    BY <1>2, <1>3, <1>4, <1>8
  <2>. QED  BY <1>3, <1>6, <2>1
<1>9. ASSUME NEW i \in 1 .. L - 1, i >= j PROVE (a \o b)[i] = w[i + 1]
  <2>1. i \in 1 .. Len(a) + Len(b) /\ i > Len(a)
    BY <1>2, <1>3, <1>4, <1>9
  <2>2. (a \o b)[i] = b[i - (j - 1)]
    BY <1>3, <1>6, <2>1
  <2>3. i - (j - 1) \in 1 .. L - j /\ j + (i - (j - 1)) = i + 1
    BY <1>2, <1>9
  <2>. QED  BY <1>4, <2>2, <2>3
<1>. QED  BY <1>5, <1>6, <1>7, <1>8, <1>9 DEF L

LEMMA RequestBits ==
    ASSUME NEW w \in Seq(Request), NEW i \in 1 .. Len(w)
    PROVE  w[i] \in Request /\ Bits(w[i]) \in Nat
<1>1. w[i] \in Request
  OBVIOUS
<1>2. EncBits(w[i]) \in Nat /\ AuthBits(w[i]) \in Nat /\ Bits(w[i]) = EncBits(w[i]) + AuthBits(w[i])
  BY <1>1, BitsType
<1>. QED  BY <1>1, <1>2

(* v is w with a packet of k bits at the end: g is f, raised by k. *)
Longer(v, w, L, k) == (\A i \in 1 .. L : v[i] = w[i]) /\ Bits(v[L + 1]) = k
Raised(g, f, L, k) == \A i \in Nat : g[i] = IF i <= L + 1 THEN f[i] + k ELSE 0
Costs(w, L)        == \A i \in 1 .. L : Bits(w[i]) \in Nat

LEMMA CoversLonger ==
    ASSUME NEW L \in Nat, NEW n \in Int, NEW k \in Nat, NEW f, NEW w,
           Covers(f, w, L, n), Costs(w, L),
           NEW v, Longer(v, w, L, k), NEW g, Raised(g, f, L, k)
    PROVE  Covers(g, v, L + 1, n + k)
<1>1. ASSUME NEW i \in Nat
      PROVE  f[i] \in Nat /\ g[i] = (IF i <= L + 1 THEN f[i] + k ELSE 0) /\ g[i] \in Nat
  <2>1. f[i] \in Nat
    BY DEF Covers
  <2>2. g[i] = IF i <= L + 1 THEN f[i] + k ELSE 0
    BY DEF Raised
  <2>. QED  BY <2>1, <2>2
<1>2. g[1] <= n + k
  <2>1. g[1] = (IF 1 <= L + 1 THEN f[1] + k ELSE 0) /\ f[1] \in Nat
    BY <1>1
  <2>2. f[1] <= n
    BY DEF Covers
  <2>. QED  BY <2>1, <2>2
<1>3. ASSUME NEW j \in 1 .. L + 1, NEW i \in 1 .. j
      PROVE  g[i] >= g[j + 1] + Bits(v[j])
  <2>0. i \in Nat /\ j \in Nat /\ j + 1 \in Nat /\ i <= j /\ i <= L + 1
    OBVIOUS
  <2>1. g[i] = f[i] + k /\ f[i] \in Nat
    BY <1>1, <2>0
  <2>2. g[j + 1] = (IF j + 1 <= L + 1 THEN f[j + 1] + k ELSE 0) /\ f[j + 1] \in Nat
    BY <1>1, <2>0
  <2>3. CASE j = L + 1
    <3>1. Bits(v[j]) = k
      BY <2>3 DEF Longer
    <3>2. ~ (j + 1 <= L + 1)
      BY <2>3
    <3>. QED  BY <2>1, <2>2, <3>1, <3>2
  <2>4. CASE j \in 1 .. L
    <3>1. v[j] = w[j]
      BY <2>4 DEF Longer
    <3>2. f[i] >= f[j + 1] + Bits(w[j])
      BY <2>4 DEF Covers
    <3>3. Bits(w[j]) \in Nat
      BY <2>4 DEF Costs
    <3>4. j + 1 <= L + 1
      BY <2>4
    <3>. QED  BY <2>1, <2>2, <3>1, <3>2, <3>3, <3>4
  <2>. QED  BY <2>3, <2>4
<1>. QED  BY <1>1, <1>2, <1>3 DEF Covers

(* A packet that is sent adds its keys ... *)
LEMMA DebtsAppend ==
    ASSUME NEW w \in Seq(Request), NEW r \in Request, NEW n \in Int, Debts(w, n)
    PROVE  Debts(Append(w, r), n + Bits(r))
<1>1. PICK f : Covers(f, w, Len(w), n)
  BY DEF Debts
<1>2. /\ Len(w) \in Nat /\ Len(Append(w, r)) = Len(w) + 1
      /\ \A i \in 1 .. Len(w) : Append(w, r)[i] = w[i]
      /\ Append(w, r)[Len(w) + 1] = r
  OBVIOUS
<1>3. Bits(r) \in Nat
  <2>1. EncBits(r) \in Nat /\ AuthBits(r) \in Nat /\ Bits(r) = EncBits(r) + AuthBits(r)
    BY BitsType
  <2>. QED  BY <2>1
<1>4. Longer(Append(w, r), w, Len(w), Bits(r)) /\ Costs(w, Len(w))
  BY <1>2, RequestBits DEF Longer, Costs
<1>5. \E g : Raised(g, f, Len(w), Bits(r))
  <2> DEFINE g == [i \in Nat |-> IF i <= Len(w) + 1 THEN f[i] + Bits(r) ELSE 0]
  <2>1. Raised(g, f, Len(w), Bits(r))
    BY DEF Raised
  <2> HIDE DEF g
  <2>. QED  BY <2>1
<1>6. PICK g : Raised(g, f, Len(w), Bits(r))
  BY <1>5
<1>7. Covers(g, Append(w, r), Len(w) + 1, n + Bits(r))
  BY <1>1, <1>2, <1>3, <1>4, <1>6, CoversLonger
<1>. QED  BY <1>2, <1>7 DEF Debts

(* ... the first one that arrives takes them away, and there are as many ... *)
LEMMA DebtsTail ==
    ASSUME NEW w \in Seq(Request), NEW n \in Int, Debts(w, n), w # << >>
    PROVE  Bits(Head(w)) <= n /\ Debts(Tail(w), n - Bits(Head(w)))
<1> DEFINE L == Len(w)
           v == Tail(w)
           k == Bits(Head(w))
<1>1. PICK f : Covers(f, w, L, n)
  BY DEF Debts
<1>2. /\ L \in Nat /\ 1 <= L /\ Len(v) = L - 1 /\ Head(w) = w[1]
      /\ \A i \in 1 .. L - 1 : v[i] = w[i + 1]
  OBVIOUS
<1>3. k \in Nat /\ k = Bits(w[1])
  <2>1. 1 \in 1 .. Len(w)
    BY <1>2
  <2>. QED  BY <1>2, <2>1, RequestBits
<1>4. \E g : \A i \in Nat : g[i] = f[i + 1]
  <2> DEFINE g == [i \in Nat |-> f[i + 1]]
  <2>1. \A i \in Nat : g[i] = f[i + 1]
    OBVIOUS
  <2> HIDE DEF g
  <2>. QED  BY <2>1
<1>5. PICK g : \A i \in Nat : g[i] = f[i + 1]
  BY <1>4
<1> HIDE DEF L, v, k
<1>6. ASSUME NEW i \in Nat PROVE g[i] = f[i + 1] /\ f[i] \in Nat /\ g[i] \in Nat
  <2>1. i + 1 \in Nat
    OBVIOUS
  <2>. QED  BY <1>1, <1>5, <2>1 DEF Covers
<1>7. k <= n /\ g[1] <= n - k
  <2>1. 1 \in 1 .. L /\ 1 \in 1 .. 1
    BY <1>2
  <2>2. f[1] >= f[1 + 1] + Bits(w[1]) /\ f[1] <= n
    BY <1>1, <2>1 DEF Covers
  <2>3. g[1] = f[1 + 1] /\ f[1] \in Nat /\ g[1] \in Nat
    BY <1>6
  <2>4. f[1] >= g[1] + k
    BY <1>3, <2>2, <2>3
  <2>5. f[1] <= n
    BY <2>2
  <2>. QED  BY <1>3, <2>3, <2>4, <2>5
<1>8. ASSUME NEW j \in 1 .. L - 1, NEW i \in 1 .. j
      PROVE  g[i] >= g[j + 1] + Bits(v[j])
  <2>1. i \in Nat /\ j + 1 \in Nat /\ j + 1 \in 1 .. L /\ i + 1 \in 1 .. j + 1
    BY <1>2
  <2>2. f[i + 1] >= f[(j + 1) + 1] + Bits(w[j + 1])
    BY <1>1, <2>1 DEF Covers
  <2>3. g[i] = f[i + 1] /\ g[j + 1] = f[(j + 1) + 1]
    BY <1>6, <2>1
  <2>4. v[j] = w[j + 1]
    BY <1>2
  <2>. QED  BY <2>2, <2>3, <2>4
<1>9. Covers(g, v, L - 1, n - k)
  BY <1>6, <1>7, <1>8 DEF Covers
<1>10. Debts(v, n - k)
  BY <1>2, <1>9 DEF Debts
<1>. QED  BY <1>7, <1>10 DEF v, k

(* Two bounds in a row, of which the second one is taken off. *)
LEMMA TwoSteps ==
    ASSUME NEW x \in Nat, NEW y \in Nat, NEW z \in Nat, NEW b \in Nat, NEW c \in Int,
           x >= y + b, y >= z + c
    PROVE  x - c >= z + b
  OBVIOUS

(* ... and so does one that is lost, wherever it is. *)
LEMMA DebtsDrop ==
    ASSUME NEW w \in Seq(Request), NEW n \in Int, Debts(w, n), NEW d \in 1 .. Len(w)
    PROVE  Debts(Dropped(w, d), n - Bits(w[d]))
<1> DEFINE L == Len(w)
           v == Dropped(w, d)
           k == Bits(w[d])
<1>1. PICK f : Covers(f, w, L, n)
  BY DEF Debts
<1>2. L \in Nat /\ d \in Nat /\ 1 <= d /\ d <= L /\ d \in 1 .. L
  OBVIOUS
<1>3. /\ Len(v) = L - 1
      /\ \A i \in 1 .. L - 1 : (i < d => v[i] = w[i]) /\ (i >= d => v[i] = w[i + 1])
  BY DropOne
<1>4. \E g : \A i \in Nat :
            g[i] = IF i = 0 THEN 0 ELSE IF i < d THEN f[i] - k ELSE f[i + 1]
  <2> DEFINE g == [i \in Nat |-> IF i = 0 THEN 0 ELSE IF i < d THEN f[i] - k ELSE f[i + 1]]
  <2>1. \A i \in Nat : g[i] = IF i = 0 THEN 0 ELSE IF i < d THEN f[i] - k ELSE f[i + 1]
    OBVIOUS
  <2> HIDE DEF g
  <2>. QED  BY <2>1
<1>5. PICK g : \A i \in Nat :
            g[i] = IF i = 0 THEN 0 ELSE IF i < d THEN f[i] - k ELSE f[i + 1]
  BY <1>4
<1>c. \A i \in 1 .. L : Bits(w[i]) \in Nat
  BY RequestBits
<1>k. k \in Nat /\ k = Bits(w[d])
  BY <1>2, <1>c
<1> HIDE DEF L, v, k
<1>f. ASSUME NEW i \in Nat PROVE f[i] \in Nat
  BY <1>1 DEF Covers
<1>6. ASSUME NEW i \in Nat, i # 0
      PROVE  (i < d => g[i] = f[i] - k) /\ (i >= d => g[i] = f[i + 1])
  <2>1. g[i] = IF i = 0 THEN 0 ELSE IF i < d THEN f[i] - k ELSE f[i + 1]
    BY <1>5
  <2>2. i >= d => ~ (i < d)
    BY <1>2
  <2>. QED  BY <1>6, <2>1, <2>2
<1>p. ASSUME NEW j \in 1 .. L, NEW i \in 1 .. j
      PROVE  f[i] >= f[j + 1] + Bits(w[j])
  BY <1>1, <1>p DEF Covers
<1>d. ASSUME NEW i \in 1 .. d
      PROVE  f[i] >= f[d + 1] + k /\ f[d + 1] \in Nat /\ f[i] \in Nat
  <2>1. i \in Nat /\ d + 1 \in Nat
    BY <1>2
  <2>. QED  BY <1>2, <1>k, <1>p, <1>f, <2>1
<1>7. ASSUME NEW i \in Nat PROVE g[i] \in Nat
  <2>1. CASE i = 0
    BY <1>5, <2>1
  <2>2. CASE i # 0 /\ i >= d
    <3>1. i + 1 \in Nat /\ g[i] = f[i + 1]
      BY <1>6, <2>2
    <3>. QED  BY <1>f, <3>1
  <2>3. CASE i # 0 /\ i < d
    <3>1. i \in 1 .. d /\ g[i] = f[i] - k
      BY <1>2, <1>6, <2>3
    <3>. QED  BY <1>d, <1>k, <3>1
  <2>. QED  BY <1>2, <2>1, <2>2, <2>3
<1>8. g[1] <= n - k
  <2>0. f[1] <= n
    BY <1>1 DEF Covers
  <2>1. 1 \in 1 .. d /\ 1 \in Nat /\ 1 # 0
    BY <1>2
  <2>2. f[1] >= f[d + 1] + k /\ f[d + 1] \in Nat /\ f[1] \in Nat
    BY <1>d, <2>1
  <2>3. CASE 1 < d
    <3>1. g[1] = f[1] - k
      BY <1>6, <2>1, <2>3
    <3>. QED  BY <1>k, <2>0, <2>2, <3>1
  <2>4. CASE d = 1
    <3>1. g[1] = f[d + 1]
      BY <1>6, <2>1, <2>4
    <3>. QED  BY <1>k, <2>0, <2>2, <3>1
  <2>. QED  BY <1>2, <2>3, <2>4
<1>9. ASSUME NEW j \in 1 .. L - 1, NEW i \in 1 .. j
      PROVE  g[i] >= g[j + 1] + Bits(v[j])
  <2>0. /\ i \in Nat /\ i # 0 /\ j \in Nat /\ j # 0 /\ i <= j
        /\ j + 1 \in Nat /\ j + 1 # 0 /\ j \in 1 .. L /\ j + 1 \in 1 .. L
        /\ i \in 1 .. j /\ i \in 1 .. j + 1 /\ i + 1 \in 1 .. j + 1
    BY <1>2
  <2>1. /\ f[i] \in Nat /\ f[j + 1] \in Nat /\ f[(j + 1) + 1] \in Nat
        /\ Bits(w[j]) \in Nat /\ Bits(w[j + 1]) \in Nat
    BY <1>c, <1>f, <2>0
  <2>a. CASE j + 1 < d
    <3>1. i < d /\ j < d /\ i \in 1 .. d /\ j + 1 \in 1 .. d
      BY <1>2, <2>0, <2>a
    <3>2. g[i] = f[i] - k /\ g[j + 1] = f[j + 1] - k /\ v[j] = w[j]
      BY <1>3, <1>6, <2>0, <2>a, <3>1
    <3>3. f[i] >= f[j + 1] + Bits(w[j])
      BY <1>p, <2>0
    <3>. QED  BY <1>k, <2>1, <3>2, <3>3
  <2>b. CASE j + 1 = d
    <3>1. i < d /\ j < d
      BY <1>2, <2>0, <2>b
    <3>2. g[i] = f[i] - k /\ v[j] = w[j]
      BY <1>3, <1>6, <2>0, <3>1
    <3>3. g[j + 1] = f[d + 1]
      BY <1>2, <1>6, <2>0, <2>b
    <3>4. f[i] >= f[j + 1] + Bits(w[j])
      BY <1>p, <2>0
    <3>5. f[j + 1] >= f[d + 1] + k /\ f[d + 1] \in Nat
      <4>1. d \in 1 .. d
        BY <1>2
      <4>. QED  BY <1>d, <2>b, <4>1
    <3>6. f[i] - k >= f[d + 1] + Bits(w[j])
      <4> DEFINE x == f[i]   y == f[j + 1]   z == f[d + 1]   b == Bits(w[j])
      <4>1. /\ x \in Nat /\ y \in Nat /\ z \in Nat /\ b \in Nat /\ k \in Int
            /\ x >= y + b /\ y >= z + k
        BY <1>k, <2>1, <3>4, <3>5
      <4> HIDE DEF x, y, z, b
      <4>2. x - k >= z + b
        BY <4>1, TwoSteps
      <4>. QED  BY <4>2 DEF x, z, b
    <3>. QED  BY <3>2, <3>3, <3>6
  <2>c. CASE j >= d
    <3>1. g[j + 1] = f[(j + 1) + 1] /\ v[j] = w[j + 1]
      <4>1. j + 1 >= d
        BY <1>2, <2>0, <2>c
      <4>. QED  BY <1>3, <1>6, <2>0, <2>c, <4>1
    <3>2. CASE i < d
      <4>1. g[i] = f[i] - k /\ i \in 1 .. d
        BY <1>2, <1>6, <2>0, <3>2
      <4>2. f[i] >= f[d + 1] + k /\ f[d + 1] \in Nat
        BY <1>d, <4>1
      <4>3. d + 1 \in 1 .. j + 1
        BY <1>2, <2>0, <2>c
      <4>4. f[d + 1] >= f[(j + 1) + 1] + Bits(w[j + 1])
        BY <1>p, <2>0, <4>3
      <4>5. f[i] - k >= f[(j + 1) + 1] + Bits(w[j + 1])
        <5> DEFINE x == f[i]   y == f[d + 1]   z == f[(j + 1) + 1]   b == Bits(w[j + 1])
        <5>1. /\ x \in Nat /\ y \in Nat /\ z \in Nat /\ b \in Nat /\ k \in Int
              /\ x >= y + k /\ y >= z + b
          BY <1>k, <1>f, <2>0, <2>1, <4>2, <4>4
        <5> HIDE DEF x, y, z, b
        <5>2. x - k >= z + b
          BY <5>1
        <5>. QED  BY <5>2 DEF x, z, b
      <4>. QED  BY <3>1, <4>1, <4>5
    <3>3. CASE i >= d
      <4>1. g[i] = f[i + 1]
        BY <1>6, <2>0, <3>3
      <4>2. f[i + 1] >= f[(j + 1) + 1] + Bits(w[j + 1])
        BY <1>p, <2>0
      <4>. QED  BY <3>1, <4>1, <4>2
    <3>. QED  BY <1>2, <2>0, <3>2, <3>3
  <2>. QED  BY <1>2, <2>0, <2>a, <2>b, <2>c
<1>10. Covers(g, v, L - 1, n - k)
  BY <1>7, <1>8, <1>9 DEF Covers
<1>11. Debts(v, n - k)
  BY <1>3, <1>10 DEF Debts
<1>. QED  BY <1>11 DEF v, k

-----------------------------------------------------------------------------

(* The last bit is never handed out, so each end always holds one. *)
OneLeft == \A e \in Ends : store[e].cur >= 1

LEMMA LastBit ==
    ASSUME TypeOK, OneLeft, [Next]_vars
    PROVE  OneLeft'
<1>1. \A e \in Ends : store[e] \in Store /\ store[e].cur \in Nat /\ store[e].cur >= 1
  BY DEF TypeOK, OneLeft, Store
<1>2. store \in [Ends -> Store] /\ traffic.senders \subseteq Ends
      /\ traffic.requests \subseteq Request /\ Master \in Ends /\ Slave \in Ends
  BY LinkAssumption DEF TypeOK, Traffic, Ends
<1>3. ASSUME NEW e \in Ends, NEW t, t.cur >= 1, store' = [store EXCEPT ![e] = t]
      PROVE  OneLeft'
  BY <1>1, <1>2, <1>3 DEF OneLeft
<1>4. ASSUME NEW e \in traffic.senders, NEW r \in traffic.requests, VirtualSend(e, r)
      PROVE  OneLeft'
  <2>1. CASE Discard(e, r)
    BY <2>1 DEF Discard, vars, OneLeft
  <2>2. CASE \E p \in Protected(e, r) : store' = [store EXCEPT ![e] = p.store]
    <3>1. PICK p \in Protected(e, r) : store' = [store EXCEPT ![e] = p.store]
      BY <2>2
    <3>2. EncBits(r) \in Nat /\ AuthBits(r) \in Nat /\ e \in Ends
      BY <1>2, BitsType
    <3>3. p.store.cur >= 1
      BY <1>1, <3>2, TakeKeysLeaveOne DEF Protected
    <3>. QED  BY <1>3, <3>1, <3>2, <3>3
  <2>. QED  BY <1>4, <2>1, <2>2
         DEF VirtualSend, NoKey, NotForwarded, Refused, Sent, Abort
<1>5. ASSUME NEW e \in Ends, VirtualReceive(e)
      PROVE  OneLeft'
  <2> DEFINE r == Head(wire[e])
  <2>1. r \in Request
    <3>1. wire[e] \in Seq(Request) /\ wire[e] # << >>
      BY <1>5 DEF VirtualReceive, TypeOK
    <3>. QED  BY <3>1
  <2>2. EncBits(r) \in Nat /\ AuthBits(r) \in Nat
    BY <2>1, BitsType
  <2>3. PICK p \in Opened(e, r) : store' = [store EXCEPT ![e] = p.store]
    BY <1>5 DEF VirtualReceive
  <2>4. p.store.cur >= 1
    BY <1>1, <2>2, TakeKeysLeaveOne DEF Opened
  <2>. QED  BY <1>3, <2>3, <2>4
<1>6. ASSUME NEW e \in Ends, NEW k \in Nat, AddNewKeyMaterial(e, k)
      PROVE  OneLeft'
  <2>1. PICK t \in AfterCharge(store[e], k) : store' = [store EXCEPT ![e] = t]
    BY <1>6 DEF AddNewKeyMaterial
  <2>2. t.cur = store[e].cur + k \/ t.cur = store[e].cur
    BY <2>1 DEF AfterCharge, Holding
  <2>3. t.cur >= 1
    BY <1>1, <2>2
  <2>. QED  BY <1>3, <2>1, <2>3
<1>7. KeyRate \in Nat /\ due \in Nat
  BY LinkAssumption DEF TypeOK
<1>8. ASSUME UNCHANGED store PROVE OneLeft'
  BY <1>8 DEF OneLeft
<1>. QED  BY <1>2, <1>4, <1>5, <1>6, <1>7, <1>8
       DEF Next, Lose, ChargeSlave, ChargeMaster, vars

(* What a receiver that never sends relies on: nothing is on its way to    *)
(* the sender, what it owes covers the packets on their way to it, and it  *)
(* is ahead of the sender by as much, and by the round the sender still    *)
(* gets, whatever key material the sender loses.                           *)
Ahead == store[Master].cur + due <= store[Slave].cur - owed[Slave]

OneSender ==
    /\ wire[Master] = << >> /\ owed[Master] = 0
    /\ Debts(wire[Slave], owed[Slave])
    /\ "slave refused" \notin causes => "receiver short" \notin causes /\ Ahead

LEMMA OneSenderTypes ==
    ASSUME TypeOK
    PROVE  /\ Master # Slave /\ Slave \in Ends /\ Master \in Ends /\ Ends = {Master, Slave}
           /\ Peer(Master) = Slave
           /\ wire[Slave] \in Seq(Request) /\ owed[Slave] \in Int /\ due \in Nat
           /\ store[Slave] \in Store /\ store[Slave].cur \in Nat
           /\ store[Master] \in Store /\ store[Master].cur \in Nat
<1>1. Master # Slave /\ Slave \in Ends /\ Master \in Ends /\ Ends = {Master, Slave}
      /\ Peer(Master) = Slave
  BY LinkAssumption DEF Ends, Peer
<1>2. wire[Slave] \in Seq(Request) /\ owed[Slave] \in Int
  BY <1>1 DEF TypeOK
<1>3. store[Slave] \in Store /\ store[Master] \in Store
  BY <1>1 DEF TypeOK
<1>4. due \in Nat
  BY LinkAssumption DEF TypeOK
<1>. QED  BY <1>1, <1>2, <1>3, <1>4 DEF Store

LEMMA SentByOne ==
    ASSUME TypeOK, OneSender, NEW r \in Request, VirtualSend(Master, r)
    PROVE  OneSender'
<1> USE OneSenderTypes
<1>k. EncBits(r) \in Nat /\ AuthBits(r) \in Nat /\ Bits(r) = EncBits(r) + AuthBits(r)
  BY BitsType
<1>2. ASSUME NEW p \in Protected(Master, r), store' = [store EXCEPT ![Master] = p.store]
      PROVE  /\ store'[Master].cur = p.store.cur /\ store'[Slave] = store[Slave]
             /\ p.store.cur \in Nat /\ p.store.cur <= store[Master].cur
             /\ p.ok => p.store.cur = store[Master].cur - Bits(r)
  <2>1. /\ p.store \in Store /\ p.store.cur <= store[Master].cur
        /\ p.ok => p.store.cur = store[Master].cur - EncBits(r) - AuthBits(r)
    BY <1>k, TakeKeysResult, TakeKeysLess DEF Protected
  <2>2. store'[Master] = p.store /\ store'[Slave] = store[Slave]
    BY <1>2 DEF TypeOK
  <2>3. p.ok => p.store.cur = store[Master].cur - Bits(r)
    BY <1>k, <2>1
  <2>. QED  BY <2>1, <2>2, <2>3 DEF Store
<1>3. ASSUME NEW p \in Protected(Master, r), Sent(Master, r, p)
      PROVE  OneSender'
  <2>1. /\ wire' = [wire EXCEPT ![Slave] = Append(@, r)]
        /\ owed' = [owed EXCEPT ![Slave] = @ + Bits(r)] /\ causes' = causes /\ due' = due
        /\ store' = [store EXCEPT ![Master] = p.store] /\ p.ok
    BY <1>3 DEF Sent, Forwardable
  <2>2. /\ wire'[Master] = wire[Master] /\ owed'[Master] = owed[Master]
        /\ wire'[Slave] = Append(wire[Slave], r) /\ owed'[Slave] = owed[Slave] + Bits(r)
    BY <2>1 DEF TypeOK
  <2>3. Debts(wire'[Slave], owed'[Slave])
    BY <2>2, DebtsAppend DEF OneSender
  <2>4. Ahead => Ahead'
    <3>1. store'[Master].cur = store[Master].cur - Bits(r) /\ store'[Slave] = store[Slave]
      BY <1>2, <2>1
    <3> DEFINE a == store[Master].cur  b == store[Slave].cur  d == owed[Slave]  k == Bits(r)
    <3>2. a \in Int /\ b \in Int /\ d \in Int /\ k \in Int /\ due \in Int
      BY <1>k
    <3> HIDE DEF a, b, d, k
    <3>3. a + due <= b - d => (a - k) + due <= b - (d + k)
      BY <3>2
    <3>. QED  BY <2>1, <2>2, <3>1, <3>3 DEF Ahead, a, b, d, k
  <2>. QED  BY <2>1, <2>2, <2>3, <2>4 DEF OneSender
<1>4. CASE Discard(Master, r)
  BY <1>4 DEF Discard, vars, OneSender, Ahead
<1>5. ASSUME NEW p \in Protected(Master, r),
             NoKey(Master, p) \/ NotForwarded(Master, r, p) \/ Refused(Master, r, p)
               \/ Abort(Master, r, p)
      PROVE  OneSender'
  <2>1. /\ UNCHANGED <<wire, owed, due>> /\ store' = [store EXCEPT ![Master] = p.store]
        /\ causes' = causes \/ causes' = causes \cup {"lost"}
    BY <1>5 DEF NoKey, NotForwarded, Refused, Abort, Blame
  <2>2. /\ "slave refused" \in causes' <=> "slave refused" \in causes
        /\ "receiver short" \in causes' <=> "receiver short" \in causes
    BY <2>1
  <2>3. Ahead => Ahead'
    <3>1. /\ store'[Master].cur \in Nat /\ store'[Master].cur <= store[Master].cur
          /\ store'[Slave] = store[Slave]
      BY <1>2, <2>1
    <3> DEFINE a == store[Master].cur  b == store[Slave].cur  d == owed[Slave]
               x == store'[Master].cur
    <3>2. a \in Int /\ b \in Int /\ d \in Int /\ x \in Int /\ due \in Int /\ x <= a
      BY <3>1
    <3> HIDE DEF a, b, d, x
    <3>3. a + due <= b - d => x + due <= b - d
      BY <3>2
    <3>. QED  BY <2>1, <3>1, <3>3 DEF Ahead, a, b, d, x
  <2>. QED  BY <2>1, <2>2, <2>3 DEF OneSender
<1>. QED  BY <1>3, <1>4, <1>5 DEF VirtualSend

LEMMA OpenedByOther ==
    ASSUME TypeOK, OneLeft, OneSender, NEW e \in Ends, VirtualReceive(e)
    PROVE  OneSender'
<1> USE OneSenderTypes
<1>2. e = Slave /\ wire[Slave] # << >> /\ store[Master].cur >= 1
  BY DEF VirtualReceive, OneSender, OneLeft
<1> DEFINE r == Head(wire[Slave])
<1>4. r \in Request
  BY <1>2
<1>5. EncBits(r) \in Nat /\ AuthBits(r) \in Nat /\ Bits(r) = EncBits(r) + AuthBits(r)
  BY <1>4, BitsType
<1>6. PICK p \in Opened(Slave, r) :
        /\ store' = [store EXCEPT ![Slave] = p.store]
        /\ IF p.ok THEN UNCHANGED causes ELSE Blame("receiver short")
  BY <1>2 DEF VirtualReceive
<1>7. /\ wire'[Master] = wire[Master] /\ owed'[Master] = owed[Master] /\ due' = due
      /\ wire'[Slave] = Tail(wire[Slave]) /\ owed'[Slave] = owed[Slave] - Bits(r)
      /\ store'[Slave] = p.store /\ store'[Master] = store[Master]
  BY <1>2, <1>6 DEF VirtualReceive, TypeOK
<1>8. Bits(r) <= owed[Slave] /\ Debts(wire'[Slave], owed'[Slave])
  BY <1>2, <1>7, DebtsTail DEF OneSender
<1> HIDE DEF r
<1>9. CASE "slave refused" \in causes
  <2>1. "slave refused" \in causes'
    BY <1>6, <1>9 DEF Blame
  <2>. QED  BY <1>7, <1>8, <2>1 DEF OneSender
<1>10. CASE "slave refused" \notin causes
  <2>1. "receiver short" \notin causes /\ store[Master].cur + due <= store[Slave].cur - owed[Slave]
    BY <1>10 DEF OneSender, Ahead
  <2> DEFINE a == store[Master].cur  b == store[Slave].cur  d == owed[Slave]
             x == AuthBits(r)  y == EncBits(r)  k == Bits(r)
  <2>2. /\ a \in Nat /\ b \in Nat /\ d \in Int /\ x \in Nat /\ y \in Nat /\ due \in Nat
        /\ a >= 1 /\ k = y + x /\ k <= d /\ a + due <= b - d
    BY <1>2, <1>5, <1>8, <2>1
  <2> HIDE DEF a, b, d, x, y, k
  <2>3. b > x + y
    BY <2>2
  <2>4. p.ok
    BY <1>5, <1>6, <2>3, TakeKeysSucceed DEF Opened, b, x, y
  <2>5. p.store.cur = b - x - y
    BY <1>5, <1>6, <2>4, TakeKeysResult DEF Opened, b, x, y
  <2>6. a + due <= (b - x - y) - (d - k)
    BY <2>2
  <2>7. Ahead'
    BY <1>7, <2>5, <2>6 DEF Ahead, a, d, k
  <2>8. causes' = causes
    BY <1>6, <2>4
  <2>. QED  BY <1>7, <1>8, <2>1, <2>7, <2>8 DEF OneSender
<1>. QED  BY <1>9, <1>10

LEMMA LostOnTheWay ==
    ASSUME TypeOK, OneSender, NEW e \in Ends, Lose(e)
    PROVE  OneSender'
<1> USE OneSenderTypes
<1>2. PICK i \in DOMAIN wire[e] :
        /\ wire' = [wire EXCEPT ![e] = SubSeq(@, 1, i - 1) \o SubSeq(@, i + 1, Len(@))]
        /\ owed' = [owed EXCEPT ![e] = @ - Bits(wire[e][i])]
        /\ IF Bits(wire[e][i]) > 0 THEN Blame("lost") ELSE UNCHANGED causes
  BY DEF Lose
<1>3. wire[e] \in Seq(Request) /\ i \in 1 .. Len(wire[e]) /\ Bits(wire[e][i]) \in Nat
  <2>1. wire[e] \in Seq(Request)
    BY DEF TypeOK
  <2>2. i \in 1 .. Len(wire[e])
    BY <2>1
  <2>. QED  BY <2>1, <2>2, RequestBits
<1>4. e = Slave
  <2>1. wire[e] # << >>
    BY <1>3
  <2>. QED  BY <2>1 DEF OneSender
<1>5. /\ wire'[Master] = wire[Master] /\ owed'[Master] = owed[Master]
      /\ wire'[Slave] = Dropped(wire[Slave], i)
      /\ owed'[Slave] = owed[Slave] - Bits(wire[Slave][i])
      /\ store' = store /\ due' = due
  BY <1>2, <1>4 DEF TypeOK, Dropped, Lose
<1>6. Debts(wire'[Slave], owed'[Slave])
  BY <1>3, <1>4, <1>5, DebtsDrop DEF OneSender
<1>7. /\ "slave refused" \in causes' <=> "slave refused" \in causes
      /\ "receiver short" \in causes' <=> "receiver short" \in causes
  <2>1. causes' = causes \/ causes' = causes \cup {"lost"}
    BY <1>2 DEF Blame
  <2>. QED  BY <2>1
<1>8. Ahead => Ahead'
  <2> DEFINE a == store[Master].cur  b == store[Slave].cur  d == owed[Slave]
             k == Bits(wire[Slave][i])
  <2>2. a \in Int /\ b \in Int /\ d \in Int /\ k \in Nat /\ due \in Int
    BY <1>3, <1>4
  <2> HIDE DEF a, b, d, k
  <2>3. a + due <= b - d => a + due <= b - (d - k)
    BY <2>2
  <2>. QED  BY <1>5, <2>3 DEF Ahead, a, b, d, k
<1>. QED  BY <1>5, <1>6, <1>7, <1>8 DEF OneSender

(* A round comes to the slave first. *)
LEMMA ChargedInTurn ==
    ASSUME TypeOK, OneSender, ChargeSlave \/ ChargeMaster
    PROVE  OneSender'
<1> USE OneSenderTypes
<1>1. UNCHANGED <<wire, owed>>
  BY DEF ChargeSlave, ChargeMaster, AddNewKeyMaterial
<1>2. ASSUME NEW e \in Ends, NEW k \in Nat, AddNewKeyMaterial(e, k)
      PROVE  /\ store'[e].cur = IF Fits(store[e], k) THEN store[e].cur + k ELSE store[e].cur
             /\ store'[Peer(e)] = store[Peer(e)]
             /\ IF Fits(store[e], k) THEN causes' = causes
                ELSE causes' = causes \cup {IF e = Slave THEN "slave refused" ELSE "lost"}
  <2>1. PICK t \in AfterCharge(store[e], k) : store' = [store EXCEPT ![e] = t]
    BY <1>2 DEF AddNewKeyMaterial
  <2>2. t.cur = IF Fits(store[e], k) THEN store[e].cur + k ELSE store[e].cur
    BY <2>1 DEF AfterCharge, Holding
  <2>3. store'[e] = t /\ store'[Peer(e)] = store[Peer(e)]
    BY <2>1, PeerEnd DEF TypeOK
  <2>. QED  BY <1>2, <2>2, <2>3 DEF AddNewKeyMaterial, Blame
<1> DEFINE a == store[Master].cur  b == store[Slave].cur  d == owed[Slave]
<1>3. a \in Nat /\ b \in Nat /\ d \in Int /\ due \in Nat /\ KeyRate \in Nat
  BY LinkAssumption
<1>4. CASE ChargeSlave
  <2>1. AddNewKeyMaterial(Slave, KeyRate) /\ due = 0 /\ due' = KeyRate
    BY <1>4 DEF ChargeSlave
  <2>2. Peer(Slave) = Master
    BY DEF Peer
  <2>3. CASE Fits(store[Slave], KeyRate)
    <3>1. /\ store'[Slave].cur = b + KeyRate /\ store'[Master] = store[Master]
          /\ causes' = causes
      BY <1>2, <1>3, <2>1, <2>2, <2>3
    <3> HIDE DEF a, b, d
    <3>2. a + due <= b - d => a + KeyRate <= (b + KeyRate) - d
      BY <1>3, <2>1
    <3>3. Ahead => Ahead'
      BY <1>1, <2>1, <3>1, <3>2 DEF Ahead, a, b, d
    <3>. QED  BY <1>1, <3>1, <3>3 DEF OneSender
  <2>4. CASE ~ Fits(store[Slave], KeyRate)
    <3>1. "slave refused" \in causes'
      BY <1>2, <1>3, <2>1, <2>4
    <3>. QED  BY <1>1, <3>1 DEF OneSender
  <2>. QED  BY <2>3, <2>4
<1>5. CASE ChargeMaster
  <2>1. AddNewKeyMaterial(Master, due) /\ due' = 0
    BY <1>5 DEF ChargeMaster
  <2>2. /\ store'[Master].cur = a + due \/ store'[Master].cur = a
        /\ store'[Slave] = store[Slave] /\ (causes' = causes \/ causes' = causes \cup {"lost"})
    BY <1>2, <1>3, <2>1
  <2>3. /\ "slave refused" \in causes' <=> "slave refused" \in causes
        /\ "receiver short" \in causes' <=> "receiver short" \in causes
    BY <2>2
  <2>4. Ahead => Ahead'
    <3> DEFINE x == store'[Master].cur
    <3>1. x = a + due \/ x = a
      BY <2>2
    <3> HIDE DEF a, b, d, x
    <3>2. a + due <= b - d => x + 0 <= b - d
      BY <1>3, <3>1
    <3>. QED  BY <1>1, <2>1, <2>2, <3>2 DEF Ahead, a, b, d, x
  <2>. QED  BY <1>1, <2>3, <2>4 DEF OneSender
<1>. QED  BY <1>4, <1>5

(* When only the master sends, the slave can open every packet that comes, *)
(* whatever keys the master took for nothing, whichever packets were lost  *)
(* and whichever rounds the master's full buffer refused, as long as the   *)
(* slave stored its own rounds: its amount covers the master's, the round  *)
(* the master still gets and all packets on their way, the slave is        *)
(* charged first, and the master's buffer never hands out its last bit.    *)
THEOREM ReceiverCanOpen == Spec => []ReceiverNeverShort
<1> DEFINE I == OneLeft /\ (traffic.senders = {Master} => OneSender)
<1>1. Init => I
  <2> SUFFICES ASSUME Init PROVE I
    OBVIOUS
  <2>0. Master \in Ends /\ Slave \in Ends
    BY DEF Ends
  <2>1. PICK c \in InitialAmounts :
            store \in [Ends -> [cur : {c}, thr : {Thr}, status : Statuses \cup {UNINIT}]]
    BY DEF Init
  <2>2. c >= 1 /\ c \in Nat
    BY LinkAssumption, StoreAssumption
  <2>3. OneLeft
    BY <2>1, <2>2 DEF OneLeft
  <2>4. wire[Master] = << >> /\ wire[Slave] = << >> /\ owed[Master] = 0 /\ owed[Slave] = 0
        /\ causes = {} /\ due = 0
    BY <2>0 DEF Init
  <2>5. Debts(<< >>, 0)
    <3> DEFINE f == [i \in Nat |-> 0]
    <3>1. \A i \in Nat : f[i] = 0
      OBVIOUS
    <3> HIDE DEF f
    <3>2. Covers(f, << >>, 0, 0)
      BY <3>1 DEF Covers
    <3>3. Len(<< >>) = 0
      OBVIOUS
    <3>. QED  BY <3>2, <3>3 DEF Debts
  <2>6. Ahead
    <3>1. store[Master].cur = c /\ store[Slave].cur = c
      BY <2>0, <2>1
    <3>. QED  BY <2>2, <2>4, <3>1 DEF Ahead
  <2>. QED  BY <2>3, <2>4, <2>5, <2>6 DEF OneSender
<1>2. TypeOK /\ I /\ [Next]_vars => I'
  <2> SUFFICES ASSUME TypeOK, I, [Next]_vars PROVE I'
    OBVIOUS
  <2>1. OneLeft'
    BY LastBit
  <2>2. traffic' = traffic /\ traffic.requests \subseteq Request
    BY LinkAssumption DEF TypeOK, Next, vars, Traffic
  <2>3. ASSUME traffic.senders = {Master} PROVE OneSender'
    <3>0. OneSender
      BY <2>3
    <3>1. ASSUME NEW e \in traffic.senders, NEW r \in traffic.requests, VirtualSend(e, r)
          PROVE  OneSender'
      BY <2>2, <2>3, <3>0, <3>1, SentByOne
    <3>2. ASSUME NEW e \in Ends, VirtualReceive(e) PROVE OneSender'
      BY <3>0, <3>2, OpenedByOther
    <3>3. ASSUME NEW e \in Ends, Lose(e) PROVE OneSender'
      BY <3>0, <3>3, LostOnTheWay
    <3>4. CASE ChargeSlave \/ ChargeMaster
      BY <3>0, <3>4, ChargedInTurn
    <3>5. CASE UNCHANGED vars
      BY <3>0, <3>5 DEF vars, OneSender, Ahead
    <3>. QED  BY <3>1, <3>2, <3>3, <3>4, <3>5 DEF Next
  <2>. QED  BY <2>1, <2>2, <2>3
<1>3. I => ReceiverNeverShort
  BY DEF OneSender, ReceiverNeverShort
<1>. QED  BY <1>1, <1>2, <1>3, TypeCorrect, PTL DEF Spec
=============================================================================
