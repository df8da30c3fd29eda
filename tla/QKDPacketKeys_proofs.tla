------------------------ MODULE QKDPacketKeys_proofs ------------------------
(***************************************************************************)
(* Lemmas on the key material of packets, for the proofs about QKDLink and *)
(* QKDQueueDisc.                                                           *)
(***************************************************************************)
EXTENDS QKDPacketKeys, TLAPS

(* What the packets need is a natural number. *)
LEMMA BitsType ==
    ASSUME NEW r \in Request
    PROVE  EncBits(r) \in Nat /\ AuthBits(r) \in Nat /\ Bits(r) = EncBits(r) + AuthBits(r)
  BY KeysAssumption DEF EncBits, AuthBits, Bits, Request

(* A key that is not there leaves the store alone; one that is there costs *)
(* its size. *)
LEMMA TakeKeyResult ==
    ASSUME NEW t \in Store, NEW need \in Nat, NEW p \in TakeKey(t, need)
    PROVE  /\ p.store \in Store /\ p.ok \in BOOLEAN
           /\ p.store.cur = IF p.ok THEN t.cur - need ELSE t.cur
<1>t. t.cur \in Nat
  BY DEF Store
<1>1. CASE need = 0
  <2>1. p = [store |-> t, ok |-> TRUE]
    BY <1>1 DEF TakeKey
  <2>. QED  BY <1>t, <1>1, <2>1
<1>2. CASE need # 0 /\ Enough(t, need)
  <2>1. PICK x \in AfterTake(t, need) : p = [store |-> x, ok |-> TRUE]
    BY <1>2 DEF TakeKey
  <2>2. PICK y \in StatusesOf(t.cur - need, t.thr) :
            x = [cur |-> t.cur - need, thr |-> t.thr, status |-> y]
    BY <2>1 DEF AfterTake, Holding
  <2>3. y \in Statuses
    BY <2>2 DEF StatusesOf, Statuses
  <2>. QED  BY <1>2, <2>1, <2>2, <2>3 DEF Enough, Store
<1>3. CASE need # 0 /\ ~ Enough(t, need)
  <2>1. p = [store |-> t, ok |-> FALSE]
    BY <1>3 DEF TakeKey
  <2>. QED  BY <1>t, <2>1
<1>. QED  BY <1>1, <1>2, <1>3

(* Two keys in a row. *)
LEMMA TakeKeysResult ==
    ASSUME NEW t \in Store, NEW first \in Nat, NEW second \in Nat,
           NEW p \in TakeKeys(t, first, second)
    PROVE  /\ p.store \in Store /\ p.ok \in BOOLEAN
           /\ p.ok => p.store.cur = t.cur - first - second
<1>1. PICK a \in TakeKey(t, first) : p \in IF a.ok THEN TakeKey(a.store, second) ELSE {a}
  BY DEF TakeKeys
<1>2. a.store \in Store /\ a.ok \in BOOLEAN
      /\ a.store.cur = IF a.ok THEN t.cur - first ELSE t.cur
  BY TakeKeyResult
<1>3. CASE a.ok
  <2>1. p \in TakeKey(a.store, second)
    BY <1>1, <1>3
  <2>2. p.store \in Store /\ p.ok \in BOOLEAN
        /\ p.store.cur = IF p.ok THEN a.store.cur - second ELSE a.store.cur
    BY <1>2, <2>1, TakeKeyResult
  <2>. QED  BY <1>2, <1>3, <2>2
<1>4. CASE ~ a.ok
  BY <1>1, <1>2, <1>4
<1>. QED  BY <1>3, <1>4

(* Taking keys, or failing to, never adds to a buffer. *)
LEMMA TakeKeysLess ==
    ASSUME NEW t \in Store, NEW first \in Nat, NEW second \in Nat,
           NEW p \in TakeKeys(t, first, second)
    PROVE  p.store.cur <= t.cur
<1>1. PICK a \in TakeKey(t, first) : p \in IF a.ok THEN TakeKey(a.store, second) ELSE {a}
  BY DEF TakeKeys
<1>2. a.store \in Store /\ a.ok \in BOOLEAN
      /\ a.store.cur = IF a.ok THEN t.cur - first ELSE t.cur
  BY TakeKeyResult
<1>3. t.cur \in Nat /\ a.store.cur \in Nat /\ a.store.cur <= t.cur
  BY <1>2 DEF Store
<1>4. CASE a.ok
  <2>1. p.store.cur = IF p.ok THEN a.store.cur - second ELSE a.store.cur
    BY <1>1, <1>2, <1>4, TakeKeyResult
  <2>. QED  BY <1>3, <2>1
<1>5. CASE ~ a.ok
  BY <1>1, <1>3, <1>5
<1>. QED  BY <1>2, <1>4, <1>5

(* Taking keys never takes the last bit. *)
LEMMA TakeKeysLeaveOne ==
    ASSUME NEW t \in Store, NEW first \in Nat, NEW second \in Nat,
           NEW p \in TakeKeys(t, first, second), t.cur >= 1
    PROVE  p.store.cur >= 1
<1>1. ASSUME NEW x \in Store, NEW need \in Nat, NEW q \in TakeKey(x, need), x.cur >= 1
      PROVE  q.store.cur >= 1
  <2>1. x.cur \in Nat /\ q.ok \in BOOLEAN
        /\ q.store.cur = IF q.ok THEN x.cur - need ELSE x.cur
    BY <1>1, TakeKeyResult DEF Store
  <2>2. q.ok => need = 0 \/ x.cur > need
    BY <1>1 DEF TakeKey, Enough
  <2>. QED  BY <1>1, <2>1, <2>2
<1>2. PICK a \in TakeKey(t, first) : p \in IF a.ok THEN TakeKey(a.store, second) ELSE {a}
  BY DEF TakeKeys
<1>3. a.store \in Store /\ a.store.cur >= 1
  BY <1>1, <1>2, TakeKeyResult
<1>. QED  BY <1>1, <1>2, <1>3

(* Keys that a buffer holds, and one bit more, are there. *)
LEMMA TakeKeysSucceed ==
    ASSUME NEW t \in Store, NEW first \in Nat, NEW second \in Nat,
           NEW p \in TakeKeys(t, first, second), t.cur > first + second
    PROVE  p.ok
<1>1. ASSUME NEW x \in Store, NEW need \in Nat, NEW q \in TakeKey(x, need), x.cur > need
      PROVE  q.ok
  BY <1>1 DEF TakeKey, Enough
<1>2. PICK a \in TakeKey(t, first) : p \in IF a.ok THEN TakeKey(a.store, second) ELSE {a}
  BY DEF TakeKeys
<1>3. t.cur \in Nat /\ t.cur > first
  BY DEF Store
<1>4. a.ok /\ a.store \in Store /\ a.store.cur = t.cur - first
  BY <1>1, <1>2, <1>3, TakeKeyResult
<1>5. a.store.cur > second
  BY <1>3, <1>4
<1>. QED  BY <1>1, <1>2, <1>4, <1>5

(* A charge leaves a key store a key store. *)
LEMMA AfterChargeType ==
    ASSUME NEW t \in Store, NEW k \in Nat, NEW x \in AfterCharge(t, k)
    PROVE  x \in Store
<1>1. PICK y \in StatusesOf(IF Fits(t, k) THEN t.cur + k ELSE t.cur, t.thr) :
          x = [cur |-> IF Fits(t, k) THEN t.cur + k ELSE t.cur, thr |-> t.thr, status |-> y]
  BY DEF AfterCharge, Holding
<1>2. y \in Statuses
  BY <1>1 DEF StatusesOf, Statuses
<1>. QED  BY <1>1, <1>2 DEF Store
=============================================================================
