-------------------------- MODULE QKDBuffer_proofs --------------------------
(***************************************************************************)
(* Theorems about one key buffer, for every capacity, threshold and size   *)
(* of key.  The inductive invariant adds to the properties of QKDBuffer    *)
(* what the window of recorded amounts looks like between two operations.  *)
(***************************************************************************)
EXTENDS QKDBuffer, SequenceTheorems, TLAPS

Descends(w) == \A i, j \in 1 .. Len(w) : i < j => w[i].value >= w[j].value

(* Entries carry the number of the operation that recorded them, and the
   first operation of a buffer leaves an entry behind.                     *)
WindowIsPast ==
    /\ buf.window = << >> <=> buf.noEntry = 0
    /\ \A i \in 1 .. Len(buf.window) : buf.window[i].position < buf.noEntry

StatusKnown == buf.noEntry > 0 => buf.status \in Status /\ buf.prev = buf.status

-----------------------------------------------------------------------------
(* Lemmas on the operators of QKDBufferOps. *)

(* Trimming keeps a prefix of the window. *)
LEMMA TrimmedIsPrefix ==
    ASSUME NEW b \in BufferState
    PROVE  /\ Trimmed(b) \in Seq(Entry)
           /\ Len(Trimmed(b)) <= Len(b.window)
           /\ \A i \in 1 .. Len(Trimmed(b)) : Trimmed(b)[i] = b.window[i]
<1>1. b.window \in Seq(Entry) /\ b.period \in Nat
  BY DEF BufferState
<1>2. CASE Len(b.window) > b.period
  <2>1. \A i \in 1 .. b.period : b.window[i] \in Entry
    BY <1>1, <1>2
  <2>2. /\ SubSeq(b.window, 1, b.period) \in Seq(Entry)
        /\ Len(SubSeq(b.window, 1, b.period)) = IF 1 <= b.period THEN b.period - 1 + 1 ELSE 0
        /\ \A i \in 1 .. b.period - 1 + 1 : SubSeq(b.window, 1, b.period)[i] = b.window[1 + i - 1]
    BY <1>1, <2>1, SubSeqProperties
  <2>3. Trimmed(b) = SubSeq(b.window, 1, b.period)
    BY <1>2 DEF Trimmed
  <2>. QED  BY <1>1, <1>2, <2>2, <2>3
<1>3. CASE ~(Len(b.window) > b.period)
  BY <1>1, <1>3 DEF Trimmed
<1>. QED  BY <1>2, <1>3

(* Inserting into a descending sequence gives a descending sequence; its
   front is the new entry unless the old front is greater, or as great and the
   sequence too long for a stable sort.                                    *)
LEMMA InsertKeepsOrder ==
    ASSUME NEW w \in Seq(Entry), NEW q \in Entry, Descends(w), NEW r \in SortedInserts(w, q)
    PROVE  /\ r \in Seq(Entry)
           /\ Len(r) = Len(w) + 1
           /\ Descends(r)
           /\ \A i \in 1 .. Len(w) + 1 : r[i] = q \/ \E j \in 1 .. Len(w) : r[i] = w[j]
           /\ \/ r[1] = q /\ (w # << >> => w[1].value <= q.value)
              \/ w # << >> /\ r[1] = w[1] /\ w[1].value > q.value
              \/ w # << >> /\ r[1] = w[1] /\ w[1].value = q.value /\ TiedPeak(r)
<1> DEFINE n == Len(w)
<1>1. n \in Nat /\ \A i \in 1 .. n : w[i] \in Entry /\ w[i].value \in Int
  <2>1. \A e \in Entry : e.value \in Int
    BY BufferAssumption DEF Entry, UInt
  <2>. QED  BY <2>1, LenProperties, ElementOfSeq
<1>2. q.value \in Int
  BY BufferAssumption DEF Entry, UInt
<1>3. PICK p \in Places(w, q) : r = InsertAt(w, q, p)
  BY DEF SortedInserts
<1>4. /\ p \in 1 .. n + 1
      /\ \A i \in 1 .. n : w[i].value > q.value => i < p
      /\ \A i \in 1 .. n : w[i].value < q.value => p <= i
      /\ \A i \in 1 .. n : w[i].value = q.value /\ n < StableSize => p <= i
  BY <1>3 DEF Places
<1>5. \A i \in 1 .. n + 1 : r[i] = IF i < p THEN w[i] ELSE IF i = p THEN q ELSE w[i - 1]
  BY <1>3 DEF InsertAt
<1>6. \A i \in 1 .. n + 1 : \/ i < p /\ i \in 1 .. n /\ r[i] = w[i]
                            \/ i = p /\ r[i] = q
                            \/ i > p /\ i - 1 \in 1 .. n /\ r[i] = w[i - 1]
  BY <1>1, <1>4, <1>5
<1>7. r \in Seq(Entry) /\ Len(r) = n + 1
  <2>1. r = [i \in 1 .. n + 1 |-> r[i]]
    BY <1>3 DEF InsertAt
  <2>2. \A i \in 1 .. n + 1 : r[i] \in Entry
    BY <1>1, <1>6
  <2>. QED  BY <1>1, <2>1, <2>2, IsASeq
<1>8. \A i \in 1 .. n : (i < p => w[i].value >= q.value) /\ (p <= i => w[i].value <= q.value)
  BY <1>1, <1>2, <1>4
<1>9. Descends(r)
  <2> SUFFICES ASSUME NEW i \in 1 .. n + 1, NEW j \in 1 .. n + 1, i < j
               PROVE  r[i].value >= r[j].value
    BY <1>7 DEF Descends
  <2>1. \A k, l \in 1 .. n : k <= l => w[k].value >= w[l].value
    BY <1>1 DEF Descends
  <2> HIDE DEF n
  <2>2. CASE i < p
    <3>1. i \in 1 .. n /\ r[i] = w[i] /\ w[i].value >= q.value
      BY <1>1, <1>4, <1>6, <1>8, <2>2
    <3>2. \/ r[j] = q
          \/ j \in 1 .. n /\ r[j] = w[j]
          \/ j - 1 \in 1 .. n /\ i <= j - 1 /\ r[j] = w[j - 1]
      BY <1>1, <1>4, <1>6
    <3>. QED  BY <1>1, <2>1, <3>1, <3>2
  <2>3. CASE i = p
    <3>1. r[i] = q
      BY <1>4, <1>6, <2>3
    <3>2. j - 1 \in 1 .. n /\ p <= j - 1 /\ r[j] = w[j - 1]
      BY <1>4, <1>6, <2>3
    <3>. QED  BY <1>1, <1>2, <1>8, <3>1, <3>2
  <2>4. CASE i > p
    <3>1. /\ i - 1 \in 1 .. n /\ j - 1 \in 1 .. n /\ i - 1 <= j - 1
          /\ r[i] = w[i - 1] /\ r[j] = w[j - 1]
      BY <1>4, <1>6, <2>4
    <3>. QED  BY <2>1, <3>1
  <2>. QED  BY <1>4, <2>2, <2>3, <2>4
<1>10. \A i \in 1 .. n + 1 : r[i] = q \/ \E j \in 1 .. n : r[i] = w[j]
  BY <1>6
<1>11. CASE p = 1
  <2>1. r[1] = q
    BY <1>1, <1>6, <1>11
  <2>2. w # << >> => 1 \in 1 .. n
    BY <1>1, EmptySeq
  <2>. QED  BY <1>7, <1>8, <1>9, <1>10, <1>11, <2>1, <2>2
<1>12. CASE p # 1
  <2>1. 1 < p /\ 1 \in 1 .. n /\ w # << >> /\ r[1] = w[1] /\ w[1].value >= q.value
    BY <1>1, <1>4, <1>6, <1>8, <1>12, EmptySeq
  <2>2. CASE w[1].value > q.value
    BY <1>7, <1>9, <1>10, <2>1, <2>2
  <2>3. CASE w[1].value = q.value
    <3>1. ~ (n < StableSize)
      BY <1>1, <1>4, <2>1, <2>3
    <3>2. Len(r) > StableSize
      BY <1>1, <1>7, <3>1, BufferAssumption
    <3>3. r[2].value = q.value
      <4>1. 2 \in 1 .. n + 1
        BY <1>1, <2>1
      <4>2. CASE p = 2
        BY <1>6, <4>1, <4>2
      <4>3. CASE p # 2
        <5>1. 2 < p /\ 2 \in 1 .. n /\ r[2] = w[2]
          BY <1>1, <1>4, <1>6, <2>1, <4>1, <4>3
        <5>2. w[2].value >= q.value /\ w[1].value >= w[2].value
          BY <1>8, <2>1, <5>1 DEF Descends
        <5>. QED  BY <1>1, <1>2, <2>3, <5>1, <5>2
      <4>. QED  BY <4>2, <4>3
    <3>. QED  BY <1>7, <1>9, <1>10, <2>1, <2>3, <3>2, <3>3 DEF TiedPeak
  <2>. QED  BY <1>1, <1>2, <2>1, <2>2, <2>3
<1>. QED  BY <1>11, <1>12

(* What a buffer between two operations looks like, with pk the highest
   amount recorded since its window was last empty.                        *)
Between(b, pk) ==
    /\ b.window = << >> <=> b.noEntry = 0
    /\ \A i \in 1 .. Len(b.window) : b.window[i].position < b.noEntry
    /\ Descends(b.window)
    /\ b.noAdd <= b.noEntry
    /\ b.window # << >> => b.window[1].value = pk
    /\ b.noEntry > 0 => b.status \in Status /\ b.prev = b.status

NewPeak(b, pk) == IF Trimmed(b) = << >> \/ b.cur > pk THEN b.cur ELSE pk

(* CheckState changes the two status fields and nothing else. *)
LEMMA CheckStateType ==
    ASSUME NEW b \in BufferState
    PROVE  /\ CheckState(b) \in BufferState
           /\ CheckState(b).cur = b.cur /\ CheckState(b).thr = b.thr
           /\ CheckState(b).window = b.window /\ CheckState(b).rising = b.rising
           /\ CheckState(b).noEntry = b.noEntry /\ CheckState(b).noAdd = b.noAdd
           /\ CheckState(b).status = NewStatus(b) /\ CheckState(b).prev = NewStatus(b)
<1>1. NewStatus(b) \in Status \cup {UNINIT}
  BY DEF NewStatus, BufferState, Status
<1>2. \A s \in Status \cup {UNINIT} :
         LET c == [b EXCEPT !.status = s, !.prev = s]
         IN  /\ c \in BufferState
             /\ c.cur = b.cur /\ c.thr = b.thr /\ c.window = b.window /\ c.rising = b.rising
             /\ c.noEntry = b.noEntry /\ c.noAdd = b.noAdd /\ c.status = s /\ c.prev = s
  BY DEF BufferState
<1>. QED  BY <1>1, <1>2 DEF CheckState

(* A buffer that knows its status, or has just seen its first amount, gets the
   status that fits the amount.                                            *)
LEMMA CheckStateFits ==
    ASSUME NEW b \in BufferState,
           b.rising \/ (b.status \in Status /\ b.prev = b.status)
    PROVE  StatusFitsAmount(CheckState(b))
<1>1. b.cur \in Int /\ b.thr \in Int /\ Mmin \in Int
  BY BufferAssumption DEF BufferState, UInt
<1> DEFINE c == CheckState(b)
<1>2. c.cur = b.cur /\ c.thr = b.thr /\ c.status = NewStatus(b) /\ c.prev = NewStatus(b)
  BY CheckStateType
<1>3. CASE b.cur >= b.thr
  BY <1>1, <1>2, <1>3 DEF NewStatus, StatusFitsAmount, Status, READY, EMPTY, CHARGING, WARNING, BelowThreshold
<1>4. CASE b.cur < b.thr /\ b.cur <= Mmin
  BY <1>1, <1>2, <1>4 DEF NewStatus, StatusFitsAmount, Status, READY, EMPTY, CHARGING, WARNING, BelowThreshold
<1>5. CASE BelowThreshold(b)
  <2>1. NewStatus(b) \in {WARNING, CHARGING}
    BY <1>1, <1>5 DEF NewStatus, BelowThreshold, EntersCharging, Status, READY, EMPTY, CHARGING, WARNING, BufferState
  <2>. QED  BY <1>1, <1>2, <1>5, <2>1 DEF StatusFitsAmount, Status, READY, EMPTY, CHARGING, WARNING, BelowThreshold
<1>. QED  BY <1>1, <1>3, <1>4, <1>5 DEF BelowThreshold

(* Recording an amount: the window stays sorted with the peak in front, the
   trend says whether the amount is the peak, the status fits the amount.  *)
LEMMA KeyCalculationRecords ==
    ASSUME NEW b \in BufferState, NEW pk \in UInt, Between(b, pk),
           NEW c \in KeyCalculation(b)
    PROVE  /\ c \in BufferState
           /\ c.cur = b.cur
           /\ c.thr = b.thr
           /\ c.noEntry = b.noEntry + 1
           /\ NewPeak(b, pk) \in UInt
           /\ Between(c, NewPeak(b, pk))
           /\ c.rising => b.cur = NewPeak(b, pk)
           /\ b.cur = NewPeak(b, pk) => c.rising \/ TiedPeak(c.window)
           /\ StatusFitsAmount(c)
           /\ c.status = CHARGING => c.rising \/ b.prev = EMPTY \/ b.status = CHARGING
<1> DEFINE t == Trimmed(b)
           q == [value |-> b.cur, position |-> b.noEntry]
<1>0. PICK w \in SortedInserts(t, q) : c = Recorded(b, w)
  BY DEF KeyCalculation
<1> DEFINE d == [b EXCEPT !.window = w, !.rising = (w[1].position = b.noEntry)]
<1>1. /\ b.cur \in UInt /\ b.noEntry \in Nat /\ b.window \in Seq(Entry) /\ q \in Entry
      /\ \A e \in Entry : e.value \in UInt /\ e.position \in Nat
      /\ \A x \in UInt : x \in Int
  BY BufferAssumption DEF BufferState, Entry, UInt
<1>2. /\ t \in Seq(Entry) /\ Len(t) <= Len(b.window)
      /\ \A i \in 1 .. Len(t) : t[i] = b.window[i]
  BY TrimmedIsPrefix
<1>3. Len(t) \in Nat /\ Len(b.window) \in Nat
  BY <1>1, <1>2, LenProperties
<1>4. Descends(t)
  BY <1>2, <1>3 DEF Between, Descends
<1>5. /\ w \in Seq(Entry) /\ Len(w) = Len(t) + 1 /\ Descends(w)
      /\ \A i \in 1 .. Len(t) + 1 : w[i] = q \/ \E j \in 1 .. Len(t) : w[i] = t[j]
      /\ \/ w[1] = q /\ (t # << >> => t[1].value <= q.value)
         \/ t # << >> /\ w[1] = t[1] /\ t[1].value > q.value
         \/ t # << >> /\ w[1] = t[1] /\ t[1].value = q.value /\ TiedPeak(w)
  BY <1>1, <1>2, <1>4, InsertKeepsOrder
<1>6. \A j \in 1 .. Len(t) : t[j].position < b.noEntry
  BY <1>2, <1>3 DEF Between
<1>7. t # << >> => 1 \in 1 .. Len(t) /\ t[1] \in Entry /\ t[1].value = pk
  <2> SUFFICES ASSUME t # << >>
               PROVE  1 \in 1 .. Len(t) /\ t[1] \in Entry /\ t[1].value = pk
    OBVIOUS
  <2>1. 1 \in 1 .. Len(t)
    BY <1>2, EmptySeq
  <2>2. b.window # << >>
    BY <1>2, <1>3, <2>1, EmptySeq
  <2>. QED  BY <1>2, <2>1, <2>2, ElementOfSeq DEF Between
<1>8. /\ w[1].position = b.noEntry => b.cur = NewPeak(b, pk)
      /\ b.cur = NewPeak(b, pk) => w[1].position = b.noEntry \/ TiedPeak(w)
      /\ w[1].value = NewPeak(b, pk) /\ NewPeak(b, pk) \in UInt
  <2>1. CASE w[1] = q /\ (t # << >> => t[1].value <= q.value)
    BY <1>1, <1>7, <2>1 DEF NewPeak
  <2>2. CASE t # << >> /\ w[1] = t[1] /\ t[1].value > q.value
    BY <1>1, <1>6, <1>7, <2>2 DEF NewPeak
  <2>3. CASE t # << >> /\ w[1] = t[1] /\ t[1].value = q.value /\ TiedPeak(w)
    BY <1>1, <1>6, <1>7, <2>3 DEF NewPeak
  <2>. QED  BY <1>5, <2>1, <2>2, <2>3
<1>10. d \in BufferState /\ d.cur = b.cur /\ d.thr = b.thr /\ d.window = w /\ d.noEntry = b.noEntry /\ d.noAdd = b.noAdd
       /\ d.status = b.status /\ d.prev = b.prev /\ (d.rising <=> w[1].position = b.noEntry)
  BY <1>5 DEF BufferState
<1>11. c = [CheckState(d) EXCEPT !.noEntry = b.noEntry + 1]
  BY <1>0 DEF Recorded
<1>12. /\ CheckState(d) \in BufferState
       /\ CheckState(d).cur = b.cur /\ CheckState(d).thr = b.thr
       /\ CheckState(d).window = w /\ CheckState(d).rising = d.rising
       /\ CheckState(d).noAdd = b.noAdd /\ CheckState(d).status = NewStatus(d)
  BY <1>10, CheckStateType
<1>13. /\ c \in BufferState /\ c.cur = b.cur /\ c.thr = b.thr /\ c.window = w
       /\ c.noEntry = b.noEntry + 1 /\ c.noAdd = b.noAdd /\ c.rising = d.rising
       /\ c.status = CheckState(d).status /\ c.prev = CheckState(d).prev
  <2>1. \A x \in BufferState, n \in Nat :
           LET y == [x EXCEPT !.noEntry = n]
           IN  /\ y \in BufferState /\ y.cur = x.cur /\ y.thr = x.thr /\ y.window = x.window /\ y.noAdd = x.noAdd
               /\ y.noEntry = n /\ y.rising = x.rising /\ y.status = x.status /\ y.prev = x.prev
    BY DEF BufferState
  <2>2. b.noEntry + 1 \in Nat
    BY <1>1
  <2> HIDE DEF d
  <2>3. LET y == [CheckState(d) EXCEPT !.noEntry = b.noEntry + 1]
        IN  /\ y \in BufferState /\ y.cur = CheckState(d).cur /\ y.thr = CheckState(d).thr
            /\ y.window = CheckState(d).window /\ y.noEntry = b.noEntry + 1
            /\ y.noAdd = CheckState(d).noAdd
            /\ y.rising = CheckState(d).rising /\ y.status = CheckState(d).status
            /\ y.prev = CheckState(d).prev
    BY <1>12, <2>1, <2>2
  <2>. QED  BY <1>11, <1>12, <2>3, Zenon
<1>14. d.rising \/ (d.status \in Status /\ d.prev = d.status)
  <2>1. CASE b.noEntry = 0
    <3>1. t = << >>
      BY <1>2, <1>3, <2>1, EmptySeq DEF Between
    <3>. QED  BY <1>5, <1>10, <3>1
  <2>2. CASE b.noEntry # 0
    BY <1>1, <1>10, <2>2 DEF Between
  <2>. QED  BY <2>1, <2>2
<1>15. StatusFitsAmount(CheckState(d))
  BY <1>10, <1>14, CheckStateFits
<1>16. StatusFitsAmount(c)
  <2> HIDE DEF d
  <2>. QED  BY <1>12, <1>13, <1>15 DEF StatusFitsAmount
<1>17. Between(c, NewPeak(b, pk))
  <2> HIDE DEF d
  <2>1. w # << >>
    BY <1>3, <1>5, EmptySeq
  <2>2. c.window = << >> <=> c.noEntry = 0
    BY <1>1, <1>13, <2>1
  <2>3. \A i \in 1 .. Len(w) : w[i].position < b.noEntry + 1
    <3> SUFFICES ASSUME NEW i \in 1 .. Len(w)
                 PROVE  w[i].position < b.noEntry + 1
      OBVIOUS
    <3>1. CASE w[i] = q
      BY <1>1, <3>1
    <3>2. CASE \E j \in 1 .. Len(t) : w[i] = t[j]
      <4>1. PICK j \in 1 .. Len(t) : w[i] = t[j]
        BY <3>2
      <4>2. t[j].position < b.noEntry /\ t[j].position \in Nat
        BY <1>1, <1>2, <1>6, ElementOfSeq
      <4> HIDE DEF t
      <4>. QED  BY <1>1, <4>1, <4>2
    <3>. QED  BY <1>5, <3>1, <3>2
  <2>4. c.status \in Status /\ c.prev = c.status
    BY <1>16 DEF StatusFitsAmount
  <2>5. b.noAdd <= b.noEntry + 1
    BY <1>1 DEF Between, BufferState
  <2>. QED  BY <1>5, <1>8, <1>13, <2>2, <2>3, <2>4, <2>5 DEF Between
<1>18. NewStatus(d) = CHARGING => d.rising \/ d.prev = EMPTY \/ d.status = CHARGING
  <2> HIDE DEF d
  <2>. QED  BY DEF NewStatus, EntersCharging, READY, WARNING, CHARGING, EMPTY
<1>19. c.status = CHARGING => c.rising \/ b.prev = EMPTY \/ b.status = CHARGING
  <2> HIDE DEF d
  <2>. QED  BY <1>10, <1>12, <1>13, <1>18, Zenon
<1>. QED  BY <1>8, <1>10, <1>13, <1>16, <1>17, <1>19
-----------------------------------------------------------------------------
(* The inductive invariant. *)

IInv ==
    /\ FieldsTyped
    /\ AmountWithinCapacity
    /\ Between(buf, peak)
    /\ RisingMeansPeak

LEMMA InitIInv == Init => IInv
<1> SUFFICES ASSUME Init PROVE IInv
  OBVIOUS
<1>1. buf \in FreshBuffers(InitialAmounts, InitialThresholds)
  BY DEF Init
<1>2. /\ buf \in BufferState /\ buf.window = << >> /\ buf.noEntry = 0 /\ buf.noAdd = 0
      /\ buf.cur \in InitialAmounts
  <2>1. InitialAmounts \subseteq UInt /\ InitialThresholds \subseteq UInt
    BY BufferAssumption, CallAssumption DEF UInt
  <2>2. << >> \in Seq(Entry)
    BY EmptySeq
  <2>3. \A w \in {<< >>} : w \in Seq(Entry)
    BY <2>2
  <2>4. buf = [cur |-> buf.cur, thr |-> buf.thr, status |-> buf.status, prev |-> buf.prev,
               rising |-> buf.rising, window |-> buf.window, noEntry |-> buf.noEntry,
               period |-> buf.period, noAdd |-> buf.noAdd]
    BY <1>1 DEF FreshBuffers
  <2>5. /\ buf.cur \in UInt /\ buf.thr \in UInt /\ buf.status \in Status \cup {UNINIT}
        /\ buf.prev \in Status \cup {UNINIT} /\ buf.rising \in BOOLEAN
        /\ buf.window \in Seq(Entry)
        /\ buf.noEntry \in Nat /\ buf.period \in Nat /\ buf.noAdd \in Nat
    <3>1. /\ buf.cur \in InitialAmounts /\ buf.thr \in InitialThresholds
          /\ buf.status \in Status \cup {UNINIT} /\ buf.prev \in Status \cup {UNINIT}
          /\ buf.noEntry = 0 /\ buf.period = 5 /\ buf.noAdd = 0 /\ buf.window = << >>
      BY <1>1 DEF FreshBuffers
    <3>2. buf.rising \in BOOLEAN
      BY <1>1 DEF FreshBuffers
    <3>. QED  BY <2>1, <2>2, <3>1, <3>2
  <2>6. buf.window = << >> /\ buf.noEntry = 0 /\ buf.noAdd = 0 /\ buf.cur \in InitialAmounts
    BY <1>1 DEF FreshBuffers
  <2>. QED  BY <2>4, <2>5, <2>6 DEF BufferState
<1>3. FieldsTyped
  <2>1. 0 \in UInt /\ UninitMetrics \subseteq UInt
    BY BufferAssumption, CallAssumption DEF UInt
  <2>2. ret \in [op : Ops, size : UInt, ok : BOOLEAN]
    BY <2>1 DEF Init, Ops
  <2>. QED  BY <1>2, <2>1, <2>2 DEF Init, FieldsTyped
<1>4. AmountWithinCapacity
  BY <1>2, CallAssumption DEF AmountWithinCapacity
<1>5. Between(buf, peak)
  <2>1. Len(buf.window) = 0
    BY <1>2, EmptySeq
  <2>. QED  BY <1>2, <2>1 DEF Between, Descends
<1>6. RisingMeansPeak
  BY <1>2 DEF RisingMeansPeak
<1>. QED  BY <1>3, <1>4, <1>5, <1>6 DEF IInv

(* Every operation that records an amount d.cur keeps the invariant. *)
LEMMA RecordingKeepsIInv ==
    ASSUME IInv, NEW d \in BufferState,
           d.window = buf.window, d.noEntry = buf.noEntry,
           d.status = buf.status, d.prev = buf.prev, d.cur \in 1 .. Mmax,
           d.noAdd <= d.noEntry,
           buf' \in KeyCalculation(d), Record(d, buf')
    PROVE  /\ buf' \in BufferState /\ peak' \in UInt /\ emptied' \in BOOLEAN
           /\ AmountWithinCapacity' /\ Between(buf, peak)' /\ RisingMeansPeak'
           /\ StatusFitsAmount(buf')
           /\ buf'.cur = d.cur /\ buf'.thr = d.thr /\ buf'.noEntry = d.noEntry + 1
           /\ buf'.status = CHARGING => buf'.rising \/ d.prev = EMPTY \/ d.status = CHARGING
<1>1. peak \in UInt /\ Between(d, peak)
  BY DEF IInv, FieldsTyped, Between
<1>2. peak' = NewPeak(d, peak)
  BY DEF Record, NewPeak
<1>3. /\ buf' \in BufferState /\ buf'.cur = d.cur /\ buf'.thr = d.thr
      /\ NewPeak(d, peak) \in UInt /\ Between(buf', NewPeak(d, peak))
      /\ buf'.rising => d.cur = NewPeak(d, peak)
      /\ d.cur = NewPeak(d, peak) => buf'.rising \/ TiedPeak(buf'.window)
      /\ StatusFitsAmount(buf') /\ buf'.noEntry = d.noEntry + 1
      /\ buf'.status = CHARGING => buf'.rising \/ d.prev = EMPTY \/ d.status = CHARGING
  BY <1>1, KeyCalculationRecords
<1>4. emptied' \in BOOLEAN
  BY DEF Record, IInv, FieldsTyped
<1>. QED  BY <1>2, <1>3, <1>4 DEF AmountWithinCapacity, RisingMeansPeak, Between

LEMMA ChargeStarts ==
    ASSUME IInv, NEW k \in ChargeSizes
    PROVE  LET d == Charged(buf, k)
           IN  /\ d \in BufferState /\ d.window = buf.window /\ d.noEntry = buf.noEntry
               /\ d.status = buf.status /\ d.prev = buf.prev /\ d.thr = buf.thr
               /\ d.cur \in 1 .. Mmax /\ d.noAdd <= d.noEntry
<1>1. buf \in BufferState /\ buf.cur \in 1 .. Mmax
  BY DEF IInv, FieldsTyped, AmountWithinCapacity
<1> DEFINE n == IF Fits(buf, k) THEN (buf.cur + k) % UIntMod ELSE buf.cur
           p == buf.noEntry - buf.noAdd
<1>2. n \in 1 .. Mmax
  <2>1. k \in Nat /\ 1 <= k /\ Mmax + k < UIntMod
    BY CallAssumption, NoWrapAssumption DEF UInt
  <2>2. (buf.cur + k) % UIntMod = buf.cur + k
    BY <1>1, <2>1, BufferAssumption
  <2>. QED  BY <1>1, <2>1, <2>2, BufferAssumption DEF Fits
<1>3. p \in Nat /\ n \in UInt /\ buf.noEntry \in Nat
  BY <1>1, <1>2, BufferAssumption DEF IInv, Between, BufferState, UInt
<1>5. Charged(buf, k) = [buf EXCEPT !.cur = n, !.period = p, !.noAdd = buf.noEntry]
  BY DEF Charged
<1> HIDE DEF n, p
<1>6. LET d == [buf EXCEPT !.cur = n, !.period = p, !.noAdd = buf.noEntry]
      IN  /\ d \in BufferState /\ d.window = buf.window /\ d.noEntry = buf.noEntry
          /\ d.status = buf.status /\ d.prev = buf.prev /\ d.thr = buf.thr
          /\ d.cur = n /\ d.noAdd = buf.noEntry
  BY <1>1, <1>3 DEF BufferState
<1>7. buf.noEntry <= buf.noEntry
  BY <1>3
<1>. QED  BY <1>2, <1>5, <1>6, <1>7

LEMMA TakeStarts ==
    ASSUME IInv, NEW k \in KeySizes, Enough(buf, k)
    PROVE  LET d == Taken(buf, k)
           IN  /\ d \in BufferState /\ d.window = buf.window /\ d.noEntry = buf.noEntry
               /\ d.status = buf.status /\ d.prev = buf.prev /\ d.thr = buf.thr
               /\ d.cur \in 1 .. Mmax /\ d.noAdd <= d.noEntry
<1>1. buf \in BufferState /\ buf.cur \in 1 .. Mmax /\ buf.noAdd <= buf.noEntry
  BY DEF IInv, FieldsTyped, AmountWithinCapacity, Between
<1> DEFINE n == buf.cur - k
<1>2. n \in 1 .. Mmax /\ n \in UInt
  BY <1>1, BufferAssumption, CallAssumption DEF Enough, UInt
<1> HIDE DEF n
<1>3. LET d == [buf EXCEPT !.cur = n]
      IN  /\ d \in BufferState /\ d.window = buf.window /\ d.noEntry = buf.noEntry
          /\ d.status = buf.status /\ d.prev = buf.prev /\ d.thr = buf.thr
          /\ d.cur = n /\ d.noAdd = buf.noAdd
  BY <1>1, <1>2 DEF BufferState
<1>4. Taken(buf, k) = [buf EXCEPT !.cur = n]
  BY DEF Taken, n
<1>. QED  BY <1>1, <1>2, <1>3, <1>4

(* One step of the buffer: the invariant is kept, and a step that records an
   amount leaves a status that fits it.                                    *)
StepOK == IInv' /\ (buf'.noEntry # buf.noEntry => StatusFitsAmount(buf'))

LEMMA ChargeStep ==
    ASSUME IInv, NEW k \in ChargeSizes, Charge(k) PROVE StepOK
<1> DEFINE d == Charged(buf, k)
<1>1. /\ d \in BufferState /\ d.window = buf.window /\ d.noEntry = buf.noEntry
      /\ d.status = buf.status /\ d.prev = buf.prev
      /\ d.cur \in 1 .. Mmax /\ d.noAdd <= d.noEntry
  BY ChargeStarts
<1>2. buf' \in KeyCalculation(d) /\ Record(d, buf')
  BY DEF Charge, AddNewContent
<1> HIDE DEF d
<1>3. /\ buf' \in BufferState /\ peak' \in UInt /\ emptied' \in BOOLEAN
      /\ AmountWithinCapacity' /\ Between(buf, peak)' /\ RisingMeansPeak'
      /\ StatusFitsAmount(buf')
  BY <1>1, <1>2, RecordingKeepsIInv
<1>4. FieldsTyped'
  <2>1. charged \in UInt /\ k \in UInt /\ chargeTimes \in Nat /\ MaxPeriods \in Nat
    BY CallAssumption DEF IInv, FieldsTyped
  <2>2. charged' \in UInt
    BY <2>1, BufferAssumption DEF Charge, UInt
  <2>3. chargeTimes' \in Nat
    BY <2>1 DEF Charge, RecordChargeTime
  <2>4. ret' \in [op : Ops, size : UInt, ok : BOOLEAN]
    BY <2>1 DEF Charge, Ops
  <2>5. previous' \in UInt
    BY <1>3 DEF Charge, BufferState
  <2>. QED  BY <1>3, <2>2, <2>3, <2>4, <2>5 DEF Charge, IInv, FieldsTyped
<1>. QED  BY <1>3, <1>4 DEF StepOK, IInv

LEMMA ConsumeStep ==
    ASSUME IInv, NEW op \in Ops, NEW k \in KeySizes, Consume(op, k), nextKeyID' \in Nat
    PROVE  StepOK
<1> DEFINE d == Taken(buf, k)
<1>1. /\ d \in BufferState /\ d.window = buf.window /\ d.noEntry = buf.noEntry
      /\ d.status = buf.status /\ d.prev = buf.prev
      /\ d.cur \in 1 .. Mmax /\ d.noAdd <= d.noEntry
  BY TakeStarts DEF Consume
<1>2. buf' \in KeyCalculation(d) /\ Record(d, buf')
  BY DEF Consume, Take
<1> HIDE DEF d
<1>3. /\ buf' \in BufferState /\ peak' \in UInt /\ emptied' \in BOOLEAN
      /\ AmountWithinCapacity' /\ Between(buf, peak)' /\ RisingMeansPeak'
      /\ StatusFitsAmount(buf')
  BY <1>1, <1>2, RecordingKeepsIInv
<1>4. FieldsTyped'
  <2>1. used \in UInt /\ k \in UInt
    BY CallAssumption DEF IInv, FieldsTyped
  <2>2. used' \in UInt
    BY <2>1, BufferAssumption DEF Consume, UInt
  <2>3. ret' \in [op : Ops, size : UInt, ok : BOOLEAN]
    BY <2>1 DEF Consume
  <2>4. previous' \in UInt
    BY <1>3 DEF Consume, BufferState
  <2>. QED  BY <1>3, <2>2, <2>3, <2>4 DEF Consume, IInv, FieldsTyped
<1>. QED  BY <1>3, <1>4 DEF StepOK, IInv

(* Steps that leave the buffer itself alone. *)
LEMMA SameBufferStep ==
    ASSUME IInv, UNCHANGED <<buf, history>>, FieldsTyped' PROVE StepOK
BY DEF StepOK, IInv, history, AmountWithinCapacity, Between, RisingMeansPeak, Descends

LEMMA RefuseStep ==
    ASSUME IInv, NEW op \in Ops, NEW k \in KeySizes, Refuse(op, k), nextKeyID' \in Nat
    PROVE  StepOK
<1>1. UNCHANGED <<buf, charged, used, metric, chargeTimes, previous, peak, emptied>>
  BY DEF Refuse, accounting, history
<1>2. ret' \in [op : Ops, size : UInt, ok : BOOLEAN]
  BY CallAssumption DEF Refuse
<1>3. FieldsTyped'
  BY <1>1, <1>2 DEF IInv, FieldsTyped
<1>. QED  BY <1>1, <1>3, SameBufferStep DEF history

LEMMA MetricStep == ASSUME IInv, CalculateMetric PROVE StepOK
<1>1. buf.cur \in UInt /\ buf.thr \in UInt /\ charged \in UInt /\ used \in UInt
  BY DEF IInv, FieldsTyped, BufferState
<1>2. metric' \in UInt /\ charged' \in UInt /\ used' \in UInt
  BY <1>1, BufferAssumption DEF CalculateMetric, UInt
<1>3. FieldsTyped'
  BY <1>2 DEF CalculateMetric, history, IInv, FieldsTyped
<1>. QED  BY <1>3, SameBufferStep DEF CalculateMetric

LEMMA GraphStep == ASSUME IInv, GraphCheckState PROVE StepOK
<1>1. buf \in BufferState /\ Between(buf, peak)
  BY DEF IInv, FieldsTyped
<1>2. /\ buf' \in BufferState /\ buf'.cur = buf.cur /\ buf'.window = buf.window
      /\ buf'.rising = buf.rising /\ buf'.noEntry = buf.noEntry /\ buf'.noAdd = buf.noAdd
      /\ buf'.status = NewStatus(buf) /\ buf'.prev = NewStatus(buf)
  BY <1>1, CheckStateType DEF GraphCheckState
<1>3. buf.noEntry > 0 => NewStatus(buf) \in Status
  BY <1>1 DEF Between, NewStatus, Status
<1>4. FieldsTyped'
  BY <1>2 DEF GraphCheckState, accounting, history, IInv, FieldsTyped
<1>5. Between(buf, peak)'
  BY <1>1, <1>2, <1>3 DEF GraphCheckState, history, Between, Descends
<1>6. RisingMeansPeak' /\ AmountWithinCapacity'
  BY <1>2 DEF GraphCheckState, history, IInv, RisingMeansPeak, AmountWithinCapacity
<1>. QED  BY <1>2, <1>4, <1>5, <1>6 DEF StepOK, IInv

LEMMA ThresholdStep == ASSUME IInv, NEW t \in Thresholds, ChangeThreshold(t) PROVE StepOK
<1>1. buf \in BufferState /\ Between(buf, peak) /\ t \in UInt
  BY CallAssumption DEF IInv, FieldsTyped
<1>2. /\ buf' \in BufferState /\ buf'.cur = buf.cur /\ buf'.window = buf.window
      /\ buf'.rising = buf.rising /\ buf'.noEntry = buf.noEntry /\ buf'.noAdd = buf.noAdd
      /\ buf'.status = buf.status /\ buf'.prev = buf.prev
  BY <1>1 DEF ChangeThreshold, SetMthr, BufferState
<1>3. FieldsTyped'
  BY <1>2 DEF ChangeThreshold, accounting, history, IInv, FieldsTyped
<1>4. Between(buf, peak)'
  BY <1>1, <1>2 DEF ChangeThreshold, history, Between, Descends
<1>5. RisingMeansPeak' /\ AmountWithinCapacity'
  BY <1>2 DEF ChangeThreshold, history, IInv, RisingMeansPeak, AmountWithinCapacity
<1>. QED  BY <1>2, <1>3, <1>4, <1>5 DEF StepOK, IInv

LEMMA NextStep == ASSUME IInv, [Next]_vars PROVE StepOK
<1>1. ASSUME NEW k \in ChargeSizes, Charge(k) PROVE StepOK
  BY <1>1, ChargeStep
<1>2. nextKeyID \in Nat /\ (CreateKey => nextKeyID' \in Nat)
  BY DEF IInv, FieldsTyped, CreateKey
<1>3. ASSUME NEW k \in KeySizes, ProcessOutgoingRequest(k) PROVE StepOK
  <2>1. "ProcessOutgoingRequest" \in Ops /\ nextKeyID' \in Nat
    BY <1>2, <1>3 DEF ProcessOutgoingRequest, Ops
  <2>. QED  BY <1>3, <2>1, ConsumeStep, RefuseStep DEF ProcessOutgoingRequest
<1>4. ASSUME NEW k \in KeySizes, ProcessIncomingRequest(k) PROVE StepOK
  <2>1. "ProcessIncomingRequest" \in Ops /\ nextKeyID' \in Nat
    BY <1>2, <1>4 DEF ProcessIncomingRequest, Ops
  <2>. QED  BY <1>4, <2>1, ConsumeStep, RefuseStep DEF ProcessIncomingRequest
<1>5. CASE GraphCheckState
  BY <1>5, GraphStep
<1>6. ASSUME NEW t \in Thresholds, ChangeThreshold(t) PROVE StepOK
  BY <1>6, ThresholdStep
<1>7. CASE CalculateMetric
  BY <1>7, MetricStep
<1>8. CASE UNCHANGED vars
  BY <1>8, SameBufferStep DEF vars, history, IInv, FieldsTyped
<1>. QED  BY <1>1, <1>3, <1>4, <1>5, <1>6, <1>7, <1>8 DEF Next

-----------------------------------------------------------------------------
(* The theorems. *)

(* The inductive invariant holds in every reachable state of every buffer. *)
THEOREM Invariance == Spec => []IInv
<1>1. IInv /\ [Next]_vars => IInv'
  BY NextStep DEF StepOK
<1>. QED  BY InitIInv, <1>1, PTL DEF Spec

(* Every variable keeps the type the C++ declaration gives it: in particular
   AddNewContent and the Process*Request functions keep the unsigned amount
   between 1 and the capacity.                                             *)
THEOREM TypeCorrect == Spec => []TypeOK
<1>1. IInv => TypeOK
  BY DEF IInv, TypeOK
<1>. QED  BY Invariance, <1>1, PTL

(* The trend KeyCalculation computes is "rising" only at the highest amount
   recorded since the window was last empty, whatever the period, and always
   there but for a tie in a window std::sort does not keep in order.       *)
THEOREM TrendIsPeak == Spec => []RisingMeansPeak
<1>1. IInv => RisingMeansPeak
  BY DEF IInv
<1>. QED  BY Invariance, <1>1, PTL

(* The window the trend is derived from, in descending order. *)
WindowDescends ==
    /\ buf.window # << >> => buf.window[1].value = peak
    /\ \A i, j \in DOMAIN buf.window :
          i < j => buf.window[i].value >= buf.window[j].value

(* The window of recorded amounts stays in descending order, headed by the
   highest amount since it was last empty, whatever is trimmed and inserted. *)
THEOREM WindowSorted == Spec => []WindowDescends
<1>1. ASSUME IInv PROVE WindowDescends
  <2>1. Between(buf, peak) /\ buf.window \in Seq(Entry)
    BY <1>1 DEF IInv, FieldsTyped, BufferState
  <2>2. \A i, j \in DOMAIN buf.window :
           i < j => buf.window[i].value >= buf.window[j].value
    BY <2>1 DEF Between, Descends
  <2>3. buf.window # << >> => buf.window[1].value = peak
    BY <2>1 DEF Between
  <2>. QED  BY <2>2, <2>3 DEF WindowDescends
<1>. QED  BY Invariance, <1>1, PTL

(* After a call that recorded an amount has returned, no caller can observe
   the new amount together with the old status.                            *)
THEOREM StatusCorrect == Spec => StatusFollowsAmount
<1>1. IInv /\ [Next]_vars => [buf'.noEntry # buf.noEntry => StatusFitsAmount(buf')]_vars
  BY NextStep DEF StepOK
<1>. QED  BY Invariance, <1>1, PTL DEF Spec, StatusFollowsAmount

-----------------------------------------------------------------------------
(* Hysteresis: a status that does not fit the threshold is one the threshold
   was moved under, which the history counts like having been EMPTY.       *)

HInv ==
    /\ IInv
    /\ buf.noEntry > 0 => buf.prev = buf.status /\ buf.status \in Status
    /\ buf.noEntry > 0 /\ ~emptied => StatusFitsAmount(buf) /\ buf.status # EMPTY
    /\ ChargingMeansEmptied

(* Recording an amount cannot lead back to CHARGING under the peak, unless the
   buffer was EMPTY or CHARGING already.                                   *)
LEMMA RecordingKeepsHysteresis ==
    ASSUME HInv, NEW d \in BufferState,
           d.window = buf.window, d.noEntry = buf.noEntry, d.thr = buf.thr,
           d.status = buf.status, d.prev = buf.prev, d.cur \in 1 .. Mmax,
           d.noAdd <= d.noEntry,
           buf' \in KeyCalculation(d), Record(d, buf'), IInv'
    PROVE  HInv'
<1>1. IInv /\ buf.noEntry \in Nat /\ buf.thr \in Int /\ peak \in Int /\ d.cur \in Int
  BY BufferAssumption DEF HInv, IInv, FieldsTyped, BufferState, UInt
<1>2. /\ StatusFitsAmount(buf') /\ RisingMeansPeak' /\ buf'.noEntry = buf.noEntry + 1
      /\ buf'.cur = d.cur /\ buf'.thr = buf.thr
      /\ buf'.status = CHARGING => buf'.rising \/ d.prev = EMPTY \/ d.status = CHARGING
  BY <1>1, RecordingKeepsIInv
<1>3. buf'.status = EMPTY => emptied'
  BY DEF Record
<1>4. ASSUME buf'.status = CHARGING, peak' >= buf'.thr PROVE emptied'
  <2>1. buf'.cur < buf'.thr
    BY <1>1, <1>2, <1>4 DEF StatusFitsAmount, READY, CHARGING
  <2>2. ~buf'.rising
    BY <1>1, <1>2, <1>4, <2>1 DEF RisingMeansPeak
  <2>3. Trimmed(d) # << >>
    BY <1>1, <1>2, <1>4, <2>1 DEF Record
  <2>4. emptied' = emptied /\ (peak' = peak \/ peak' = d.cur)
    BY <1>4, <2>3 DEF Record, CHARGING, EMPTY, READY
  <2>5. buf.noEntry > 0
    <3>1. CASE buf.noEntry = 0
      <4>1. d.window = << >> /\ Len(d.window) = 0
        BY <1>1, <3>1, EmptySeq DEF IInv, Between
      <4>2. Trimmed(d) \in Seq(Entry) /\ Len(Trimmed(d)) <= 0
        BY <4>1, TrimmedIsPrefix
      <4>. QED  BY <2>3, <4>2, EmptySeq
    <3>. QED  BY <1>1, <3>1
  <2>6. peak >= buf.thr
    BY <1>1, <1>2, <1>4, <2>1, <2>4
  <2>7. buf.status = EMPTY \/ buf.status = CHARGING
    BY <1>2, <1>4, <2>2, <2>5 DEF HInv
  <2>. QED  BY <2>4, <2>5, <2>6, <2>7 DEF HInv, ChargingMeansEmptied
<1>5. buf'.prev = buf'.status /\ buf'.status \in Status
  BY <1>2 DEF StatusFitsAmount
<1>. QED  BY <1>2, <1>3, <1>4, <1>5 DEF HInv, ChargingMeansEmptied

LEMMA SameBufferKeepsHysteresis ==
    ASSUME HInv, IInv', UNCHANGED <<buf, history>> PROVE HInv'
BY DEF HInv, history, StatusFitsAmount, ChargingMeansEmptied

LEMMA HysteresisStep ==
    ASSUME HInv, [Next]_vars PROVE HInv'
<1>1. IInv /\ IInv'
  BY NextStep DEF HInv, StepOK
<1>2. ASSUME NEW k \in ChargeSizes, Charge(k) PROVE HInv'
  <2> DEFINE d == Charged(buf, k)
  <2>1. /\ d \in BufferState /\ d.window = buf.window /\ d.noEntry = buf.noEntry
        /\ d.status = buf.status /\ d.prev = buf.prev /\ d.thr = buf.thr
        /\ d.cur \in 1 .. Mmax /\ d.noAdd <= d.noEntry
    BY <1>1, ChargeStarts
  <2>2. buf' \in KeyCalculation(d) /\ Record(d, buf')
    BY <1>2 DEF Charge, AddNewContent
  <2> HIDE DEF d
  <2>. QED  BY <1>1, <2>1, <2>2, RecordingKeepsHysteresis
<1>3. ASSUME NEW op, NEW k \in KeySizes, Consume(op, k) PROVE HInv'
  <2> DEFINE d == Taken(buf, k)
  <2>1. /\ d \in BufferState /\ d.window = buf.window /\ d.noEntry = buf.noEntry
        /\ d.status = buf.status /\ d.prev = buf.prev /\ d.thr = buf.thr
        /\ d.cur \in 1 .. Mmax /\ d.noAdd <= d.noEntry
    BY <1>1, <1>3, TakeStarts DEF Consume
  <2>2. buf' \in KeyCalculation(d) /\ Record(d, buf')
    BY <1>3 DEF Consume, Take
  <2> HIDE DEF d
  <2>. QED  BY <1>1, <2>1, <2>2, RecordingKeepsHysteresis
<1>4. ASSUME NEW op, NEW k \in KeySizes, Refuse(op, k) PROVE HInv'
  BY <1>1, <1>4, SameBufferKeepsHysteresis DEF Refuse
<1>5. CASE GraphCheckState
  <2>1. buf \in BufferState /\ Between(buf, peak)
    BY <1>1 DEF IInv, FieldsTyped
  <2>2. /\ buf'.cur = buf.cur /\ buf'.thr = buf.thr /\ buf'.noEntry = buf.noEntry
        /\ buf'.status = NewStatus(buf) /\ buf' = CheckState(buf)
        /\ peak' = peak /\ emptied' = emptied
    BY <1>5, <2>1, CheckStateType DEF GraphCheckState, history
  <2>3. buf.noEntry > 0 => StatusFitsAmount(buf')
    BY <2>1, <2>2, CheckStateFits DEF Between
  <2>4. buf.cur \in Int /\ buf.thr \in Int /\ Mmin \in Int /\ peak \in Int
    BY <1>1, BufferAssumption DEF IInv, FieldsTyped, BufferState, UInt
  <2>5. ASSUME buf.noEntry > 0, ~emptied PROVE buf'.status # EMPTY
    BY <2>2, <2>3, <2>4, <2>5 DEF HInv, StatusFitsAmount
  <2>6. ASSUME buf.noEntry > 0, buf'.status = CHARGING, peak >= buf.thr PROVE emptied'
    <3>1. buf.cur < buf.thr
      BY <2>2, <2>3, <2>4, <2>6 DEF StatusFitsAmount, READY, CHARGING
    <3>2. ~buf.rising
      BY <1>1, <2>4, <2>6, <3>1 DEF IInv, RisingMeansPeak
    <3>3. buf.status = EMPTY \/ buf.status = CHARGING
      BY <2>1, <2>2, <2>6, <3>2
         DEF HInv, Between, NewStatus, EntersCharging, READY, WARNING, CHARGING, EMPTY
    <3>. QED  BY <2>2, <2>6, <3>3 DEF HInv, ChargingMeansEmptied
  <2>7. buf.noEntry > 0 => buf'.prev = buf'.status /\ buf'.status \in Status
    BY <2>3 DEF StatusFitsAmount
  <2>. QED  BY <1>1, <2>2, <2>3, <2>5, <2>6, <2>7 DEF HInv, ChargingMeansEmptied
<1>6. CASE CalculateMetric
  BY <1>1, <1>6, SameBufferKeepsHysteresis DEF CalculateMetric
<1>7. CASE UNCHANGED vars
  BY <1>1, <1>7, SameBufferKeepsHysteresis DEF vars, history
<1>8. ASSUME NEW t \in Thresholds, ChangeThreshold(t) PROVE HInv'
  <2>1. /\ buf' = [buf EXCEPT !.thr = t] /\ emptied' /\ buf \in BufferState
    BY <1>1, <1>8 DEF ChangeThreshold, SetMthr, IInv, FieldsTyped
  <2>2. buf'.noEntry = buf.noEntry /\ buf'.prev = buf.prev /\ buf'.status = buf.status
    BY <2>1 DEF BufferState
  <2>. QED  BY <1>1, <2>1, <2>2 DEF HInv, ChargingMeansEmptied
<1>. QED  BY <1>2, <1>3, <1>4, <1>5, <1>6, <1>7, <1>8
          DEF Next, ProcessOutgoingRequest, ProcessIncomingRequest

(* CheckState and KeyCalculation together let a buffer that has an amount at
   or above the threshold in its window be CHARGING only if it has been EMPTY,
   or its threshold moved, since it was last READY.                         *)
THEOREM Hysteresis == Spec => []ChargingMeansEmptied
<1>1. Init => HInv
  BY InitIInv DEF Init, FreshBuffers, HInv, ChargingMeansEmptied
<1>2. HInv /\ [Next]_vars => HInv'
  BY HysteresisStep
<1>3. HInv => ChargingMeansEmptied
  BY DEF HInv
<1>. QED  BY <1>1, <1>2, <1>3, PTL DEF Spec

-----------------------------------------------------------------------------
(* Refinement: the buffer is a key store. *)

Abstract == [cur |-> buf.cur, thr |-> buf.thr, status |-> buf.status]

(* A recorded amount is one the abstract store may hold, with its status. *)
LEMMA RecordingHolds ==
    ASSUME IInv, NEW d \in BufferState,
           d.window = buf.window, d.noEntry = buf.noEntry, d.thr = buf.thr,
           d.status = buf.status, d.prev = buf.prev, d.cur \in 1 .. Mmax,
           d.noAdd <= d.noEntry,
           buf' \in KeyCalculation(d), Record(d, buf')
    PROVE  Abstract' \in KeyStore!Holding(Abstract, d.cur)
<1>1. StatusFitsAmount(buf') /\ buf'.cur = d.cur /\ buf'.thr = buf.thr
  BY RecordingKeepsIInv
<1>2. d.cur \in Int /\ buf.thr \in Int /\ Mmin \in Int
  BY BufferAssumption DEF IInv, FieldsTyped, BufferState, UInt
<1>3. buf'.status \in KeyStore!StatusesOf(d.cur, buf.thr)
  BY <1>1, <1>2 DEF StatusFitsAmount, Status, READY, WARNING, CHARGING, EMPTY,
     KeyStore!StatusesOf, KeyStore!READY, KeyStore!WARNING, KeyStore!CHARGING,
     KeyStore!EMPTY
<1>. QED  BY <1>1, <1>3 DEF Abstract, KeyStore!Holding

LEMMA StepSimulates ==
    ASSUME IInv, [Next]_vars
    PROVE  KeyStore!Next \/ Abstract' = Abstract
<1>1. ASSUME NEW k \in ChargeSizes, Charge(k) PROVE KeyStore!Charge
  <2> DEFINE d == Charged(buf, k)
  <2>1. /\ d \in BufferState /\ d.window = buf.window /\ d.noEntry = buf.noEntry
        /\ d.status = buf.status /\ d.prev = buf.prev /\ d.thr = buf.thr
        /\ d.cur \in 1 .. Mmax /\ d.noAdd <= d.noEntry
    BY ChargeStarts
  <2>2. buf' \in KeyCalculation(d) /\ Record(d, buf')
    BY <1>1 DEF Charge, AddNewContent
  <2>3. d.cur = IF KeyStore!Fits(Abstract, k) THEN buf.cur + k ELSE buf.cur
    <3>1. /\ buf.cur \in Nat /\ k \in Nat /\ UIntMod \in Nat /\ Mmax \in Nat
          /\ buf.cur <= Mmax /\ Mmax + k < UIntMod /\ buf \in BufferState
      BY BufferAssumption, CallAssumption, NoWrapAssumption
         DEF IInv, FieldsTyped, BufferState, UInt, AmountWithinCapacity
    <3>2. (buf.cur + k) % UIntMod = buf.cur + k
      BY <3>1
    <3>3. d.cur = IF Fits(buf, k) THEN (buf.cur + k) % UIntMod ELSE buf.cur
      BY <3>1 DEF Charged, BufferState
    <3>. QED  BY <3>2, <3>3 DEF Fits, KeyStore!Fits, Abstract
  <2> HIDE DEF d
  <2>4. Abstract' \in KeyStore!Holding(Abstract, d.cur)
    BY <2>1, <2>2, RecordingHolds
  <2>. QED  BY <2>3, <2>4 DEF KeyStore!Charge, KeyStore!AfterCharge, Abstract
<1>2. ASSUME NEW op, NEW k \in KeySizes, Consume(op, k) PROVE KeyStore!Take
  <2> DEFINE d == Taken(buf, k)
  <2>1. /\ d \in BufferState /\ d.window = buf.window /\ d.noEntry = buf.noEntry
        /\ d.status = buf.status /\ d.prev = buf.prev /\ d.thr = buf.thr
        /\ d.cur \in 1 .. Mmax /\ d.noAdd <= d.noEntry
    BY <1>2, TakeStarts DEF Consume
  <2>2. buf' \in KeyCalculation(d) /\ Record(d, buf')
    BY <1>2 DEF Consume, Take
  <2>3. d.cur = buf.cur - k
    BY DEF Taken, IInv, FieldsTyped, BufferState
  <2>4. KeyStore!Enough(Abstract, k)
    BY <1>2 DEF Consume, Enough, KeyStore!Enough, Abstract
  <2> HIDE DEF d
  <2>5. Abstract' \in KeyStore!Holding(Abstract, d.cur)
    BY <2>1, <2>2, RecordingHolds
  <2>. QED  BY <2>3, <2>4, <2>5 DEF KeyStore!Take, KeyStore!AfterTake, Abstract
<1>3. ASSUME NEW op, NEW k \in KeySizes, Refuse(op, k) PROVE Abstract' = Abstract
  BY <1>3 DEF Refuse, Abstract
<1>4. CASE GraphCheckState
  <2>1. buf \in BufferState
    BY DEF IInv, FieldsTyped
  <2>2. /\ buf' \in BufferState /\ buf'.cur = buf.cur /\ buf'.thr = buf.thr
    BY <1>4, <2>1, CheckStateType DEF GraphCheckState
  <2>3. buf'.status \in KeyStore!Statuses \cup {KeyStore!UNINIT}
    BY <2>2 DEF BufferState, Status, READY, WARNING, CHARGING, EMPTY, UNINIT,
       KeyStore!Statuses, KeyStore!READY, KeyStore!WARNING, KeyStore!CHARGING,
       KeyStore!EMPTY, KeyStore!UNINIT
  <2>. QED  BY <2>2, <2>3 DEF KeyStore!Next, KeyStore!Evaluate, Abstract
<1>5. ASSUME NEW t \in Thresholds, ChangeThreshold(t) PROVE KeyStore!Next
  <2>1. buf \in BufferState
    BY DEF IInv, FieldsTyped
  <2>2. buf'.cur = buf.cur /\ buf'.status = buf.status /\ buf'.thr = t
    BY <1>5, <2>1 DEF ChangeThreshold, SetMthr, BufferState
  <2>3. buf'.status \in KeyStore!Statuses \cup {KeyStore!UNINIT}
    BY <2>1, <2>2 DEF BufferState, Status, READY, WARNING, CHARGING, EMPTY, UNINIT,
       KeyStore!Statuses, KeyStore!READY, KeyStore!WARNING, KeyStore!CHARGING,
       KeyStore!EMPTY, KeyStore!UNINIT
  <2>. QED  BY <1>5, <2>2, <2>3 DEF KeyStore!Next, KeyStore!Evaluate, Abstract
<1>6. CASE CalculateMetric \/ UNCHANGED vars
  BY <1>6 DEF CalculateMetric, vars, Abstract
<1>. QED  BY <1>1, <1>2, <1>3, <1>4, <1>5, <1>6
          DEF Next, ProcessOutgoingRequest, ProcessIncomingRequest, KeyStore!Next

(* The buffer, with all its bookkeeping, implements the abstract key store
   that the link is modelled with.                                         *)
THEOREM Refinement == Spec => ImplementsKeyStore
<1>1. Init => KeyStore!Init
  <2> SUFFICES ASSUME Init PROVE KeyStore!Init
    OBVIOUS
  <2>1. /\ buf.cur \in InitialAmounts /\ buf.thr \in InitialThresholds
        /\ buf.status \in Status \cup {UNINIT}
    BY DEF Init, FreshBuffers
  <2>. QED  BY <2>1 DEF KeyStore!Init
<1>2. IInv /\ [Next]_vars => [KeyStore!Next]_Abstract
  BY StepSimulates
<1>. QED  BY <1>1, <1>2, Invariance, PTL DEF Spec, ImplementsKeyStore, KeyStore!Spec, Abstract
=============================================================================
