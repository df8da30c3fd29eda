---------------------------- MODULE QKDBufferOps ----------------------------
(***************************************************************************)
(* The decision state of one QKD key buffer (class QKDBuffer), as a record *)
(* and the operators that transform it.  It is a module without variables  *)
(* so that one buffer (QKDBuffer) and both ends of a link (QKDLink) use    *)
(* the same definitions.                                                   *)
(*                                                                         *)
(* Fields of a buffer record b:                                            *)
(*   cur       m_Mcurrent         amount of key material                   *)
(*   thr       m_Mthr             threshold                                *)
(*   status    m_Status           READY, WARNING, CHARGING, EMPTY          *)
(*   prev      m_previousStatus   the status the next decision starts from *)
(*   rising    m_isRisingCurve                                             *)
(*   window    m_previousValues   amounts recorded, in descending order    *)
(*   noEntry   m_noEntry          number of amounts recorded so far        *)
(*   period    m_period           how many old amounts the window keeps    *)
(*   noAdd     m_noAddNewValue    entry number of the last charge          *)
(***************************************************************************)
EXTENDS Integers, Sequences

CONSTANTS
    Mmin,       \* m_Mmin: at this amount or below, the buffer is EMPTY
    Mmax,       \* m_Mmax: capacity
    UIntMod,    \* 2^32 in the code: amounts are uint32_t
    StableSize  \* entries std::sort keeps in order if equal, 16 in libstdc++

ASSUME BufferAssumption ==
    /\ Mmin \in Nat /\ Mmax \in Nat /\ UIntMod \in Nat
    /\ Mmin < Mmax
    /\ Mmax < UIntMod
    /\ StableSize \in Nat

READY    == "READY"
WARNING  == "WARNING"
CHARGING == "CHARGING"
EMPTY    == "EMPTY"
UNINIT   == "UNINIT"    \* memory no constructor wrote: none of the four codes

Status == {READY, WARNING, CHARGING, EMPTY}
UInt   == 0 .. UIntMod - 1

Entry == [value : UInt, position : Nat]

BufferState ==
    [cur : UInt, thr : UInt, status : Status \cup {UNINIT},
     prev : Status \cup {UNINIT}, rising : BOOLEAN, window : Seq(Entry),
     noEntry : Nat, period : Nat, noAdd : Nat]

(***************************************************************************)
(* A buffer as its constructor and AddNewLink leave it.  m_Status,         *)
(* m_previousStatus and m_isRisingCurve are written by no constructor, so  *)
(* they hold any value.                                                    *)
(***************************************************************************)
FreshBuffers(amounts, thresholds) ==
    [cur : amounts, thr : thresholds, status : Status \cup {UNINIT},
     prev : Status \cup {UNINIT}, rising : BOOLEAN, window : {<< >>},
     noEntry : {0}, period : {5}, noAdd : {0}]

-----------------------------------------------------------------------------
(* CheckState *)

BelowThreshold(b) == Mmin < b.cur /\ b.cur < b.thr

EntersCharging(b) == (b.rising /\ b.prev # READY) \/ b.prev = EMPTY

\* Mutant of NewStatus: READY only above the threshold.
ReadyAboveThreshold(b) ==
    CASE b.cur > b.thr                       -> READY
      [] BelowThreshold(b) /\ EntersCharging(b)  -> CHARGING
      [] BelowThreshold(b) /\ ~EntersCharging(b) -> WARNING
      [] b.cur < b.thr /\ b.cur <= Mmin      -> EMPTY
      [] OTHER                               -> b.status

NewStatus(b) ==
    CASE b.cur >= b.thr                                             -> READY
      [] BelowThreshold(b) /\ EntersCharging(b)                     -> CHARGING
      [] BelowThreshold(b) /\ ~EntersCharging(b) /\ b.prev # CHARGING -> WARNING
      [] b.cur < b.thr /\ b.cur <= Mmin                             -> EMPTY
      [] OTHER                                                      -> b.status

CheckState(b) ==
    LET s == NewStatus(b) IN [b EXCEPT !.status = s, !.prev = s]

-----------------------------------------------------------------------------
(* KeyCalculation: record the amount just reached, derive the trend. *)

\* Mutant of Trimmed: drop the entries at the front.
TrimmedAtFront(b) ==
    IF Len(b.window) > b.period
    THEN SubSeq(b.window, Len(b.window) - b.period + 1, Len(b.window))
    ELSE b.window

(* The entries that survive the trimming loop.  It pops from the back, where
   the smallest amounts are, whatever their age.                           *)
Trimmed(b) == IF Len(b.window) > b.period THEN SubSeq(b.window, 1, b.period)
                                          ELSE b.window

(* Where q may stand in w after sorting by descending value: behind all that
   is greater and before all that is smaller.  std::sort inserts one by one
   as long as it sorts no more than StableSize entries, so that q, which was
   put in front, precedes its equals; beyond it is not stable, and q may stand
   anywhere among them.  Nothing looks at the order of the older ones.       *)
Places(w, q) ==
    {p \in 1 .. Len(w) + 1 : \A i \in 1 .. Len(w) :
        /\ w[i].value > q.value => i < p
        /\ w[i].value < q.value => p <= i
        /\ w[i].value = q.value /\ Len(w) < StableSize => p <= i}

InsertAt(w, q, p) ==
    [i \in 1 .. Len(w) + 1 |-> IF i < p THEN w[i] ELSE IF i = p THEN q ELSE w[i - 1]]

\* Mutant of SortedInserts: insert without sorting.
InsertsInFront(w, q) == {InsertAt(w, q, 1)}

(* The new entry is put in front and the vector sorted. *)
SortedInserts(w, q) == {InsertAt(w, q, p) : p \in Places(w, q)}

(* The amount has been recorded in window w. *)
Recorded(b, w) ==
    LET c == CheckState([b EXCEPT !.window = w, !.rising = (w[1].position = b.noEntry)])
    IN  [c EXCEPT !.noEntry = b.noEntry + 1]

(* The buffers KeyCalculation may leave: one, unless the sort is unstable. *)
KeyCalculation(b) ==
    {Recorded(b, w) :
        w \in SortedInserts(Trimmed(b), [value |-> b.cur, position |-> b.noEntry])}

-----------------------------------------------------------------------------
(* The three operations that move key material. *)

\* Mutant of Fits: the buffer may be filled to the brim.
FitsInclusive(b, k) == (b.cur + k) % UIntMod <= Mmax

(* uint32_t addition wraps. *)
Fits(b, k) == (b.cur + k) % UIntMod < Mmax

(* AddNewContent and Take, like KeyCalculation, give the buffers that may
   result.  AddNewContent: a charge that does not fit is not stored, yet the period
   bookkeeping and the status evaluation that follow are the same.         *)
Charged(b, k) ==
    [b EXCEPT !.cur = IF Fits(b, k) THEN (b.cur + k) % UIntMod ELSE b.cur,
              !.period = b.noEntry - b.noAdd,
              !.noAdd = b.noEntry]

AddNewContent(b, k) == KeyCalculation(Charged(b, k))

\* Mutant of Enough: the last bit may be taken.
EnoughInclusive(b, k) == b.cur >= k

(* ProcessOutgoingRequest and ProcessIncomingRequest refuse to take the last
   bit: the amount must exceed the key.                                    *)
Enough(b, k) == b.cur > k

Taken(b, k) == [b EXCEPT !.cur = b.cur - k]

Take(b, k) == KeyCalculation(Taken(b, k))

SetMthr(b, t) == [b EXCEPT !.thr = t]
=============================================================================
