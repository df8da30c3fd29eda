------------------------------ MODULE QKDBuffer ------------------------------
(***************************************************************************)
(* One QKD key buffer (class QKDBuffer of src/src/qkd/model/qkd-buffer.cc) *)
(* driven by every caller it has in the repository: post-processing        *)
(* charges it (QKDManager::AddNewKeyMaterial), the crypto module takes     *)
(* keys (ProcessOutgoingRequest, ProcessIncomingRequest), the graph re-    *)
(* evaluates its status, and a timer computes the routing metric.          *)
(***************************************************************************)
EXTENDS QKDBufferOps

CONSTANTS
    InitialAmounts,     \* attribute "Current", set by AddNewLink
    InitialThresholds,  \* attribute "Threshold", set by AddNewLink
    Thresholds,         \* arguments of SetMthr; {} where nothing calls it
    ChargeSizes,        \* sizes of the keys post-processing delivers
    KeySizes,           \* sizes of the keys the crypto module asks for
    MaxPeriods,         \* m_maxNumberOfRecordedKeyChargingTimePeriods
    UninitMetrics,      \* values the constructor's first metric may have
    MaxEntries,         \* bound of the model: amounts recorded
    MaxKeys             \* bound of the model: keys created

ASSUME CallAssumption ==
    /\ InitialAmounts \subseteq 1 .. Mmax
    /\ InitialThresholds \subseteq UInt /\ Thresholds \subseteq UInt
    /\ ChargeSizes \subseteq UInt \ {0} /\ KeySizes \subseteq UInt \ {0}
    /\ MaxPeriods \in Nat /\ MaxEntries \in Nat /\ MaxKeys \in Nat
    /\ UninitMetrics \subseteq UInt

\* Amounts and capacity leave head-room below 2^32, so a charge cannot wrap.
ASSUME NoWrapAssumption == \A k \in ChargeSizes : Mmax + k < UIntMod

VARIABLES
    buf,          \* the buffer, see QKDBufferOps
    nextKeyID,    \* m_nextKeyID
    charged,      \* m_bitsChargedInTimePeriod
    used,         \* m_bitsUsedInTimePeriod
    metric,       \* m_c
    chargeTimes,  \* m_chargingTimePeriods.size()
    previous,     \* m_McurrentPrevious
    ret,          \* what the last call returned to its caller
    peak,         \* history: highest amount recorded since the window was empty
    emptied       \* history: has it been EMPTY since it was last READY, or
                  \* was its threshold moved?

vars == <<buf, nextKeyID, charged, used, metric, chargeTimes, previous, ret,
          peak, emptied>>

accounting == <<charged, used, metric, chargeTimes, previous>>
history    == <<peak, emptied>>

Ops == {"none", "AddNewContent", "ProcessOutgoingRequest", "ProcessIncomingRequest"}

FieldsTyped ==
    /\ buf \in BufferState
    /\ nextKeyID \in Nat
    /\ charged \in UInt /\ used \in UInt /\ metric \in UInt
    /\ chargeTimes \in Nat /\ previous \in UInt
    /\ ret \in [op : Ops, size : UInt, ok : BOOLEAN]
    /\ peak \in UInt /\ emptied \in BOOLEAN

(* However charges and requests interleave, the amount never passes the
   capacity and never reaches zero: AddNewContent stops short of m_Mmax and
   the two Process*Request functions never hand out the last bit, so the
   unsigned subtraction cannot wrap.                                       *)
AmountWithinCapacity == buf.cur \in 1 .. Mmax

(* Every field keeps its type and the amount stays between 1 and m_Mmax.   *)
TypeOK == FieldsTyped /\ AmountWithinCapacity

-----------------------------------------------------------------------------

Init ==
    /\ buf \in FreshBuffers(InitialAmounts, InitialThresholds)
    /\ nextKeyID = 0
    /\ charged = 0 /\ used = 0
    \* Init() computes the metric before any attribute has a value.
    /\ metric \in UninitMetrics
    /\ chargeTimes = 0 /\ previous = 0
    /\ ret = [op |-> "none", size |-> 0, ok |-> TRUE]
    /\ peak = 0 /\ emptied = FALSE

(* History of an operation whose KeyCalculation started from d and left c. *)
Record(d, c) ==
    LET purged == Trimmed(d) = << >>
    IN  /\ peak' = IF purged \/ d.cur > peak THEN d.cur ELSE peak
        /\ emptied' = CASE c.status = EMPTY             -> TRUE
                        [] c.status # EMPTY /\ (c.status = READY \/ purged) -> FALSE
                        [] OTHER                        -> emptied

Records(b) == b.noEntry < MaxEntries

(* The vector of charging times is trimmed before the new time is put in. *)
RecordChargeTime ==
    chargeTimes' = (IF chargeTimes > MaxPeriods THEN MaxPeriods ELSE chargeTimes) + 1

(* Post-processing delivered k bits.  The caller is told TRUE even when the
   buffer had no room, and the bits count as charged in both cases.        *)
Charge(k) ==
    /\ Records(buf)
    /\ buf' \in AddNewContent(buf, k)
    /\ charged' = (charged + k) % UIntMod
    /\ previous' = buf'.cur
    /\ RecordChargeTime
    /\ ret' = [op |-> "AddNewContent", size |-> k, ok |-> TRUE]
    /\ Record(Charged(buf, k), buf')
    /\ UNCHANGED <<nextKeyID, used, metric>>

(* The bits taken are subtracted from an unsigned counter that starts at 0. *)
Consume(op, k) ==
    /\ Records(buf)
    /\ Enough(buf, k)
    /\ buf' \in Take(buf, k)
    /\ used' = (used - k) % UIntMod
    /\ previous' = buf'.cur
    /\ ret' = [op |-> op, size |-> k, ok |-> TRUE]
    /\ Record(Taken(buf, k), buf')
    /\ UNCHANGED <<charged, metric, chargeTimes>>

Refuse(op, k) ==
    /\ ~Enough(buf, k)
    /\ ret' = [op |-> op, size |-> k, ok |-> FALSE]
    /\ UNCHANGED <<buf, accounting, history>>

CreateKey == nextKeyID < MaxKeys /\ nextKeyID' = nextKeyID + 1

(* ProcessOutgoingRequest checks the amount before it creates the key. *)
ProcessOutgoingRequest(k) ==
    \/ Consume("ProcessOutgoingRequest", k) /\ CreateKey
    \/ Refuse("ProcessOutgoingRequest", k) /\ UNCHANGED nextKeyID

(* ProcessIncomingRequest (virtual storage) creates the key first, then
   checks the amount: a refused request uses up a key ID.                  *)
ProcessIncomingRequest(k) ==
    /\ CreateKey
    /\ \/ Consume("ProcessIncomingRequest", k)
       \/ Refuse("ProcessIncomingRequest", k)

(* QKDGraph evaluates the status when it is created and when it prints. *)
GraphCheckState ==
    /\ buf' = CheckState(buf)
    /\ UNCHANGED <<nextKeyID, accounting, ret, history>>

(* The threshold changes, the status is not evaluated. *)
ChangeThreshold(t) ==
    /\ buf' = SetMthr(buf, t) /\ emptied' = TRUE
    /\ UNCHANGED <<nextKeyID, accounting, ret, peak>>

(* CalculateAverageAmountOfTheKeyInTheBuffer, run by its own timer. *)
CalculateMetric ==
    /\ metric' = ((buf.cur - buf.thr) + (charged - used)) % UIntMod
    /\ charged' = 0 /\ used' = 0
    /\ UNCHANGED <<buf, nextKeyID, chargeTimes, previous, ret, history>>

Next ==
    \/ \E k \in ChargeSizes : Charge(k)
    \/ \E k \in KeySizes : ProcessOutgoingRequest(k)
    \/ \E k \in KeySizes : ProcessIncomingRequest(k)
    \/ GraphCheckState
    \/ \E t \in Thresholds : ChangeThreshold(t)
    \/ CalculateMetric

Spec == Init /\ [][Next]_vars
-----------------------------------------------------------------------------
(* What the buffer guarantees. *)

(* The status a caller could act on: READY from the threshold on, EMPTY at
   the minimum, one of the two intermediate ones between.                  *)
StatusFitsAmount(b) ==
    /\ b.status = READY <=> b.cur >= b.thr
    /\ b.status = EMPTY <=> b.cur < b.thr /\ b.cur <= Mmin
    /\ b.status \in Status /\ b.prev = b.status

(* Once a call has returned, a change of the amount is never visible with
   the status of the old amount: every operation that moves key material ends
   in CheckState, and from the first one on no uninitialised status can be
   read, whatever the graph evaluated before.                              *)
StatusFollowsAmount == [][buf'.noEntry # buf.noEntry => StatusFitsAmount(buf')]_vars

(* What m_isRisingCurve really says.  The trimming loop drops the smallest
   amounts, never the oldest, so the trend is "rising" only when the amount
   equals the highest one recorded since the window was last empty.  It always
   is then, but in a window too long for a stable sort that holds the highest
   amount twice: there an older entry may come to stand in front.           *)
TiedPeak(w) == Len(w) > StableSize /\ w[1].value = w[2].value

RisingMeansPeak ==
    buf.noEntry > 0 =>
        /\ buf.rising => buf.cur = peak
        /\ buf.cur = peak => buf.rising \/ TiedPeak(buf.window)

(* Hysteresis of the status: once an amount at or above the threshold is in
   the window, the status is CHARGING only if the buffer has been EMPTY, or
   its threshold moved, since it was last READY; a partial recovery stays
   WARNING.                                                                *)
ChargingMeansEmptied == buf.status = CHARGING /\ peak >= buf.thr /\ buf.noEntry > 0 => emptied

(* The buffer as the rest of the system may rely on it. *)
KeyStore == INSTANCE QKDKeyStore WITH
    store <- [cur |-> buf.cur, thr |-> buf.thr, status |-> buf.status],
    InitialStores <- [cur : InitialAmounts, thr : InitialThresholds,
                      status : Status \cup {UNINIT}]

(* With all its bookkeeping of windows, trends and periods, the buffer is a
   key store: material moves in whole keys, a charge is stored whole or not
   at all, and every move ends with a status that fits the new amount.      *)
ImplementsKeyStore == KeyStore!Spec

-----------------------------------------------------------------------------
(* What comments of qkd-buffer.h and qkd-buffer.cc say of it. *)

(* qkd-buffer.h, FetchState: "CHARGING - when Mthr > Mcur(t) and the previous
   state was EMPTY", here for a buffer that has recorded an amount before.  *)
DocChargingAfterEmpty ==
    [][buf.noEntry > 0 /\ buf.status # CHARGING /\ buf'.status = CHARGING
       => buf.status = EMPTY]_vars

(* qkd-buffer.cc, KeyCalculation: "the current value is the highest in the
   period => function is rising. Otherwise, function is going down", here
   for a falling amount.                                                   *)
DocFallingIsNotRising ==
    [][buf.noEntry > 0 /\ buf'.cur < buf.cur => ~buf'.rising]_vars
=============================================================================
