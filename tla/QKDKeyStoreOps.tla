--------------------------- MODULE QKDKeyStoreOps ---------------------------
(***************************************************************************)
(* What a user of a QKD key buffer may rely on, without its bookkeeping: a *)
(* record s of an amount (cur), a threshold (thr) and a status, and what   *)
(* charging and taking do to it.  The status that belongs to an amount     *)
(* between the minimum and the threshold depends on the history a user     *)
(* does not see, so it is left open.                                       *)
(***************************************************************************)
EXTENDS Integers

CONSTANTS
    Mmin,       \* m_Mmin: at this amount or below, the buffer is EMPTY
    Mmax        \* m_Mmax: capacity

ASSUME StoreAssumption == Mmin \in Nat /\ Mmax \in Nat /\ Mmin < Mmax

READY    == "READY"
WARNING  == "WARNING"
CHARGING == "CHARGING"
EMPTY    == "EMPTY"
UNINIT   == "UNINIT"    \* before the first operation no status is written

Statuses == {READY, WARNING, CHARGING, EMPTY}

Store == [cur : Nat, thr : Nat, status : Statuses \cup {UNINIT}]

(* The statuses a buffer may have right after an operation left amount c. *)
StatusesOf(c, t) ==
    IF c >= t THEN {READY} ELSE IF c <= Mmin THEN {EMPTY} ELSE {WARNING, CHARGING}

Holding(s, c) == {[cur |-> c, thr |-> s.thr, status |-> x] : x \in StatusesOf(c, s.thr)}

(* A charge is stored when it leaves the buffer below its capacity. *)
Fits(s, k) == s.cur + k < Mmax

AfterCharge(s, k) == Holding(s, IF Fits(s, k) THEN s.cur + k ELSE s.cur)

(* The last bit is never handed out. *)
Enough(s, k) == s.cur > k

AfterTake(s, k) == Holding(s, s.cur - k)
=============================================================================
