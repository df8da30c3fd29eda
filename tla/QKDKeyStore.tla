----------------------------- MODULE QKDKeyStore -----------------------------
(***************************************************************************)
(* The abstract specification of one key buffer: whoever calls it and      *)
(* however often its status is evaluated, key material only moves in whole *)
(* keys and the status fits the amount after every move.                   *)
(***************************************************************************)
EXTENDS QKDKeyStoreOps

CONSTANTS
    InitialStores,  \* what a buffer may look like before its first use
    ChargeSizes, KeySizes, Thresholds

VARIABLE store

Init == store \in InitialStores

Charge == \E k \in ChargeSizes : store' \in AfterCharge(store, k)

Take == \E k \in KeySizes : Enough(store, k) /\ store' \in AfterTake(store, k)

(* Evaluating the status, or moving the threshold, moves no key material. *)
Evaluate ==
    /\ store'.cur = store.cur
    /\ store'.thr = store.thr \/ store'.thr \in Thresholds
    /\ store'.status \in Statuses \cup {UNINIT}

Next == Charge \/ Take \/ Evaluate

Spec == Init /\ [][Next]_store
=============================================================================
