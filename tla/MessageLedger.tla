------------------------------ MODULE MessageLedger ------------------------------
(***************************************************************************)
(* What the statistics store promises about the log lines it counts, with  *)
(* no buckets' durations, locks, transactions or processes: each counted   *)
(* line is at every moment in exactly one of four places.                  *)
(*                                                                         *)
(*   pending   counted in the process's memory, not yet in the database    *)
(*   durable   counted in a committed row of the table log_stats           *)
(*   lost      given up: dropped by a failing flush, or with the process   *)
(*   expired   deleted with its row by the retention policy                *)
(*                                                                         *)
(* What a flush commits leaves pending in the same step, so that a count   *)
(* is never made durable twice, whatever stops the process afterwards.     *)
(***************************************************************************)
EXTENDS Naturals

CONSTANT Keys           \* identities of the counters: source of the line, bucket

VARIABLES pending, durable, lost, expired

ledger == <<pending, durable, lost, expired>>

Empty == [k \in Keys |-> 0]

LedgerInit == pending = Empty /\ durable = Empty /\ lost = Empty /\ expired = Empty

\* One more line is counted.
Accept(k) ==
    /\ pending' = [pending EXCEPT ![k] = @ + 1]
    /\ UNCHANGED <<durable, lost, expired>>

\* The counters in kept reach the database, all of each or none of it.
Persist(kept) ==
    /\ durable' = [k \in Keys |-> IF k \in kept THEN durable[k] + pending[k] ELSE durable[k]]
    /\ pending' = [k \in Keys |-> IF k \in kept THEN 0 ELSE pending[k]]
    /\ UNCHANGED <<lost, expired>>

\* Everything still pending is given up.
Discard ==
    /\ lost' = [k \in Keys |-> lost[k] + pending[k]]
    /\ pending' = Empty
    /\ UNCHANGED <<durable, expired>>

\* The rows of the counters in old are deleted.
Expire(old) ==
    /\ expired' = [k \in Keys |-> IF k \in old THEN expired[k] + durable[k] ELSE expired[k]]
    /\ durable' = [k \in Keys |-> IF k \in old THEN 0 ELSE durable[k]]
    /\ UNCHANGED <<pending, lost>>

LedgerNext ==
    \/ \E k \in Keys : Accept(k)
    \/ \E kept \in SUBSET Keys : Persist(kept)
    \/ Discard
    \/ \E old \in SUBSET Keys : Expire(old)

LedgerSpec == LedgerInit /\ [][LedgerNext]_ledger
=============================================================================
