--------------------------- MODULE DurableDelivery --------------------------
(***************************************************************************)
(* What telemetry ingestion promises for one connection, without leases,   *)
(* workers, retries or revisions: runs open and close once, records become *)
(* durable while some run is open and stay durable, the incremental cursor *)
(* never passes a record that is not durable, and a bounded run succeeds   *)
(* only over a durable range.                                              *)
(***************************************************************************)
EXTENDS Naturals

CONSTANTS MaxRuns, MaxRecord

Record == 1..MaxRecord
RunId == 1..MaxRuns

VARIABLES
    durable,   \* the records stored or recorded as rejected
    cursor,    \* where the next incremental page starts
    outcome,   \* what became of each run
    range      \* the bounds each run was opened with, <<0, 0>> for none

vars == <<durable, cursor, outcome, range>>

Closed == {"succeeded", "partial", "failed"}

Init ==
    /\ durable = {}
    /\ cursor = 0
    /\ outcome = [r \in RunId |-> "none"]
    /\ range = [r \in RunId |-> <<0, 0>>]

Open(r, first, last) ==
    /\ outcome[r] = "none"
    /\ outcome' = [outcome EXCEPT ![r] = "open"]
    /\ range' = [range EXCEPT ![r] = <<first, last>>]
    /\ UNCHANGED <<durable, cursor>>

Deliver(page, next) ==
    /\ \E r \in RunId : outcome[r] = "open"
    /\ durable' = durable \cup page
    /\ cursor' = next
    /\ 1..next \subseteq durable \cup page
    /\ UNCHANGED <<outcome, range>>

Close(r, status) ==
    /\ outcome[r] = "open"
    /\ status = "succeeded" /\ range[r][2] # 0 =>
            range[r][1] .. range[r][2] \subseteq durable
    /\ outcome' = [outcome EXCEPT ![r] = status]
    /\ UNCHANGED <<durable, cursor, range>>

Next ==
    \/ \E r \in RunId, first, last \in 0..MaxRecord : Open(r, first, last)
    \/ \E page \in SUBSET Record, next \in 0..MaxRecord : Deliver(page, next)
    \/ \E r \in RunId, status \in Closed : Close(r, status)

Spec == Init /\ [][Next]_vars
=============================================================================
