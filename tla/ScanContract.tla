----------------------------- MODULE ScanContract -----------------------------
(***************************************************************************)
(* What one scan job promises to its caller (wia_transfer.rs, sti.rs): it  *)
(* hands over bands one at a time while it runs, never after its consumer  *)
(* failed, and then reports once whether the image is whole and whether    *)
(* the USB session may be used again.                                      *)
(***************************************************************************)
EXTENDS Naturals

VARIABLES cancel,      \* the host has asked the job to stop
          delivered,   \* bands the consumer has accepted
          sinkFailed,  \* the consumer has returned an error or panicked
          outcome,     \* "Running", then "Ok" | "Cancelled" | "Failed"
          health       \* "Unset", then "Ready" | "NeedsReconnect"

jobVars == <<cancel, delivered, sinkFailed, outcome, health>>

JobInit ==
    /\ cancel \in BOOLEAN
    /\ delivered = 0
    /\ sinkFailed = FALSE
    /\ outcome = "Running"
    /\ health = "Unset"

JobCancel ==
    /\ cancel' = TRUE
    /\ UNCHANGED <<delivered, sinkFailed, outcome, health>>

JobDelivers ==
    /\ outcome = "Running" /\ ~sinkFailed
    /\ \/ delivered' = delivered + 1 /\ UNCHANGED sinkFailed
       \/ sinkFailed' = TRUE /\ UNCHANGED delivered
    /\ UNCHANGED <<cancel, outcome, health>>

\* Success means a non-empty accepted image and a released device; a cancellation is
\* reported only for a request of the host, never for a failure of the consumer.
JobEnds ==
    /\ outcome = "Running"
    /\ outcome' \in {"Ok", "Cancelled", "Failed"}
    /\ health' \in {"Ready", "NeedsReconnect"}
    /\ outcome' = "Ok" => ~sinkFailed /\ delivered > 0 /\ health' = "Ready"
    /\ outcome' = "Cancelled" => cancel /\ ~sinkFailed
    /\ UNCHANGED <<cancel, delivered, sinkFailed>>

JobNext == JobCancel \/ JobDelivers \/ JobEnds

JobSpec == JobInit /\ [][JobNext]_jobVars
===============================================================================
