---------------------- MODULE PublishQueueDivergences -----------------------
(***************************************************************************)
(* What the contract, the runbook or a comment say of the queue and the    *)
(* code does not do.  TLC refutes each of them; the README explains the    *)
(* counterexamples.                                                        *)
(***************************************************************************)
EXTENDS PublishQueueProperties

(* "Keep the persisted operation and reschedule polling": a target in      *)
(* PROCESSING with a scheduled job is polled again.                        *)
ProcessingIsPolled ==
  \A t \in Target :
     (target[t].status = "PROCESSING" /\ job[t].status = "RETRY_SCHEDULED") ~>
        ~(target[t].status = "PROCESSING" /\ job[t].status = "RETRY_SCHEDULED")

(* "retry only affected targets after recovery": the job that a publish or *)
(* retry command creates for a FAILED target is run.                       *)
RetriedTargetRuns ==
  \A t \in Target : (job[t].status = "READY" /\ target[t].status = "FAILED") ~>
                       job[t].status # "READY"

=============================================================================
