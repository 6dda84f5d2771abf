--------------------- MODULE ContentWorkflowProperties ----------------------
(* What the commands on a content item promise.                            *)
EXTENDS ContentWorkflow

(* An approval request is open exactly while the current revision waits    *)
(* for it; no edit, command or decision that overtakes another leaves a    *)
(* superseded revision to be decided on (transitionContent against         *)
(* patchContentItem).                                                      *)
PendingIsCurrent ==
  \A r \in Revision : request[r].status = "PENDING" <=>
    r = current /\ status[r] = "PENDING_APPROVAL"

(* Only the current revision has work that no worker has begun, and none   *)
(* has once it is cancelled: an edit or a cancellation that meets a        *)
(* publish command leaves no job behind.                                   *)
OnlyCurrentIsQueued ==
  \A r \in Revision : job[r] = "queued" =>
    r = current /\ status[r] \in {"SCHEDULED", "PUBLISHING"}

(* Under the policy, a creator brings to the queue only a revision that    *)
(* somebody other than its requester has approved, however often it was    *)
(* submitted, rejected, edited or failed before.                           *)
PolicyIsKept ==
  [][\A r \in Revision : \A h \in Handler :
       job[r] = "none" /\ job'[r] = "queued"
         /\ Handle(h) /\ handler[h].who = Author /\ policy =>
       /\ request[r].status = "APPROVED"
       /\ request[r].decider \notin {Nobody, request[r].by}]_vars

(* A command is done once however often it is sent, and every answer given *)
(* under its key is the answer of that one time, to that person and to     *)
(* that command (claimContentCommandIdempotency).                          *)
CommandsAreIdempotent ==
  /\ \A x \in Person \X Key : effects[x] <= 1
  /\ \A h \in Handler : handler[h].pc = "answer" =>
       outcome[Slot(h)] = [cmd |-> handler[h].cmd,
                           answer |-> handler[h].answer]
=============================================================================
