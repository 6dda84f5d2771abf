-------------------------- MODULE ContentAggregate --------------------------
(* The status of a content revision, and how it follows from the statuses  *)
(* of its publish targets (recomputeContentAggregate).                     *)
CONSTANT Target  \* publish targets of the revision

RevStatus == {"DRAFT", "SCHEDULED", "PUBLISHING", "PUBLISHED",
              "PARTIALLY_PUBLISHED", "FAILED", "CANCELLED"}
TargetStatus == {"READY", "PUBLISHING", "PROCESSING", "RETRY_SCHEDULED",
                 "WAITING_FOR_REAUTH", "SUCCEEDED", "FAILED", "CANCELLED"}

(* Slip: one published target makes the revision PUBLISHED.                *)
AnySuccess(st) ==
  IF \E t \in Target : st[t] = "SUCCEEDED" THEN "PUBLISHED" ELSE "PUBLISHING"

Aggregate(st) ==
  LET Having(S) == {t \in Target : st[t] \in S}
      done == Having({"SUCCEEDED"})
      open == Having({"READY", "PUBLISHING", "PROCESSING", "RETRY_SCHEDULED",
                      "WAITING_FOR_REAUTH"})
  IN CASE done = Target -> "PUBLISHED"
       [] done # Target /\ done # {} -> "PARTIALLY_PUBLISHED"
       [] done # Target /\ done = {} /\ open # {} -> "PUBLISHING"
       [] OTHER -> IF Having({"CANCELLED"}) = Target THEN "CANCELLED"
                                                     ELSE "FAILED"
=============================================================================
