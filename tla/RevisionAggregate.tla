------------------------- MODULE RevisionAggregate --------------------------
(***************************************************************************)
(* The aggregate of a revision under READ COMMITTED.                       *)
(*                                                                         *)
(* PublishQueue takes a finalization for one step.  In the database it is  *)
(* a transaction that updates its target, reads the statuses of all        *)
(* targets and writes the result to the revision: it holds the job and the *)
(* target, not the revision, and reads what the others have committed.     *)
(* This module splits it there.  Rows are reduced to what that tells apart *)
(* (no leases, markers or provider), so an action below may happen in more *)
(* states than in PublishQueue.                                            *)
(***************************************************************************)
EXTENDS ContentAggregate

CONSTANTS
  Session,      \* database sessions that finalize
  Interference  \* what may happen besides publishing and finalizing

ASSUME InterferenceAssumption ==
  Interference \subseteq {"cancel", "patch", "fence", "refuse"}

VARIABLES
  rev,     \* content_revisions.status, as committed
  status,  \* content_publish_targets.status, as committed
  job,     \* the job of a target: none that is active, queued, running
  late,    \* targets with an execution that was reclaimed from its owner
  tx       \* the open finalization of a session

vars == <<rev, status, job, late, tx>>

(* What an open finalization has written (rows, to), whether the job is    *)
(* its own, and the aggregate it has read.                                 *)
Finalization == [rows : SUBSET Target, to : TargetStatus, owns : BOOLEAN,
                 seen : RevStatus]
Idle == [rows |-> {}, to |-> "READY", owns |-> FALSE, seen |-> "DRAFT"]

(* Every column keeps to its type.                                         *)
TypeOK ==
  /\ rev \in RevStatus
  /\ status \in [Target -> TargetStatus]
  /\ job \in [Target -> {"none", "queued", "running"}]
  /\ late \subseteq Target
  /\ tx \in [Session -> Finalization]

Init ==
  /\ rev = "DRAFT"
  /\ status = [t \in Target |-> "READY"]
  /\ job = [t \in Target |-> "none"]
  /\ late = {}
  /\ tx = [s \in Session |-> Idle]

Open(s) == tx[s].rows # {}

(* Row locks on targets: held from the update to the commit.               *)
Free(S) == \A s \in Session : tx[s].rows \cap S = {}

(* A target with this status is over and left alone by cancel and fences.  *)
Over(t) == status[t] \in {"SUCCEEDED", "CANCELLED"}

-----------------------------------------------------------------------------
(* Commands and fences: they lock the targets they select or change.       *)

Enqueue(S) == job' = [t \in Target |-> IF t \in S /\ job[t] = "none"
                                       THEN "queued" ELSE job[t]]
Dequeue(S) == job' = [t \in Target |-> IF t \in S /\ job[t] = "queued"
                                       THEN "none" ELSE job[t]]

Start(S, to) ==
  /\ S # {} /\ Free(S)
  /\ Enqueue(S)
  /\ rev' = to
  /\ UNCHANGED <<status, late, tx>>

(* Publish, or schedule.                                                   *)
Publish ==
  /\ rev \in {"DRAFT", "FAILED", "PARTIALLY_PUBLISHED"}
  /\ \E to \in {"PUBLISHING", "SCHEDULED"} :
       Start({t \in Target : status[t] \in {"READY", "FAILED",
                                           "RETRY_SCHEDULED"}}, to)

Retry(S) ==
  /\ rev \in {"FAILED", "PARTIALLY_PUBLISHED", "PUBLISHING"}
  /\ \A t \in S : status[t] \in {"FAILED", "WAITING_FOR_REAUTH",
                                 "RETRY_SCHEDULED"}
  /\ Start(S, "PUBLISHING")

Cancel ==
  /\ "cancel" \in Interference
  /\ rev \in {"DRAFT", "SCHEDULED", "PUBLISHING", "FAILED",
              "PARTIALLY_PUBLISHED"}
  /\ Free({t \in Target : ~Over(t)})
  /\ status' = [t \in Target |-> IF Over(t) THEN status[t] ELSE "CANCELLED"]
  /\ Dequeue(Target)
  /\ rev' = "CANCELLED"
  /\ UNCHANGED <<late, tx>>

(* Archive, revoke, reassignment: a running target keeps its status.       *)
Fence(S) ==
  /\ "fence" \in Interference
  /\ Free({t \in S : ~Over(t)})
  /\ status' = [t \in Target |->
                 IF t \in S /\ ~Over(t) /\ job[t] # "running"
                 THEN "CANCELLED" ELSE status[t]]
  /\ Dequeue(S)
  /\ UNCHANGED <<rev, late, tx>>

(* patchContentItem: as a fence, by status of the target.                  *)
Supersede ==
  /\ "patch" \in Interference
  /\ Free({t \in Target : ~Over(t)})
  /\ status' = [t \in Target |->
                 IF status[t] \in {"READY", "RETRY_SCHEDULED", "FAILED"}
                 THEN "CANCELLED" ELSE status[t]]
  /\ Dequeue(Target)
  /\ UNCHANGED <<rev, late, tx>>

(* An OAuth callback resumes a waiting target.                             *)
Resume(t) ==
  /\ status[t] = "WAITING_FOR_REAUTH" /\ job[t] = "queued" /\ Free({t})
  /\ status' = [status EXCEPT ![t] = "READY"]
  /\ UNCHANGED <<rev, job, late, tx>>

-----------------------------------------------------------------------------
(* Workers.                                                                *)

(* PUBLISHING, PROCESSING with a known operation, CANCELLED when refused   *)
(* or marked before.                                                       *)
Claimed(t) ==
  \E to \in {"PUBLISHING", "PROCESSING", "CANCELLED"} :
     /\ status[t] = "CANCELLED" => to = "CANCELLED"
     /\ to = "CANCELLED" =>
          \/ status[t] = "CANCELLED"
          \/ Interference \cap {"patch", "fence", "refuse"} # {}
     /\ status' = [status EXCEPT ![t] = to]

Claim(t) ==
  /\ job[t] = "queued" /\ status[t] \in {"READY", "RETRY_SCHEDULED"}
  /\ Free({t})
  /\ Claimed(t)
  /\ job' = [job EXCEPT ![t] = "running"]
  /\ UNCHANGED <<rev, late, tx>>

(* The lease lapsed; the previous owner may still return.                  *)
Reclaim(t) ==
  /\ job[t] = "running" /\ Free({t})
  /\ Claimed(t)
  /\ late' = late \cup {t}
  /\ UNCHANGED <<rev, job, tx>>

(* The statuses a session reads after it has written to to the targets S:  *)
(* its own write over what is committed.  A cancelled execution leaves     *)
(* SUCCEEDED in place.                                                     *)
View(S, to) ==
  [t \in Target |->
    IF t \in S /\ ~(to = "CANCELLED" /\ status[t] = "SUCCEEDED")
    THEN to ELSE status[t]]

Read(S, to) == Aggregate(View(S, to))

(* UPDATE of the targets, then SELECT of the aggregate.                    *)
Begin(s, S, to, owns) ==
  /\ ~Open(s) /\ S # {} /\ Free(S)
  /\ tx' = [tx EXCEPT ![s] = [rows |-> S, to |-> to, owns |-> owns,
                              seen |-> Read(S, to)]]
  /\ UNCHANGED <<rev, status, job, late>>

(* Results that a cancelled target does not turn into CANCELLED.           *)
Kept == {"SUCCEEDED", "PROCESSING"}

Finalize(s, t) ==
  /\ job[t] = "running"
  /\ \E to \in Kept \cup {"CANCELLED", "FAILED", "RETRY_SCHEDULED",
                          "WAITING_FOR_REAUTH"} :
        /\ status[t] = "CANCELLED" => to \in Kept \cup {"CANCELLED"}
        /\ Begin(s, {t}, to, TRUE)

(* A reclaimed owner that finds the company archived cancels its target,   *)
(* but not the job.                                                        *)
FinalizeLate(s, t) ==
  /\ "fence" \in Interference /\ t \in late
  /\ Begin(s, {t}, "CANCELLED", FALSE)

(* ExpireContentReauth: the waiting targets whose deadline has passed.     *)
Expire(s) ==
  \E S \in SUBSET {t \in Target : /\ status[t] = "WAITING_FOR_REAUTH"
                                  /\ job[t] = "queued"} :
     Begin(s, S, "FAILED", TRUE)

JobAfter(to) == IF to \in {"PROCESSING", "RETRY_SCHEDULED",
                           "WAITING_FOR_REAUTH"} THEN "queued" ELSE "none"

(* UPDATE of the revision with what was read, and COMMIT.                  *)
Commit(s) ==
  /\ Open(s)
  /\ status' = View(tx[s].rows, tx[s].to)
  /\ rev' = tx[s].seen
  /\ job' = [t \in Target |-> IF tx[s].owns /\ t \in tx[s].rows
                              THEN JobAfter(tx[s].to) ELSE job[t]]
  /\ late' = IF tx[s].owns THEN late ELSE late \ tx[s].rows
  /\ tx' = [tx EXCEPT ![s] = Idle]

(* The transaction is lost: a crash, or the victim of a deadlock with a    *)
(* command, which locks the revision before the targets.                   *)
Abort(s) ==
  /\ Open(s)
  /\ tx' = [tx EXCEPT ![s] = Idle]
  /\ UNCHANGED <<rev, status, job, late>>

-----------------------------------------------------------------------------
TargetStep(t) == Resume(t) \/ Claim(t) \/ Reclaim(t)

SessionStep(s) ==
  \/ Expire(s) \/ Commit(s) \/ Abort(s)
  \/ \E t \in Target : Finalize(s, t) \/ FinalizeLate(s, t)

Next ==
  \/ Publish \/ Cancel \/ Supersede
  \/ \E S \in SUBSET Target : Retry(S) \/ Fence(S)
  \/ \E t \in Target : TargetStep(t)
  \/ \E s \in Session : SessionStep(s)

Spec == Init /\ [][Next]_vars

-----------------------------------------------------------------------------
(* PUBLISHED is never shown too early: whatever finalizations overlap, and *)
(* however old the statuses are that the last of them has read, a revision *)
(* is PUBLISHED only when every target has SUCCEEDED.                      *)
PublishedIsTrue ==
  rev = "PUBLISHED" => \A t \in Target : status[t] = "SUCCEEDED"

(* A partly published revision has a published target, under the same     *)
(* overlaps.                                                               *)
PartialIsTrue ==
  rev = "PARTIALLY_PUBLISHED" => \E t \in Target : status[t] = "SUCCEEDED"

(* What a revision shows of its success is true of its targets.            *)
ShownIsTrue == PublishedIsTrue /\ PartialIsTrue

(* Why: what an open finalization has read of successes is still true when *)
(* it commits, since SUCCEEDED is final (recomputeContentAggregate).       *)
SeenIsTrue ==
  \A s \in Session : Open(s) =>
    /\ tx[s].seen = "PUBLISHED" =>
         \A t \in Target : View(tx[s].rows, tx[s].to)[t] = "SUCCEEDED"
    /\ tx[s].seen = "PARTIALLY_PUBLISHED" =>
         \E t \in Target : View(tx[s].rows, tx[s].to)[t] = "SUCCEEDED"

(* Two sessions never hold the same target, and a success is not in the    *)
(* hands of an owner: the locks and the fence of the job.                  *)
HeldOnce ==
  \A s1, s2 \in Session : s1 # s2 => tx[s1].rows \cap tx[s2].rows = {}

OwnersAreRunning ==
  /\ \A t \in Target : job[t] = "running" => status[t] # "SUCCEEDED"
  /\ \A s \in Session : \A t \in tx[s].rows :
        tx[s].owns => status[t] # "SUCCEEDED"
  /\ \A s \in Session : ~tx[s].owns => tx[s].to = "CANCELLED" \/ ~Open(s)

AggregateInv ==
  /\ TypeOK /\ PublishedIsTrue /\ PartialIsTrue
  /\ SeenIsTrue /\ HeldOnce /\ OwnersAreRunning

=============================================================================
