---------------------------- MODULE PublishQueue ----------------------------
(***************************************************************************)
(* The publishing queue of internal/transport/http/content_publish_worker. *)
(*                                                                         *)
(* One content item with one revision is published to several targets     *)
(* (creator, platform account).  Commands of the API put a job per target  *)
(* in the queue; workers claim jobs under a lease, call the provider       *)
(* outside any transaction, and finalize the execution in a transaction    *)
(* fenced by worker id and execution number.  Operators, lifecycle changes *)
(* (archive, revoke, lost account) and the reauthorization clock interleave *)
(* with them.  Every database transaction is one action.                   *)
(*                                                                         *)
(* The platform adapter is the one of content_publish_tiktok.go: a durable *)
(* intent, one non-idempotent provider call, a durable operation id.       *)
(***************************************************************************)
EXTENDS Naturals, FiniteSets, ContentAggregate

CONSTANTS
  Worker,       \* worker processes
  RetryBudget,  \* len(contentRetryBackoff), also the CHECK on attempt_count
  MaxJobs,      \* bound: jobs ever created for one target
  MaxExec,      \* bound: executions of one job
  MaxFaults,    \* bound: crashes, stalls, lost accounts, transient errors
  Commands      \* the commands and lifecycle operations that may happen

CommandNames == {"publish", "schedule", "retry", "cancel", "patch", "archive",
                 "archiveCreator", "revoke", "loseAccount", "reconnect"}

ASSUME QueueAssumption ==
  /\ RetryBudget \in Nat \ {0}
  /\ MaxJobs \in Nat \ {0}
  /\ MaxExec \in Nat \ {0}
  /\ MaxFaults \in Nat
  /\ Commands \subseteq CommandNames

VARIABLES
  rev,            \* content_revisions.status
  current,        \* the revision is content_items.current_revision
  target,         \* rows of content_publish_targets
  job,            \* the latest row of content_publish_jobs of every target
  attempt,        \* rows of content_publish_attempts of that job
  worker,         \* the workers' memory: contentPublishJob and the progress
  bound,          \* account ACTIVE and assigned to the creator
  callback,       \* an OAuth callback saved the account, has yet to resume
  companyActive,  \* company and organization not archived
  creatorActive,  \* creator not archived
  created,        \* objects the provider created for the target
  faults          \* faults so far (a bound, not state of the program)

rows == <<rev, current, target, job, attempt>>
scope == <<bound, callback, companyActive, creatorActive>>
vars == <<rev, current, target, job, attempt, worker, bound, callback,
          companyActive, creatorActive, created, faults>>

Operation == {"none", "intent", "accepted"}
JobStatus == {"NONE", "READY", "RUNNING", "RETRY_SCHEDULED", "SUCCEEDED",
              "FAILED", "CANCELLED"}
AttemptStatus == {"NONE", "RUNNING", "PROCESSING", "SUCCEEDED", "FAILED",
                  "CANCELLED", "WAITING_FOR_REAUTH"}
Result == {"none", "ok", "pending", "retry", "auth", "perm"}

NoWorker == "nobody"   \* locked_by IS NULL
ASSUME NoWorkerAssumption == NoWorker \notin Worker

TargetRow == [status : TargetStatus, marker : BOOLEAN, op : Operation]
JobRow == [id : 0 .. MaxJobs, status : JobStatus, tries : 0 .. RetryBudget,
           exec : 0 .. MaxExec, owner : Worker \cup {NoWorker},
           lease : BOOLEAN, due : BOOLEAN]
Idle == [pc |-> "idle"]
Busy == [pc : {"claimed", "dispatch", "checkpoint", "finish"}, t : Target,
         id : 0 .. MaxJobs, exec : 1 .. MaxExec, tries : 0 .. RetryBudget,
         op : Operation, cancel : BOOLEAN, unsure : BOOLEAN,
         ctxDone : BOOLEAN, res : Result]

(* Every variable keeps to its column type; the CHECKs of migration 00025. *)
TypeOK ==
  /\ rev \in RevStatus
  /\ current \in BOOLEAN
  /\ target \in [Target -> TargetRow]
  /\ job \in [Target -> JobRow]
  /\ attempt \in [Target -> [1 .. MaxExec -> AttemptStatus]]
  /\ worker \in [Worker -> Busy \cup {Idle}]
  /\ bound \in [Target -> BOOLEAN]
  /\ callback \in [Target -> BOOLEAN]
  /\ companyActive \in BOOLEAN
  /\ creatorActive \in BOOLEAN
  /\ created \in [Target -> Nat]
  /\ faults \in 0 .. MaxFaults

NoJob == [id |-> 0, status |-> "NONE", tries |-> 0, exec |-> 0,
          owner |-> NoWorker, lease |-> FALSE, due |-> FALSE]

Init ==
  /\ rev = "DRAFT"
  /\ current = TRUE
  /\ target = [t \in Target |->
                [status |-> "READY", marker |-> FALSE, op |-> "none"]]
  /\ job = [t \in Target |-> NoJob]
  /\ attempt = [t \in Target |-> [n \in 1 .. MaxExec |-> "NONE"]]
  /\ worker = [w \in Worker |-> Idle]
  /\ bound = [t \in Target |-> TRUE]
  /\ callback = [t \in Target |-> FALSE]
  /\ companyActive = TRUE
  /\ creatorActive = TRUE
  /\ created = [t \in Target |-> 0]
  /\ faults = 0

-----------------------------------------------------------------------------
(* Helpers.                                                                *)

Queued(t) == job[t].status \in {"READY", "RETRY_SCHEDULED"}
Active(t) == job[t].status \in {"READY", "RUNNING", "RETRY_SCHEDULED"}

CancelRequested(t) == target[t].marker \/ target[t].status = "CANCELLED"

(* The column status of the rows tg.                                       *)
Statuses(tg) == [t \in Target |-> tg[t].status]

(* One unit of the shared budget of faults.                                *)
Fault == faults < MaxFaults /\ faults' = faults + 1
NoFault == faults' = faults

(* A job row that leaves its worker: locked_by and lease_expires_at NULL.  *)
Settled(row, status, tries, due) ==
  [row EXCEPT !.status = status, !.tries = tries, !.due = due,
              !.owner = NoWorker, !.lease = FALSE]
Released(row, status) == Settled(row, status, row.tries, row.due)

Leased(row, live) == [row EXCEPT !.lease = live]
Due(row) == [row EXCEPT !.due = TRUE]

(* A target row with another status, with the marker, with an operation.   *)
WithStatus(row, status) == [row EXCEPT !.status = status]
Marked(row, status) == [row EXCEPT !.status = status, !.marker = TRUE]
Written(row, status, op) == [row EXCEPT !.status = status, !.op = op]

(* An execution that moves on, ends with a result, loses its context.      *)
At(execution, pc) == [execution EXCEPT !.pc = pc]
Ended(execution, r) == [execution EXCEPT !.pc = "finish", !.res = r]
ContextEnded(execution) == [execution EXCEPT !.ctxDone = TRUE]

-----------------------------------------------------------------------------
(* Commands on the content item (content.go).                              *)

(* transactionalPublishPreflight: every selected target has a compatible   *)
(* account and connection and an effective assignment.                     *)
Publishable(S) == S # {} /\ companyActive /\ \A t \in S : bound[t]

(* INSERT INTO content_publish_jobs ... ON CONFLICT DO NOTHING against the *)
(* unique index of active jobs.                                            *)
NewJob(id, due) ==
  [NoJob EXCEPT !.id = id, !.status = "READY", !.due = due]

Enqueue(S, due) ==
  LET fresh == {t \in S : ~Active(t)}
  IN /\ \A t \in fresh : job[t].id < MaxJobs
     /\ job' = [t \in Target |->
                 IF t \in fresh
                 THEN NewJob(job[t].id + 1, due) ELSE job[t]]
     /\ attempt' = [t \in Target |->
                     IF t \in fresh THEN [n \in 1 .. MaxExec |-> "NONE"]
                                    ELSE attempt[t]]

Startable == {t \in Target :
               target[t].status \in {"READY", "FAILED", "RETRY_SCHEDULED"}}
Retryable == {t \in Target :
               target[t].status \in {"FAILED", "WAITING_FOR_REAUTH",
                                     "RETRY_SCHEDULED"}}

Publish ==
  /\ "publish" \in Commands /\ current
  /\ rev \in {"DRAFT", "FAILED", "PARTIALLY_PUBLISHED"}
  /\ Publishable(Startable)
  /\ Enqueue(Startable, TRUE)
  /\ rev' = "PUBLISHING"
  /\ UNCHANGED <<current, target, worker, scope, created, faults>>

Schedule ==
  /\ "schedule" \in Commands /\ current
  /\ rev \in {"DRAFT", "FAILED", "PARTIALLY_PUBLISHED"}
  /\ Publishable(Startable)
  /\ Enqueue(Startable, FALSE)
  /\ rev' = "SCHEDULED"
  /\ UNCHANGED <<current, target, worker, scope, created, faults>>

Retry(S) ==
  /\ "retry" \in Commands /\ current
  /\ rev \in {"FAILED", "PARTIALLY_PUBLISHED", "PUBLISHING"}
  /\ S \subseteq Retryable
  /\ Publishable(S)
  /\ Enqueue(S, TRUE)
  /\ rev' = "PUBLISHING"
  /\ UNCHANGED <<current, target, worker, scope, created, faults>>

(* Slip: only retries are taken out of the queue.                          *)
CancelRetries(S) ==
  job' = [t \in Target |->
           IF t \in S /\ job[t].status = "RETRY_SCHEDULED"
           THEN Released(job[t], "CANCELLED") ELSE job[t]]

(* READY and RETRY_SCHEDULED jobs of the targets in S become CANCELLED.    *)
CancelQueued(S) ==
  job' = [t \in Target |-> IF t \in S /\ Queued(t)
                           THEN Released(job[t], "CANCELLED") ELSE job[t]]

Cancel ==
  /\ "cancel" \in Commands /\ current
  /\ rev \in {"DRAFT", "SCHEDULED", "PUBLISHING", "FAILED",
              "PARTIALLY_PUBLISHED"}
  /\ rev' = "CANCELLED"
  /\ target' = [t \in Target |->
                 IF target[t].status \in {"SUCCEEDED", "CANCELLED"}
                 THEN target[t]
                 ELSE Marked(target[t], "CANCELLED")]
  /\ CancelQueued(Target)
  /\ UNCHANGED <<current, attempt, worker, scope, created, faults>>

(* patchContentItem: a new revision supersedes this one.                   *)
Supersede ==
  /\ "patch" \in Commands /\ current
  /\ current' = FALSE
  /\ target' = [t \in Target |->
                 CASE target[t].status \in {"SUCCEEDED", "CANCELLED"} ->
                        target[t]
                   [] target[t].status \in {"READY", "RETRY_SCHEDULED",
                                            "FAILED"} ->
                        Marked(target[t], "CANCELLED")
                   [] OTHER -> Marked(target[t], target[t].status)]
  /\ CancelQueued(Target)
  /\ UNCHANGED <<rev, attempt, worker, scope, created, faults>>

-----------------------------------------------------------------------------
(* Lifecycle of company, creator and account.                              *)

(* The queue fence shared by archive, revoke and reassignment: queued jobs *)
(* end, owned executions keep their status and get the marker.             *)
FenceQueue(S) ==
  /\ CancelQueued(S)
  /\ target' = [t \in Target |->
                 IF t \in S /\ target[t].status \notin {"SUCCEEDED",
                                                        "CANCELLED"}
                 THEN Marked(target[t], IF job[t].status = "RUNNING"
                                        THEN target[t].status ELSE "CANCELLED")
                 ELSE target[t]]

ArchiveCompany ==
  /\ "archive" \in Commands /\ companyActive
  /\ companyActive' = FALSE
  /\ FenceQueue(Target)
  /\ UNCHANGED <<rev, current, attempt, worker, bound, callback, creatorActive,
                 created, faults>>

RestoreCompany ==
  /\ ~companyActive
  /\ companyActive' = TRUE
  /\ UNCHANGED <<rows, worker, bound, callback, creatorActive, created, faults>>

(* Archiving a creator also ends the creator's assignments.                *)
ArchiveCreator ==
  /\ "archiveCreator" \in Commands /\ creatorActive
  /\ creatorActive' = FALSE
  /\ FenceQueue(Target)
  /\ bound' = [t \in Target |-> FALSE]
  /\ UNCHANGED <<rev, current, attempt, worker, callback, companyActive, created,
                 faults>>

RestoreCreator ==
  /\ ~creatorActive
  /\ creatorActive' = TRUE
  /\ UNCHANGED <<rows, worker, bound, callback, companyActive, created, faults>>

(* Disconnecting the account, or assigning it to another creator.          *)
Revoke(t) ==
  /\ "revoke" \in Commands /\ bound[t] /\ companyActive
  /\ FenceQueue({t})
  /\ bound' = [bound EXCEPT ![t] = FALSE]
  /\ UNCHANGED <<rev, current, attempt, worker, callback, companyActive,
                 creatorActive, created, faults>>

(* A synchronization finds the token dead: REAUTH_REQUIRED, queue untouched. *)
LoseAccount(t) ==
  /\ "loseAccount" \in Commands /\ bound[t] /\ Fault
  /\ bound' = [bound EXCEPT ![t] = FALSE]
  /\ UNCHANGED <<rows, worker, callback, companyActive, creatorActive, created>>

(* An OAuth callback saves the account and assigns it to the creator.      *)
Reconnect(t) ==
  /\ "reconnect" \in Commands /\ companyActive /\ creatorActive
  /\ bound' = [bound EXCEPT ![t] = TRUE]
  /\ callback' = [callback EXCEPT ![t] = TRUE]
  /\ UNCHANGED <<rows, worker, companyActive, creatorActive, created, faults>>

(* A statement of its own then wakes the targets that wait for the account. *)
(* reauth_deadline_at is the run_at finishFailedPublish wrote, so "due"    *)
(* says that the deadline has passed.                                      *)
Resume(t) ==
  /\ callback[t]
  /\ callback' = [callback EXCEPT ![t] = FALSE]
  /\ LET wake == /\ job[t].status = "RETRY_SCHEDULED" /\ ~job[t].due
                 /\ target[t].status = "WAITING_FOR_REAUTH"
                 /\ bound[t] /\ companyActive
     IN IF wake
        THEN /\ target' = [target EXCEPT ![t] = WithStatus(@, "READY")]
             /\ job' = [job EXCEPT ![t] = Settled(@, "READY", @.tries, TRUE)]
        ELSE UNCHANGED <<target, job>>
  /\ UNCHANGED <<rev, current, attempt, worker, bound, companyActive,
                 creatorActive, created, faults>>

(* The API process dies between the two: the account is saved, the target  *)
(* waits on.                                                               *)
CallbackDies(t) ==
  /\ callback[t] /\ Fault
  /\ callback' = [callback EXCEPT ![t] = FALSE]
  /\ UNCHANGED <<rows, worker, bound, companyActive, creatorActive, created>>

-----------------------------------------------------------------------------
(* Clocks.                                                                 *)

(* run_at (a schedule, a backoff, a poll delay, a reauth deadline) passes. *)
RunAtReached(t) ==
  /\ Queued(t) /\ ~job[t].due
  /\ job' = [job EXCEPT ![t] = Due(@)]
  /\ UNCHANGED <<rev, current, target, attempt, worker, scope, created, faults>>

(* Slip: the deadline is compared the wrong way round.                     *)
ReauthPending(t) ==
  /\ job[t].status = "RETRY_SCHEDULED"
  /\ target[t].status = "WAITING_FOR_REAUTH"
  /\ ~job[t].due

ReauthExpired(t) ==
  /\ job[t].status = "RETRY_SCHEDULED"
  /\ target[t].status = "WAITING_FOR_REAUTH"
  /\ job[t].due

(* ExpireContentReauth.                                                    *)
ExpireReauth ==
  LET expired == {t \in Target : ReauthExpired(t)}
  IN /\ expired # {}
     /\ job' = [t \in Target |-> IF t \in expired
                                 THEN Released(job[t], "FAILED") ELSE job[t]]
     /\ target' = [t \in Target |->
                    IF t \in expired
                    THEN WithStatus(target[t], "FAILED")
                    ELSE target[t]]
     /\ rev' = Aggregate(Statuses(target'))
     /\ UNCHANGED <<current, attempt, worker, scope, created, faults>>

-----------------------------------------------------------------------------
(* Claim, lease and heartbeat.                                             *)

Executing(w) == worker[w].pc # "idle"
Calling(w) == worker[w].pc \in {"claimed", "dispatch", "checkpoint"}

(* Slip: finalization checks the status of the job only.                   *)
OwnsByStatus(w) == job[worker[w].t].status = "RUNNING"

(* The fence: WHERE id AND status='RUNNING' AND locked_by AND              *)
(* execution_count.                                                        *)
Owns(w) ==
  LET row == job[worker[w].t]
  IN /\ row.status = "RUNNING"
     /\ row.id = worker[w].id
     /\ row.owner = w
     /\ row.exec = worker[w].exec

(* The fence, read from the job's side.                                    *)
Attended(t) == \E w \in Worker : Executing(w) /\ worker[w].t = t /\ Owns(w)

(* Slip: expired leases are never picked up.                               *)
ClaimableQueuedOnly(t) ==
  /\ Queued(t) /\ job[t].due
  /\ target[t].status \in {"READY", "RETRY_SCHEDULED"}
  /\ ~target[t].marker

(* Slip: a target that waits for its backoff is not selected.              *)
ClaimableFirstRun(t) ==
  \/ /\ Queued(t) /\ job[t].due
     /\ target[t].status = "READY" /\ ~target[t].marker
  \/ job[t].status = "RUNNING" /\ ~job[t].lease

Claimable(t) ==
  \/ /\ Queued(t) /\ job[t].due
     /\ target[t].status \in {"READY", "RETRY_SCHEDULED"}
     /\ ~target[t].marker
  \/ job[t].status = "RUNNING" /\ ~job[t].lease

(* A reclaim closes the attempt of the previous owner and opens the next.  *)
AttemptsAfterClaim(t, cancel) ==
  [n \in 1 .. MaxExec |->
    CASE n = job[t].exec + 1 -> "RUNNING"
      [] n = job[t].exec /\ attempt[t][n] = "RUNNING" ->
           IF cancel THEN "CANCELLED" ELSE "FAILED"
      [] OTHER -> attempt[t][n]]

ClaimedJob(row, w) ==
  [row EXCEPT !.status = "RUNNING", !.owner = w, !.lease = TRUE, !.exec = @ + 1]

(* Refused: the account or the assignment is gone, which sets the marker.  *)
ClaimedTarget(row, refused, cancel) ==
  [row EXCEPT !.marker = @ \/ refused,
              !.status = CASE cancel -> "CANCELLED"
                           [] ~cancel /\ row.op = "none" -> "PUBLISHING"
                           [] OTHER -> "PROCESSING"]

(* The contentPublishJob handed to the worker.  A reclaim without a known  *)
(* operation is uncertain: the previous owner may have called the provider. *)
Execution(t, cancel) ==
  [pc |-> "claimed", t |-> t, id |-> job[t].id, exec |-> job[t].exec + 1,
   tries |-> job[t].tries, op |-> target[t].op, cancel |-> cancel,
   unsure |-> job[t].status = "RUNNING" /\ target[t].op = "none" /\ ~cancel,
   ctxDone |-> FALSE, res |-> "none"]

Claim(w, t) ==
  LET refused == ~CancelRequested(t) /\ ~bound[t]
      cancel == CancelRequested(t) \/ refused
  IN /\ ~Executing(w) /\ Claimable(t)
     /\ companyActive /\ creatorActive
     /\ job[t].exec < MaxExec
     /\ target' = [target EXCEPT ![t] = ClaimedTarget(@, refused, cancel)]
     /\ job' = [job EXCEPT ![t] = ClaimedJob(@, w)]
     /\ attempt' = [attempt EXCEPT ![t] = AttemptsAfterClaim(t, cancel)]
     /\ worker' = [worker EXCEPT ![w] = Execution(t, cancel)]
     /\ UNCHANGED <<rev, current, scope, created, faults>>

(* The lease lapses: of itself once the owner is gone, and as a fault (a   *)
(* stalled process) while the owner still executes.                        *)
LeaseLapses(t) ==
  /\ job[t].status = "RUNNING" /\ job[t].lease
  /\ ~Attended(t)
  /\ job' = [job EXCEPT ![t] = Leased(@, FALSE)]
  /\ UNCHANGED <<rev, current, target, attempt, worker, scope, created, faults>>

OwnerStalls(t) ==
  /\ job[t].status = "RUNNING" /\ job[t].lease
  /\ Attended(t) /\ Fault
  /\ job' = [job EXCEPT ![t] = Leased(@, FALSE)]
  /\ UNCHANGED <<rev, current, target, attempt, worker, scope, created>>

(* The lifecycle subquery of the heartbeat.                                *)
Authorized(t) ==
  ~CancelRequested(t) /\ creatorActive /\ companyActive /\ bound[t]

Heartbeat(w) ==
  /\ Calling(w) /\ ~worker[w].ctxDone
  /\ Owns(w) /\ Authorized(worker[w].t)
  /\ ~job[worker[w].t].lease
  /\ job' = [job EXCEPT ![worker[w].t] = Leased(@, TRUE)]
  /\ UNCHANGED <<rev, current, target, attempt, worker, scope, created, faults>>

(* No row to renew, or the renewal fails: the execution context ends.      *)
LoseHeartbeat(w) ==
  /\ Calling(w) /\ ~worker[w].ctxDone
  /\ \/ ~(Owns(w) /\ Authorized(worker[w].t)) /\ NoFault
     \/ Fault
  /\ worker' = [worker EXCEPT ![w] = ContextEnded(@)]
  /\ UNCHANGED <<rows, scope, created>>

-----------------------------------------------------------------------------
(* Execution: executeContentPublish and the TikTok adapter.                *)

(* The execution ends with result r.  Transient and authorization errors   *)
(* spend a fault, unless the execution context has ended.                  *)
EndCall(w, r) ==
  /\ worker' = [worker EXCEPT ![w] = Ended(@, r)]
  /\ \/ r \in {"ok", "pending", "perm"} /\ NoFault
     \/ r = "retry" /\ worker[w].ctxDone /\ NoFault
     \/ r \in {"retry", "auth"} /\ ~worker[w].ctxDone /\ Fault

(* Slip: an intent is not taken for an operation that is under way.        *)
AcceptedOperation(w) == worker[w].op = "accepted"

(* Polled, never published again: an operation was known at the claim.     *)
KnownOperation(w) == worker[w].op # "none"

Admitted(w) ==
  worker[w].pc = "claimed" /\ ~worker[w].cancel /\ ~worker[w].unsure

(* Cancelled before recovery, or reclaimed without a durable operation.    *)
ExecuteRefused(w) ==
  /\ worker[w].pc = "claimed"
  /\ worker[w].cancel \/ worker[w].unsure
  /\ EndCall(w, "perm")
  /\ UNCHANGED <<rows, scope, created>>

(* Slip: an init call whose outcome is unknown is reported as published.   *)
OptimisticPollResults(w) ==
  CASE worker[w].op = "intent" -> {"ok"}
    [] worker[w].op # "intent" /\ worker[w].ctxDone -> {"perm", "retry"}
    [] OTHER -> {"ok", "pending", "perm", "retry", "auth"}

(* An intent without a provider id is terminal; an operation id is asked   *)
(* about.                                                                  *)
PollResults(w) ==
  CASE worker[w].op = "intent" -> {"perm"}
    [] worker[w].op # "intent" /\ worker[w].ctxDone -> {"perm", "retry"}
    [] OTHER -> {"ok", "pending", "perm", "retry", "auth"}

Poll(w) ==
  /\ Admitted(w) /\ KnownOperation(w)
  /\ \E r \in PollResults(w) : EndCall(w, r)
  /\ UNCHANGED <<rows, scope, created>>

(* Publish fails before the intent: token, creator info, options, media.   *)
PreflightFails(w) ==
  /\ Admitted(w) /\ ~KnownOperation(w)
  /\ \E r \in {"perm", "retry", "auth"} : EndCall(w, r)
  /\ UNCHANGED <<rows, scope, created>>

(* defaultPersistOperation: a compare-and-swap on provider_operation_id,   *)
(* in the execution context.                                               *)
Persists(w, expected) ==
  ~worker[w].ctxDone /\ target[worker[w].t].op = expected

PersistIntent(w) ==
  /\ Admitted(w) /\ ~KnownOperation(w)
  /\ Persists(w, worker[w].op)
  /\ target' = [target EXCEPT ![worker[w].t] = Written(@, @.status, "intent")]
  /\ worker' = [worker EXCEPT ![w] = At(@, "dispatch")]
  /\ UNCHANGED <<rev, current, job, attempt, scope, created, faults>>

IntentNotPersisted(w) ==
  /\ Admitted(w) /\ ~KnownOperation(w)
  /\ ~Persists(w, worker[w].op)
  /\ worker' = [worker EXCEPT ![w] = Ended(@, "retry")]
  /\ UNCHANGED <<rows, scope, created, faults>>

(* The one-shot init call creates the object; its answer may be lost.      *)
ProviderAccepts(w) ==
  /\ worker[w].pc = "dispatch"
  /\ created' = [created EXCEPT ![worker[w].t] = @ + 1]
  /\ \/ worker' = [worker EXCEPT ![w] = At(@, "checkpoint")]
     \/ worker' = [worker EXCEPT ![w] = Ended(@, "perm")]
  /\ UNCHANGED <<rows, scope, faults>>

(* Not sent, or answered with an API error code.                           *)
ProviderRejects(w) ==
  /\ worker[w].pc = "dispatch"
  /\ \E r \in {"perm", "retry", "auth"} : EndCall(w, r)
  /\ UNCHANGED <<rows, scope, created>>

PersistAccepted(w) ==
  /\ worker[w].pc = "checkpoint"
  /\ Persists(w, "intent")
  /\ target' = [target EXCEPT ![worker[w].t] = Written(@, @.status, "accepted")]
  /\ worker' = [worker EXCEPT ![w] = Ended(@, "pending")]
  /\ UNCHANGED <<rev, current, job, attempt, scope, created, faults>>

AcceptedNotPersisted(w) ==
  /\ worker[w].pc = "checkpoint"
  /\ ~Persists(w, "intent")
  /\ worker' = [worker EXCEPT ![w] = Ended(@, "retry")]
  /\ UNCHANGED <<rows, scope, created, faults>>

-----------------------------------------------------------------------------
(* Finalization: finishContentPublish.                                     *)

(* A result of the provider that is kept whatever happened meanwhile.      *)
ProviderResult(w) == worker[w].res \in {"ok", "pending"}

(* Such a result needs a retained company, any other an active one.        *)
CompanyLocked(w) == ProviderResult(w) \/ companyActive

(* The fenced transaction goes on to write.                                *)
MayFinish(w) == worker[w].pc = "finish" /\ CompanyLocked(w) /\ Owns(w)

Leave(w) == worker' = [worker EXCEPT ![w] = Idle]

(* UPDATE ... WHERE job_id AND attempt_number AND status='RUNNING'.        *)
CloseAttempt(w, s) ==
  LET t == worker[w].t
      n == worker[w].exec
  IN attempt' = IF job[t].id = worker[w].id /\ attempt[t][n] = "RUNNING"
                THEN [attempt EXCEPT ![t][n] = s] ELSE attempt

(* The target, and the aggregate of the revision with it; how finalizations *)
(* of several targets overlap here is the subject of RevisionAggregate.    *)
SetTarget(w, row) ==
  /\ target' = [target EXCEPT ![worker[w].t] = row]
  /\ rev' = Aggregate(Statuses(target'))

(* provider_operation_id=COALESCE(NULLIF($n,''),provider_operation_id).    *)
KeptOperation(w) ==
  IF ProviderResult(w) THEN "accepted" ELSE target[worker[w].t].op

FinishStale(w) ==
  /\ worker[w].pc = "finish" /\ CompanyLocked(w) /\ ~Owns(w)
  /\ Leave(w)
  /\ UNCHANGED <<rows, scope, created, faults>>

(* Slip: the guard of a status that is already SUCCEEDED is missing.       *)
AlwaysCancelled(row) == WithStatus(row, "CANCELLED")

CancelledRow(row) ==
  IF row.status = "SUCCEEDED" THEN row ELSE WithStatus(row, "CANCELLED")

(* finishCancelledPublish fences the job; the target is written anyway.    *)
CancelExecution(w) ==
  LET t == worker[w].t
  IN /\ job' = IF Owns(w) THEN [job EXCEPT ![t] = Released(@, "CANCELLED")]
                          ELSE job
     /\ SetTarget(w, CancelledRow(target[t]))
     /\ CloseAttempt(w, "CANCELLED")
     /\ Leave(w)
     /\ UNCHANGED <<current, scope, created, faults>>

FinishCompanyGone(w) ==
  worker[w].pc = "finish" /\ ~CompanyLocked(w) /\ CancelExecution(w)

FinishCancelled(w) ==
  /\ MayFinish(w) /\ ~ProviderResult(w)
  /\ CancelRequested(worker[w].t)
  /\ CancelExecution(w)

FinishSucceeded(w) ==
  LET t == worker[w].t
  IN /\ MayFinish(w) /\ worker[w].res = "ok"
     /\ job' = [job EXCEPT ![t] = Released(@, "SUCCEEDED")]
     /\ SetTarget(w, Written(target[t], "SUCCEEDED", KeptOperation(w)))
     /\ CloseAttempt(w, "SUCCEEDED")
     /\ Leave(w)
     /\ UNCHANGED <<current, scope, created, faults>>

(* A transient failure of a poll is rescheduled like a pending answer.     *)
TransientPoll(w) ==
  /\ worker[w].res = "retry" /\ KnownOperation(w)
  /\ ~CancelRequested(worker[w].t)

FinishPending(w) ==
  LET t == worker[w].t
  IN /\ MayFinish(w) /\ (worker[w].res = "pending" \/ TransientPoll(w))
     /\ job' = [job EXCEPT ![t] =
                 Settled(@, "RETRY_SCHEDULED", @.tries, FALSE)]
     /\ SetTarget(w, Written(target[t], "PROCESSING", KeptOperation(w)))
     /\ CloseAttempt(w, "PROCESSING")
     /\ Leave(w)
     /\ UNCHANGED <<current, scope, created, faults>>

(* finishFailedPublish: the counter written, the job and target statuses.  *)
Failing(w) ==
  /\ MayFinish(w) /\ ~ProviderResult(w)
  /\ ~CancelRequested(worker[w].t) /\ ~TransientPoll(w)

FailureCount(w) ==
  IF worker[w].res = "auth" THEN worker[w].tries ELSE worker[w].tries + 1

(* Slip: one retry more than the backoff table has entries.                *)
FitsCheckLoose(n) == n <= RetryBudget + 1

(* CHECK (attempt_count <= 5) of migration 00025.                          *)
FitsCheck(n) == n <= RetryBudget

FailureOutcome(w) ==
  CASE worker[w].res = "auth" ->
         [job |-> "RETRY_SCHEDULED", target |-> "WAITING_FOR_REAUTH",
          attempt |-> "WAITING_FOR_REAUTH", due |-> FALSE]
    [] worker[w].res = "retry" /\ FailureCount(w) <= RetryBudget ->
         [job |-> "RETRY_SCHEDULED", target |-> "RETRY_SCHEDULED",
          attempt |-> "FAILED", due |-> FALSE]
    [] OTHER -> [job |-> "FAILED", target |-> "FAILED", attempt |-> "FAILED",
                 due |-> TRUE]

FinishFailed(w) ==
  LET t == worker[w].t
      out == FailureOutcome(w)
  IN /\ Failing(w) /\ FitsCheck(FailureCount(w))
     /\ job' = [job EXCEPT ![t] =
                 Settled(@, out.job, FailureCount(w), out.due)]
     /\ SetTarget(w, Written(target[t], out.target, KeptOperation(w)))
     /\ CloseAttempt(w, out.attempt)
     /\ Leave(w)
     /\ UNCHANGED <<current, scope, created, faults>>

(* attempt_count violates its CHECK and the whole transaction is lost.     *)
FinishAborts(w) ==
  /\ Failing(w) /\ ~FitsCheck(FailureCount(w))
  /\ Leave(w)
  /\ UNCHANGED <<rows, scope, created, faults>>

(* The process dies, or its finalizing transaction does not commit.        *)
Crash(w) ==
  /\ Executing(w) /\ Fault
  /\ Leave(w)
  /\ UNCHANGED <<rows, scope, created>>

-----------------------------------------------------------------------------
Call(w) ==
  \/ ExecuteRefused(w) \/ Poll(w) \/ PreflightFails(w)
  \/ PersistIntent(w) \/ IntentNotPersisted(w)
  \/ ProviderAccepts(w) \/ ProviderRejects(w)
  \/ PersistAccepted(w) \/ AcceptedNotPersisted(w)

Finish(w) ==
  \/ FinishStale(w) \/ FinishCompanyGone(w) \/ FinishCancelled(w)
  \/ FinishSucceeded(w) \/ FinishPending(w) \/ FinishFailed(w)
  \/ FinishAborts(w)

Command ==
  \/ Publish \/ Schedule \/ Cancel \/ Supersede
  \/ \E S \in SUBSET Target : Retry(S)

Lifecycle ==
  \/ ArchiveCompany \/ RestoreCompany \/ ArchiveCreator \/ RestoreCreator
  \/ \E t \in Target : \/ Revoke(t) \/ LoseAccount(t) \/ Reconnect(t)
                        \/ Resume(t) \/ CallbackDies(t)

Clock ==
  \/ ExpireReauth
  \/ \E t \in Target : RunAtReached(t) \/ LeaseLapses(t) \/ OwnerStalls(t)

WorkerStep(w) ==
  \/ Call(w) \/ Finish(w) \/ Crash(w) \/ Heartbeat(w) \/ LoseHeartbeat(w)
  \/ \E t \in Target : Claim(w, t)

Next == Command \/ Lifecycle \/ Clock \/ \E w \in Worker : WorkerStep(w)

Spec == Init /\ [][Next]_vars

(* A worker that is up goes on with its execution and keeps claiming; the  *)
(* clock advances; the worker's loop runs ExpireContentReauth.             *)
Fairness ==
  /\ \A w \in Worker : WF_vars(Call(w) \/ Finish(w))
  /\ \A w \in Worker : WF_vars(\E t \in Target : Claim(w, t))
  /\ \A t \in Target : WF_vars(RunAtReached(t))
  /\ \A t \in Target : WF_vars(LeaseLapses(t))
  /\ WF_vars(ExpireReauth)

FairSpec == Spec /\ Fairness
=============================================================================
