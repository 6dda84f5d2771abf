------------------------- MODULE PublishQueueProofs -------------------------
(***************************************************************************)
(* Theorems about the publishing queue, for any targets, workers, retry    *)
(* budget and bounds.                                                      *)
(***************************************************************************)
EXTENDS PublishQueueProperties, TLAPS

-----------------------------------------------------------------------------
(* Rows keep their types.                                                  *)

LEMMA JobRowTypes ==
  ASSUME NEW row \in JobRow, NEW s \in JobStatus, NEW n \in 0 .. RetryBudget,
         NEW b \in BOOLEAN
  PROVE /\ Settled(row, s, n, b) \in JobRow
        /\ Released(row, s) \in JobRow
        /\ Leased(row, b) \in JobRow
        /\ Due(row) \in JobRow
  BY DEF Settled, Released, Leased, Due, JobRow

LEMMA TargetRowTypes ==
  ASSUME NEW row \in TargetRow, NEW s \in TargetStatus, NEW o \in Operation,
         NEW b \in BOOLEAN, NEW c \in BOOLEAN
  PROVE /\ WithStatus(row, s) \in TargetRow
        /\ Marked(row, s) \in TargetRow
        /\ Written(row, s, o) \in TargetRow
        /\ ClaimedTarget(row, b, c) \in TargetRow
        /\ CancelledRow(row) \in TargetRow
        /\ row.status \in TargetStatus
        /\ row.op \in Operation
        /\ row.marker \in BOOLEAN
  <1>1. ClaimedTarget(row, b, c) \in TargetRow
    <2> DEFINE st == CASE c -> "CANCELLED"
                       [] ~c /\ row.op = "none" -> "PUBLISHING"
                       [] OTHER -> "PROCESSING"
    <2>1. st \in TargetStatus
      BY DEF TargetStatus
    <2>2. ClaimedTarget(row, b, c) =
            [row EXCEPT !.marker = @ \/ b, !.status = st]
      BY DEF ClaimedTarget
    <2> HIDE DEF st
    <2>3. QED
      BY <2>1, <2>2 DEF TargetRow
  <1>2. QED
    BY <1>1 DEF WithStatus, Marked, Written, CancelledRow, TargetRow,
                TargetStatus

LEMMA BusyTypes ==
  ASSUME NEW x \in Busy, NEW r \in Result,
         NEW p \in {"claimed", "dispatch", "checkpoint", "finish"}
  PROVE /\ At(x, p) \in Busy
        /\ Ended(x, r) \in Busy
        /\ ContextEnded(x) \in Busy
  BY DEF At, Ended, ContextEnded, Busy

LEMMA BusyWorker ==
  ASSUME TypeOK, NEW w \in Worker, worker[w].pc # "idle"
  PROVE /\ worker[w] \in Busy
        /\ worker[w].t \in Target
        /\ worker[w].exec \in 1 .. MaxExec
        /\ worker[w].tries \in 0 .. RetryBudget
        /\ worker[w].op \in Operation
        /\ worker[w].res \in Result
  <1>1. worker[w] \in Busy
    BY DEF TypeOK, Idle
  <1>2. QED
    BY <1>1 DEF Busy

LEMMA AggregateType == ASSUME NEW st PROVE Aggregate(st) \in RevStatus
  BY DEF Aggregate, RevStatus

(* Updating one entry of a function.                                       *)
LEMMA UpdateType ==
  ASSUME NEW S, NEW R, NEW f \in [S -> R], NEW x \in S, NEW y \in R
  PROVE [f EXCEPT ![x] = y] \in [S -> R]
  OBVIOUS

LEMMA NewJobType ==
  ASSUME NEW id \in 0 .. MaxJobs, NEW b \in BOOLEAN
  PROVE NewJob(id, b) \in JobRow
  <1>1. 0 \in 0 .. RetryBudget /\ 0 \in 0 .. MaxExec
    BY QueueAssumption
  <1>2. QED
    BY <1>1 DEF NewJob, NoJob, JobRow, JobStatus

LEMMA EnqueueType ==
  ASSUME TypeOK, NEW S \in SUBSET Target, NEW due \in BOOLEAN, Enqueue(S, due)
  PROVE /\ job' \in [Target -> JobRow]
        /\ attempt' \in [Target -> [1 .. MaxExec -> AttemptStatus]]
  <1> DEFINE fresh == {t \in S : ~Active(t)}
  <1>1. ASSUME NEW t \in fresh PROVE NewJob(job[t].id + 1, due) \in JobRow
    <2>1. job[t].id \in 0 .. MaxJobs /\ job[t].id < MaxJobs
      BY DEF TypeOK, Enqueue, JobRow
    <2>2. job[t].id + 1 \in 0 .. MaxJobs
      BY <2>1, QueueAssumption
    <2>3. QED
      BY <2>2, NewJobType
  <1>2. QED
    BY <1>1 DEF TypeOK, Enqueue, AttemptStatus

LEMMA CancelQueuedType ==
  ASSUME TypeOK, NEW S, CancelQueued(S)
  PROVE job' \in [Target -> JobRow]
  <1>1. ASSUME NEW t \in Target PROVE Released(job[t], "CANCELLED") \in JobRow
    <2>1. job[t] \in JobRow /\ "CANCELLED" \in JobStatus /\ 0 \in 0 .. RetryBudget
      BY QueueAssumption DEF TypeOK, JobStatus
    <2>2. QED
      BY <2>1, JobRowTypes
  <1>2. QED
    BY <1>1 DEF TypeOK, CancelQueued

LEMMA MarkedType ==
  ASSUME TypeOK, NEW t \in Target, NEW s \in TargetStatus
  PROVE /\ Marked(target[t], s) \in TargetRow
        /\ WithStatus(target[t], s) \in TargetRow
        /\ target[t].status \in TargetStatus
        /\ target[t].op \in Operation
  <1>1. target[t] \in TargetRow /\ "none" \in Operation
    BY DEF TypeOK, Operation
  <1>2. QED
    BY <1>1, TargetRowTypes

LEMMA FenceQueueType ==
  ASSUME TypeOK, NEW S, FenceQueue(S)
  PROVE /\ job' \in [Target -> JobRow]
        /\ target' \in [Target -> TargetRow]
  <1>1. job' \in [Target -> JobRow]
    BY CancelQueuedType DEF FenceQueue
  <1>2. "CANCELLED" \in TargetStatus
    BY DEF TargetStatus
  <1>3. QED
    BY <1>1, <1>2, MarkedType DEF FenceQueue, TypeOK

LEMMA InitTypeOK == Init => TypeOK
  <1> SUFFICES ASSUME Init PROVE TypeOK
    OBVIOUS
  <1>1. NoJob \in JobRow
    <2>1. 0 \in 0 .. RetryBudget /\ 0 \in 0 .. MaxExec /\ 0 \in 0 .. MaxJobs
      BY QueueAssumption
    <2>2. QED
      BY <2>1 DEF NoJob, JobRow, JobStatus
  <1>2. [status |-> "READY", marker |-> FALSE, op |-> "none"] \in TargetRow
    BY DEF TargetRow, TargetStatus, Operation
  <1>3. 0 \in 0 .. MaxFaults
    BY QueueAssumption
  <1>4. QED
    BY <1>1, <1>2, <1>3 DEF Init, TypeOK, RevStatus, AttemptStatus

-----------------------------------------------------------------------------
(* Commands, lifecycle and clocks keep the types.                          *)

LEMMA TypeCommand == ASSUME TypeOK, Command PROVE TypeOK'
  <1>0. \A s \in {"SCHEDULED", "PUBLISHING", "CANCELLED"} : s \in RevStatus
    BY DEF RevStatus
  <1>1. CASE Publish
    <2>1. /\ job' \in [Target -> JobRow]
          /\ attempt' \in [Target -> [1 .. MaxExec -> AttemptStatus]]
      BY <1>1, EnqueueType DEF Publish, Startable
    <2>2. QED
      BY <1>0, <1>1, <2>1 DEF TypeOK, Publish, scope
  <1>2. CASE Schedule
    <2>1. /\ job' \in [Target -> JobRow]
          /\ attempt' \in [Target -> [1 .. MaxExec -> AttemptStatus]]
      BY <1>2, EnqueueType DEF Schedule, Startable
    <2>2. QED
      BY <1>0, <1>2, <2>1 DEF TypeOK, Schedule, scope
  <1>3. ASSUME NEW S \in SUBSET Target, Retry(S) PROVE TypeOK'
    <2>1. /\ job' \in [Target -> JobRow]
          /\ attempt' \in [Target -> [1 .. MaxExec -> AttemptStatus]]
      BY <1>3, EnqueueType DEF Retry
    <2>2. QED
      BY <1>0, <1>3, <2>1 DEF TypeOK, Retry, scope
  <1>4. CASE Cancel
    <2>1. job' \in [Target -> JobRow]
      BY <1>4, CancelQueuedType DEF Cancel
    <2>2. "CANCELLED" \in TargetStatus
      BY DEF TargetStatus
    <2>3. target' \in [Target -> TargetRow]
      BY <1>4, <2>2, MarkedType DEF Cancel, TypeOK
    <2>4. QED
      BY <1>0, <1>4, <2>1, <2>3 DEF TypeOK, Cancel, scope
  <1>5. CASE Supersede
    <2>1. job' \in [Target -> JobRow]
      BY <1>5, CancelQueuedType DEF Supersede
    <2>2. "CANCELLED" \in TargetStatus
      BY DEF TargetStatus
    <2>3. target' \in [Target -> TargetRow]
      BY <1>5, <2>2, MarkedType DEF Supersede, TypeOK
    <2>4. QED
      BY <1>5, <2>1, <2>3 DEF TypeOK, Supersede, scope
  <1>6. QED
    BY <1>1, <1>2, <1>3, <1>4, <1>5 DEF Command

LEMMA TypeFault == ASSUME TypeOK, Fault PROVE faults' \in 0 .. MaxFaults
  BY QueueAssumption DEF TypeOK, Fault

LEMMA TypeLifecycle == ASSUME TypeOK, Lifecycle PROVE TypeOK'
  <1>1. CASE ArchiveCompany
    BY <1>1, FenceQueueType DEF TypeOK, ArchiveCompany
  <1>2. CASE RestoreCompany
    BY <1>2 DEF TypeOK, RestoreCompany, rows
  <1>3. CASE ArchiveCreator
    BY <1>3, FenceQueueType DEF TypeOK, ArchiveCreator
  <1>4. CASE RestoreCreator
    BY <1>4 DEF TypeOK, RestoreCreator, rows
  <1>5. ASSUME NEW t \in Target, Revoke(t) PROVE TypeOK'
    BY <1>5, FenceQueueType DEF TypeOK, Revoke
  <1>6. ASSUME NEW t \in Target, LoseAccount(t) PROVE TypeOK'
    BY <1>6, TypeFault DEF TypeOK, LoseAccount, rows
  <1>7. ASSUME NEW t \in Target, Resume(t) PROVE TypeOK'
    <2>1. /\ job[t] \in JobRow /\ "READY" \in JobStatus /\ "READY" \in TargetStatus
          /\ job[t].tries \in 0 .. RetryBudget
      BY DEF TypeOK, JobRow, JobStatus, TargetStatus
    <2>2. /\ Settled(job[t], "READY", job[t].tries, TRUE) \in JobRow
          /\ WithStatus(target[t], "READY") \in TargetRow
      BY <2>1, JobRowTypes, MarkedType
    <2>3. job' \in [Target -> JobRow] /\ target' \in [Target -> TargetRow]
      BY <1>7, <2>2 DEF TypeOK, Resume
    <2>4. QED
      BY <1>7, <2>3 DEF TypeOK, Resume
  <1>8. ASSUME NEW t \in Target, Reconnect(t) PROVE TypeOK'
    BY <1>8 DEF TypeOK, Reconnect, rows
  <1>9. ASSUME NEW t \in Target, CallbackDies(t) PROVE TypeOK'
    BY <1>9, TypeFault DEF TypeOK, CallbackDies, rows
  <1>10. QED
    BY <1>1, <1>2, <1>3, <1>4, <1>5, <1>6, <1>7, <1>8, <1>9 DEF Lifecycle

LEMMA JobUpdateType ==
  ASSUME TypeOK, NEW t \in Target, NEW row \in JobRow,
         job' = [job EXCEPT ![t] = row]
  PROVE job' \in [Target -> JobRow]
  BY DEF TypeOK

LEMMA LeaseType ==
  ASSUME TypeOK, NEW t \in Target, NEW b \in BOOLEAN
  PROVE Leased(job[t], b) \in JobRow /\ Due(job[t]) \in JobRow
  <1>1. job[t] \in JobRow /\ "NONE" \in JobStatus /\ 0 \in 0 .. RetryBudget
    BY QueueAssumption DEF TypeOK, JobStatus
  <1>2. QED
    BY <1>1, JobRowTypes

LEMMA TypeClock == ASSUME TypeOK, Clock PROVE TypeOK'
  <1>1. CASE ExpireReauth
    <2>1. ASSUME NEW t \in Target
          PROVE /\ Released(job[t], "FAILED") \in JobRow
                /\ WithStatus(target[t], "FAILED") \in TargetRow
      <3>1. /\ job[t] \in JobRow /\ "FAILED" \in JobStatus
            /\ "FAILED" \in TargetStatus /\ 0 \in 0 .. RetryBudget
        BY QueueAssumption DEF TypeOK, JobStatus, TargetStatus
      <3>2. QED
        BY <3>1, JobRowTypes, MarkedType
    <2>2. job' \in [Target -> JobRow] /\ target' \in [Target -> TargetRow]
      BY <1>1, <2>1 DEF TypeOK, ExpireReauth
    <2>3. QED
      BY <1>1, <2>2, AggregateType DEF TypeOK, ExpireReauth, scope
  <1>2. ASSUME NEW t \in Target, RunAtReached(t) PROVE TypeOK'
    BY <1>2, LeaseType, JobUpdateType DEF TypeOK, RunAtReached, scope
  <1>3. ASSUME NEW t \in Target, LeaseLapses(t) PROVE TypeOK'
    BY <1>3, LeaseType, JobUpdateType DEF TypeOK, LeaseLapses, scope
  <1>4. ASSUME NEW t \in Target, OwnerStalls(t) PROVE TypeOK'
    BY <1>4, LeaseType, JobUpdateType, TypeFault DEF TypeOK, OwnerStalls, scope
  <1>5. QED
    BY <1>1, <1>2, <1>3, <1>4 DEF Clock

-----------------------------------------------------------------------------
(* Worker steps keep the types.                                            *)

LEMMA WorkerUpdateType ==
  ASSUME TypeOK, NEW w \in Worker, NEW x \in Busy \cup {Idle},
         worker' = [worker EXCEPT ![w] = x]
  PROVE worker' \in [Worker -> Busy \cup {Idle}]
  BY DEF TypeOK

LEMMA TypeClaim ==
  ASSUME TypeOK, NEW w \in Worker, NEW t \in Target, Claim(w, t)
  PROVE TypeOK'
  <1> DEFINE refused == ~CancelRequested(t) /\ ~bound[t]
             cancel == CancelRequested(t) \/ refused
  <1>1. /\ job[t] \in JobRow /\ target[t] \in TargetRow
        /\ refused \in BOOLEAN /\ cancel \in BOOLEAN
    BY DEF TypeOK, CancelRequested, TargetRow
  <1>2. /\ job[t].exec + 1 \in 1 .. MaxExec /\ job[t].exec + 1 \in 0 .. MaxExec
        /\ job[t].id \in 0 .. MaxJobs
        /\ job[t].tries \in 0 .. RetryBudget
        /\ target[t].op \in Operation
    BY <1>1, QueueAssumption DEF Claim, JobRow, TargetRow
  <1>3. job' \in [Target -> JobRow]
    <2>1. ClaimedJob(job[t], w) \in JobRow
      BY <1>1, <1>2 DEF ClaimedJob, JobRow, JobStatus
    <2>2. job' = [job EXCEPT ![t] = ClaimedJob(job[t], w)]
      BY DEF Claim
    <2>3. QED
      BY <2>1, <2>2, JobUpdateType
  <1>4. target' \in [Target -> TargetRow]
    <2>1. ClaimedTarget(target[t], refused, cancel) \in TargetRow
      BY <1>1, TargetRowTypes DEF TargetStatus, Operation
    <2>2. target' = [target EXCEPT ![t] =
                       ClaimedTarget(target[t], refused, cancel)]
      BY DEF Claim
    <2>3. QED
      BY <2>1, <2>2, UpdateType DEF TypeOK
  <1>5. attempt' \in [Target -> [1 .. MaxExec -> AttemptStatus]]
    BY DEF TypeOK, Claim, AttemptsAfterClaim, AttemptStatus
  <1>6. worker' \in [Worker -> Busy \cup {Idle}]
    <2>1. Execution(t, cancel) \in Busy
      BY <1>1, <1>2 DEF Execution, Busy, Result
    <2>2. worker' = [worker EXCEPT ![w] = Execution(t, cancel)]
      BY DEF Claim
    <2>3. QED
      BY <2>1, <2>2, WorkerUpdateType
  <1>7. QED
    BY <1>3, <1>4, <1>5, <1>6 DEF TypeOK, Claim, scope

LEMMA EndCallType ==
  ASSUME TypeOK, NEW w \in Worker, worker[w].pc # "idle", NEW r \in Result,
         EndCall(w, r)
  PROVE worker' \in [Worker -> Busy \cup {Idle}] /\ faults' \in 0 .. MaxFaults
  <1>1. Ended(worker[w], r) \in Busy
    BY BusyWorker, BusyTypes
  <1>2. worker' \in [Worker -> Busy \cup {Idle}]
    BY <1>1, WorkerUpdateType DEF EndCall
  <1>3. faults' \in 0 .. MaxFaults
    BY TypeFault DEF EndCall, NoFault, TypeOK
  <1>4. QED
    BY <1>2, <1>3

LEMMA WrittenType ==
  ASSUME TypeOK, NEW t \in Target, NEW s \in TargetStatus, NEW o \in Operation,
         target' = [target EXCEPT ![t] = Written(@, s, o)]
  PROVE target' \in [Target -> TargetRow]
  <1>1. Written(target[t], s, o) \in TargetRow
    BY TargetRowTypes DEF TypeOK
  <1>2. QED
    BY <1>1, UpdateType DEF TypeOK

LEMMA TypeCall == ASSUME TypeOK, NEW w \in Worker, Call(w) PROVE TypeOK'
  <1>0. /\ worker[w].pc # "idle"
        /\ "none" \in Result /\ "ok" \in Result /\ "pending" \in Result
        /\ "retry" \in Result /\ "auth" \in Result /\ "perm" \in Result
    BY DEF Call, ExecuteRefused, Poll, PreflightFails, PersistIntent,
           IntentNotPersisted, ProviderAccepts, ProviderRejects,
           PersistAccepted, AcceptedNotPersisted, Admitted, Result
  <1>1. worker[w] \in Busy /\ worker[w].t \in Target
    BY <1>0, BusyWorker
  <1>2. /\ \A r \in Result : Ended(worker[w], r) \in Busy \cup {Idle}
        /\ At(worker[w], "dispatch") \in Busy \cup {Idle}
        /\ At(worker[w], "checkpoint") \in Busy \cup {Idle}
    BY <1>0, <1>1, BusyTypes
  <1>3. target[worker[w].t].status \in TargetStatus
    BY <1>1 DEF TypeOK, TargetRow
  <1>4. ASSUME NEW r \in Result, EndCall(w, r), UNCHANGED <<rows, scope, created>>
        PROVE TypeOK'
    BY <1>0, <1>4, EndCallType DEF TypeOK, rows, scope
  <1>5. CASE ExecuteRefused(w)
    BY <1>0, <1>4, <1>5 DEF ExecuteRefused
  <1>6. CASE Poll(w)
    <2>1. PollResults(w) \subseteq Result
      BY DEF PollResults, Result
    <2>2. QED
      BY <1>4, <1>6, <2>1 DEF Poll
  <1>7. CASE PreflightFails(w)
    BY <1>0, <1>4, <1>7 DEF PreflightFails
  <1>8. CASE PersistIntent(w)
    <2>1. target' \in [Target -> TargetRow]
      BY <1>1, <1>3, <1>8, WrittenType DEF PersistIntent, Operation
    <2>2. worker' \in [Worker -> Busy \cup {Idle}]
      BY <1>2, <1>8, WorkerUpdateType DEF PersistIntent
    <2>3. QED
      BY <1>8, <2>1, <2>2 DEF TypeOK, PersistIntent, scope
  <1>9. CASE IntentNotPersisted(w)
    <2>1. worker' \in [Worker -> Busy \cup {Idle}]
      BY <1>0, <1>2, <1>9, WorkerUpdateType DEF IntentNotPersisted
    <2>2. QED
      BY <1>9, <2>1 DEF TypeOK, IntentNotPersisted, rows, scope
  <1>10. CASE ProviderAccepts(w)
    <2>1. worker' \in [Worker -> Busy \cup {Idle}]
      BY <1>0, <1>2, <1>10, WorkerUpdateType DEF ProviderAccepts
    <2>2. created' \in [Target -> Nat]
      BY <1>1, <1>10 DEF TypeOK, ProviderAccepts
    <2>3. QED
      BY <1>10, <2>1, <2>2 DEF TypeOK, ProviderAccepts, rows, scope
  <1>11. CASE ProviderRejects(w)
    BY <1>0, <1>4, <1>11 DEF ProviderRejects
  <1>12. CASE PersistAccepted(w)
    <2>1. target' \in [Target -> TargetRow]
      BY <1>1, <1>3, <1>12, WrittenType DEF PersistAccepted, Operation
    <2>2. worker' \in [Worker -> Busy \cup {Idle}]
      BY <1>0, <1>2, <1>12, WorkerUpdateType DEF PersistAccepted
    <2>3. QED
      BY <1>12, <2>1, <2>2 DEF TypeOK, PersistAccepted, scope
  <1>13. CASE AcceptedNotPersisted(w)
    <2>1. worker' \in [Worker -> Busy \cup {Idle}]
      BY <1>0, <1>2, <1>13, WorkerUpdateType DEF AcceptedNotPersisted
    <2>2. QED
      BY <1>13, <2>1 DEF TypeOK, AcceptedNotPersisted, rows, scope
  <1>14. QED
    BY <1>5, <1>6, <1>7, <1>8, <1>9, <1>10, <1>11, <1>12, <1>13 DEF Call

LEMMA CloseAttemptType ==
  ASSUME TypeOK, NEW w \in Worker, worker[w].pc # "idle",
         NEW s \in AttemptStatus, CloseAttempt(w, s)
  PROVE attempt' \in [Target -> [1 .. MaxExec -> AttemptStatus]]
  BY BusyWorker DEF TypeOK, CloseAttempt

LEMMA LeaveType ==
  ASSUME TypeOK, NEW w \in Worker, Leave(w)
  PROVE worker' \in [Worker -> Busy \cup {Idle}]
  BY WorkerUpdateType DEF Leave

LEMMA SetTargetType ==
  ASSUME TypeOK, NEW w \in Worker, worker[w].pc # "idle",
         NEW row \in TargetRow, SetTarget(w, row)
  PROVE target' \in [Target -> TargetRow] /\ rev' \in RevStatus
  BY BusyWorker, UpdateType, AggregateType DEF SetTarget, TypeOK

LEMMA TypeFinish == ASSUME TypeOK, NEW w \in Worker, Finish(w) PROVE TypeOK'
  <1> DEFINE t == worker[w].t
  <1>0. worker[w].pc # "idle"
    BY DEF Finish, FinishStale, FinishCompanyGone, FinishCancelled,
           FinishSucceeded, FinishPending, FinishFailed, FinishAborts,
           MayFinish, Failing
  <1>1. /\ t \in Target /\ job[t] \in JobRow /\ target[t] \in TargetRow
        /\ job[t].tries \in 0 .. RetryBudget /\ 0 \in 0 .. RetryBudget
        /\ worker[w].tries \in 0 .. RetryBudget
    BY <1>0, BusyWorker, QueueAssumption DEF TypeOK, JobRow
  <1>2. KeptOperation(w) \in Operation
    BY <1>1 DEF KeptOperation, Operation, TargetRow
  <1>3. ASSUME NEW s \in JobStatus, NEW n \in 0 .. RetryBudget, NEW b \in BOOLEAN
        PROVE Settled(job[t], s, n, b) \in JobRow /\ Released(job[t], s) \in JobRow
    BY <1>1, JobRowTypes
  <1>4. ASSUME NEW s \in TargetStatus
        PROVE /\ Written(target[t], s, KeptOperation(w)) \in TargetRow
              /\ CancelledRow(target[t]) \in TargetRow
    BY <1>1, <1>2, TargetRowTypes
  <1>5. ASSUME CancelExecution(w) PROVE TypeOK'
    <2>1. job' \in [Target -> JobRow]
      BY <1>1, <1>3, <1>5, JobUpdateType DEF CancelExecution, JobStatus, TypeOK
    <2>2. target' \in [Target -> TargetRow] /\ rev' \in RevStatus
      BY <1>0, <1>4, <1>5, SetTargetType DEF CancelExecution, TargetStatus
    <2>3. attempt' \in [Target -> [1 .. MaxExec -> AttemptStatus]]
      BY <1>0, <1>5, CloseAttemptType DEF CancelExecution, AttemptStatus
    <2>4. QED
      BY <1>5, <2>1, <2>2, <2>3, LeaveType DEF TypeOK, CancelExecution, scope
  <1>6. CASE FinishStale(w)
    BY <1>6, LeaveType DEF TypeOK, FinishStale, rows, scope
  <1>7. CASE FinishCompanyGone(w) \/ FinishCancelled(w)
    BY <1>5, <1>7 DEF FinishCompanyGone, FinishCancelled
  <1>8. CASE FinishSucceeded(w)
    <2>1. job' \in [Target -> JobRow]
      BY <1>1, <1>3, <1>8, JobUpdateType DEF FinishSucceeded, JobStatus
    <2>2. target' \in [Target -> TargetRow] /\ rev' \in RevStatus
      BY <1>0, <1>4, <1>8, SetTargetType DEF FinishSucceeded, TargetStatus
    <2>3. attempt' \in [Target -> [1 .. MaxExec -> AttemptStatus]]
      BY <1>0, <1>8, CloseAttemptType DEF FinishSucceeded, AttemptStatus
    <2>4. QED
      BY <1>8, <2>1, <2>2, <2>3, LeaveType DEF TypeOK, FinishSucceeded, scope
  <1>9. CASE FinishPending(w)
    <2>1. job' \in [Target -> JobRow]
      BY <1>1, <1>3, <1>9, JobUpdateType DEF FinishPending, JobStatus
    <2>2. target' \in [Target -> TargetRow] /\ rev' \in RevStatus
      BY <1>0, <1>4, <1>9, SetTargetType DEF FinishPending, TargetStatus
    <2>3. attempt' \in [Target -> [1 .. MaxExec -> AttemptStatus]]
      BY <1>0, <1>9, CloseAttemptType DEF FinishPending, AttemptStatus
    <2>4. QED
      BY <1>9, <2>1, <2>2, <2>3, LeaveType DEF TypeOK, FinishPending, scope
  <1>10. CASE FinishFailed(w)
    <2>0. /\ FailureOutcome(w).job \in JobStatus
          /\ FailureOutcome(w).target \in TargetStatus
          /\ FailureOutcome(w).attempt \in AttemptStatus
          /\ FailureOutcome(w).due \in BOOLEAN
      BY DEF FailureOutcome, JobStatus, TargetStatus, AttemptStatus
    <2>1. FailureCount(w) \in 0 .. RetryBudget
      BY <1>1, <1>10, QueueAssumption DEF FinishFailed, FitsCheck, FailureCount
    <2>2. job' \in [Target -> JobRow]
      BY <1>1, <1>3, <1>10, <2>0, <2>1, JobUpdateType DEF FinishFailed
    <2>3. target' \in [Target -> TargetRow] /\ rev' \in RevStatus
      BY <1>0, <1>4, <1>10, <2>0, SetTargetType DEF FinishFailed
    <2>4. attempt' \in [Target -> [1 .. MaxExec -> AttemptStatus]]
      BY <1>0, <1>10, <2>0, CloseAttemptType DEF FinishFailed
    <2>5. QED
      BY <1>10, <2>2, <2>3, <2>4, LeaveType DEF TypeOK, FinishFailed, scope
  <1>11. CASE FinishAborts(w)
    BY <1>11, LeaveType DEF TypeOK, FinishAborts, rows, scope
  <1>12. QED
    BY <1>6, <1>7, <1>8, <1>9, <1>10, <1>11 DEF Finish

LEMMA TypeWorkerStep ==
  ASSUME TypeOK, NEW w \in Worker, WorkerStep(w)
  PROVE TypeOK'
  <1>1. CASE Crash(w)
    BY <1>1, LeaveType, TypeFault DEF TypeOK, Crash, rows, scope
  <1>2. CASE Heartbeat(w)
    <2>1. worker[w].t \in Target
      BY <1>2, BusyWorker DEF Heartbeat, Calling
    <2>2. job' \in [Target -> JobRow]
      BY <1>2, <2>1, LeaseType, JobUpdateType DEF Heartbeat
    <2>3. QED
      BY <1>2, <2>2 DEF TypeOK, Heartbeat, scope
  <1>3. CASE LoseHeartbeat(w)
    <2>1. ContextEnded(worker[w]) \in Busy
      BY <1>3, BusyWorker, BusyTypes DEF LoseHeartbeat, Calling, Result
    <2>2. worker' \in [Worker -> Busy \cup {Idle}]
      BY <1>3, <2>1, WorkerUpdateType DEF LoseHeartbeat
    <2>3. faults' \in 0 .. MaxFaults
      BY <1>3, TypeFault DEF LoseHeartbeat, NoFault, TypeOK
    <2>4. QED
      BY <1>3, <2>2, <2>3 DEF TypeOK, LoseHeartbeat, rows, scope
  <1>4. QED
    BY <1>1, <1>2, <1>3, TypeCall, TypeFinish, TypeClaim DEF WorkerStep

LEMMA NextTypeOK == TypeOK /\ [Next]_vars => TypeOK'
  <1> SUFFICES ASSUME TypeOK, [Next]_vars PROVE TypeOK'
    OBVIOUS
  <1>1. CASE UNCHANGED vars
    BY <1>1 DEF TypeOK, vars
  <1>2. CASE Next
    BY <1>2, TypeCommand, TypeLifecycle, TypeClock, TypeWorkerStep DEF Next
  <1>3. QED
    BY <1>1, <1>2

(* Every row stays within its column type and its CHECK constraint.        *)
THEOREM TypeCorrect == Spec => []TypeOK
  BY InitTypeOK, NextTypeOK, PTL DEF Spec

-----------------------------------------------------------------------------
(* The queue of a marked target, and the attempts of a job.                *)

(* The status a target may have while its job runs or after it was marked; *)
(* an attempt that is open is the one of a running execution.              *)
QueueRowInv(t) ==
  /\ job[t].status = "RUNNING" =>
       target[t].status \in {"PUBLISHING", "PROCESSING", "CANCELLED"}
  /\ target[t].marker =>
       /\ \/ target[t].status \in {"PUBLISHING", "PROCESSING", "CANCELLED",
                                   "SUCCEEDED"}
          \/ target[t].status = "WAITING_FOR_REAUTH" /\ ~current
       /\ job[t].status # "READY"
       /\ job[t].status = "RETRY_SCHEDULED" =>
            target[t].status \in {"PROCESSING", "CANCELLED"}
  /\ \A n \in 1 .. MaxExec : attempt[t][n] = "RUNNING" =>
       job[t].status = "RUNNING" /\ n = job[t].exec

QueueInv == TypeOK /\ \A t \in Target : QueueRowInv(t)

(* A step that leaves these columns of a target alone.                     *)
LEMMA RowUntouched ==
  ASSUME NEW t \in Target, QueueRowInv(t), current' = current,
         target'[t].status = target[t].status,
         target'[t].marker = target[t].marker,
         job'[t].status = job[t].status, job'[t].exec = job[t].exec,
         attempt'[t] = attempt[t]
  PROVE  QueueRowInv(t)'
  BY DEF QueueRowInv

(* A new job is for a target that is not marked.                           *)
LEMMA EnqueuedRow ==
  ASSUME QueueInv, NEW S \in SUBSET Target, NEW due \in BOOLEAN,
         Enqueue(S, due), current, UNCHANGED <<current, target>>,
         \A u \in S : target[u].status \in {"READY", "FAILED",
                        "RETRY_SCHEDULED", "WAITING_FOR_REAUTH"},
         NEW t \in Target
  PROVE  QueueRowInv(t)'
<1>1. QueueRowInv(t)
  BY DEF QueueInv
<1>2. CASE t \in S /\ ~Active(t)
  <2>1. job'[t].status = "READY"
    BY <1>2 DEF Enqueue, NewJob, NoJob
  <2>2. \A n \in 1 .. MaxExec : attempt'[t][n] = "NONE"
    BY <1>2 DEF Enqueue
  <2>3. ~target[t].marker
    BY <1>1, <1>2 DEF QueueRowInv
  <2> QED
    BY <2>1, <2>2, <2>3 DEF QueueRowInv
<1>3. CASE ~(t \in S /\ ~Active(t))
  <2>1. job'[t] = job[t] /\ attempt'[t] = attempt[t]
    BY <1>3 DEF Enqueue
  <2> QED
    BY <1>1, <2>1, RowUntouched
<1> QED
  BY <1>2, <1>3

(* What leaves the queue leaves it as CANCELLED.                           *)
LEMMA CancelledJob ==
  ASSUME QueueInv, NEW S, CancelQueued(S), NEW t \in Target
  PROVE  /\ job'[t].exec = job[t].exec
         /\ t \in S /\ Queued(t) => job'[t].status = "CANCELLED"
         /\ ~(t \in S /\ Queued(t)) => job'[t].status = job[t].status
  BY DEF CancelQueued, Released, Settled, JobRow, QueueInv, TypeOK

(* A target that is marked while its queued job is cancelled.              *)
LEMMA MarkedRow ==
  ASSUME QueueInv, NEW S, CancelQueued(S), NEW t \in Target, t \in S,
         attempt' = attempt, current' \in BOOLEAN, current' => current,
         NEW s, target'[t] = Marked(target[t], s),
         \/ s = "CANCELLED"
         \/ /\ s = target[t].status
            /\ s \in {"PUBLISHING", "PROCESSING"}
         \/ s = target[t].status /\ s = "WAITING_FOR_REAUTH" /\ ~current'
  PROVE  QueueRowInv(t)'
<1>1. QueueRowInv(t)
  BY DEF QueueInv
<1>2. target'[t].status = s /\ target'[t].marker = TRUE
  BY DEF Marked, TargetRow, QueueInv, TypeOK
<1>3. job'[t].exec = job[t].exec
  BY CancelledJob
<1>4. job'[t].status \notin {"READY", "RETRY_SCHEDULED"}
  BY CancelledJob DEF Queued
<1>5. job'[t].status = "RUNNING" <=> job[t].status = "RUNNING"
  BY CancelledJob DEF Queued
<1> QED
  BY <1>1, <1>2, <1>3, <1>4, <1>5 DEF QueueRowInv

(* A target that keeps its row while its queued job may be cancelled.      *)
LEMMA KeptRow ==
  ASSUME QueueInv, NEW S, CancelQueued(S), NEW t \in Target,
         attempt' = attempt, current' => current, target'[t] = target[t]
  PROVE  QueueRowInv(t)'
<1>1. QueueRowInv(t) /\ job'[t].exec = job[t].exec
  BY CancelledJob DEF QueueInv
<1>2. \/ job'[t].status = job[t].status
      \/ Queued(t) /\ job'[t].status = "CANCELLED"
  BY CancelledJob
<1> QED
  BY <1>1, <1>2 DEF QueueRowInv, Queued

LEMMA FencedRow ==
  ASSUME QueueInv, NEW S, FenceQueue(S), NEW t \in Target,
         attempt' = attempt, current' = current
  PROVE  QueueRowInv(t)'
<1>1. QueueRowInv(t) /\ CancelQueued(S) /\ current \in BOOLEAN
  BY DEF QueueInv, FenceQueue, TypeOK
<1>2. CASE t \in S /\ target[t].status \notin {"SUCCEEDED", "CANCELLED"}
  <2> DEFINE s == IF job[t].status = "RUNNING" THEN target[t].status
                  ELSE "CANCELLED"
  <2>1. target'[t] = Marked(target[t], s)
    BY <1>2 DEF FenceQueue
  <2>2. \/ s = "CANCELLED"
        \/ s = target[t].status /\ s \in {"PUBLISHING", "PROCESSING"}
    BY <1>1, <1>2 DEF QueueRowInv
  <2> HIDE DEF s
  <2> QED
    BY <1>1, <1>2, <2>1, <2>2, MarkedRow
<1>3. CASE ~(t \in S /\ target[t].status \notin {"SUCCEEDED", "CANCELLED"})
  <2>1. target'[t] = target[t]
    BY <1>3 DEF FenceQueue
  <2> QED
    BY <1>1, <2>1, KeptRow
<1> QED
  BY <1>2, <1>3

LEMMA QueueCommand ==
  ASSUME QueueInv, Command, NEW t \in Target
  PROVE  QueueRowInv(t)'
<1>0. QueueRowInv(t) /\ current \in BOOLEAN
  BY DEF QueueInv, TypeOK
<1>1. CASE Publish \/ Schedule
  <2>1. /\ Enqueue(Startable, TRUE) \/ Enqueue(Startable, FALSE)
        /\ current /\ UNCHANGED <<current, target>>
    BY <1>1 DEF Publish, Schedule
  <2>2. /\ Startable \in SUBSET Target
        /\ \A u \in Startable : target[u].status \in
             {"READY", "FAILED", "RETRY_SCHEDULED", "WAITING_FOR_REAUTH"}
    BY DEF Startable
  <2> QED
    BY <2>1, <2>2, EnqueuedRow
<1>2. ASSUME NEW S \in SUBSET Target, Retry(S) PROVE QueueRowInv(t)'
  BY <1>2, EnqueuedRow DEF Retry, Retryable
<1>3. CASE Cancel
  <2>1. CASE target[t].status \in {"SUCCEEDED", "CANCELLED"}
    BY <1>3, <2>1, KeptRow DEF Cancel
  <2>2. CASE target[t].status \notin {"SUCCEEDED", "CANCELLED"}
    <3>1. target'[t] = Marked(target[t], "CANCELLED")
      BY <1>3, <2>2 DEF Cancel
    <3> QED
      BY <1>0, <1>3, <3>1, MarkedRow DEF Cancel
  <2> QED
    BY <2>1, <2>2
<1>4. CASE Supersede
  <2>1. CancelQueued(Target) /\ attempt' = attempt /\ ~current'
    BY <1>4 DEF Supersede
  <2>2. target[t].status \in TargetStatus
    BY MarkedType DEF QueueInv, TypeOK, TargetRow
  <2>3. CASE target[t].status \in {"SUCCEEDED", "CANCELLED"}
    <3>1. target'[t] = target[t]
      BY <1>4, <2>3 DEF Supersede
    <3> QED
      BY <2>1, <3>1, KeptRow
  <2>4. CASE target[t].status \in {"READY", "RETRY_SCHEDULED", "FAILED"}
    <3>1. target'[t] = Marked(target[t], "CANCELLED")
      BY <1>4, <2>4 DEF Supersede
    <3> QED
      BY <1>4, <2>1, <3>1, MarkedRow DEF Supersede
  <2>5. CASE target[t].status \in {"PUBLISHING", "PROCESSING",
                                   "WAITING_FOR_REAUTH"}
    <3>1. target'[t] = Marked(target[t], target[t].status)
      BY <1>4, <2>5 DEF Supersede
    <3> QED
      BY <1>4, <2>1, <2>5, <3>1, MarkedRow DEF Supersede
  <2> QED
    BY <2>2, <2>3, <2>4, <2>5 DEF TargetStatus
<1> QED
  BY <1>1, <1>2, <1>3, <1>4 DEF Command

LEMMA QueueLifecycle ==
  ASSUME QueueInv, Lifecycle, NEW t \in Target
  PROVE  QueueRowInv(t)'
<1>0. QueueRowInv(t) /\ job[t] \in JobRow /\ target[t] \in TargetRow
  BY DEF QueueInv, TypeOK
<1>1. CASE ArchiveCompany \/ ArchiveCreator
  BY <1>1, FencedRow DEF ArchiveCompany, ArchiveCreator
<1>2. CASE RestoreCompany \/ RestoreCreator
  BY <1>0, <1>2, RowUntouched DEF RestoreCompany, RestoreCreator, rows
<1>3. ASSUME NEW u \in Target, Revoke(u) PROVE QueueRowInv(t)'
  BY <1>3, FencedRow DEF Revoke
<1>4. ASSUME NEW u \in Target,
             LoseAccount(u) \/ Reconnect(u) \/ CallbackDies(u)
      PROVE QueueRowInv(t)'
  BY <1>0, <1>4, RowUntouched DEF LoseAccount, Reconnect, CallbackDies, rows
<1>5. ASSUME NEW u \in Target, Resume(u) PROVE QueueRowInv(t)'
  <2>1. CASE target' = target /\ job' = job
    BY <1>0, <1>5, <2>1, RowUntouched DEF Resume
  <2>2. CASE ~(target' = target /\ job' = job)
    <3>1. /\ job[u].status = "RETRY_SCHEDULED"
          /\ target[u].status = "WAITING_FOR_REAUTH"
          /\ target' = [target EXCEPT ![u] = WithStatus(target[u], "READY")]
          /\ job' = [job EXCEPT ![u] =
                       Settled(job[u], "READY", job[u].tries, TRUE)]
          /\ attempt' = attempt /\ current' = current
      BY <1>5, <2>2 DEF Resume
    <3>2. CASE t = u
      <4>1. target'[t] = WithStatus(target[t], "READY")
        BY <3>1, <3>2 DEF QueueInv, TypeOK
      <4>2. job'[t] = Settled(job[t], "READY", job[t].tries, TRUE)
        BY <3>1, <3>2 DEF QueueInv, TypeOK
      <4>3. ~target[t].marker
        BY <1>0, <3>1, <3>2 DEF QueueRowInv
      <4>4. /\ job'[t].status = "READY" /\ job'[t].exec = job[t].exec
            /\ target'[t].marker = target[t].marker
        BY <1>0, <4>1, <4>2 DEF Settled, WithStatus, JobRow, TargetRow
      <4> QED
        BY <1>0, <3>1, <3>2, <4>3, <4>4 DEF QueueRowInv
    <3>3. CASE t # u
      <4>1. job'[t] = job[t] /\ target'[t] = target[t]
        BY <3>1, <3>3 DEF QueueInv, TypeOK
      <4> QED
        BY <1>0, <3>1, <4>1, RowUntouched
    <3> QED
      BY <3>2, <3>3
  <2> QED
    BY <2>1, <2>2
<1> QED
  BY <1>1, <1>2, <1>3, <1>4, <1>5 DEF Lifecycle

LEMMA QueueClock ==
  ASSUME QueueInv, Clock, NEW t \in Target
  PROVE  QueueRowInv(t)'
<1>0. QueueRowInv(t) /\ job[t] \in JobRow /\ target[t] \in TargetRow
  BY DEF QueueInv, TypeOK
<1>1. CASE ExpireReauth
  <2>1. CASE ReauthExpired(t)
    <3>1. /\ job'[t] = Released(job[t], "FAILED")
          /\ target'[t] = WithStatus(target[t], "FAILED")
          /\ attempt' = attempt
      BY <1>1, <2>1 DEF ExpireReauth
    <3>2. ~target[t].marker /\ job[t].status = "RETRY_SCHEDULED"
      BY <1>0, <2>1 DEF QueueRowInv, ReauthExpired
    <3>3. /\ job'[t].status = "FAILED" /\ job'[t].exec = job[t].exec
          /\ target'[t].marker = target[t].marker
      BY <1>0, <3>1 DEF Released, Settled, WithStatus, JobRow, TargetRow
    <3> QED
      BY <1>0, <3>1, <3>2, <3>3 DEF QueueRowInv
  <2>2. CASE ~ReauthExpired(t)
    <3>1. /\ job'[t] = job[t] /\ target'[t] = target[t]
          /\ attempt' = attempt /\ current' = current
      BY <1>1, <2>2 DEF ExpireReauth
    <3> QED
      BY <1>0, <3>1, RowUntouched
  <2> QED
    BY <2>1, <2>2
<1>2. ASSUME NEW u \in Target,
             RunAtReached(u) \/ LeaseLapses(u) \/ OwnerStalls(u)
      PROVE QueueRowInv(t)'
  <2>1. /\ target' = target /\ attempt' = attempt /\ current' = current
        /\ \/ job' = [job EXCEPT ![u] = Due(job[u])]
           \/ job' = [job EXCEPT ![u] = Leased(job[u], FALSE)]
    BY <1>2 DEF RunAtReached, LeaseLapses, OwnerStalls
  <2>2. \/ job'[t] = job[t] \/ job'[t] = Due(job[t])
        \/ job'[t] = Leased(job[t], FALSE)
    BY <2>1 DEF QueueInv, TypeOK
  <2>3. job'[t].status = job[t].status /\ job'[t].exec = job[t].exec
    BY <1>0, <2>2 DEF Due, Leased, JobRow
  <2> QED
    BY <1>0, <2>1, <2>3, RowUntouched
<1> QED
  BY <1>1, <1>2 DEF Clock

(* Claimed: the previous attempt is closed, a marked target is cancelled.  *)
LEMMA QueueClaim ==
  ASSUME QueueInv, NEW w \in Worker, NEW u \in Target, Claim(w, u),
         NEW t \in Target
  PROVE  QueueRowInv(t)'
<1> DEFINE refused == ~CancelRequested(u) /\ ~bound[u]
           cancel == CancelRequested(u) \/ refused
<1>0. QueueRowInv(t) /\ job[t] \in JobRow /\ target[t] \in TargetRow
  BY DEF QueueInv, TypeOK
<1>1. /\ target' = [target EXCEPT ![u] =
                      ClaimedTarget(target[u], refused, cancel)]
      /\ job' = [job EXCEPT ![u] = ClaimedJob(job[u], w)]
      /\ attempt' = [attempt EXCEPT ![u] = AttemptsAfterClaim(u, cancel)]
      /\ current' = current
  BY DEF Claim
<1>2. CASE t # u
  <2>1. /\ job'[t] = job[t] /\ target'[t] = target[t]
        /\ attempt'[t] = attempt[t]
    BY <1>1, <1>2 DEF QueueInv, TypeOK
  <2> QED
    BY <1>0, <1>1, <2>1, RowUntouched
<1>3. CASE t = u
  <2>1. /\ target'[t] = ClaimedTarget(target[t], refused, cancel)
        /\ job'[t] = ClaimedJob(job[t], w)
        /\ attempt'[t] = AttemptsAfterClaim(t, cancel)
    BY <1>1, <1>3 DEF QueueInv, TypeOK
  <2>2. job'[t].status = "RUNNING" /\ job'[t].exec = job[t].exec + 1
    BY <1>0, <2>1 DEF ClaimedJob, JobRow
  <2>3. \A n \in 1 .. MaxExec : attempt'[t][n] = "RUNNING" => n = job'[t].exec
    <3>1. ASSUME NEW n \in 1 .. MaxExec, attempt'[t][n] = "RUNNING"
          PROVE  n = job[t].exec + 1
      BY <1>0, <2>1, <3>1 DEF AttemptsAfterClaim, QueueRowInv
    <3> QED
      BY <2>2, <3>1
  <2>4. target'[t].status \in {"PUBLISHING", "PROCESSING", "CANCELLED"}
    BY <1>0, <2>1 DEF ClaimedTarget, TargetRow
  <2> QED
    BY <2>2, <2>3, <2>4 DEF QueueRowInv
<1> QED
  BY <1>2, <1>3

LEMMA QueueCall ==
  ASSUME QueueInv, NEW w \in Worker,
         Call(w) \/ Crash(w) \/ Heartbeat(w) \/ LoseHeartbeat(w),
         NEW t \in Target
  PROVE  QueueRowInv(t)'
<1>0. QueueRowInv(t) /\ job[t] \in JobRow /\ target[t] \in TargetRow
  BY DEF QueueInv, TypeOK
<1>1. CASE UNCHANGED rows
  BY <1>0, <1>1, RowUntouched DEF rows
<1>2. CASE PersistIntent(w) \/ PersistAccepted(w)
  <2>1. PICK u, o : target' = [target EXCEPT ![u] =
                                 Written(target[u], target[u].status, o)]
    BY <1>2 DEF PersistIntent, PersistAccepted
  <2>2. job' = job /\ attempt' = attempt /\ current' = current
    BY <1>2 DEF PersistIntent, PersistAccepted
  <2>3. \/ target'[t] = target[t]
        \/ target'[t] = Written(target[t], target[t].status, o)
    BY <2>1 DEF QueueInv, TypeOK
  <2>4. /\ target'[t].status = target[t].status
        /\ target'[t].marker = target[t].marker
    BY <1>0, <2>3 DEF Written, TargetRow
  <2> QED
    BY <1>0, <2>2, <2>4, RowUntouched
<1>3. CASE Heartbeat(w)
  <2>1. /\ job' = [job EXCEPT ![worker[w].t] = Leased(job[worker[w].t], TRUE)]
        /\ target' = target /\ attempt' = attempt /\ current' = current
    BY <1>3 DEF Heartbeat
  <2>2. job'[t] = job[t] \/ job'[t] = Leased(job[t], TRUE)
    BY <2>1 DEF QueueInv, TypeOK
  <2>3. job'[t].status = job[t].status /\ job'[t].exec = job[t].exec
    BY <1>0, <2>2 DEF Leased, JobRow
  <2> QED
    BY <1>0, <2>1, <2>3, RowUntouched
<1>4. CASE Crash(w) \/ LoseHeartbeat(w)
  BY <1>1, <1>4 DEF Crash, LoseHeartbeat
<1>5. CASE Call(w) /\ ~PersistIntent(w) /\ ~PersistAccepted(w)
  BY <1>1, <1>5 DEF Call, ExecuteRefused, Poll, PreflightFails,
     IntentNotPersisted, ProviderAccepts, ProviderRejects, AcceptedNotPersisted
<1> QED
  BY <1>2, <1>3, <1>4, <1>5

(* Closing an attempt opens none.                                          *)
LEMMA AttemptCloses ==
  ASSUME QueueInv, NEW w \in Worker, worker[w].pc # "idle",
         NEW s \in AttemptStatus \ {"RUNNING"}, CloseAttempt(w, s),
         NEW t \in Target
  PROVE  /\ \A n \in 1 .. MaxExec :
              attempt'[t][n] = "RUNNING" => attempt[t][n] = "RUNNING"
         /\ t # worker[w].t => attempt'[t] = attempt[t]
  BY BusyWorker DEF QueueInv, TypeOK, CloseAttempt

(* An owner that ends its execution closes the only open attempt.          *)
LEMMA OwnerCloses ==
  ASSUME QueueInv, NEW w \in Worker, worker[w].pc # "idle", Owns(w),
         NEW s \in AttemptStatus \ {"RUNNING"}, CloseAttempt(w, s)
  PROVE  \A n \in 1 .. MaxExec : attempt'[worker[w].t][n] # "RUNNING"
<1> DEFINE t == worker[w].t
<1>1. t \in Target /\ worker[w].exec \in 1 .. MaxExec /\ QueueRowInv(t)
  BY BusyWorker DEF QueueInv
<1>2. job[t].id = worker[w].id /\ job[t].exec = worker[w].exec
  BY DEF Owns
<1>3. ASSUME NEW n \in 1 .. MaxExec, attempt[t][n] = "RUNNING"
      PROVE  n = worker[w].exec
  BY <1>1, <1>2, <1>3 DEF QueueRowInv
<1> QED
  BY <1>1, <1>2, <1>3 DEF CloseAttempt, QueueInv, TypeOK

LEMMA SettledStatus ==
  ASSUME NEW r \in JobRow, NEW js, NEW n, NEW b
  PROVE  Settled(r, js, n, b).status = js
BY DEF Settled, JobRow

(* The owner writes the job, the target and the attempt.                   *)
LEMMA OwnerFinishes ==
  ASSUME QueueInv, NEW w \in Worker, worker[w].pc # "idle", Owns(w),
         NEW js \in JobStatus, NEW n, NEW b,
         NEW row, NEW s \in AttemptStatus \ {"RUNNING"},
         job' = [job EXCEPT ![worker[w].t] =
                   Settled(job[worker[w].t], js, n, b)],
         SetTarget(w, row), CloseAttempt(w, s), current' = current,
         js \notin {"RUNNING", "READY"},
         row.marker => /\ row.status \in {"PROCESSING", "CANCELLED",
                                          "SUCCEEDED"}
                       /\ js = "RETRY_SCHEDULED" => row.status = "PROCESSING",
         NEW t \in Target
  PROVE  QueueRowInv(t)'
<1>0. QueueRowInv(t) /\ job[t] \in JobRow
  BY DEF QueueInv, TypeOK
<1>1. CASE t = worker[w].t
  <2>1. target'[t] = row /\ job'[t] = Settled(job[t], js, n, b)
    BY <1>1 DEF SetTarget, QueueInv, TypeOK
  <2>2. job'[t].status = js
    BY <1>0, <2>1, SettledStatus
  <2>3. \A i \in 1 .. MaxExec : attempt'[t][i] # "RUNNING"
    BY <1>1, OwnerCloses
  <2> QED
    BY <2>1, <2>2, <2>3 DEF QueueRowInv
<1>2. CASE t # worker[w].t
  <2>1. /\ job'[t] = job[t] /\ target'[t] = target[t]
        /\ attempt'[t] = attempt[t]
    BY <1>2, AttemptCloses DEF SetTarget, QueueInv, TypeOK
  <2> QED
    BY <1>0, <2>1, RowUntouched
<1> QED
  BY <1>1, <1>2

(* A cancelled execution, also one that has lost its job.                  *)
LEMMA QueueCancelExecution ==
  ASSUME QueueInv, NEW w \in Worker, worker[w].pc # "idle",
         CancelExecution(w), NEW t \in Target
  PROVE  QueueRowInv(t)'
<1>0. QueueRowInv(t) /\ job[t] \in JobRow /\ target[t] \in TargetRow
  BY DEF QueueInv, TypeOK
<1>1. /\ worker[w].t \in Target /\ target[worker[w].t] \in TargetRow
      /\ job[worker[w].t] \in JobRow
      /\ "CANCELLED" \in AttemptStatus \ {"RUNNING"}
      /\ "CANCELLED" \in JobStatus
  BY BusyWorker DEF QueueInv, TypeOK, AttemptStatus, JobStatus
<1>2. /\ SetTarget(w, CancelledRow(target[worker[w].t]))
      /\ CloseAttempt(w, "CANCELLED") /\ current' = current
  BY DEF CancelExecution
<1>3. CancelledRow(target[worker[w].t]).status \in {"SUCCEEDED", "CANCELLED"}
  BY <1>1 DEF CancelledRow, WithStatus, TargetRow
<1>4. CASE Owns(w)
  <2>1. job' = [job EXCEPT ![worker[w].t] =
                  Settled(job[worker[w].t], "CANCELLED",
                          job[worker[w].t].tries, job[worker[w].t].due)]
    BY <1>4 DEF CancelExecution, Released
  <2> QED
    BY <1>1, <1>2, <1>3, <1>4, <2>1, OwnerFinishes
<1>5. CASE ~Owns(w)
  <2>1. job' = job
    BY <1>5 DEF CancelExecution
  <2>2. \A n \in 1 .. MaxExec :
          attempt'[t][n] = "RUNNING" => attempt[t][n] = "RUNNING"
    BY <1>1, <1>2, AttemptCloses
  <2>3. target'[t] = target[t] \/ target'[t] = CancelledRow(target[t])
    BY <1>2 DEF SetTarget, QueueInv, TypeOK
  <2>4. /\ target'[t].marker = target[t].marker
        /\ \/ target'[t].status = target[t].status
           \/ target'[t].status = "CANCELLED"
    BY <1>0, <2>3 DEF CancelledRow, WithStatus, TargetRow
  <2> QED
    BY <1>0, <1>2, <2>1, <2>2, <2>4 DEF QueueRowInv
<1> QED
  BY <1>4, <1>5

LEMMA QueueFinish ==
  ASSUME QueueInv, NEW w \in Worker, Finish(w), NEW t \in Target
  PROVE  QueueRowInv(t)'
<1> DEFINE u == worker[w].t
<1>0. worker[w].pc # "idle"
  BY DEF Finish, FinishStale, FinishCompanyGone, FinishCancelled,
         FinishSucceeded, FinishPending, FinishFailed, FinishAborts,
         MayFinish, Failing
<1>1. /\ u \in Target /\ target[u] \in TargetRow /\ QueueRowInv(t)
  BY <1>0, BusyWorker DEF QueueInv, TypeOK
<1>2. CASE FinishStale(w) \/ FinishAborts(w)
  BY <1>1, <1>2, RowUntouched DEF FinishStale, FinishAborts, rows
<1>3. CASE FinishCompanyGone(w) \/ FinishCancelled(w)
  BY <1>0, <1>3, QueueCancelExecution DEF FinishCompanyGone, FinishCancelled
<1>4. CASE FinishSucceeded(w)
  <2>1. /\ Owns(w) /\ current' = current
        /\ job' = [job EXCEPT ![u] =
                     Settled(job[u], "SUCCEEDED", job[u].tries, job[u].due)]
        /\ SetTarget(w, Written(target[u], "SUCCEEDED", KeptOperation(w)))
        /\ CloseAttempt(w, "SUCCEEDED")
    BY <1>4 DEF FinishSucceeded, MayFinish, Released
  <2>2. Written(target[u], "SUCCEEDED", KeptOperation(w)).status = "SUCCEEDED"
    BY <1>1 DEF Written, TargetRow
  <2>3. /\ "SUCCEEDED" \in JobStatus
        /\ "SUCCEEDED" \in AttemptStatus \ {"RUNNING"}
    BY DEF JobStatus, AttemptStatus
  <2> QED
    BY <1>0, <2>1, <2>2, <2>3, OwnerFinishes
<1>5. CASE FinishPending(w)
  <2>1. /\ Owns(w) /\ current' = current
        /\ job' = [job EXCEPT ![u] =
                     Settled(job[u], "RETRY_SCHEDULED", job[u].tries, FALSE)]
        /\ SetTarget(w, Written(target[u], "PROCESSING", KeptOperation(w)))
        /\ CloseAttempt(w, "PROCESSING")
    BY <1>5 DEF FinishPending, MayFinish
  <2>2. Written(target[u], "PROCESSING", KeptOperation(w)).status
          = "PROCESSING"
    BY <1>1 DEF Written, TargetRow
  <2>3. /\ "RETRY_SCHEDULED" \in JobStatus
        /\ "PROCESSING" \in AttemptStatus \ {"RUNNING"}
    BY DEF JobStatus, AttemptStatus
  <2> QED
    BY <1>0, <2>1, <2>2, <2>3, OwnerFinishes
<1>6. CASE FinishFailed(w)
  <2> DEFINE out == FailureOutcome(w)
             row == Written(target[u], out.target, KeptOperation(w))
  <2>1. /\ Owns(w) /\ current' = current /\ ~target[u].marker
        /\ job' = [job EXCEPT ![u] =
                     Settled(job[u], out.job, FailureCount(w), out.due)]
        /\ SetTarget(w, row) /\ CloseAttempt(w, out.attempt)
    BY <1>6 DEF FinishFailed, Failing, MayFinish, CancelRequested
  <2>2. /\ out.job \in {"RETRY_SCHEDULED", "FAILED"}
        /\ out.attempt \in {"WAITING_FOR_REAUTH", "FAILED"}
    BY DEF FailureOutcome
  <2>3. ~row.marker
    BY <1>1, <2>1 DEF Written, TargetRow
  <2>4. /\ out.job \in JobStatus /\ out.job \notin {"RUNNING", "READY"}
        /\ out.attempt \in AttemptStatus \ {"RUNNING"}
    BY <2>2 DEF JobStatus, AttemptStatus
  <2> HIDE DEF out, row
  <2> QED
    BY <1>0, <2>1, <2>3, <2>4, OwnerFinishes
<1> QED
  BY <1>2, <1>3, <1>4, <1>5, <1>6 DEF Finish

LEMMA InitQueueInv == Init => QueueInv
  BY InitTypeOK DEF Init, QueueInv, QueueRowInv, NoJob

LEMMA NextQueueInv == QueueInv /\ [Next]_vars => QueueInv'
<1> SUFFICES ASSUME QueueInv, [Next]_vars PROVE QueueInv'
  OBVIOUS
<1>1. TypeOK'
  BY NextTypeOK DEF QueueInv
<1>2. ASSUME NEW t \in Target PROVE QueueRowInv(t)'
  <2>1. CASE UNCHANGED vars
    BY <2>1, RowUntouched DEF vars, rows, QueueInv
  <2>2. CASE \E w \in Worker : WorkerStep(w)
    BY <2>2, QueueCall, QueueFinish, QueueClaim DEF WorkerStep
  <2> QED
    BY <2>1, <2>2, QueueCommand, QueueLifecycle, QueueClock DEF Next
<1> QED
  BY <1>1, <1>2 DEF QueueInv

LEMMA QueueAlways == Spec => []QueueInv
  BY InitQueueInv, NextQueueInv, PTL DEF Spec

(* A target that has to be cancelled is not queued: no READY job, and none *)
(* that waits for a retry or a reconnect, whatever commands, fences and    *)
(* workers do at the same time.                                            *)
THEOREM MarkedTargetsLeaveTheQueue == Spec => []MarkedTargetIsNotQueued
<1>1. QueueInv => MarkedTargetIsNotQueued
  BY DEF QueueInv, QueueRowInv, MarkedTargetIsNotQueued
<1> QED
  BY <1>1, QueueAlways, PTL

-----------------------------------------------------------------------------
(* A worker that returns too late.                                         *)

(* A worker finds no open attempt of an execution that was taken from it.  *)
LEMMA LateWorkerClosesNothing ==
  ASSUME QueueInv, NEW w \in Worker, worker[w].pc # "idle", NEW s,
         \/ job[worker[w].t].id # worker[w].id
         \/ job[worker[w].t].exec # worker[w].exec
         \/ job[worker[w].t].status # "RUNNING",
         CloseAttempt(w, s)
  PROVE  attempt' = attempt
<1>1. /\ worker[w].t \in Target /\ worker[w].exec \in 1 .. MaxExec
      /\ QueueRowInv(worker[w].t)
  BY BusyWorker DEF QueueInv
<1> QED
  BY <1>1 DEF CloseAttempt, QueueRowInv

(* Only its own steps end an execution.                                    *)
LEMMA EndsByItself ==
  ASSUME QueueInv, [Next]_vars, NEW w \in Worker,
         worker[w].pc = "finish", worker'[w].pc = "idle"
  PROVE  Finish(w) \/ Crash(w)
<1>1. worker' # worker
  OBVIOUS
<1>2. PICK v \in Worker : WorkerStep(v)
  BY <1>1 DEF Next, vars, rows, scope, Command, Publish, Schedule, Retry,
     Cancel, Supersede, Lifecycle, ArchiveCompany, RestoreCompany, ArchiveCreator,
     RestoreCreator, Revoke, LoseAccount, Reconnect, Resume, CallbackDies,
     Clock, ExpireReauth, RunAtReached, LeaseLapses, OwnerStalls
<1>3. v = w
  <2>1. \E x : worker' = [worker EXCEPT ![v] = x]
    BY <1>1, <1>2 DEF WorkerStep, Call, ExecuteRefused, Poll, PreflightFails,
       PersistIntent, IntentNotPersisted, ProviderAccepts, ProviderRejects,
       PersistAccepted, AcceptedNotPersisted, EndCall, Finish, FinishStale,
       FinishCompanyGone, FinishCancelled, FinishSucceeded, FinishPending,
       FinishFailed, FinishAborts, CancelExecution, Leave, Crash, Heartbeat,
       LoseHeartbeat, Claim
  <2> QED
    BY <2>1 DEF QueueInv, TypeOK
<1>4. ~Call(w) /\ ~Heartbeat(w) /\ ~LoseHeartbeat(w)
  <2>1. worker[w].pc = "finish"
    OBVIOUS
  <2> QED
    BY <2>1 DEF Call, ExecuteRefused, Poll, PreflightFails, PersistIntent,
       IntentNotPersisted, ProviderAccepts, ProviderRejects, PersistAccepted,
       AcceptedNotPersisted, Admitted, Heartbeat, LoseHeartbeat, Calling
<1>5. \A t \in Target : ~Claim(w, t)
  BY DEF Claim, Executing
<1> QED
  BY <1>2, <1>3, <1>4, <1>5 DEF WorkerStep

LEMMA LateWorkerLeavesJob ==
  ASSUME QueueInv, [Next]_vars, NEW w \in Worker,
         worker[w].pc = "finish", worker'[w].pc = "idle",
         \/ job[worker[w].t].id # worker[w].id
         \/ job[worker[w].t].exec # worker[w].exec
         \/ job[worker[w].t].status # "RUNNING"
  PROVE  UNCHANGED <<job, attempt>>
<1>1. Finish(w) \/ Crash(w)
  BY EndsByItself
<1>2. ~Owns(w)
  BY DEF Owns
<1>3. CASE Crash(w) \/ FinishStale(w) \/ FinishAborts(w)
  BY <1>3 DEF Crash, FinishStale, FinishAborts, rows
<1>4. CASE FinishCompanyGone(w)
  <2>1. job' = job /\ CloseAttempt(w, "CANCELLED")
    BY <1>2, <1>4 DEF FinishCompanyGone, CancelExecution
  <2> QED
    BY <2>1, LateWorkerClosesNothing
<1> QED
  BY <1>1, <1>2, <1>3, <1>4 DEF Finish, FinishCancelled, FinishSucceeded,
     FinishPending, FinishFailed, Failing, MayFinish

(* An execution that was reclaimed, or whose job has ended, leaves the job *)
(* and its attempts alone when its worker returns.                         *)
THEOREM LateWorkersLeaveTheJob == Spec => StaleWorkerLeavesJob
<1>1. QueueInv /\ [Next]_vars =>
        [\A w \in Worker :
           worker[w].pc = "finish" /\ worker'[w].pc = "idle"
           /\ (\/ job[worker[w].t].id # worker[w].id
               \/ job[worker[w].t].exec # worker[w].exec
               \/ job[worker[w].t].status # "RUNNING")
           => UNCHANGED <<job, attempt>>]_vars
  BY LateWorkerLeavesJob
<1> QED
  BY <1>1, QueueAlways, PTL DEF Spec, StaleWorkerLeavesJob
-----------------------------------------------------------------------------
(* The provider side.  Three actions move the operation of a target:       *)
(* PersistIntent, ProviderAccepts and PersistAccepted.  All others are     *)
(* quiet: they leave operations, objects and successes alone (Quiet), and  *)
(* they leave every worker where it was or outside of the provider call    *)
(* (Follows).                                                              *)

QuietTarget(t) ==
  /\ target'[t].op = target[t].op
  /\ target[t].status = "SUCCEEDED" => target'[t] = target[t] /\ job'[t] = job[t]

Quiet ==
  /\ created' = created
  /\ \A t \in Target : QuietTarget(t)

NoNewSuccess ==
  \A t \in Target : target'[t].status = "SUCCEEDED" => target[t].status = "SUCCEEDED"

(* Worker v keeps its place in the execution ...                           *)
Stays(v) ==
  /\ worker'[v].pc = worker[v].pc
  /\ Executing(v) => /\ worker'[v].t = worker[v].t
                     /\ worker'[v].op = worker[v].op
                     /\ worker'[v].res = worker[v].res

(* ... or is outside of the provider call and knows nothing new.           *)
Outside(v) ==
  /\ worker'[v].pc \notin {"dispatch", "checkpoint"}
  /\ worker'[v].pc # "idle" =>
       LET t == worker'[v].t
       IN /\ t \in Target
          /\ worker'[v].op = "accepted" => target[t].op = "accepted"
          /\ worker'[v].res \in {"ok", "pending"} => target[t].op = "accepted"

Follows == \A v \in Worker : Stays(v) \/ Outside(v)

LEMMA InitOnceInv == Init => OnceInv
  <1> SUFFICES ASSUME Init PROVE OnceInv
    OBVIOUS
  <1>1. TypeOK
    BY InitTypeOK
  <1>2. ASSUME NEW t \in Target PROVE ObjectInv(t)
    BY DEF Init, ObjectInv
  <1>3. \A w \in Worker : ~Executing(w) /\ ~InProviderCall(w)
    BY DEF Init, Executing, InProviderCall, Idle
  <1>4. QED
    BY <1>1, <1>2, <1>3 DEF OnceInv

LEMMA QuietKeepsOnceInv ==
  ASSUME OnceInv, TypeOK', Quiet, Follows,
         \A t \in Target : target'[t].status = "SUCCEEDED" =>
            \/ target[t].status = "SUCCEEDED"
            \/ target[t].op = "accepted" /\ job'[t].status = "SUCCEEDED"
  PROVE OnceInv'
  <1>1. ASSUME NEW t \in Target PROVE ObjectInv(t)'
    <2>1. ObjectInv(t) /\ QuietTarget(t)
      BY DEF OnceInv, Quiet
    <2>2. QED
      BY <2>1 DEF ObjectInv, Quiet, QuietTarget
  <1>2. ASSUME NEW w \in Worker, worker'[w].pc # "idle" PROVE CallerInv(w)'
    <2>1. CASE Stays(w)
      <3>1. worker[w].pc # "idle" /\ worker[w].t \in Target /\ CallerInv(w)
        BY <1>2, <2>1, BusyWorker DEF Stays, OnceInv, Executing
      <3>2. QuietTarget(worker[w].t)
        BY <3>1 DEF Quiet
      <3>3. QED
        BY <2>1, <3>1, <3>2 DEF Stays, Executing, CallerInv, Quiet, QuietTarget
    <2>2. CASE Outside(w)
      <3>1. QuietTarget(worker'[w].t)
        BY <1>2, <2>2 DEF Outside, Quiet
      <3>2. QED
        BY <1>2, <2>2, <3>1 DEF Outside, CallerInv, QuietTarget
    <2>3. QED
      BY <2>1, <2>2 DEF Follows
  <1>3. ASSUME NEW v \in Worker, NEW w \in Worker, v # w,
               InProviderCall(v)', InProviderCall(w)'
        PROVE worker'[v].t # worker'[w].t
    <2>1. Stays(v) /\ Stays(w)
      BY <1>3 DEF Follows, Outside, InProviderCall
    <2>2. InProviderCall(v) /\ InProviderCall(w) /\ Executing(v) /\ Executing(w)
      BY <1>3, <2>1 DEF Stays, InProviderCall, Executing
    <2>3. QED
      BY <1>3, <2>1, <2>2 DEF Stays, OnceInv
  <1>4. QED
    BY <1>1, <1>2, <1>3 DEF OnceInv, Executing

-----------------------------------------------------------------------------
(* The quiet actions.                                                      *)

LEMMA RowFacts ==
  ASSUME NEW row \in TargetRow, NEW s, NEW b, NEW c
  PROVE /\ WithStatus(row, s).op = row.op /\ WithStatus(row, s).status = s
        /\ Marked(row, s).op = row.op /\ Marked(row, s).status = s
        /\ ClaimedTarget(row, b, c).op = row.op
        /\ ClaimedTarget(row, b, c).status # "SUCCEEDED"
  BY DEF WithStatus, Marked, ClaimedTarget, TargetRow

LEMMA WrittenFacts ==
  ASSUME NEW row \in TargetRow, NEW s, NEW o
  PROVE Written(row, s, o).op = o /\ Written(row, s, o).status = s
  BY DEF Written, TargetRow

LEMMA Unmoved ==
  ASSUME TypeOK, UNCHANGED worker
  PROVE Follows
  BY DEF Follows, Stays

(* Targets that are marked, and keep SUCCEEDED.                            *)
LEMMA MarkedQuietly ==
  ASSUME TypeOK, UNCHANGED <<worker, created>>,
         \A t \in Target : target[t].status = "SUCCEEDED" => job'[t] = job[t],
         \A t \in Target :
            \/ target'[t] = target[t]
            \/ /\ target[t].status # "SUCCEEDED"
               /\ target'[t] = Marked(target[t], "CANCELLED")
            \/ /\ target[t].status # "SUCCEEDED"
               /\ target'[t] = Marked(target[t], target[t].status)
  PROVE Quiet /\ NoNewSuccess /\ Follows
  <1>1. ASSUME NEW t \in Target, NEW s, target[t].status # "SUCCEEDED",
               s # "SUCCEEDED", target'[t] = Marked(target[t], s)
        PROVE QuietTarget(t) /\ target'[t].status # "SUCCEEDED"
    <2>1. target[t] \in TargetRow
      BY DEF TypeOK
    <2>2. QED
      BY <1>1, <2>1, RowFacts DEF QuietTarget
  <1>2. ASSUME NEW t \in Target, target'[t] = target[t] PROVE QuietTarget(t)
    BY <1>2 DEF QuietTarget
  <1>3. ASSUME NEW t \in Target
        PROVE QuietTarget(t)
              /\ (target'[t].status = "SUCCEEDED" => target[t].status = "SUCCEEDED")
    <2>1. CASE target'[t] = target[t]
      BY <1>2, <2>1
    <2>2. CASE /\ target[t].status # "SUCCEEDED"
               /\ target'[t] = Marked(target[t], "CANCELLED")
      BY <1>1, <2>2
    <2>3. CASE /\ target[t].status # "SUCCEEDED"
               /\ target'[t] = Marked(target[t], target[t].status)
      BY <1>1, <2>3
    <2>4. QED
      BY <2>1, <2>2, <2>3
  <1>4. QED
    BY <1>3, Unmoved DEF Quiet, NoNewSuccess

LEMMA QuietCommand ==
  ASSUME OnceInv, Command
  PROVE Quiet /\ NoNewSuccess /\ Follows
  <1>0. TypeOK /\ \A t \in Target : target[t] \in TargetRow /\ ObjectInv(t)
    BY DEF OnceInv, TypeOK
  <1>1. ASSUME NEW S \in SUBSET Target, NEW due, Enqueue(S, due),
               \A t \in S : target[t].status # "SUCCEEDED",
               UNCHANGED <<target, worker, created>>
        PROVE Quiet /\ NoNewSuccess /\ Follows
    <2>1. \A t \in Target : target[t].status = "SUCCEEDED" => job'[t] = job[t]
      BY <1>1 DEF Enqueue
    <2>2. QED
      BY <1>0, <1>1, <2>1, Unmoved DEF Quiet, QuietTarget, NoNewSuccess
  <1>2. CASE Publish
    <2>1. /\ Startable \in SUBSET Target
          /\ \A t \in Startable : target[t].status # "SUCCEEDED"
      BY DEF Startable
    <2>2. QED
      BY <1>1, <1>2, <2>1 DEF Publish
  <1>3. CASE Schedule
    <2>1. /\ Startable \in SUBSET Target
          /\ \A t \in Startable : target[t].status # "SUCCEEDED"
      BY DEF Startable
    <2>2. QED
      BY <1>1, <1>3, <2>1 DEF Schedule
  <1>4. ASSUME NEW S \in SUBSET Target, Retry(S)
        PROVE Quiet /\ NoNewSuccess /\ Follows
    <2>1. \A t \in S : target[t].status # "SUCCEEDED"
      BY <1>4 DEF Retry, Retryable
    <2>2. QED
      BY <1>1, <1>4, <2>1 DEF Retry
  <1>5. ASSUME NEW S, CancelQueued(S), NEW t \in Target,
               target[t].status = "SUCCEEDED"
        PROVE job'[t] = job[t]
    BY <1>0, <1>5 DEF CancelQueued, Queued, ObjectInv
  <1>6. CASE Cancel
    <2>1. ASSUME NEW t \in Target
          PROVE \/ target'[t] = target[t]
                \/ /\ target[t].status # "SUCCEEDED"
                   /\ target'[t] = Marked(target[t], "CANCELLED")
      BY <1>6 DEF Cancel
    <2>2. /\ \A t \in Target : target[t].status = "SUCCEEDED" => job'[t] = job[t]
          /\ UNCHANGED <<worker, created>>
      BY <1>5, <1>6 DEF Cancel
    <2>3. QED
      BY <1>0, <2>1, <2>2, MarkedQuietly
  <1>7. CASE Supersede
    <2>1. ASSUME NEW t \in Target
          PROVE \/ target'[t] = target[t]
                \/ /\ target[t].status # "SUCCEEDED"
                   /\ target'[t] = Marked(target[t], "CANCELLED")
                \/ /\ target[t].status # "SUCCEEDED"
                   /\ target'[t] = Marked(target[t], target[t].status)
      BY <1>7 DEF Supersede
    <2>2. /\ \A t \in Target : target[t].status = "SUCCEEDED" => job'[t] = job[t]
          /\ UNCHANGED <<worker, created>>
      BY <1>5, <1>7 DEF Supersede
    <2>3. QED
      BY <1>0, <2>1, <2>2, MarkedQuietly
  <1>8. QED
    BY <1>2, <1>3, <1>4, <1>6, <1>7 DEF Command

LEMMA QuietLifecycle ==
  ASSUME OnceInv, Lifecycle
  PROVE Quiet /\ NoNewSuccess /\ Follows
  <1>0. TypeOK /\ \A t \in Target : target[t] \in TargetRow /\ ObjectInv(t)
    BY DEF OnceInv, TypeOK
  <1>1. ASSUME NEW S, FenceQueue(S), UNCHANGED <<worker, created>>
        PROVE Quiet /\ NoNewSuccess /\ Follows
    <2>1. ASSUME NEW t \in Target, target[t].status = "SUCCEEDED"
          PROVE job'[t] = job[t]
      BY <1>0, <1>1, <2>1 DEF FenceQueue, CancelQueued, Queued, ObjectInv
    <2>2. ASSUME NEW t \in Target
          PROVE \/ target'[t] = target[t]
                \/ /\ target[t].status # "SUCCEEDED"
                   /\ target'[t] = Marked(target[t], "CANCELLED")
                \/ /\ target[t].status # "SUCCEEDED"
                   /\ target'[t] = Marked(target[t], target[t].status)
      BY <1>1 DEF FenceQueue
    <2>3. QED
      BY <1>0, <1>1, <2>1, <2>2, MarkedQuietly
  <1>2. ASSUME UNCHANGED <<rows, worker, created>>
        PROVE Quiet /\ NoNewSuccess /\ Follows
    BY <1>0, <1>2, Unmoved DEF rows, Quiet, QuietTarget, NoNewSuccess
  <1>3. ASSUME NEW t \in Target, Resume(t)
        PROVE Quiet /\ NoNewSuccess /\ Follows
    <2>1. UNCHANGED <<worker, created>>
      BY <1>3 DEF Resume
    <2>2. CASE UNCHANGED <<target, job>>
      BY <1>0, <2>1, <2>2, Unmoved DEF Quiet, QuietTarget, NoNewSuccess
    <2>3. CASE /\ target[t].status = "WAITING_FOR_REAUTH"
               /\ target' = [target EXCEPT ![t] = WithStatus(@, "READY")]
               /\ job' = [job EXCEPT ![t] = Settled(@, "READY", @.tries, TRUE)]
      <3>1. /\ target'[t] = WithStatus(target[t], "READY")
            /\ \A u \in Target \ {t} : target'[u] = target[u] /\ job'[u] = job[u]
        BY <1>0, <2>3 DEF TypeOK
      <3>2. target'[t].op = target[t].op /\ target'[t].status = "READY"
        BY <1>0, <3>1, RowFacts
      <3>3. QED
        BY <1>0, <2>1, <2>3, <3>1, <3>2, Unmoved
        DEF Quiet, QuietTarget, NoNewSuccess
    <2>4. QED
      BY <1>3, <2>2, <2>3 DEF Resume
  <1>4. QED
    BY <1>1, <1>2, <1>3
    DEF Lifecycle, ArchiveCompany, RestoreCompany, ArchiveCreator,
        RestoreCreator, Revoke, LoseAccount, Reconnect, CallbackDies

LEMMA QuietClock ==
  ASSUME OnceInv, Clock
  PROVE Quiet /\ NoNewSuccess /\ Follows
  <1>0. TypeOK /\ \A t \in Target : target[t] \in TargetRow /\ ObjectInv(t)
    BY DEF OnceInv, TypeOK
  <1>1. CASE ExpireReauth
    <2>1. ASSUME NEW t \in Target
          PROVE \/ target'[t] = target[t] /\ job'[t] = job[t]
                \/ /\ target[t].status # "SUCCEEDED"
                   /\ target'[t] = WithStatus(target[t], "FAILED")
      BY <1>1 DEF ExpireReauth, ReauthExpired
    <2>2. ASSUME NEW t \in Target
          PROVE QuietTarget(t)
                /\ (target'[t].status = "SUCCEEDED" => target[t].status = "SUCCEEDED")
      <3>1. /\ WithStatus(target[t], "FAILED").op = target[t].op
            /\ WithStatus(target[t], "FAILED").status = "FAILED"
        BY <1>0, RowFacts
      <3>2. QED
        BY <2>1, <3>1 DEF QuietTarget
    <2>3. QED
      BY <1>0, <1>1, <2>2, Unmoved DEF ExpireReauth, Quiet, NoNewSuccess
  <1>2. ASSUME NEW t \in Target, NEW row, job[t].status # "SUCCEEDED",
               job' = [job EXCEPT ![t] = row], UNCHANGED <<target, worker, created>>
        PROVE Quiet /\ NoNewSuccess /\ Follows
    <2>1. target[t].status # "SUCCEEDED"
      BY <1>0, <1>2 DEF ObjectInv
    <2>2. QED
      BY <1>0, <1>2, <2>1, Unmoved DEF TypeOK, Quiet, QuietTarget, NoNewSuccess
  <1>3. ASSUME NEW t \in Target, RunAtReached(t) \/ LeaseLapses(t) \/ OwnerStalls(t)
        PROVE Quiet /\ NoNewSuccess /\ Follows
    BY <1>2, <1>3 DEF RunAtReached, LeaseLapses, OwnerStalls, Queued
  <1>4. QED
    BY <1>1, <1>3 DEF Clock

-----------------------------------------------------------------------------
(* The steps of a worker.                                                  *)

LEMMA MovedWorker ==
  ASSUME TypeOK, NEW w \in Worker, NEW x, worker' = [worker EXCEPT ![w] = x],
         Stays(w) \/ Outside(w)
  PROVE Follows
  <1>1. ASSUME NEW v \in Worker, v # w PROVE Stays(v)
    BY <1>1 DEF TypeOK, Stays
  <1>2. QED
    BY <1>1 DEF Follows

LEMMA ExecutionFacts ==
  ASSUME TypeOK, NEW w \in Worker, Executing(w), NEW r, NEW p
  PROVE /\ Ended(worker[w], r).pc = "finish" /\ Ended(worker[w], r).res = r
        /\ Ended(worker[w], r).t = worker[w].t /\ Ended(worker[w], r).op = worker[w].op
        /\ At(worker[w], p).pc = p /\ At(worker[w], p).res = worker[w].res
        /\ At(worker[w], p).t = worker[w].t /\ At(worker[w], p).op = worker[w].op
        /\ ContextEnded(worker[w]).pc = worker[w].pc
        /\ ContextEnded(worker[w]).res = worker[w].res
        /\ ContextEnded(worker[w]).t = worker[w].t
        /\ ContextEnded(worker[w]).op = worker[w].op
  <1>1. worker[w] \in Busy
    BY BusyWorker DEF Executing
  <1>2. QED
    BY <1>1 DEF Ended, At, ContextEnded, Busy

(* An execution that ends outside of the provider call knows nothing new,  *)
(* if it does not claim to know an object that is not on record.           *)
LEMMA EndedOutside ==
  ASSUME OnceInv, NEW w \in Worker, Executing(w), NEW r,
         worker' = [worker EXCEPT ![w] = Ended(@, r)],
         r \in {"ok", "pending"} => target[worker[w].t].op = "accepted"
  PROVE Follows
  <1>1. TypeOK /\ worker[w].t \in Target /\ CallerInv(w)
    BY BusyWorker DEF OnceInv, Executing
  <1>2. worker'[w] = Ended(worker[w], r)
    BY <1>1 DEF TypeOK
  <1>3. Outside(w)
    BY <1>1, <1>2, ExecutionFacts DEF Outside, CallerInv
  <1>4. QED
    BY <1>1, <1>3, MovedWorker

LEMMA LeftOutside ==
  ASSUME OnceInv, NEW w \in Worker, Leave(w)
  PROVE Follows
  <1>1. TypeOK /\ worker'[w] = Idle
    BY DEF OnceInv, TypeOK, Leave
  <1>2. Outside(w)
    BY <1>1 DEF Outside, Idle
  <1>3. QED
    BY <1>1, <1>2, MovedWorker DEF Leave

LEMMA QuietRows ==
  ASSUME OnceInv, UNCHANGED <<target, created>>,
         \A t \in Target : target[t].status = "SUCCEEDED" => job'[t] = job[t]
  PROVE Quiet /\ NoNewSuccess
  BY DEF Quiet, QuietTarget, NoNewSuccess

(* One target row and one job row are written.                             *)
LEMMA QuietRow ==
  ASSUME OnceInv, NEW t \in Target, NEW row, NEW new, UNCHANGED created,
         target' = [target EXCEPT ![t] = row],
         job' = [job EXCEPT ![t] = new] \/ job' = job,
         row.op = target[t].op,
         target[t].status = "SUCCEEDED" => row = target[t] /\ job' = job
  PROVE Quiet /\ target'[t] = row
        /\ \A u \in Target \ {t} : target'[u] = target[u]
  <1>1. /\ target'[t] = row
        /\ \A u \in Target \ {t} : target'[u] = target[u] /\ job'[u] = job[u]
    BY DEF OnceInv, TypeOK
  <1>2. ASSUME NEW u \in Target PROVE QuietTarget(u)
    BY <1>1 DEF QuietTarget
  <1>3. QED
    BY <1>1, <1>2 DEF Quiet

LEMMA OwnedIsOpen ==
  ASSUME OnceInv, NEW w \in Worker, Executing(w), Owns(w)
  PROVE target[worker[w].t].status # "SUCCEEDED"
  <1>1. worker[w].t \in Target
    BY BusyWorker DEF OnceInv, Executing
  <1>2. QED
    BY <1>1 DEF OnceInv, ObjectInv, Owns

LEMMA QuietClaim ==
  ASSUME OnceInv, NEW w \in Worker, NEW t \in Target, Claim(w, t)
  PROVE Quiet /\ NoNewSuccess /\ Follows
  <1>0. TypeOK /\ target[t] \in TargetRow /\ ObjectInv(t)
    BY DEF OnceInv, TypeOK
  <1>1. target[t].status # "SUCCEEDED"
    BY <1>0 DEF Claim, Claimable, ObjectInv
  <1>2. PICK b, c :
          /\ target' = [target EXCEPT ![t] = ClaimedTarget(@, b, c)]
          /\ job' = [job EXCEPT ![t] = ClaimedJob(@, w)]
          /\ worker' = [worker EXCEPT ![w] = Execution(t, c)]
          /\ UNCHANGED created
    BY DEF Claim
  <1>3. /\ ClaimedTarget(target[t], b, c).op = target[t].op
        /\ ClaimedTarget(target[t], b, c).status # "SUCCEEDED"
    BY <1>0, RowFacts
  <1>4. /\ target' = [target EXCEPT ![t] = ClaimedTarget(target[t], b, c)]
        /\ job' = [job EXCEPT ![t] = ClaimedJob(job[t], w)]
    BY <1>2
  <1>5. Quiet /\ NoNewSuccess
    <2> DEFINE row == ClaimedTarget(target[t], b, c)
               new == ClaimedJob(job[t], w)
    <2>1. /\ target' = [target EXCEPT ![t] = row]
          /\ job' = [job EXCEPT ![t] = new]
          /\ row.op = target[t].op /\ row.status # "SUCCEEDED"
      BY <1>3, <1>4
    <2> HIDE DEF row, new
    <2>2. Quiet /\ target'[t] = row
          /\ \A u \in Target \ {t} : target'[u] = target[u]
      BY <1>1, <1>2, <2>1, QuietRow
    <2>3. QED
      BY <2>1, <2>2 DEF NoNewSuccess
  <1>6. worker'[w] = Execution(t, c)
    BY <1>0, <1>2 DEF TypeOK
  <1>7. Outside(w)
    BY <1>6 DEF Outside, Execution
  <1>8. QED
    BY <1>0, <1>2, <1>5, <1>7, MovedWorker

LEMMA QuietLease ==
  ASSUME OnceInv, NEW w \in Worker, Heartbeat(w) \/ LoseHeartbeat(w) \/ Crash(w)
  PROVE Quiet /\ NoNewSuccess /\ Follows
  <1>0. TypeOK
    BY DEF OnceInv
  <1>1. CASE Heartbeat(w)
    <2>1. target[worker[w].t].status # "SUCCEEDED"
      BY <1>1, OwnedIsOpen DEF Heartbeat, Calling, Executing
    <2>2. ASSUME NEW t \in Target, target[t].status = "SUCCEEDED"
          PROVE job'[t] = job[t]
      BY <1>0, <1>1, <2>1, <2>2 DEF Heartbeat, TypeOK
    <2>3. QED
      BY <1>0, <1>1, <2>2, QuietRows, Unmoved DEF Heartbeat
  <1>2. CASE LoseHeartbeat(w)
    <2>1. Executing(w) /\ worker'[w] = ContextEnded(worker[w])
      BY <1>0, <1>2 DEF LoseHeartbeat, Calling, Executing, TypeOK
    <2>2. Stays(w)
      BY <1>0, <2>1, ExecutionFacts DEF Stays
    <2>3. QED
      BY <1>0, <1>2, <2>2, QuietRows, MovedWorker DEF LoseHeartbeat, rows
  <1>3. CASE Crash(w)
    BY <1>3, QuietRows, LeftOutside DEF Crash, rows
  <1>4. QED
    BY <1>1, <1>2, <1>3

LEMMA QuietCall ==
  ASSUME OnceInv, NEW w \in Worker,
         \/ ExecuteRefused(w) \/ Poll(w) \/ PreflightFails(w)
         \/ IntentNotPersisted(w) \/ ProviderRejects(w) \/ AcceptedNotPersisted(w)
  PROVE Quiet /\ NoNewSuccess /\ Follows
  <1>0. TypeOK
    BY DEF OnceInv
  <1>1. ASSUME Executing(w), UNCHANGED <<rows, created>>,
               NEW r, worker' = [worker EXCEPT ![w] = Ended(@, r)],
               r \in {"ok", "pending"} => target[worker[w].t].op = "accepted"
        PROVE Quiet /\ NoNewSuccess /\ Follows
    BY <1>1, QuietRows, EndedOutside DEF rows
  <1>2. CASE ExecuteRefused(w)
    BY <1>1, <1>2 DEF ExecuteRefused, EndCall, Executing
  <1>3. CASE Poll(w)
    <2>1. PICK r \in PollResults(w) : EndCall(w, r)
      BY <1>3 DEF Poll
    <2>2. Executing(w) /\ KnownOperation(w)
      BY <1>3 DEF Poll, Admitted, Executing
    <2>3. worker[w].op = "accepted" => target[worker[w].t].op = "accepted"
      BY <2>2 DEF OnceInv, CallerInv
    <2>4. r \in {"ok", "pending"} => worker[w].op = "accepted"
      BY <1>0, <2>1, <2>2, BusyWorker
      DEF PollResults, KnownOperation, Executing, Operation
    <2>5. QED
      BY <1>1, <1>3, <2>1, <2>2, <2>3, <2>4 DEF Poll, EndCall
  <1>4. CASE PreflightFails(w)
    <2>1. PICK r \in {"perm", "retry", "auth"} : EndCall(w, r)
      BY <1>4 DEF PreflightFails
    <2>2. QED
      BY <1>1, <1>4, <2>1 DEF PreflightFails, Admitted, EndCall, Executing
  <1>5. CASE IntentNotPersisted(w)
    BY <1>1, <1>5 DEF IntentNotPersisted, Admitted, Executing
  <1>6. CASE ProviderRejects(w)
    <2>1. PICK r \in {"perm", "retry", "auth"} : EndCall(w, r)
      BY <1>6 DEF ProviderRejects
    <2>2. QED
      BY <1>1, <1>6, <2>1 DEF ProviderRejects, EndCall, Executing
  <1>7. CASE AcceptedNotPersisted(w)
    BY <1>1, <1>7 DEF AcceptedNotPersisted, Executing
  <1>8. QED
    BY <1>2, <1>3, <1>4, <1>5, <1>6, <1>7

(* The operation that a finalization keeps is the one on record.           *)
LEMMA KeptIsRecorded ==
  ASSUME OnceInv, NEW w \in Worker, Executing(w)
  PROVE /\ KeptOperation(w) = target[worker[w].t].op
        /\ ProviderResult(w) => target[worker[w].t].op = "accepted"
  BY DEF OnceInv, CallerInv, KeptOperation, ProviderResult

(* A finalization that writes the target of an owned execution.            *)
LEMMA QuietWrite ==
  ASSUME OnceInv, NEW w \in Worker, Executing(w), Owns(w), NEW s, NEW new,
         job' = [job EXCEPT ![worker[w].t] = new], UNCHANGED created, Leave(w),
         SetTarget(w, Written(target[worker[w].t], s, KeptOperation(w)))
  PROVE /\ Quiet /\ Follows
        /\ target'[worker[w].t].status = s
        /\ \A u \in Target \ {worker[w].t} : target'[u] = target[u]
  <1> DEFINE t == worker[w].t
             row == Written(target[t], s, KeptOperation(w))
  <1>1. t \in Target /\ target[t] \in TargetRow
    BY BusyWorker DEF OnceInv, Executing, TypeOK
  <1>2. row.op = target[t].op /\ row.status = s
    BY <1>1, KeptIsRecorded, WrittenFacts
  <1>3. target' = [target EXCEPT ![t] = row] /\ job' = [job EXCEPT ![t] = new]
    BY DEF SetTarget
  <1>4. target[t].status # "SUCCEEDED"
    BY OwnedIsOpen
  <1> HIDE DEF row
  <1>5. Quiet /\ target'[t] = row
        /\ \A u \in Target \ {t} : target'[u] = target[u]
    BY <1>1, <1>2, <1>3, <1>4, QuietRow
  <1>6. QED
    BY <1>2, <1>5, LeftOutside

LEMMA QuietCancelExecution ==
  ASSUME OnceInv, NEW w \in Worker, Executing(w), CancelExecution(w)
  PROVE Quiet /\ NoNewSuccess /\ Follows
  <1> DEFINE t == worker[w].t
             row == CancelledRow(target[t])
             new == Released(job[t], "CANCELLED")
  <1>1. t \in Target /\ target[t] \in TargetRow
    BY BusyWorker DEF OnceInv, Executing, TypeOK
  <1>2. /\ row.op = target[t].op
        /\ row.status = "SUCCEEDED" => target[t].status = "SUCCEEDED"
        /\ target[t].status = "SUCCEEDED" => row = target[t]
    BY <1>1, RowFacts DEF CancelledRow
  <1>3. /\ target' = [target EXCEPT ![t] = row]
        /\ job' = [job EXCEPT ![t] = new] \/ job' = job
        /\ ~Owns(w) => job' = job
        /\ UNCHANGED created /\ Leave(w)
    BY DEF CancelExecution, SetTarget
  <1>4. target[t].status = "SUCCEEDED" => job' = job
    BY <1>3, OwnedIsOpen
  <1> HIDE DEF row, new
  <1>5. Quiet /\ target'[t] = row
        /\ \A u \in Target \ {t} : target'[u] = target[u]
    BY <1>1, <1>2, <1>3, <1>4, QuietRow
  <1>6. QED
    BY <1>2, <1>3, <1>5, LeftOutside DEF NoNewSuccess

LEMMA QuietFinish ==
  ASSUME OnceInv, NEW w \in Worker, Finish(w), ~FinishSucceeded(w)
  PROVE Quiet /\ NoNewSuccess /\ Follows
  <1>1. ASSUME UNCHANGED rows, UNCHANGED created, Leave(w)
        PROVE Quiet /\ NoNewSuccess /\ Follows
    BY <1>1, QuietRows, LeftOutside DEF rows
  <1>2. CASE FinishStale(w) \/ FinishAborts(w)
    BY <1>1, <1>2 DEF FinishStale, FinishAborts
  <1>3. CASE FinishCompanyGone(w) \/ FinishCancelled(w)
    BY <1>3, QuietCancelExecution
    DEF FinishCompanyGone, FinishCancelled, MayFinish, Executing
  <1>4. CASE FinishPending(w)
    <2>1. Executing(w) /\ Owns(w)
      BY <1>4 DEF FinishPending, MayFinish, Executing
    <2>2. /\ Quiet /\ Follows /\ target'[worker[w].t].status = "PROCESSING"
          /\ \A u \in Target \ {worker[w].t} : target'[u] = target[u]
      BY <1>4, <2>1, QuietWrite DEF FinishPending
    <2>3. QED
      BY <2>2 DEF NoNewSuccess
  <1>5. CASE FinishFailed(w)
    <2>1. Executing(w) /\ Owns(w)
      BY <1>5 DEF FinishFailed, Failing, MayFinish, Executing
    <2>2. /\ Quiet /\ Follows
          /\ target'[worker[w].t].status = FailureOutcome(w).target
          /\ \A u \in Target \ {worker[w].t} : target'[u] = target[u]
      BY <1>5, <2>1, QuietWrite DEF FinishFailed
    <2>3. FailureOutcome(w).target # "SUCCEEDED"
      BY DEF FailureOutcome
    <2>4. QED
      BY <2>2, <2>3 DEF NoNewSuccess
  <1>6. QED
    BY <1>2, <1>3, <1>4, <1>5 DEF Finish

-----------------------------------------------------------------------------
(* The actions that move the operation or show the target as published.    *)

(* Worker w moves its target t within the provider call, where it is alone. *)
LEMMA CallKeepsOnceInv ==
  ASSUME OnceInv, TypeOK', NEW w \in Worker, NEW t \in Target, NEW x,
         Executing(w), worker[w].t = t, worker' = [worker EXCEPT ![w] = x],
         x.t = t, job' = job, ObjectInv(t)', CallerInv(w)',
         \A u \in Target \ {t} : target'[u] = target[u] /\ created'[u] = created[u],
         \A v \in Worker \ {w} : InProviderCall(v) => worker[v].t # t,
         target[t].op = "accepted" => target'[t].op = "accepted"
  PROVE OnceInv'
  <1>1. worker'[w] = x /\ \A v \in Worker \ {w} : worker'[v] = worker[v]
    BY DEF OnceInv, TypeOK
  <1>2. ASSUME NEW u \in Target PROVE ObjectInv(u)'
    <2>1. CASE u = t
      BY <2>1
    <2>2. CASE u # t
      BY <2>2 DEF OnceInv, ObjectInv
    <2>3. QED
      BY <2>1, <2>2
  <1>3. ASSUME NEW v \in Worker, Executing(v)' PROVE CallerInv(v)'
    <2>1. CASE v = w
      BY <2>1
    <2>2. CASE v # w
      <3>1. worker'[v] = worker[v] /\ worker[v].pc # "idle"
        BY <1>1, <1>3, <2>2 DEF Executing
      <3>2. CallerInv(v) /\ worker[v].t \in Target
        BY <3>1, BusyWorker DEF OnceInv, Executing
      <3>3. CASE worker[v].t = t
        BY <2>2, <3>1, <3>2, <3>3 DEF CallerInv, InProviderCall
      <3>4. CASE worker[v].t # t
        BY <3>1, <3>2, <3>4 DEF CallerInv
      <3>5. QED
        BY <3>3, <3>4
    <2>3. QED
      BY <2>1, <2>2
  <1>4. ASSUME NEW u \in Worker, NEW v \in Worker, u # v,
               InProviderCall(u)', InProviderCall(v)'
        PROVE worker'[u].t # worker'[v].t
    <2>1. CASE u = w
      BY <1>1, <1>4, <2>1 DEF InProviderCall
    <2>2. CASE v = w
      BY <1>1, <1>4, <2>2 DEF InProviderCall
    <2>3. CASE u # w /\ v # w
      BY <1>1, <1>4, <2>3 DEF InProviderCall, OnceInv
    <2>4. QED
      BY <2>1, <2>2, <2>3
  <1>5. QED
    BY <1>2, <1>3, <1>4 DEF OnceInv

LEMMA IntentStep ==
  ASSUME OnceInv, TypeOK', NEW w \in Worker, PersistIntent(w)
  PROVE /\ OnceInv'
        /\ \E t \in Target :
             /\ target[t].op = "none"
             /\ target'[t].op = "intent" /\ target'[t].status = target[t].status
             /\ \A u \in Target \ {t} : target'[u] = target[u]
             /\ UNCHANGED <<job, created>>
  <1>0. PICK t \in Target : t = worker[w].t
    BY BusyWorker DEF OnceInv, PersistIntent, Admitted
  <1> DEFINE x == At(worker[w], "dispatch")
             row == Written(target[t], target[t].status, "intent")
  <1>1. Executing(w) /\ worker[w].op = "none" /\ target[t].op = "none"
    BY <1>0 DEF PersistIntent, Admitted, KnownOperation, Persists, Executing
  <1>2. /\ TypeOK /\ t \in Target /\ target[t] \in TargetRow
        /\ ObjectInv(t) /\ CallerInv(w)
    BY <1>0, <1>1, BusyWorker DEF OnceInv, TypeOK, Executing
  <1>3. /\ x.pc = "dispatch" /\ x.t = t /\ x.op = worker[w].op
        /\ x.res = worker[w].res
    BY <1>0, <1>1, <1>2, ExecutionFacts
  <1>4. row.op = "intent" /\ row.status = target[t].status
    BY <1>0, <1>2, WrittenFacts
  <1>5. /\ worker' = [worker EXCEPT ![w] = x]
        /\ target' = [target EXCEPT ![t] = row]
        /\ UNCHANGED <<job, created>>
    BY <1>0 DEF PersistIntent
  <1> HIDE DEF x, row
  <1>6. /\ worker'[w] = x /\ target'[t] = row
        /\ \A u \in Target \ {t} : target'[u] = target[u]
    BY <1>0, <1>2, <1>5 DEF TypeOK
  <1>7. ObjectInv(t)'
    BY <1>0, <1>1, <1>2, <1>4, <1>5, <1>6 DEF ObjectInv
  <1>8. CallerInv(w)'
    BY <1>0, <1>1, <1>2, <1>3, <1>4, <1>5, <1>6 DEF CallerInv, ObjectInv
  <1>9. ASSUME NEW v \in Worker \ {w}, InProviderCall(v) PROVE worker[v].t # t
    BY <1>0, <1>1, <1>9 DEF OnceInv, CallerInv, InProviderCall, Executing
  <1>10. OnceInv'
    BY <1>0, <1>1, <1>2, <1>3, <1>5, <1>6, <1>7, <1>8, <1>9, CallKeepsOnceInv
  <1>11. QED
    BY <1>0, <1>1, <1>2, <1>4, <1>5, <1>6, <1>10

LEMMA CreateStep ==
  ASSUME OnceInv, TypeOK', NEW w \in Worker, ProviderAccepts(w)
  PROVE /\ OnceInv'
        /\ \E t \in Target :
             /\ target[t].op = "intent" /\ created[t] = 0
             /\ created' = [created EXCEPT ![t] = 1]
             /\ UNCHANGED <<target, job>>
  <1>0. PICK t \in Target : t = worker[w].t
    BY BusyWorker DEF OnceInv, ProviderAccepts
  <1>1. Executing(w) /\ InProviderCall(w) /\ worker[w].pc = "dispatch"
    BY <1>0 DEF ProviderAccepts, Executing, InProviderCall
  <1>2. /\ TypeOK /\ t \in Target /\ ObjectInv(t) /\ CallerInv(w)
        /\ target[t].op = "intent" /\ created[t] = 0
    BY <1>0, <1>1, BusyWorker DEF OnceInv, Executing, CallerInv
  <1>3. PICK x : /\ worker' = [worker EXCEPT ![w] = x]
                 /\ x \in {At(worker[w], "checkpoint"), Ended(worker[w], "perm")}
    BY <1>0 DEF ProviderAccepts
  <1>4. /\ x.t = t /\ x.op = worker[w].op
        /\ \/ x.pc = "checkpoint" /\ x.res = worker[w].res
           \/ x.pc = "finish" /\ x.res = "perm"
    BY <1>0, <1>1, <1>2, <1>3, ExecutionFacts
  <1>5. /\ created' = [created EXCEPT ![t] = 1]
        /\ UNCHANGED <<target, job>>
    BY <1>0, <1>2 DEF ProviderAccepts, rows
  <1>6. /\ worker'[w] = x /\ created'[t] = 1
        /\ \A u \in Target \ {t} : created'[u] = created[u]
    BY <1>0, <1>2, <1>3, <1>5 DEF TypeOK
  <1>7. ObjectInv(t)'
    BY <1>0, <1>2, <1>5, <1>6 DEF ObjectInv
  <1>8. CallerInv(w)'
    BY <1>0, <1>2, <1>4, <1>5, <1>6 DEF CallerInv
  <1>9. ASSUME NEW v \in Worker \ {w}, InProviderCall(v) PROVE worker[v].t # t
    BY <1>0, <1>1, <1>9 DEF OnceInv
  <1>10. OnceInv'
    BY <1>0, <1>1, <1>2, <1>3, <1>4, <1>5, <1>6, <1>7, <1>8, <1>9, CallKeepsOnceInv
  <1>11. QED
    BY <1>0, <1>2, <1>5, <1>10

LEMMA CheckpointStep ==
  ASSUME OnceInv, TypeOK', NEW w \in Worker, PersistAccepted(w)
  PROVE /\ OnceInv'
        /\ \E t \in Target :
             /\ target[t].op = "intent" /\ created[t] = 1
             /\ target'[t].op = "accepted" /\ target'[t].status = target[t].status
             /\ \A u \in Target \ {t} : target'[u] = target[u]
             /\ UNCHANGED <<job, created>>
  <1>0. PICK t \in Target : t = worker[w].t
    BY BusyWorker DEF OnceInv, PersistAccepted
  <1> DEFINE x == Ended(worker[w], "pending")
             row == Written(target[t], target[t].status, "accepted")
  <1>1. Executing(w) /\ InProviderCall(w) /\ worker[w].pc = "checkpoint"
    BY <1>0 DEF PersistAccepted, Executing, InProviderCall
  <1>2. /\ TypeOK /\ t \in Target /\ target[t] \in TargetRow
        /\ ObjectInv(t) /\ CallerInv(w)
        /\ target[t].op = "intent" /\ created[t] = 1
    BY <1>0, <1>1, BusyWorker DEF OnceInv, TypeOK, Executing, CallerInv
  <1>3. x.pc = "finish" /\ x.t = t
    BY <1>0, <1>1, <1>2, ExecutionFacts
  <1>4. row.op = "accepted" /\ row.status = target[t].status
    BY <1>0, <1>2, WrittenFacts
  <1>5. /\ worker' = [worker EXCEPT ![w] = x]
        /\ target' = [target EXCEPT ![t] = row]
        /\ UNCHANGED <<job, created>>
    BY <1>0 DEF PersistAccepted
  <1> HIDE DEF x, row
  <1>6. /\ worker'[w] = x /\ target'[t] = row
        /\ \A u \in Target \ {t} : target'[u] = target[u]
    BY <1>0, <1>2, <1>5 DEF TypeOK
  <1>7. ObjectInv(t)'
    BY <1>0, <1>2, <1>4, <1>5, <1>6 DEF ObjectInv
  <1>8. CallerInv(w)'
    BY <1>0, <1>3, <1>4, <1>6 DEF CallerInv
  <1>9. ASSUME NEW v \in Worker \ {w}, InProviderCall(v) PROVE worker[v].t # t
    BY <1>0, <1>1, <1>9 DEF OnceInv
  <1>10. OnceInv'
    BY <1>0, <1>1, <1>2, <1>3, <1>5, <1>6, <1>7, <1>8, <1>9, CallKeepsOnceInv
  <1>11. QED
    BY <1>0, <1>2, <1>4, <1>5, <1>6, <1>10

LEMMA RevealStep ==
  ASSUME OnceInv, TypeOK', NEW w \in Worker, FinishSucceeded(w)
  PROVE /\ OnceInv' /\ Quiet
        /\ \E t \in Target :
             /\ target[t].op = "accepted" /\ target[t].status # "SUCCEEDED"
             /\ target'[t].status = "SUCCEEDED"
             /\ \A u \in Target \ {t} : target'[u] = target[u]
  <1> DEFINE t == worker[w].t
             new == Released(job[t], "SUCCEEDED")
  <1>1. Executing(w) /\ Owns(w) /\ ProviderResult(w)
    BY DEF FinishSucceeded, MayFinish, Executing, ProviderResult
  <1>2. TypeOK /\ t \in Target /\ job[t] \in JobRow
    BY <1>1, BusyWorker DEF OnceInv, TypeOK, Executing
  <1>3. job' = [job EXCEPT ![t] = new] /\ new.status = "SUCCEEDED"
    BY <1>2 DEF FinishSucceeded, Released, Settled, JobRow
  <1> HIDE DEF new
  <1>4. /\ Quiet /\ Follows /\ target'[t].status = "SUCCEEDED"
        /\ \A u \in Target \ {t} : target'[u] = target[u]
    BY <1>1, <1>3, QuietWrite DEF FinishSucceeded
  <1>5. target[t].op = "accepted" /\ target[t].status # "SUCCEEDED"
    BY <1>1, KeptIsRecorded, OwnedIsOpen
  <1>6. job'[t].status = "SUCCEEDED"
    BY <1>2, <1>3 DEF TypeOK
  <1>7. OnceInv'
    BY <1>4, <1>5, <1>6, QuietKeepsOnceInv
  <1>8. QED
    BY <1>2, <1>4, <1>5, <1>7

-----------------------------------------------------------------------------
(* Putting the steps together.                                             *)

LEMMA Steps ==
  ASSUME OnceInv, [Next]_vars
  PROVE \/ Quiet /\ NoNewSuccess /\ Follows
        \/ \E w \in Worker : \/ PersistIntent(w) \/ ProviderAccepts(w)
                            \/ PersistAccepted(w) \/ FinishSucceeded(w)
  <1>1. CASE UNCHANGED vars
    BY <1>1, QuietRows, Unmoved DEF vars, OnceInv
  <1>2. ASSUME NEW w \in Worker, WorkerStep(w)
        PROVE \/ Quiet /\ NoNewSuccess /\ Follows
              \/ PersistIntent(w) \/ ProviderAccepts(w)
              \/ PersistAccepted(w) \/ FinishSucceeded(w)
    BY <1>2, QuietCall, QuietFinish, QuietLease, QuietClaim DEF WorkerStep, Call
  <1>3. QED
    BY <1>1, <1>2, QuietCommand, QuietLifecycle, QuietClock DEF Next

LEMMA NextOnceInv == OnceInv /\ [Next]_vars => OnceInv'
  <1> SUFFICES ASSUME OnceInv, [Next]_vars PROVE OnceInv'
    OBVIOUS
  <1>1. TypeOK'
    BY NextTypeOK DEF OnceInv
  <1>2. CASE Quiet /\ NoNewSuccess /\ Follows
    BY <1>1, <1>2, QuietKeepsOnceInv DEF NoNewSuccess
  <1>3. QED
    BY <1>1, <1>2, Steps, IntentStep, CreateStep, CheckpointStep, RevealStep

LEMMA SuccessStays ==
  ASSUME OnceInv, [Next]_vars, NEW t \in Target, target[t].status = "SUCCEEDED"
  PROVE target'[t] = target[t] /\ job'[t] = job[t]
  <1>1. TypeOK'
    BY NextTypeOK DEF OnceInv
  <1>2. CASE Quiet
    BY <1>2 DEF Quiet, QuietTarget
  <1>3. target[t].op = "accepted"
    BY DEF OnceInv, ObjectInv
  <1>4. CASE \E w \in Worker : PersistIntent(w)
    BY <1>1, <1>3, <1>4, IntentStep
  <1>5. CASE \E w \in Worker : ProviderAccepts(w)
    BY <1>1, <1>5, CreateStep
  <1>6. CASE \E w \in Worker : PersistAccepted(w)
    BY <1>1, <1>3, <1>6, CheckpointStep
  <1>7. QED
    BY <1>1, <1>2, <1>4, <1>5, <1>6, Steps, RevealStep

LEMMA OnceAlways == Spec => []OnceInv
  BY InitOnceInv, NextOnceInv, PTL DEF Spec

(* However often a job is retried, reclaimed or reported late, the         *)
(* provider of content_publish_tiktok.go makes at most one object for a    *)
(* target.                                                                 *)
THEOREM MakesAtMostOneObject == Spec => []AtMostOneObject
  <1>1. OnceInv => AtMostOneObject
    BY DEF OnceInv, ObjectInv, AtMostOneObject
  <1>2. QED
    BY <1>1, OnceAlways, PTL

(* An object at the provider always has a durable operation on its target. *)
THEOREM ObjectsAreTraceable == Spec => []ObjectIsTraceable
  <1>1. OnceInv => ObjectIsTraceable
    BY DEF OnceInv, ObjectInv, ObjectIsTraceable
  <1>2. QED
    BY <1>1, OnceAlways, PTL

(* SUCCEEDED is only ever shown for an object that exists, and its job has *)
(* ended.                                                                  *)
THEOREM SuccessesAreReal == Spec => []SuccessIsReal
  <1>1. OnceInv => SuccessIsReal
    BY DEF OnceInv, ObjectInv, SuccessIsReal
  <1>2. QED
    BY <1>1, OnceAlways, PTL

(* No command, lifecycle change or late worker takes SUCCEEDED back.       *)
THEOREM SuccessesAreFinal == Spec => SuccessIsFinal
  <1>1. OnceInv /\ [Next]_vars =>
          [\A t \in Target : target[t].status = "SUCCEEDED" =>
              target'[t] = target[t] /\ job'[t] = job[t]]_vars
    BY SuccessStays
  <1>2. QED
    BY <1>1, OnceAlways, PTL DEF Spec, SuccessIsFinal

-----------------------------------------------------------------------------
(* The refinement of PublishOnce.                                          *)

LEMMA InitOnce == Init => Once!Init
  <1> SUFFICES ASSUME Init PROVE Once!Init
    OBVIOUS
  <1>1. \A t \in Target :
          target[t].op = "none" /\ (target[t].status = "SUCCEEDED") = FALSE
    BY DEF Init
  <1>2. [t \in Target |-> target[t].op] = [t \in Target |-> "none"]
    BY <1>1
  <1>3. [t \in Target |-> target[t].status = "SUCCEEDED"] = [t \in Target |-> FALSE]
    BY <1>1, Zenon
  <1>4. created = [t \in Target |-> 0]
    BY DEF Init
  <1>5. QED
    BY <1>2, <1>3, <1>4 DEF Once!Init

LEMMA QuietStutters ==
  ASSUME OnceInv, Quiet, NoNewSuccess
  PROVE UNCHANGED Once!vars
  <1>1. \A t \in Target :
          /\ target'[t].op = target[t].op
          /\ (target'[t].status = "SUCCEEDED") = (target[t].status = "SUCCEEDED")
    BY DEF Quiet, QuietTarget, NoNewSuccess
  <1>2. QED
    BY <1>1 DEF Once!vars, Quiet

LEMMA StepOnce == OnceInv /\ [Next]_vars => [Once!Next]_(Once!vars)
  <1> SUFFICES ASSUME OnceInv, [Next]_vars PROVE [Once!Next]_(Once!vars)
    OBVIOUS
  <1>1. TypeOK'
    BY NextTypeOK DEF OnceInv
  <1>2. ASSUME NEW w \in Worker, PersistIntent(w) PROVE \E t \in Target : Once!Intend(t)
    <2>1. PICK t \in Target :
            /\ target[t].op = "none"
            /\ target'[t].op = "intent" /\ target'[t].status = target[t].status
            /\ \A u \in Target \ {t} : target'[u] = target[u]
            /\ UNCHANGED <<job, created>>
      BY <1>1, <1>2, IntentStep
    <2>2. /\ \A u \in Target : target'[u].op =
                IF u = t THEN "intent" ELSE target[u].op
          /\ \A u \in Target : target'[u].status = target[u].status
      BY <2>1
    <2>3. [u \in Target |-> target'[u].op] =
            [[u \in Target |-> target[u].op] EXCEPT ![t] = "intent"]
      BY <2>2
    <2>4. Once!Intend(t)
      BY <2>1, <2>2, <2>3 DEF Once!Intend
    <2>5. QED
      BY <2>4
  <1>3. ASSUME NEW w \in Worker, ProviderAccepts(w) PROVE \E t \in Target : Once!Make(t)
    BY <1>1, <1>3, CreateStep DEF Once!Make
  <1>4. ASSUME NEW w \in Worker, PersistAccepted(w) PROVE \E t \in Target : Once!Learn(t)
    <2>1. PICK t \in Target :
            /\ target[t].op = "intent" /\ created[t] = 1
            /\ target'[t].op = "accepted" /\ target'[t].status = target[t].status
            /\ \A u \in Target \ {t} : target'[u] = target[u]
            /\ UNCHANGED <<job, created>>
      BY <1>1, <1>4, CheckpointStep
    <2>2. /\ \A u \in Target : target'[u].op =
                IF u = t THEN "accepted" ELSE target[u].op
          /\ \A u \in Target : target'[u].status = target[u].status
      BY <2>1
    <2>3. [u \in Target |-> target'[u].op] =
            [[u \in Target |-> target[u].op] EXCEPT ![t] = "accepted"]
      BY <2>2
    <2>4. Once!Learn(t)
      BY <2>1, <2>2, <2>3 DEF Once!Learn
    <2>5. QED
      BY <2>4
  <1>5. ASSUME NEW w \in Worker, FinishSucceeded(w) PROVE \E t \in Target : Once!Reveal(t)
    <2>1. Quiet
      BY <1>1, <1>5, RevealStep
    <2>2. PICK t \in Target :
            /\ target[t].op = "accepted" /\ target[t].status # "SUCCEEDED"
            /\ target'[t].status = "SUCCEEDED"
            /\ \A u \in Target \ {t} : target'[u] = target[u]
      BY <1>1, <1>5, RevealStep
    <2>3. created[t] = 1
      BY <2>2 DEF OnceInv, ObjectInv
    <2>4. \A u \in Target : target'[u].op = target[u].op
      BY <2>1 DEF Quiet, QuietTarget
    <2>5. Once!Reveal(t)
      BY <2>1, <2>2, <2>3, <2>4 DEF Once!Reveal, Quiet
    <2>6. QED
      BY <2>5
  <1>6. QED
    BY <1>2, <1>3, <1>4, <1>5, Steps, QuietStutters DEF Once!Next

(* The queue implements the abstract publication: intent, one object, its  *)
(* id, and only then the success.                                          *)
THEOREM QueuePublishesOnce == Spec => ImplementsPublishOnce
  BY InitOnce, StepOnce, OnceAlways, PTL DEF Spec, ImplementsPublishOnce, Once!Spec
=============================================================================
