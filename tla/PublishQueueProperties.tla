----------------------- MODULE PublishQueueProperties -----------------------
(***************************************************************************)
(* What the publishing queue promises: safety of the provider side, of the *)
(* rows the worker writes, and progress.                                   *)
(***************************************************************************)
EXTENDS PublishQueue

(* However workers crash, stall, are reclaimed or answer late, the         *)
(* provider is asked to create at most one object per target, although the *)
(* init call of content_publish_tiktok.go is not idempotent.               *)
AtMostOneObject == \A t \in Target : created[t] <= 1

(* No object is orphaned: whenever the provider holds one, the target row  *)
(* has a durable operation, so that reclaim polls or stops, never creates. *)
ObjectIsTraceable ==
  \A t \in Target : created[t] > 0 => target[t].op # "none"

(* A target reported SUCCEEDED stands for an object at the provider, and   *)
(* no job of it can run any more.                                          *)
SuccessIsReal ==
  \A t \in Target : target[t].status = "SUCCEEDED" =>
     created[t] = 1 /\ target[t].op = "accepted" /\ job[t].status = "SUCCEEDED"

(* The cancellation marker reaches the queue: a marked target has no READY *)
(* job and waits neither for a retry nor for a reconnect; a RETRY_SCHEDULED *)
(* job is left only by a pending answer that came after the marker.        *)
MarkedTargetIsNotQueued ==
  \A t \in Target : target[t].marker =>
     /\ job[t].status # "READY"
     /\ job[t].status = "RETRY_SCHEDULED" =>
           target[t].status \in {"PROCESSING", "CANCELLED"}

-----------------------------------------------------------------------------
(* An execution that was reclaimed, or whose job has ended, changes        *)
(* neither the job nor its attempts when its worker finally returns: the   *)
(* comment of startContentPublishHeartbeat.                                *)
StaleWorkerLeavesJob ==
  [][\A w \in Worker :
       worker[w].pc = "finish" /\ worker'[w].pc = "idle"
       /\ (\/ job[worker[w].t].id # worker[w].id
           \/ job[worker[w].t].exec # worker[w].exec
           \/ job[worker[w].t].status # "RUNNING")
       => UNCHANGED <<job, attempt>>]_vars

(* "Existing successes stay successful": no command, lifecycle change or   *)
(* late worker takes SUCCEEDED back.                                       *)
SuccessIsFinal ==
  [][\A t \in Target : target[t].status = "SUCCEEDED" =>
       target'[t] = target[t] /\ job'[t] = job[t]]_vars

-----------------------------------------------------------------------------
(* The queue implements PublishOnce: whatever jobs and workers do, a       *)
(* target goes through intent, one creation, the durable operation id and  *)
(* SUCCEEDED, in this order and each at most once.                         *)
Once == INSTANCE PublishOnce WITH
          op <- [t \in Target |-> target[t].op],
          made <- created,
          public <- [t \in Target |-> target[t].status = "SUCCEEDED"]

ImplementsPublishOnce == Once!Spec

(* Why the queue keeps these promises, as an inductive invariant: the      *)
(* operation of a target tells what the provider may hold, and at most one *)
(* worker stands between the durable intent and the durable operation id.  *)
ObjectInv(t) ==
  /\ created[t] \in 0 .. 1
  /\ target[t].op = "none" => created[t] = 0
  /\ target[t].op = "accepted" => created[t] = 1
  /\ target[t].status = "SUCCEEDED" =>
       target[t].op = "accepted" /\ job[t].status = "SUCCEEDED"

InProviderCall(w) == worker[w].pc \in {"dispatch", "checkpoint"}

CallerInv(w) ==
  LET t == worker[w].t
  IN /\ worker[w].pc = "dispatch" => target[t].op = "intent" /\ created[t] = 0
     /\ worker[w].pc = "checkpoint" => target[t].op = "intent" /\ created[t] = 1
     /\ worker[w].op = "accepted" => target[t].op = "accepted"
     /\ worker[w].res \in {"ok", "pending"} => target[t].op = "accepted"

OnceInv ==
  /\ TypeOK
  /\ \A t \in Target : ObjectInv(t)
  /\ \A w \in Worker : Executing(w) => CallerInv(w)
  /\ \A v, w \in Worker :
       v # w /\ InProviderCall(v) /\ InProviderCall(w) => worker[v].t # worker[w].t

-----------------------------------------------------------------------------
(* Every execution comes to an end: its worker finalizes it, or its lease  *)
(* lapses and a reclaim closes the attempt.                                *)
ExecutionCloses ==
  \A t \in Target : \A n \in 1 .. MaxExec :
     (job[t].status = "RUNNING" /\ job[t].exec = n) ~>
        ~(job[t].status = "RUNNING" /\ job[t].exec = n)

(* A queued job whose target waits for the worker is run or cancelled.     *)
QueuedTargetRuns ==
  \A t \in Target :
     (Queued(t) /\ target[t].status \in {"READY", "RETRY_SCHEDULED"}) ~> ~Queued(t)

(* A target that waits for a reconnect is resumed or fails at the deadline. *)
ReauthSettles ==
  \A t \in Target : target[t].status = "WAITING_FOR_REAUTH" ~>
                    target[t].status # "WAITING_FOR_REAUTH"
=============================================================================
