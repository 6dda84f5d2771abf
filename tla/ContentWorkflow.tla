-------------------------- MODULE ContentWorkflow --------------------------
(***************************************************************************)
(* The commands on a content item (content.go, content_idempotency.go,     *)
(* content_notifications.go): drafting, editing, approval, publishing,     *)
(* and the keys that make a repeated command harmless.                     *)
(*                                                                         *)
(* A request is handled in three steps: it is admitted, which reads the    *)
(* item outside any transaction; it is decided, in one transaction that    *)
(* claims the key, locks the item and its current revision, and commits    *)
(* the answer with the change; the answer is sent, and may not arrive.     *)
(* Requests may be sent any number of times, to handlers that interleave.  *)
(*                                                                         *)
(* A revision has one publish target here; the queue with several is       *)
(* PublishQueue, and is reduced to taking a job and ending it.             *)
(***************************************************************************)
EXTENDS Naturals, FiniteSets

CONSTANTS
  Manager,  \* managers and owners, all with every content capability
  Key,      \* values of the Idempotency-Key header
  Handler,  \* requests handled at a time
  MaxRev,   \* bound: revisions of the item
  Scopes    \* bound: the commands and events of one behaviour

Author == "author"   \* the creator, whom the approval policy restricts
Nobody == "nobody"
Person == Manager \cup {Author}

Starting == {"publish", "schedule", "retry"}
Keyed == {"create", "copy", "submit", "approve", "reject", "cancel"}
           \cup Starting
Command == Keyed \cup {"edit"}

ASSUME WorkflowAssumption ==
  /\ MaxRev \in Nat \ {0}
  /\ Nobody \notin Person /\ Author \notin Manager
  /\ Scopes \subseteq SUBSET (Command \cup {"policy", "queue"})

VARIABLES
  open,       \* the scope
  current,    \* content_items.current_revision; 0: there is no item
  status,     \* content_revisions.status
  target,     \* the revision's row of content_publish_targets
  job,        \* its row of content_publish_jobs
  request,    \* the latest row of content_approval_requests of the revision
  policy,     \* publish_requires_approval of the creator
  stored,     \* content_command_idempotency
  handler,    \* the requests in the server
  announced,  \* event keys of content_notifications
  effects,    \* history: commands committed under a key
  outcome     \* history: the first of them, and what it came to

tables == <<current, status, target, job, request, announced>>
vars == <<open, tables, policy, stored, handler, effects, outcome>>

Agg == INSTANCE ContentAggregate WITH Target <- {Author}

Revision == 1 .. MaxRev
RevStatus == Agg!RevStatus \cup {"NONE", "PENDING_APPROVAL", "APPROVED"}
Answer == [rev : 0 .. MaxRev, status : RevStatus]
Nothing == [rev |-> 0, status |-> "NONE"]
NoRecord == [cmd |-> "none", answer |-> Nothing]
Record == [cmd : Keyed \cup {"none"}, answer : Answer]
NoRequest == [status |-> "NONE", by |-> Nobody, decider |-> Nobody]
Idle == [pc |-> "idle", who |-> Nobody, key |-> Nobody, cmd |-> "none",
         rev |-> 0, answer |-> Nothing]

(* Every column and every request in the server keeps to its type, and a   *)
(* request is decided by somebody else than who made it (the CHECK of      *)
(* content_approval_requests).                                             *)
TypeOK ==
  /\ open \in Scopes /\ policy \in BOOLEAN
  /\ current \in 0 .. MaxRev
  /\ status \in [Revision -> RevStatus]
  /\ target \in [Revision ->
       [status : Agg!TargetStatus \cup {"NONE"}, marked : BOOLEAN]]
  /\ job \in [Revision -> {"none", "queued", "running"}]
  /\ request \in [Revision ->
       [status : {"NONE", "PENDING", "APPROVED", "REJECTED", "SUPERSEDED",
                  "CANCELLED"},
        by : Person \cup {Nobody}, decider : Person \cup {Nobody}]]
  /\ stored \in [Person \X Key -> Record]
  /\ handler \in [Handler ->
       [pc : {"idle", "admitted", "answer"}, who : Person \cup {Nobody},
        key : Key \cup {Nobody}, cmd : Command \cup {"none"},
        rev : 0 .. MaxRev, answer : Answer]]
  /\ announced \subseteq {"request", "approve", "reject"} \X Revision
  /\ effects \in [Person \X Key -> 0 .. 2]
  /\ outcome \in [Person \X Key -> Record]
  /\ \A r \in Revision : request[r].decider # Nobody =>
                           request[r].decider # request[r].by

Init ==
  /\ open \in Scopes
  /\ policy = FALSE
  /\ current = 0
  /\ status = [r \in Revision |-> "NONE"]
  /\ target = [r \in Revision |-> [status |-> "NONE", marked |-> FALSE]]
  /\ job = [r \in Revision |-> "none"]
  /\ request = [r \in Revision |-> NoRequest]
  /\ stored = [x \in Person \X Key |-> NoRecord]
  /\ handler = [h \in Handler |-> Idle]
  /\ announced = {}
  /\ effects = [x \in Person \X Key |-> 0]
  /\ outcome = [x \in Person \X Key |-> NoRecord]

-----------------------------------------------------------------------------
(* Admission and answers.                                                  *)

HandlerStep(h, new) ==
  /\ handler' = [handler EXCEPT ![h] = new]
  /\ UNCHANGED <<open, tables, policy, stored, effects, outcome>>

(* assertContentItem: the item exists and is in reach; its revision is     *)
(* read.  An edit names the revision its sender has seen (If-Match).       *)
Admit(h) ==
  /\ handler[h].pc = "idle"
  /\ \E p \in Person, k \in Key, c \in Keyed \cap open :
       /\ c = "create" \/ current > 0
       /\ HandlerStep(h, [Idle EXCEPT !.pc = "admitted", !.who = p,
                            !.key = k, !.cmd = c, !.rev = current])

AdmitEdit(h) ==
  /\ handler[h].pc = "idle" /\ "edit" \in open
  /\ \E p \in Person, r \in 1 .. current :
       HandlerStep(h, [Idle EXCEPT !.pc = "admitted", !.who = p,
                         !.cmd = "edit", !.rev = r])

(* The request is refused, or its transaction rolled back and the key with *)
(* it, or the connection breaks before or after the answer.                *)
Leave(h) == handler[h].pc # "idle" /\ HandlerStep(h, Idle)

Slot(h) == <<handler[h].who, handler[h].key>>

(* Slip: the key is looked up for the workspace, not for the actor.        *)
AnyActor(h) ==
  IF \E p \in Person : stored[<<p, handler[h].key>>] # NoRecord
  THEN LET p == CHOOSE q \in Person :
                  stored[<<q, handler[h].key>>] # NoRecord
       IN stored[<<p, handler[h].key>>]
  ELSE NoRecord

Found(h) == stored[Slot(h)]

(* request_hash: the method, the route and the body.                       *)
SameCommand(h) == Found(h) # NoRecord /\ Found(h).cmd = handler[h].cmd

(* claimContentCommandIdempotency, for a key that is taken: the stored     *)
(* answer is sent again.  For another command it is refused (Leave).       *)
Replay(h) ==
  /\ handler[h].pc = "admitted" /\ handler[h].cmd \in Keyed
  /\ SameCommand(h)
  /\ HandlerStep(h, [handler[h] EXCEPT !.pc = "answer",
                                       !.answer = Found(h).answer])

Kept(h, answer) ==
  [stored EXCEPT ![Slot(h)] = [cmd |-> handler[h].cmd, answer |-> answer]]

(* What every command commits besides its change: the key with the answer  *)
(* (finishIdempotency) and, as history, that it was done.                  *)
Completed(h, cmd, answer) ==
  /\ handler[h].pc = "admitted" /\ handler[h].cmd = cmd
  /\ Found(h) = NoRecord
  /\ stored' = Kept(h, answer)
  /\ handler' = [handler EXCEPT ![h].pc = "answer", ![h].answer = answer]
  /\ effects' = [effects EXCEPT ![Slot(h)] = IF @ < 2 THEN @ + 1 ELSE 2]
  /\ outcome' = [outcome EXCEPT ![Slot(h)] =
       IF @ = NoRecord THEN [cmd |-> cmd, answer |-> answer] ELSE @]
  /\ UNCHANGED <<open, policy>>

-----------------------------------------------------------------------------
(* The commands.                                                           *)

(* insertContentRevision.                                                  *)
Drafted(r) ==
  /\ status' = [status EXCEPT ![r] = "DRAFT"]
  /\ current' = r

(* createContentItem; a second one is another item.                        *)
Create(h) ==
  /\ Completed(h, "create", [rev |-> 1, status |-> "DRAFT"])
  /\ IF current = 0
     THEN /\ Drafted(1)
          /\ target' = [target EXCEPT ![1].status = "READY"]
     ELSE UNCHANGED <<current, status, target>>
  /\ UNCHANGED <<job, request, announced>>

(* copyContentItem makes another item of the revision read at admission.   *)
Copy(h) ==
  /\ Completed(h, "copy", [rev |-> 1, status |-> "DRAFT"])
  /\ UNCHANGED tables

Superseded(r) ==
  IF request[r].status = "PENDING"
  THEN [request[r] EXCEPT !.status = "SUPERSEDED"] ELSE request[r]

(* Slip: an edit takes the targets back and leaves the queue to itself.    *)
QueueKept(r) == job[r]

Dequeued(r) == IF job[r] = "queued" THEN "none" ELSE job[r]

(* What an edit leaves of a target: running work gets the marker only.     *)
TakenBack(t) ==
  IF t.status \in {"SUCCEEDED", "CANCELLED", "NONE"} THEN t
  ELSE [marked |-> TRUE,
        status |-> IF t.status \in {"READY", "RETRY_SCHEDULED", "FAILED"}
                   THEN "CANCELLED" ELSE t.status]

(* patchContentItem has no key: the revision it names makes a second       *)
(* delivery harmless.                                                      *)
Edit(h) ==
  /\ handler[h].pc = "admitted" /\ handler[h].cmd = "edit"
  /\ handler[h].rev = current /\ current < MaxRev
  /\ Drafted(current + 1)
  /\ request' = [r \in Revision |-> Superseded(r)]
  /\ target' = [r \in Revision |->
       IF r = current + 1 THEN [status |-> "READY", marked |-> FALSE]
                          ELSE TakenBack(target[r])]
  /\ job' = [r \in Revision |-> Dequeued(r)]
  /\ handler' = [handler EXCEPT ![h] = Idle]
  /\ UNCHANGED <<open, policy, stored, effects, outcome, announced>>

(* Slip: the revision read at admission is not read again under the lock.  *)
Remembered(h) == handler[h].rev

(* transitionContent locks the item before it resolves the revision.       *)
Resolved(h) == current

(* A command of transitionContent takes a revision from one of the states  *)
(* in from to the state to.                                                *)
Transition(h, cmd, from, to) ==
  LET r == Resolved(h)
  IN /\ Completed(h, cmd, [rev |-> r, status |-> to])
     /\ status[r] \in from
     /\ status' = [status EXCEPT ![r] = to]
     /\ UNCHANGED current

(* contentNotificationRecipients: an event is announced once.              *)
Announce(event, r) == announced' = announced \cup {<<event, r>>}

Submit(h) ==
  LET r == Resolved(h)
  IN /\ Transition(h, "submit", {"DRAFT"}, "PENDING_APPROVAL")
     /\ request[r].status # "PENDING"
     /\ request' = [request EXCEPT ![r] =
          [status |-> "PENDING", by |-> handler[h].who, decider |-> Nobody]]
     /\ Announce("request", r)
     /\ UNCHANGED <<target, job>>

(* Slip: a request may be decided by whoever made it.                      *)
AnyDecider(h) == TRUE

Independent(h) == request[Resolved(h)].by # handler[h].who

Decide(h, cmd, to, verdict) ==
  LET r == Resolved(h)
  IN /\ Transition(h, cmd, {"PENDING_APPROVAL"}, to)
     /\ request[r].status = "PENDING"
     /\ Independent(h)
     /\ request' = [request EXCEPT ![r].status = verdict,
                                   ![r].decider = handler[h].who]
     /\ Announce(cmd, r)
     /\ UNCHANGED <<target, job>>

Approve(h) == Decide(h, "approve", "APPROVED", "APPROVED")
Reject(h) == Decide(h, "reject", "DRAFT", "REJECTED")

Cancel(h) ==
  LET r == Resolved(h)
  IN /\ Transition(h, "cancel",
          {"DRAFT", "PENDING_APPROVAL", "APPROVED", "SCHEDULED",
           "PUBLISHING", "FAILED", "PARTIALLY_PUBLISHED"}, "CANCELLED")
     /\ request' = [request EXCEPT ![r].status =
                      IF @ = "PENDING" THEN "CANCELLED" ELSE @]
     /\ target' = [target EXCEPT ![r] =
          IF @.status \in {"SUCCEEDED", "CANCELLED"} THEN @
          ELSE [status |-> "CANCELLED", marked |-> TRUE]]
     /\ job' = [job EXCEPT ![r] = Dequeued(r)]
     /\ UNCHANGED announced

(* Slip: the policy exempts a draft that has never been submitted.         *)
SubmittedOnly(h) ==
  handler[h].who = Author /\ policy =>
    status[Resolved(h)] # "PENDING_APPROVAL"

(* A creator under the policy starts only what has been approved.          *)
Permitted(h) ==
  handler[h].who = Author /\ policy => status[Resolved(h)] = "APPROVED"

(* A job for the target, unless it has one (ON CONFLICT DO NOTHING).  That *)
(* account, connection, assignment and media are usable                    *)
(* (transactionalPublishPreflight) is read under locks that last to the    *)
(* commit; where they are not the request is refused (Leave).              *)
Start(h, cmd, from, eligible, to) ==
  LET r == Resolved(h)
  IN /\ Transition(h, cmd, from, to)
     /\ Permitted(h)
     /\ target[r].status \in eligible
     /\ job' = [job EXCEPT ![r] = IF @ = "none" THEN "queued" ELSE @]
     /\ UNCHANGED <<target, request, announced>>

Startable == {"DRAFT", "APPROVED", "FAILED", "PARTIALLY_PUBLISHED"}

Publish(h) ==
  Start(h, "publish", Startable, {"READY", "FAILED", "RETRY_SCHEDULED"},
        "PUBLISHING")

Schedule(h) ==
  Start(h, "schedule", Startable, {"READY", "FAILED", "RETRY_SCHEDULED"},
        "SCHEDULED")

Retry(h) ==
  Start(h, "retry", {"FAILED", "PARTIALLY_PUBLISHED", "PUBLISHING"},
        {"FAILED", "WAITING_FOR_REAUTH", "RETRY_SCHEDULED"}, "PUBLISHING")

(* putContentApprovalPolicy.                                               *)
PutPolicy ==
  /\ "policy" \in open
  /\ policy' = ~policy
  /\ UNCHANGED <<open, tables, stored, handler, effects, outcome>>

-----------------------------------------------------------------------------
(* The queue: a worker takes the job of a target that may run, and ends it *)
(* with the status the revision then derives from the target.              *)

TakeJob(r) ==
  /\ "queue" \in open
  /\ job[r] = "queued" /\ target[r].status \in {"READY", "RETRY_SCHEDULED"}
  /\ job' = [job EXCEPT ![r] = "running"]
  /\ target' = [target EXCEPT ![r].status = "PUBLISHING"]
  /\ UNCHANGED <<open, current, status, request, announced, policy, stored,
                 handler, effects, outcome>>

EndJob(r) ==
  /\ job[r] = "running"
  /\ \E s \in {"SUCCEEDED", "FAILED"} :
       LET ended == IF s = "FAILED" /\
                       (target[r].marked \/ target[r].status = "CANCELLED")
                    THEN "CANCELLED" ELSE s
       IN /\ target' = [target EXCEPT ![r].status = ended]
          /\ status' = [status EXCEPT ![r] =
               Agg!Aggregate([t \in {Author} |-> ended])]
  /\ job' = [job EXCEPT ![r] = "none"]
  /\ UNCHANGED <<open, current, request, announced, policy, stored, handler,
                 effects, outcome>>

-----------------------------------------------------------------------------
Handle(h) ==
  \/ Create(h)
  \/ Copy(h)
  \/ Edit(h)
  \/ Submit(h)
  \/ Approve(h)
  \/ Reject(h)
  \/ Cancel(h)
  \/ Publish(h)
  \/ Schedule(h)
  \/ Retry(h)

Next ==
  \/ \E h \in Handler :
       Admit(h) \/ AdmitEdit(h) \/ Replay(h) \/ Handle(h) \/ Leave(h)
  \/ \E r \in Revision : TakeJob(r) \/ EndJob(r)
  \/ PutPolicy

Spec == Init /\ [][Next]_vars
=============================================================================
