----------------------- MODULE ContentWorkflowProofs -----------------------
(***************************************************************************)
(* ContentWorkflow keeps what it promises for any people, keys, handlers   *)
(* and revisions.  The invariant has two parts that do not need each       *)
(* other: what the revisions, requests and jobs of an item have to do with *)
(* each other (ItemInv), and what a key says of the command that was       *)
(* committed under it (KeyInv).                                            *)
(***************************************************************************)
EXTENDS ContentWorkflowProperties, TLAPS

Request ==
  [status : {"NONE", "PENDING", "APPROVED", "REJECTED", "SUPERSEDED",
             "CANCELLED"},
   by : Person \cup {Nobody}, decider : Person \cup {Nobody}]
TargetRow == [status : Agg!TargetStatus \cup {"NONE"}, marked : BOOLEAN]

(* A request in the server has an author, and a key unless it is an edit.  *)
HandlerRow ==
  {x \in [pc : {"idle", "admitted", "answer"}, who : Person \cup {Nobody},
          key : Key \cup {Nobody}, cmd : Command \cup {"none"},
          rev : 0 .. MaxRev, answer : Answer] :
     x.pc # "idle" => /\ x.who \in Person
                      /\ x.cmd \in Keyed => x.key \in Key
                      /\ x.pc = "answer" => x.cmd \in Keyed}

(* Only a creation is admitted when there is no item.                      *)
Typed ==
  /\ open \in Scopes /\ policy \in BOOLEAN
  /\ current \in 0 .. MaxRev
  /\ status \in [Revision -> RevStatus]
  /\ target \in [Revision -> TargetRow]
  /\ job \in [Revision -> {"none", "queued", "running"}]
  /\ request \in [Revision -> Request]
  /\ stored \in [Person \X Key -> Record]
  /\ handler \in [Handler -> HandlerRow]
  /\ announced \subseteq {"request", "approve", "reject"} \X Revision
  /\ effects \in [Person \X Key -> 0 .. 2]
  /\ outcome \in [Person \X Key -> Record]
  /\ \A h \in Handler :
       handler[h].pc = "admitted" /\ handler[h].cmd # "create" => current > 0

(* A revision that is not there yet has nothing; work that was begun       *)
(* belongs to a revision that was started, and may have been cancelled     *)
(* since; what is approved was approved by somebody other than its         *)
(* requester.                                                              *)
ItemInv ==
  /\ PendingIsCurrent
  /\ OnlyCurrentIsQueued
  /\ \A r \in Revision :
       /\ r > current => status[r] = "NONE" /\ request[r].status = "NONE"
       /\ job[r] = "running" =>
            status[r] \in {"SCHEDULED", "PUBLISHING", "CANCELLED"}
       /\ status[r] = "APPROVED" =>
            request[r].status = "APPROVED" /\ request[r].decider # Nobody
       /\ request[r].decider # Nobody =>
            request[r].decider # request[r].by

(* A key keeps the only outcome of its command, and every answer is that.  *)
KeyInv ==
  /\ CommandsAreIdempotent
  /\ \A x \in Person \X Key :
       /\ stored[x] = outcome[x]
       /\ stored[x] = NoRecord => effects[x] = 0

-----------------------------------------------------------------------------
(* Rows.                                                                   *)

LEMMA StatusNames ==
  /\ Agg!RevStatus \subseteq RevStatus
  /\ "NONE" \in RevStatus /\ "PENDING_APPROVAL" \in RevStatus
  /\ "APPROVED" \in RevStatus
  /\ {"DRAFT", "SCHEDULED", "PUBLISHING", "CANCELLED"} \subseteq RevStatus
  BY DEF RevStatus, Agg!RevStatus

LEMMA HandlerTyped ==
  ASSUME Typed, NEW h \in Handler, NEW x \in HandlerRow, HandlerStep(h, x),
         x.pc = "admitted" /\ x.cmd # "create" => current > 0
  PROVE Typed'
  <1>1. handler' \in [Handler -> HandlerRow]
    BY DEF Typed, HandlerStep
  <1>2. \A g \in Handler : handler'[g] = IF g = h THEN x ELSE handler[g]
    BY DEF Typed, HandlerStep
  <1>3. QED
    BY <1>1, <1>2 DEF HandlerStep, tables, Typed

LEMMA IdleTyped == Idle \in HandlerRow /\ Idle.pc = "idle"
  BY WorkflowAssumption
  DEF Idle, HandlerRow, Answer, Nothing, RevStatus

LEMMA AdmitTyped ==
  ASSUME Typed, NEW h \in Handler, Admit(h) PROVE Typed'
  <1>1. PICK p \in Person, k \in Key, c \in Keyed :
          /\ c = "create" \/ current > 0
          /\ HandlerStep(h, [Idle EXCEPT !.pc = "admitted", !.who = p,
                               !.key = k, !.cmd = c, !.rev = current])
    BY DEF Admit
  <1> DEFINE x == [Idle EXCEPT !.pc = "admitted", !.who = p,
                               !.key = k, !.cmd = c, !.rev = current]
  <1>2. x \in HandlerRow /\ x.cmd = c
    BY IdleTyped DEF HandlerRow, Command, Typed
  <1>3. QED
    <2> HIDE DEF x
    <2> QED
      BY <1>1, <1>2, HandlerTyped DEF x

LEMMA AdmitEditTyped ==
  ASSUME Typed, NEW h \in Handler, AdmitEdit(h) PROVE Typed'
  <1>1. PICK p \in Person, r \in 1 .. current :
          HandlerStep(h, [Idle EXCEPT !.pc = "admitted", !.who = p,
                            !.cmd = "edit", !.rev = r])
    BY DEF AdmitEdit
  <1> DEFINE x == [Idle EXCEPT !.pc = "admitted", !.who = p,
                               !.cmd = "edit", !.rev = r]
  <1>2. x \in HandlerRow
    <2>1. r \in 0 .. MaxRev
      BY WorkflowAssumption DEF Typed
    <2>2. "edit" \in Command /\ "edit" \notin Keyed
      BY DEF Command, Keyed, Starting
    <2>3. QED
      BY <2>1, <2>2, IdleTyped DEF HandlerRow
  <1>3. current > 0
    BY DEF Typed
  <1>4. QED
    <2> HIDE DEF x
    <2> QED
      BY <1>1, <1>2, <1>3, HandlerTyped DEF x

LEMMA LeaveTyped ==
  ASSUME Typed, NEW h \in Handler, Leave(h) PROVE Typed'
  BY IdleTyped, HandlerTyped DEF Leave

(* A request with a key has a slot.                                        *)
LEMMA SlotTyped ==
  ASSUME Typed, NEW h \in Handler, handler[h].pc # "idle",
         handler[h].cmd \in Keyed
  PROVE /\ Slot(h) \in Person \X Key /\ handler[h].who \in Person
        /\ Found(h) \in Record
  BY DEF Typed, HandlerRow, Slot, Found

LEMMA ReplayTyped ==
  ASSUME Typed, NEW h \in Handler, Replay(h) PROVE Typed'
  <1> DEFINE x == [handler[h] EXCEPT !.pc = "answer",
                                     !.answer = Found(h).answer]
  <1>1. handler[h] \in HandlerRow /\ Found(h).answer \in Answer
    BY SlotTyped DEF Replay, Typed, Record
  <1>2. x \in HandlerRow /\ x.pc = "answer"
    BY <1>1 DEF HandlerRow, Replay
  <1>3. HandlerStep(h, x)
    BY DEF Replay
  <1>4. QED
    <2> HIDE DEF x
    <2> QED
      BY <1>2, <1>3, HandlerTyped

(* What a command leaves, whatever it does to the tables.                  *)
LEMMA CompletedTyped ==
  ASSUME Typed, NEW h \in Handler, NEW cmd \in Keyed, NEW answer \in Answer,
         Completed(h, cmd, answer)
  PROVE /\ stored' \in [Person \X Key -> Record]
        /\ handler' \in [Handler -> HandlerRow]
        /\ effects' \in [Person \X Key -> 0 .. 2]
        /\ outcome' \in [Person \X Key -> Record]
        /\ UNCHANGED <<open, policy>>
        /\ handler[h].who \in Person
        /\ \A g \in Handler : g # h => handler'[g] = handler[g]
        /\ handler'[h].pc = "answer"
  <1>1. Slot(h) \in Person \X Key /\ handler[h].who \in Person
    BY SlotTyped DEF Completed
  <1>2. [cmd |-> cmd, answer |-> answer] \in Record
    BY DEF Record
  <1>3. stored' \in [Person \X Key -> Record]
    BY <1>1, <1>2 DEF Completed, Kept, Typed
  <1>4. handler' \in [Handler -> HandlerRow]
    <2>1. handler[h] \in HandlerRow /\ handler[h].pc = "admitted"
          /\ handler[h].cmd \in Keyed
      BY DEF Completed, Typed
    <2>2. [handler[h] EXCEPT !.pc = "answer", !.answer = answer]
            \in HandlerRow
      BY <2>1 DEF HandlerRow
    <2>3. handler' = [handler EXCEPT ![h] = [handler[h] EXCEPT
                        !.pc = "answer", !.answer = answer]]
      BY <2>1 DEF Completed, Typed, HandlerRow
    <2>4. QED
      BY <2>2, <2>3 DEF Typed
  <1>5. effects' \in [Person \X Key -> 0 .. 2]
    BY <1>1 DEF Completed, Typed
  <1>6. outcome' \in [Person \X Key -> Record]
    BY <1>1, <1>2 DEF Completed, Typed
  <1>7. /\ \A g \in Handler : g # h => handler'[g] = handler[g]
        /\ handler'[h].pc = "answer"
    BY DEF Completed, Typed, HandlerRow
  <1>8. QED
    BY <1>1, <1>3, <1>4, <1>5, <1>6, <1>7 DEF Completed

-----------------------------------------------------------------------------
(* The tables after each command.                                          *)

LEMMA RevisionTyped ==
  ASSUME Typed
  PROVE /\ current \in Nat /\ MaxRev \in Nat
        /\ current > 0 => current \in Revision
        /\ current < MaxRev => current + 1 \in Revision
        /\ \A r \in Revision : r \in Nat /\ r > 0 /\ r \in 0 .. MaxRev
  BY WorkflowAssumption DEF Typed, Revision

(* The revision a command is resolved to exists.                           *)
LEMMA ResolvedTyped ==
  ASSUME Typed, NEW h \in Handler, NEW cmd \in Keyed, cmd # "create",
         NEW answer, Completed(h, cmd, answer)
  PROVE current \in Revision /\ Resolved(h) = current
  BY RevisionTyped DEF Completed, Resolved, Typed

LEMMA DecidedTyped ==
  ASSUME NEW q \in Request, NEW who \in Person,
         NEW v \in {"APPROVED", "REJECTED"}
  PROVE  [q EXCEPT !.status = v, !.decider = who] \in Request
  BY DEF Request

LEMMA ReadyTyped ==
  ASSUME NEW t \in TargetRow PROVE [t EXCEPT !.status = "READY"] \in TargetRow
  BY DEF TargetRow, Agg!TargetStatus

LEMMA CreateTyped ==
  ASSUME Typed, NEW h \in Handler, Create(h) PROVE Typed'
  <1> DEFINE answer == [rev |-> 1, status |-> "DRAFT"]
  <1>1. answer \in Answer /\ "create" \in Keyed /\ 1 \in Revision
        /\ 1 \in 0 .. MaxRev
    BY WorkflowAssumption, StatusNames DEF Answer, Keyed, Revision
  <1>2. Completed(h, "create", answer)
    BY DEF Create
  <1>3. /\ status' \in [Revision -> RevStatus] /\ current' \in 0 .. MaxRev
        /\ target' \in [Revision -> TargetRow] /\ current' > 0
    <2>1. CASE current = 0
      <3>1. current' = 1 /\ status' \in [Revision -> RevStatus]
        BY <1>1, <2>1, StatusNames DEF Create, Drafted, Typed
      <3>2. target' \in [Revision -> TargetRow]
        <4>1. target \in [Revision -> TargetRow]
              /\ target' = [target EXCEPT ![1].status = "READY"]
          BY <2>1 DEF Create, Typed
        <4>2. [target[1] EXCEPT !.status = "READY"] \in TargetRow
          BY <1>1, <4>1, ReadyTyped
        <4>3. QED
          BY <1>1, <4>1, <4>2
      <3>3. QED
        BY <1>1, <3>1, <3>2
    <2>2. CASE current # 0
      BY <2>2, RevisionTyped DEF Create, Typed
    <2>3. QED
      BY <2>1, <2>2
  <1>4. QED
    <2> HIDE DEF answer
    <2> QED
      BY <1>1, <1>2, <1>3, CompletedTyped DEF Create, Typed

(* A command that leaves the current revision where it is.                 *)
LEMMA TablesTyped ==
  ASSUME Typed, NEW h \in Handler, NEW cmd \in Keyed, NEW answer \in Answer,
         Completed(h, cmd, answer), current' = current,
         status' \in [Revision -> RevStatus],
         target' \in [Revision -> TargetRow],
         job' \in [Revision -> {"none", "queued", "running"}],
         request' \in [Revision -> Request],
         announced' \subseteq {"request", "approve", "reject"} \X Revision
  PROVE Typed'
  <1>1. \A g \in Handler :
          handler'[g].pc = "admitted" /\ handler'[g].cmd # "create"
            => current' > 0
    BY CompletedTyped DEF Typed
  <1>2. QED
    BY <1>1, CompletedTyped DEF Typed

LEMMA CopyTyped ==
  ASSUME Typed, NEW h \in Handler, Copy(h) PROVE Typed'
  <1> DEFINE answer == [rev |-> 1, status |-> "DRAFT"]
  <1>1. answer \in Answer /\ "copy" \in Keyed
    BY WorkflowAssumption, StatusNames DEF Answer, Keyed
  <1>2. Completed(h, "copy", answer)
    BY DEF Copy
  <1>3. QED
    <2> HIDE DEF answer
    <2> QED
      BY <1>1, <1>2, TablesTyped DEF Copy, tables, Typed

(* A transition from one status to another.                                *)
LEMMA TransitionTyped ==
  ASSUME Typed, NEW h \in Handler, NEW cmd \in Keyed, cmd # "create",
         NEW from, NEW to \in RevStatus, Transition(h, cmd, from, to)
  PROVE /\ current \in Revision /\ Resolved(h) = current
        /\ current' = current /\ status[current] \in from
        /\ status' = [status EXCEPT ![current] = to]
        /\ status' \in [Revision -> RevStatus]
        /\ \E answer \in Answer : Completed(h, cmd, answer)
        /\ handler[h].who \in Person
  <1>1. Completed(h, cmd, [rev |-> Resolved(h), status |-> to])
    BY DEF Transition
  <1>2. current \in Revision /\ Resolved(h) = current
    BY <1>1, ResolvedTyped
  <1>3. [rev |-> current, status |-> to] \in Answer
    BY <1>2, RevisionTyped DEF Answer
  <1>4. handler[h].who \in Person
    BY <1>1, SlotTyped DEF Completed
  <1>5. QED
    BY <1>1, <1>2, <1>3, <1>4 DEF Transition, Typed

LEMMA SubmitTyped ==
  ASSUME Typed, NEW h \in Handler, Submit(h) PROVE Typed'
  <1>1. "submit" \in Keyed /\ "PENDING_APPROVAL" \in RevStatus
    BY StatusNames DEF Keyed
  <1>2. Transition(h, "submit", {"DRAFT"}, "PENDING_APPROVAL")
    BY DEF Submit
  <1>3. /\ current \in Revision /\ Resolved(h) = current
        /\ handler[h].who \in Person
    BY <1>1, <1>2, TransitionTyped
  <1>4. request' \in [Revision -> Request]
    BY <1>3 DEF Submit, Typed, Request
  <1>5. announced' \subseteq {"request", "approve", "reject"} \X Revision
    BY <1>3 DEF Submit, Announce, Typed
  <1>6. PICK answer \in Answer : Completed(h, "submit", answer)
    BY <1>1, <1>2, TransitionTyped
  <1>7. status' \in [Revision -> RevStatus] /\ current' = current
    BY <1>1, <1>2, TransitionTyped
  <1>8. QED
    BY <1>1, <1>4, <1>5, <1>6, <1>7, TablesTyped DEF Submit, Typed

LEMMA DecideTyped ==
  ASSUME Typed, NEW h \in Handler, NEW cmd \in {"approve", "reject"},
         NEW to \in RevStatus, NEW verdict \in {"APPROVED", "REJECTED"},
         Decide(h, cmd, to, verdict)
  PROVE Typed'
  <1>1. cmd \in Keyed /\ cmd # "create"
    BY DEF Keyed
  <1>2. Transition(h, cmd, {"PENDING_APPROVAL"}, to)
    BY DEF Decide
  <1>3. /\ current \in Revision /\ Resolved(h) = current
        /\ handler[h].who \in Person
    BY <1>1, <1>2, TransitionTyped
  <1>4. request' \in [Revision -> Request]
    <2> DEFINE decided == [request[current] EXCEPT !.status = verdict,
                                                   !.decider = handler[h].who]
    <2>1. request \in [Revision -> Request]
      BY DEF Typed
    <2>2. decided \in Request
      BY <1>3, <2>1, DecidedTyped
    <2>3. request' = [request EXCEPT ![current] = decided]
      BY <1>3, <2>1 DEF Decide
    <2> HIDE DEF decided
    <2>4. QED
      BY <1>3, <2>1, <2>2, <2>3
  <1>5. announced' \subseteq {"request", "approve", "reject"} \X Revision
    BY <1>3 DEF Decide, Announce, Typed
  <1>6. PICK answer \in Answer : Completed(h, cmd, answer)
    BY <1>1, <1>2, TransitionTyped
  <1>7. status' \in [Revision -> RevStatus] /\ current' = current
    BY <1>1, <1>2, TransitionTyped
  <1>8. QED
    BY <1>1, <1>4, <1>5, <1>6, <1>7, TablesTyped DEF Decide, Typed

LEMMA CancelTyped ==
  ASSUME Typed, NEW h \in Handler, Cancel(h) PROVE Typed'
  <1>1. "cancel" \in Keyed /\ "CANCELLED" \in RevStatus
    BY StatusNames DEF Keyed
  <1>2. PICK from : Transition(h, "cancel", from, "CANCELLED")
    BY DEF Cancel
  <1>3. current \in Revision /\ Resolved(h) = current
    BY <1>1, <1>2, TransitionTyped
  <1>4. request' \in [Revision -> Request]
    <2> DEFINE q == request[current]
               withdrawn == [q EXCEPT !.status = IF q.status = "PENDING"
                                                 THEN "CANCELLED" ELSE q.status]
    <2>1. request \in [Revision -> Request]
      BY DEF Typed
    <2>2. withdrawn \in Request
      BY <1>3, <2>1 DEF Request
    <2>3. request' = [request EXCEPT ![current] = withdrawn]
      BY <1>3, <2>1 DEF Cancel
    <2> HIDE DEF withdrawn
    <2>4. QED
      BY <1>3, <2>1, <2>2, <2>3
  <1>5. target' \in [Revision -> TargetRow]
    BY <1>3 DEF Cancel, Typed, TargetRow, Agg!TargetStatus
  <1>6. job' \in [Revision -> {"none", "queued", "running"}]
    BY <1>3 DEF Cancel, Typed, Dequeued
  <1>7. PICK answer \in Answer : Completed(h, "cancel", answer)
    BY <1>1, <1>2, TransitionTyped
  <1>8. status' \in [Revision -> RevStatus] /\ current' = current
    BY <1>1, <1>2, TransitionTyped
  <1>9. QED
    BY <1>1, <1>4, <1>5, <1>6, <1>7, <1>8, TablesTyped DEF Cancel, Typed

LEMMA StartTyped ==
  ASSUME Typed, NEW h \in Handler, NEW cmd \in Starting, NEW from,
         NEW eligible, NEW to \in RevStatus, Start(h, cmd, from, eligible, to)
  PROVE Typed'
  <1>1. cmd \in Keyed /\ cmd # "create"
    BY DEF Keyed, Starting
  <1>2. Transition(h, cmd, from, to)
    BY DEF Start
  <1>3. current \in Revision /\ Resolved(h) = current
    BY <1>1, <1>2, TransitionTyped
  <1>4. job' \in [Revision -> {"none", "queued", "running"}]
    BY <1>3 DEF Start, Typed
  <1>5. PICK answer \in Answer : Completed(h, cmd, answer)
    BY <1>1, <1>2, TransitionTyped
  <1>6. status' \in [Revision -> RevStatus] /\ current' = current
    BY <1>1, <1>2, TransitionTyped
  <1>7. QED
    BY <1>1, <1>4, <1>5, <1>6, TablesTyped DEF Start, Typed

LEMMA EditTyped ==
  ASSUME Typed, NEW h \in Handler, Edit(h) PROVE Typed'
  <1>1. current + 1 \in Revision /\ current \in Nat
    BY RevisionTyped DEF Edit
  <1>2. status' \in [Revision -> RevStatus] /\ current' = current + 1
    BY <1>1, StatusNames DEF Edit, Drafted, Typed
  <1>3. request' \in [Revision -> Request]
    <2>1. request \in [Revision -> Request]
      BY DEF Typed
    <2>2. \A r \in Revision : Superseded(r) \in Request
      BY <2>1 DEF Superseded, Request
    <2>3. QED
      BY <2>2 DEF Edit
  <1>4. target' \in [Revision -> TargetRow]
    BY DEF Edit, TakenBack, Typed, TargetRow, Agg!TargetStatus
  <1>5. job' \in [Revision -> {"none", "queued", "running"}]
    BY DEF Edit, Dequeued, Typed
  <1>6. handler' \in [Handler -> HandlerRow]
    BY IdleTyped DEF Edit, Typed
  <1>7. QED
    BY <1>1, <1>2, <1>3, <1>4, <1>5, <1>6, RevisionTyped DEF Edit, Typed

LEMMA PutPolicyTyped == ASSUME Typed, PutPolicy PROVE Typed'
  BY DEF PutPolicy, tables, Typed

LEMMA TakeJobTyped ==
  ASSUME Typed, NEW r \in Revision, TakeJob(r) PROVE Typed'
  <1>1. target' \in [Revision -> TargetRow]
    BY DEF TakeJob, Typed, TargetRow, Agg!TargetStatus
  <1>2. job' \in [Revision -> {"none", "queued", "running"}]
    BY DEF TakeJob, Typed
  <1>3. QED
    BY <1>1, <1>2 DEF TakeJob, Typed

(* What a revision derives from its targets.                               *)
LEMMA AggregateTyped ==
  ASSUME NEW st
  PROVE Agg!Aggregate(st) \in {"PUBLISHED", "PARTIALLY_PUBLISHED",
                               "PUBLISHING", "FAILED", "CANCELLED"}
  BY DEF Agg!Aggregate

LEMMA EndJobTyped ==
  ASSUME Typed, NEW r \in Revision, EndJob(r) PROVE Typed'
  <1>1. PICK ended \in {"SUCCEEDED", "FAILED", "CANCELLED"} :
          /\ target' = [target EXCEPT ![r].status = ended]
          /\ status' = [status EXCEPT ![r] =
               Agg!Aggregate([t \in {Author} |-> ended])]
    BY DEF EndJob
  <1>2. target' \in [Revision -> TargetRow]
    BY <1>1 DEF Typed, TargetRow, Agg!TargetStatus
  <1>3. status' \in [Revision -> RevStatus]
    BY <1>1, AggregateTyped DEF Typed, RevStatus, Agg!RevStatus
  <1>4. job' \in [Revision -> {"none", "queued", "running"}]
    BY DEF EndJob, Typed
  <1>5. QED
    BY <1>2, <1>3, <1>4 DEF EndJob, Typed

-----------------------------------------------------------------------------
(* Keys and answers.                                                       *)

LEMMA CompletedKeys ==
  ASSUME Typed, KeyInv, NEW h \in Handler, NEW cmd \in Keyed,
         NEW answer \in Answer, Completed(h, cmd, answer)
  PROVE KeyInv'
  <1> DEFINE x == Slot(h)
             record == [cmd |-> cmd, answer |-> answer]
  <1>1. /\ x \in Person \X Key /\ handler[h] \in HandlerRow
        /\ stored[x] = NoRecord /\ handler[h].cmd = cmd
    BY SlotTyped DEF Completed, Found, Typed
  <1>2. outcome[x] = NoRecord /\ effects[x] = 0
    BY <1>1 DEF KeyInv
  <1>3. stored' = [stored EXCEPT ![x] = record]
    BY <1>1 DEF Completed, Kept
  <1>4. effects' = [effects EXCEPT ![x] = 1]
    BY <1>1, <1>2 DEF Completed, Typed
  <1>5. outcome' = [outcome EXCEPT ![x] = record]
    BY <1>1, <1>2 DEF Completed, Typed
  <1>6. record # NoRecord
    <2>1. cmd # "none"
      BY DEF Keyed, Starting
    <2>2. record.cmd = cmd /\ NoRecord.cmd = "none"
      BY DEF NoRecord
    <2>3. QED
      BY <2>1, <2>2
  <1>7. /\ \A g \in Handler : g # h => handler'[g] = handler[g]
        /\ handler'[h].pc = "answer" /\ handler'[h].cmd = cmd
        /\ handler'[h].answer = answer /\ handler'[h].who = handler[h].who
        /\ handler'[h].key = handler[h].key
    BY <1>1 DEF Completed, Typed, HandlerRow
  <1>8. \A y \in Person \X Key :
          /\ y # x => /\ stored'[y] = stored[y] /\ effects'[y] = effects[y]
                      /\ outcome'[y] = outcome[y]
          /\ y = x => /\ stored'[y] = record /\ effects'[y] = 1
                      /\ outcome'[y] = record
    BY <1>3, <1>4, <1>5 DEF Typed
  <1>9. \A y \in Person \X Key :
          /\ effects'[y] <= 1 /\ stored'[y] = outcome'[y]
          /\ stored'[y] = NoRecord => effects'[y] = 0
    <2> HIDE DEF x, record
    <2> QED
      BY <1>6, <1>8 DEF KeyInv, CommandsAreIdempotent
  <1>10. ASSUME NEW g \in Handler, handler'[g].pc = "answer"
         PROVE outcome'[<<handler'[g].who, handler'[g].key>>] =
                 [cmd |-> handler'[g].cmd, answer |-> handler'[g].answer]
    <2>1. CASE g = h
      BY <1>1, <1>7, <1>8, <2>1 DEF Slot
    <2>2. CASE g # h
      <3>1. handler'[g] = handler[g] /\ handler[g].pc = "answer"
        BY <1>7, <1>10, <2>2
      <3>2. Slot(g) \in Person \X Key /\ Slot(g) =
              <<handler'[g].who, handler'[g].key>>
        BY <3>1, SlotTyped DEF Typed, HandlerRow, Slot
      <3>3. outcome[Slot(g)] = [cmd |-> handler[g].cmd,
                                answer |-> handler[g].answer]
        BY <3>1 DEF KeyInv, CommandsAreIdempotent
      <3>4. Slot(g) # x
        <4>1. outcome[Slot(g)].cmd = handler[g].cmd
          BY <3>3
        <4>2. handler[g].cmd \in Keyed
          BY <3>1 DEF Typed, HandlerRow
        <4>3. NoRecord.cmd = "none" /\ "none" \notin Keyed
          BY DEF NoRecord, Keyed, Starting
        <4>4. QED
          BY <1>2, <4>1, <4>2, <4>3
      <3>5. QED
        BY <1>8, <3>1, <3>2, <3>3, <3>4
    <2>3. QED
      BY <2>1, <2>2
  <1>11. QED
    BY <1>9, <1>10 DEF KeyInv, CommandsAreIdempotent, Slot

(* A request that gives no answer leaves what the keys say alone.          *)
LEMMA HandlerKeys ==
  ASSUME Typed, KeyInv, NEW h \in Handler,
         UNCHANGED <<stored, effects, outcome>>,
         \A g \in Handler : g # h => handler'[g] = handler[g],
         handler'[h].pc = "answer" =>
           outcome[<<handler'[h].who, handler'[h].key>>] =
             [cmd |-> handler'[h].cmd, answer |-> handler'[h].answer]
  PROVE KeyInv'
  <1>1. ASSUME NEW g \in Handler, handler'[g].pc = "answer"
        PROVE outcome[<<handler'[g].who, handler'[g].key>>] =
                [cmd |-> handler'[g].cmd, answer |-> handler'[g].answer]
    <2>1. CASE g = h
      BY <1>1, <2>1
    <2>2. CASE g # h
      BY <1>1, <2>2 DEF KeyInv, CommandsAreIdempotent, Slot
    <2>3. QED
      BY <2>1, <2>2
  <1>2. QED
    BY <1>1 DEF KeyInv, CommandsAreIdempotent, Slot

LEMMA ReplayKeys ==
  ASSUME Typed, KeyInv, NEW h \in Handler, Replay(h) PROVE KeyInv'
  <1>1. /\ Slot(h) \in Person \X Key /\ Found(h) \in Record
        /\ handler[h] \in HandlerRow
    BY SlotTyped DEF Replay, Typed
  <1>2. outcome[Slot(h)] = Found(h) /\ Found(h).cmd = handler[h].cmd
    BY <1>1 DEF Replay, SameCommand, Found, KeyInv
  <1>3. Found(h) = [cmd |-> Found(h).cmd, answer |-> Found(h).answer]
    BY <1>1 DEF Record
  <1>4. /\ \A g \in Handler : g # h => handler'[g] = handler[g]
        /\ handler'[h].who = handler[h].who /\ handler'[h].key = handler[h].key
        /\ handler'[h].cmd = handler[h].cmd
        /\ handler'[h].answer = Found(h).answer
    BY <1>1 DEF Replay, HandlerStep, Typed, HandlerRow
  <1>5. UNCHANGED <<stored, effects, outcome>>
    BY DEF Replay, HandlerStep
  <1>6. QED
    BY <1>2, <1>3, <1>4, <1>5, HandlerKeys DEF Slot

(* Leaving, and admitting a request.                                       *)
LEMMA AdmissionKeys ==
  ASSUME Typed, KeyInv, NEW h \in Handler,
         Admit(h) \/ AdmitEdit(h) \/ Leave(h) \/ Edit(h)
  PROVE KeyInv'
  <1>1. PICK x : /\ handler' = [handler EXCEPT ![h] = x]
                 /\ x.pc # "answer"
    <2>1. CASE Admit(h)
      <3>1. PICK p \in Person, k \in Key, c \in Keyed :
              HandlerStep(h, [Idle EXCEPT !.pc = "admitted", !.who = p,
                                !.key = k, !.cmd = c, !.rev = current])
        BY <2>1 DEF Admit
      <3>2. [Idle EXCEPT !.pc = "admitted", !.who = p, !.key = k,
                         !.cmd = c, !.rev = current].pc = "admitted"
        BY DEF Idle
      <3>3. QED
        BY <3>1, <3>2 DEF HandlerStep
    <2>2. CASE AdmitEdit(h)
      <3>1. PICK p \in Person, r \in 1 .. current :
              HandlerStep(h, [Idle EXCEPT !.pc = "admitted", !.who = p,
                                !.cmd = "edit", !.rev = r])
        BY <2>2 DEF AdmitEdit
      <3>2. [Idle EXCEPT !.pc = "admitted", !.who = p, !.cmd = "edit",
                         !.rev = r].pc = "admitted"
        BY DEF Idle
      <3>3. QED
        BY <3>1, <3>2 DEF HandlerStep
    <2>3. CASE Leave(h) \/ Edit(h)
      BY <2>3, IdleTyped DEF Leave, Edit, HandlerStep
    <2>4. QED
      BY <2>1, <2>2, <2>3
  <1>2. UNCHANGED <<stored, effects, outcome>>
    BY DEF Admit, AdmitEdit, Leave, Edit, HandlerStep
  <1>3. QED
    BY <1>1, <1>2, HandlerKeys DEF Typed

(* Every command with a key ends in one way.                               *)
LEMMA HandleCompletes ==
  ASSUME Typed, NEW h \in Handler, Handle(h), ~Edit(h)
  PROVE \E cmd \in Keyed, answer \in Answer : Completed(h, cmd, answer)
  <1>1. CASE Create(h) \/ Copy(h)
    <2>1. [rev |-> 1, status |-> "DRAFT"] \in Answer
      BY WorkflowAssumption, StatusNames DEF Answer
    <2>2. {"create", "copy"} \subseteq Keyed
      BY DEF Keyed
    <2>3. QED
      BY <1>1, <2>1, <2>2 DEF Create, Copy
  <1>2. ASSUME NEW cmd \in Keyed, cmd # "create", NEW from,
               NEW to \in RevStatus, Transition(h, cmd, from, to)
        PROVE \E answer \in Answer : Completed(h, cmd, answer)
    BY <1>2, TransitionTyped
  <1>3. Keyed = {"create", "copy", "submit", "approve", "reject", "cancel",
                 "publish", "schedule", "retry"}
    BY DEF Keyed, Starting
  <1>4. CASE Submit(h) \/ Cancel(h)
    BY <1>2, <1>3, <1>4, StatusNames DEF Submit, Cancel
  <1>5. CASE Approve(h) \/ Reject(h)
    BY <1>2, <1>3, <1>5, StatusNames DEF Approve, Reject, Decide
  <1>6. CASE Publish(h) \/ Schedule(h) \/ Retry(h)
    BY <1>2, <1>3, <1>6, StatusNames DEF Publish, Schedule, Retry, Start
  <1>7. QED
    BY <1>1, <1>4, <1>5, <1>6 DEF Handle

-----------------------------------------------------------------------------
(* Revisions, requests and jobs.                                           *)

(* Nothing happens to them when a request comes or goes, or when the       *)
(* policy changes.                                                         *)
LEMMA UnchangedItem ==
  ASSUME ItemInv, UNCHANGED <<current, status, job, request>> PROVE ItemInv'
  BY DEF ItemInv, PendingIsCurrent, OnlyCurrentIsQueued

LEMMA CreateItem ==
  ASSUME Typed, ItemInv, NEW h \in Handler, Create(h) PROVE ItemInv'
  <1>1. CASE current # 0
    BY <1>1, UnchangedItem DEF Create
  <1>2. CASE current = 0
    <2>1. /\ current' = 1 /\ status'[1] = "DRAFT" /\ 1 \in Revision
          /\ \A r \in Revision : r # 1 => status'[r] = status[r]
          /\ UNCHANGED <<job, request>>
      BY <1>2, WorkflowAssumption DEF Create, Drafted, Typed, Revision
    <2>2. \A r \in Revision :
            /\ status[r] = "NONE" /\ request[r].status = "NONE"
            /\ job[r] = "none"
      BY <1>2, RevisionTyped DEF ItemInv, OnlyCurrentIsQueued, Typed
    <2>3. QED
      BY <1>2, <2>1, <2>2, RevisionTyped
      DEF ItemInv, PendingIsCurrent, OnlyCurrentIsQueued
  <1>3. QED
    BY <1>1, <1>2

LEMMA EditItem ==
  ASSUME Typed, ItemInv, NEW h \in Handler, Edit(h) PROVE ItemInv'
  <1>1. /\ current \in Nat /\ current + 1 \in Revision
        /\ current' = current + 1
        /\ \A r \in Revision : r \in Nat
    BY RevisionTyped DEF Edit, Drafted
  <1>2. /\ status'[current + 1] = "DRAFT"
        /\ \A r \in Revision : r # current + 1 => status'[r] = status[r]
    BY <1>1 DEF Edit, Drafted, Typed
  <1>3. \A r \in Revision :
          /\ request'[r].by = request[r].by
          /\ request'[r].decider = request[r].decider
          /\ request[r].status # "PENDING" =>
               request'[r].status = request[r].status
          /\ request'[r].status # "PENDING"
    BY DEF Edit, Superseded, Typed, Request
  <1>4. \A r \in Revision : job'[r] # "queued" /\ (job'[r] = "running"
                                                     => job[r] = "running")
    BY DEF Edit, Dequeued, Typed
  <1>5. QED
    BY <1>1, <1>2, <1>3, <1>4
    DEF ItemInv, PendingIsCurrent, OnlyCurrentIsQueued

LEMMA SubmitItem ==
  ASSUME Typed, ItemInv, NEW h \in Handler, Submit(h) PROVE ItemInv'
  <1>1. "submit" \in Keyed /\ "PENDING_APPROVAL" \in RevStatus
    BY StatusNames DEF Keyed
  <1>2. Transition(h, "submit", {"DRAFT"}, "PENDING_APPROVAL")
    BY DEF Submit
  <1>3. /\ current \in Revision /\ Resolved(h) = current
        /\ current' = current /\ status[current] = "DRAFT"
        /\ status' = [status EXCEPT ![current] = "PENDING_APPROVAL"]
        /\ handler[h].who \in Person
    BY <1>1, <1>2, TransitionTyped
  <1>4. request' = [request EXCEPT ![current] =
          [status |-> "PENDING", by |-> handler[h].who, decider |-> Nobody]]
    BY <1>3 DEF Submit
  <1>5. job' = job
    BY DEF Submit
  <1>6. QED
    BY <1>3, <1>4, <1>5, RevisionTyped
    DEF ItemInv, PendingIsCurrent, OnlyCurrentIsQueued, Typed

LEMMA DecideItem ==
  ASSUME Typed, ItemInv, NEW h \in Handler,
         NEW cmd \in {"approve", "reject"}, NEW to, NEW verdict,
         <<to, verdict>> \in {<<"APPROVED", "APPROVED">>,
                              <<"DRAFT", "REJECTED">>},
         Decide(h, cmd, to, verdict)
  PROVE ItemInv'
  <1>1. cmd \in Keyed /\ cmd # "create" /\ to \in RevStatus
    BY StatusNames DEF Keyed
  <1>2. Transition(h, cmd, {"PENDING_APPROVAL"}, to)
    BY DEF Decide
  <1>3. /\ current \in Revision /\ Resolved(h) = current
        /\ current' = current /\ status[current] = "PENDING_APPROVAL"
        /\ status' = [status EXCEPT ![current] = to]
        /\ handler[h].who \in Person
    BY <1>1, <1>2, TransitionTyped
  <1>4. /\ \A r \in Revision \ {current} :
             status'[r] = status[r] /\ request'[r] = request[r]
        /\ status'[current] = to /\ request'[current].status = verdict
        /\ request'[current].by = request[current].by
        /\ request'[current].decider = handler[h].who
        /\ request[current].by # handler[h].who
        /\ job' = job
    BY <1>3 DEF Decide, Independent, Typed, Request
  <1>5. handler[h].who # Nobody
    BY <1>3, WorkflowAssumption
  <1>6. job[current] = "none"
    BY <1>3 DEF ItemInv, OnlyCurrentIsQueued, Typed
  <1>7. QED
    BY <1>3, <1>4, <1>5, <1>6, RevisionTyped
    DEF ItemInv, PendingIsCurrent, OnlyCurrentIsQueued

LEMMA CancelItem ==
  ASSUME Typed, ItemInv, NEW h \in Handler, Cancel(h) PROVE ItemInv'
  <1>1. "cancel" \in Keyed /\ "CANCELLED" \in RevStatus
    BY StatusNames DEF Keyed
  <1>2. PICK from : Transition(h, "cancel", from, "CANCELLED")
    BY DEF Cancel
  <1>3. /\ current \in Revision /\ Resolved(h) = current
        /\ current' = current
        /\ status' = [status EXCEPT ![current] = "CANCELLED"]
    BY <1>1, <1>2, TransitionTyped
  <1>4. /\ \A r \in Revision \ {current} :
             /\ status'[r] = status[r] /\ request'[r] = request[r]
             /\ job'[r] = job[r]
        /\ status'[current] = "CANCELLED"
        /\ request'[current].by = request[current].by
        /\ request'[current].decider = request[current].decider
        /\ request'[current].status # "PENDING"
        /\ job'[current] # "queued"
    BY <1>3 DEF Cancel, Typed, Request, Dequeued
  <1>5. QED
    BY <1>3, <1>4, RevisionTyped
    DEF ItemInv, PendingIsCurrent, OnlyCurrentIsQueued

LEMMA StartItem ==
  ASSUME Typed, ItemInv, NEW h \in Handler, NEW cmd \in Starting,
         NEW from, "PENDING_APPROVAL" \notin from, NEW eligible,
         NEW to \in {"PUBLISHING", "SCHEDULED"},
         Start(h, cmd, from, eligible, to)
  PROVE ItemInv'
  <1>1. cmd \in Keyed /\ cmd # "create" /\ to \in RevStatus
    BY StatusNames DEF Keyed, Starting
  <1>2. Transition(h, cmd, from, to)
    BY DEF Start
  <1>3. /\ current \in Revision /\ Resolved(h) = current
        /\ current' = current /\ status[current] # "PENDING_APPROVAL"
        /\ status' = [status EXCEPT ![current] = to]
    BY <1>1, <1>2, TransitionTyped
  <1>4. /\ \A r \in Revision \ {current} :
             status'[r] = status[r] /\ job'[r] = job[r]
        /\ status'[current] = to /\ request' = request
    BY <1>3 DEF Start, Typed
  <1>5. QED
    BY <1>3, <1>4, RevisionTyped
    DEF ItemInv, PendingIsCurrent, OnlyCurrentIsQueued

LEMMA TakeJobItem ==
  ASSUME Typed, ItemInv, NEW r \in Revision, TakeJob(r) PROVE ItemInv'
  BY DEF TakeJob, ItemInv, PendingIsCurrent, OnlyCurrentIsQueued, Typed

LEMMA EndJobItem ==
  ASSUME Typed, ItemInv, NEW r \in Revision, EndJob(r) PROVE ItemInv'
  <1>1. /\ \A q \in Revision \ {r} :
             status'[q] = status[q] /\ job'[q] = job[q]
        /\ status'[r] \in {"PUBLISHED", "PARTIALLY_PUBLISHED", "PUBLISHING",
                           "FAILED", "CANCELLED"}
        /\ job'[r] = "none" /\ job[r] = "running"
        /\ UNCHANGED <<current, request>>
    BY AggregateTyped DEF EndJob, Typed
  <1>2. status[r] \notin {"NONE", "PENDING_APPROVAL"} /\ ~(r > current)
    BY <1>1 DEF ItemInv
  <1>3. QED
    BY <1>1, <1>2 DEF ItemInv, PendingIsCurrent, OnlyCurrentIsQueued

-----------------------------------------------------------------------------
Inv == Typed /\ ItemInv /\ KeyInv

LEMMA InvInit == ASSUME Init PROVE Inv
  <1>1. Typed
    <2>1. handler \in [Handler -> HandlerRow] /\ current \in 0 .. MaxRev
      BY IdleTyped, WorkflowAssumption DEF Init
    <2>2. NoRecord \in Record /\ NoRequest \in Request
      BY WorkflowAssumption
      DEF NoRecord, Record, Nothing, Answer, RevStatus, NoRequest, Request
    <2>3. \A h \in Handler : handler[h].pc = "idle"
      BY DEF Init, Idle
    <2>4. [status |-> "NONE", marked |-> FALSE] \in TargetRow
      BY DEF TargetRow
    <2>5. target \in [Revision -> TargetRow]
      BY <2>4 DEF Init
    <2>6. /\ stored \in [Person \X Key -> Record]
          /\ outcome \in [Person \X Key -> Record]
          /\ effects \in [Person \X Key -> 0 .. 2]
      BY <2>2 DEF Init
    <2>7. /\ request \in [Revision -> Request]
          /\ status \in [Revision -> RevStatus]
          /\ job \in [Revision -> {"none", "queued", "running"}]
          /\ announced \subseteq {"request", "approve", "reject"} \X Revision
      BY <2>2, StatusNames DEF Init
    <2>8. open \in Scopes /\ policy \in BOOLEAN
      BY DEF Init
    <2>9. QED
      BY <2>1, <2>3, <2>5, <2>6, <2>7, <2>8 DEF Typed
  <1>2. ItemInv
    BY DEF Init, ItemInv, PendingIsCurrent, OnlyCurrentIsQueued, NoRequest
  <1>3. KeyInv
    BY DEF Init, KeyInv, CommandsAreIdempotent, Idle
  <1>4. QED
    BY <1>1, <1>2, <1>3 DEF Inv

(* The parts of the invariant under the handling of a request.             *)
LEMMA HandleInv ==
  ASSUME Inv, NEW h \in Handler, Handle(h) PROVE Inv'
  <1>1. Typed /\ ItemInv /\ KeyInv
    BY DEF Inv
  <1>2. KeyInv'
    BY <1>1, HandleCompletes, CompletedKeys, AdmissionKeys
  <1>3. Typed' /\ ItemInv'
    <2>1. CASE Create(h)
      BY <1>1, <2>1, CreateTyped, CreateItem
    <2>2. CASE Copy(h)
      BY <1>1, <2>2, CopyTyped, UnchangedItem DEF Copy, tables
    <2>3. CASE Edit(h)
      BY <1>1, <2>3, EditTyped, EditItem
    <2>4. CASE Submit(h)
      BY <1>1, <2>4, SubmitTyped, SubmitItem
    <2>5. CASE Approve(h)
      BY <1>1, <2>5, StatusNames, DecideTyped, DecideItem DEF Approve
    <2>6. CASE Reject(h)
      BY <1>1, <2>6, StatusNames, DecideTyped, DecideItem DEF Reject
    <2>7. CASE Cancel(h)
      BY <1>1, <2>7, CancelTyped, CancelItem
    <2>8. CASE Publish(h)
      <3>1. "publish" \in Starting /\ "PENDING_APPROVAL" \notin Startable
        BY DEF Starting, Startable
      <3>2. QED
        BY <1>1, <2>8, <3>1, StatusNames, StartTyped, StartItem DEF Publish
    <2>9. CASE Schedule(h)
      <3>1. "schedule" \in Starting /\ "PENDING_APPROVAL" \notin Startable
        BY DEF Starting, Startable
      <3>2. QED
        BY <1>1, <2>9, <3>1, StatusNames, StartTyped, StartItem DEF Schedule
    <2>10. CASE Retry(h)
      <3>1. "retry" \in Starting
        BY DEF Starting
      <3>2. QED
        BY <1>1, <2>10, <3>1, StatusNames, StartTyped, StartItem DEF Retry
    <2>11. QED
      BY <2>1, <2>2, <2>3, <2>4, <2>5, <2>6, <2>7, <2>8, <2>9, <2>10
      DEF Handle
  <1>4. QED
    BY <1>2, <1>3 DEF Inv

LEMMA InvStep == ASSUME Inv, [Next]_vars PROVE Inv'
  <1>1. Typed /\ ItemInv /\ KeyInv
    BY DEF Inv
  <1>2. ASSUME NEW h \in Handler, Admit(h) \/ AdmitEdit(h) \/ Leave(h)
        PROVE Inv'
    <2>1. UNCHANGED <<current, status, job, request>>
      BY <1>2 DEF Admit, AdmitEdit, Leave, HandlerStep, tables
    <2>2. QED
      BY <1>1, <1>2, <2>1, AdmitTyped, AdmitEditTyped, LeaveTyped,
         AdmissionKeys, UnchangedItem
      DEF Inv
  <1>3. ASSUME NEW h \in Handler, Replay(h) PROVE Inv'
    <2>1. UNCHANGED <<current, status, job, request>>
      BY <1>3 DEF Replay, HandlerStep, tables
    <2>2. QED
      BY <1>1, <1>3, <2>1, ReplayTyped, ReplayKeys, UnchangedItem DEF Inv
  <1>4. ASSUME NEW h \in Handler, Handle(h) PROVE Inv'
    BY <1>4, HandleInv
  <1>5. ASSUME UNCHANGED <<stored, handler, effects, outcome>> PROVE KeyInv'
    BY <1>1, <1>5 DEF KeyInv, CommandsAreIdempotent, Slot
  <1>6. ASSUME NEW r \in Revision, TakeJob(r) \/ EndJob(r) PROVE Inv'
    <2>1. UNCHANGED <<stored, handler, effects, outcome>>
      BY <1>6 DEF TakeJob, EndJob
    <2>2. QED
      BY <1>1, <1>5, <1>6, <2>1, TakeJobTyped, TakeJobItem, EndJobTyped,
         EndJobItem
      DEF Inv
  <1>7. CASE PutPolicy
    <2>1. UNCHANGED <<stored, handler, effects, outcome, current, status, job,
                      request>>
      BY <1>7 DEF PutPolicy, tables
    <2>2. QED
      BY <1>1, <1>5, <1>7, <2>1, PutPolicyTyped, UnchangedItem DEF Inv
  <1>8. CASE UNCHANGED vars
    <2>1. UNCHANGED <<stored, handler, effects, outcome, current, status, job,
                      request>>
      BY <1>8 DEF vars, tables
    <2>2. Typed'
      BY <1>1, <1>8 DEF vars, tables, Typed
    <2>3. QED
      BY <1>1, <1>5, <2>1, <2>2, UnchangedItem DEF Inv
  <1>9. QED
    BY <1>2, <1>3, <1>4, <1>6, <1>7, <1>8 DEF Next

(* The invariant that the others follow from.                              *)
THEOREM WorkflowInvariant == Spec => []Inv
  <1>1. Init => Inv
    BY InvInit
  <1>2. Inv /\ [Next]_vars => Inv'
    BY InvStep
  <1>3. QED
    BY <1>1, <1>2, PTL DEF Spec

(* Every column keeps to its type, and nobody decides a request of his     *)
(* own, for any people, keys, handlers and revisions.                      *)
THEOREM WorkflowTypeCorrect == Spec => []TypeOK
  <1>1. Inv => TypeOK
    <2> SUFFICES ASSUME Inv PROVE TypeOK
      OBVIOUS
    <2>1. handler \in [Handler ->
            [pc : {"idle", "admitted", "answer"}, who : Person \cup {Nobody},
             key : Key \cup {Nobody}, cmd : Command \cup {"none"},
             rev : 0 .. MaxRev, answer : Answer]]
      BY DEF Inv, Typed, HandlerRow
    <2>2. QED
      BY <2>1 DEF Inv, ItemInv, TypeOK, Typed, Request, TargetRow
  <1>2. QED
    BY <1>1, WorkflowInvariant, PTL

(* An approval request is open exactly while the current revision waits    *)
(* for it.                                                                 *)
THEOREM PendingIsAlwaysCurrent == Spec => []PendingIsCurrent
  <1>1. Inv => PendingIsCurrent
    BY DEF Inv, ItemInv
  <1>2. QED
    BY <1>1, WorkflowInvariant, PTL

(* Only the current revision has work that no worker has begun.            *)
THEOREM QueuedIsAlwaysCurrent == Spec => []OnlyCurrentIsQueued
  <1>1. Inv => OnlyCurrentIsQueued
    BY DEF Inv, ItemInv
  <1>2. QED
    BY <1>1, WorkflowInvariant, PTL

(* A command is done once under its key, and answered with that once.      *)
THEOREM KeysAreIdempotent == Spec => []CommandsAreIdempotent
  <1>1. Inv => CommandsAreIdempotent
    BY DEF Inv, KeyInv
  <1>2. QED
    BY <1>1, WorkflowInvariant, PTL

(* A creator under the policy brings only to the queue what was approved.  *)
LEMMA StartsApproved ==
  ASSUME Inv, NEW r \in Revision, NEW h \in Handler, job[r] = "none",
         job'[r] = "queued", Handle(h), handler[h].who = Author, policy
  PROVE /\ request[r].status = "APPROVED"
        /\ request[r].decider \notin {Nobody, request[r].by}
  <1>1. Typed /\ ItemInv
    BY DEF Inv
  <1>2. Permitted(h) /\ \A q \in Revision \ {current} : job'[q] = job[q]
    <2>1. CASE Create(h) \/ Copy(h) \/ Submit(h) \/ Approve(h) \/ Reject(h)
      BY <2>1 DEF Create, Copy, tables, Submit, Approve, Reject, Decide
    <2>2. CASE Edit(h)
      BY <1>1, <2>2 DEF Edit, Dequeued, Typed
    <2>3. CASE Cancel(h)
      BY <1>1, <2>3 DEF Cancel, Dequeued, Typed
    <2>4. CASE Publish(h) \/ Schedule(h) \/ Retry(h)
      BY <1>1, <2>4 DEF Publish, Schedule, Retry, Start, Resolved, Typed
    <2>5. QED
      BY <2>1, <2>2, <2>3, <2>4 DEF Handle
  <1>3. r = current /\ status[current] = "APPROVED"
    BY <1>2 DEF Permitted, Resolved
  <1>4. QED
    BY <1>1, <1>3 DEF ItemInv

(* The approval policy is kept.                                            *)
THEOREM PolicyIsAlwaysKept == Spec => PolicyIsKept
  <1>1. Inv /\ [Next]_vars =>
          [\A r \in Revision : \A h \in Handler :
             job[r] = "none" /\ job'[r] = "queued"
               /\ Handle(h) /\ handler[h].who = Author /\ policy =>
             /\ request[r].status = "APPROVED"
             /\ request[r].decider \notin {Nobody, request[r].by}]_vars
    BY StartsApproved
  <1>2. QED
    BY <1>1, WorkflowInvariant, PTL DEF Spec, PolicyIsKept
=============================================================================
