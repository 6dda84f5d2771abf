--------------------------- MODULE PublishAdapters ---------------------------
(***************************************************************************)
(* The adapters that publish one target on Instagram, YouTube and VK Video *)
(* (content_publish_instagram.go, content_publish_youtube.go,              *)
(* content_publish_vk.go) as the queue runs them                           *)
(* (content_publish_worker.go:296-402, 484-524).                           *)
(*                                                                         *)
(* A call that creates something is made at most once: the intent is       *)
(* written to the operation of the target before the call, by a            *)
(* compare-and-swap, and a later execution that finds the intent gives up. *)
(* An upload can be resumed: its session or URL is stored with the         *)
(* operation.  The operation is written by whoever executes, also by a     *)
(* worker that has lost its lease; the job only by the owner of the lease. *)
(*                                                                         *)
(* Operations are a phase and, for an upload, the number of its session or *)
(* URL; retries inside one call of a provider client are part of the call. *)
(***************************************************************************)
EXTENDS Naturals

CONSTANTS
  Worker,
  Nobody,
  Size,       \* bytes of the media
  Budget,     \* len(contentRetryBackoff)
  MaxUrls,    \* bound: sessions and upload URLs that the provider gives
  MaxFaults,  \* bound: lost answers, refusals, crashes, stalls, expiries
  Scopes      \* bound: the platform and the events of one behaviour

Platform == {"INSTAGRAM", "YOUTUBE", "VK"}

ASSUME AdaptersAssumption ==
  /\ Nobody \notin Worker
  /\ Size \in Nat \ {0} /\ Budget \in Nat \ {0}
  /\ MaxUrls \in Nat \ {0} /\ MaxFaults \in Nat
  /\ Scopes \subseteq SUBSET (Platform \cup {"wall", "crash", "stall"})
  /\ \A s \in Scopes : /\ \E p \in Platform : s \cap Platform = {p}
                       /\ "wall" \in s => "VK" \in s

VARIABLES
  open,    \* the scope of this behaviour
  job,     \* content_publish_jobs, with the status of its target
  op,      \* content_publish_targets.provider_operation_id
  resume,  \* provider_resume_ciphertext: the session or URL in it, or 0
  worker,
  calls,   \* history: how often the provider has carried out a call
  stored,  \* bytes that the provider has
  ready,   \* the container or the video at the provider
  urls,    \* sessions and upload URLs that the provider has given
  live,    \* those that have not expired
  faults,
  stalled, \* history: a lease has lapsed under a worker that went on
  blamed   \* history: something happened that justifies a failure

vars == <<open, job, op, resume, worker, calls, stored, ready, urls, live,
          faults, stalled, blamed>>
provider == <<calls, stored, ready, urls, live>>
history == <<faults, stalled, blamed>>
target == <<op, resume>>

Intent == {"create", "dispatch", "init", "save", "wall"}
Phase == Intent \cup {"none", "container", "media", "session", "upload",
                      "video", "posted"}

Operation == [phase : Phase, url : 0 .. MaxUrls]
Op(phase) == [phase |-> phase, url |-> 0]
Upload(phase, url) == [phase |-> phase, url |-> url]
NoOp == Op("none")

(* target: the status of the target, which the claim asks for as well.  A  *)
(* publication begins READY here; a SCHEDULED one is claimed in the same   *)
(* way once it is due.                                                     *)
JobRow ==
  [status : {"READY", "RUNNING", "RETRY_SCHEDULED", "FAILED", "SUCCEEDED"},
   target : {"READY", "PUBLISHING", "PROCESSING", "RETRY_SCHEDULED",
             "WAITING_FOR_REAUTH", "FAILED", "SUCCEEDED"},
   owner : Worker \cup {Nobody}, lease : BOOLEAN, tries : 0 .. Budget]

(* known: the job was claimed with an operation; op: the operation of the  *)
(* request; url: the session or URL in hand; next: the offset of it; kind  *)
(* and out: the result.                                                    *)
Idle == [pc |-> "idle", known |-> FALSE, op |-> NoOp, url |-> 0,
         next |-> 0, kind |-> "none", out |-> NoOp]
WorkerRow ==
  [pc : {"idle", "begin", "intend", "call", "answered", "query", "send",
         "expired", "refreshed", "uploaded", "finish"},
   known : BOOLEAN, op : Operation, url : 0 .. MaxUrls, next : 0 .. Size,
   kind : {"none", "success", "pending", "retryable", "auth", "permanent"},
   out : Operation]

(* Every row keeps to its type.  A stored session or URL is that of the    *)
(* operation, unless a worker without a lease wrote one of them.           *)
TypeOK ==
  /\ open \in Scopes /\ job \in JobRow /\ op \in Operation
  /\ resume \in 0 .. MaxUrls /\ worker \in [Worker -> WorkerRow]
  /\ calls \in [Intent -> 0 .. 2] /\ stored \in 0 .. Size
  /\ ready \in {"none", "processing", "done", "rejected"}
  /\ urls \in 0 .. MaxUrls /\ live \subseteq 1 .. urls
  /\ faults \in 0 .. MaxFaults /\ stalled \in BOOLEAN /\ blamed \in BOOLEAN
  /\ resume # 0 /\ ~stalled => op = Upload(op.phase, resume)

Init ==
  /\ open \in Scopes
  /\ job = [status |-> "READY", target |-> "READY", owner |-> Nobody,
            lease |-> FALSE, tries |-> 0]
  /\ op = NoOp /\ resume = 0
  /\ worker = [w \in Worker |-> Idle]
  /\ calls = [c \in Intent |-> 0] /\ stored = 0 /\ ready = "none"
  /\ urls = 0 /\ live = {}
  /\ faults = 0 /\ stalled = FALSE /\ blamed = FALSE

At(w, pc) == worker[w].pc = pc
Step(w, row) == worker' = [worker EXCEPT ![w] = row]
Goes(w, pc) == Step(w, [worker[w] EXCEPT !.pc = pc])
Ends(w, kind, out) ==
  Step(w, [worker[w] EXCEPT !.pc = "finish", !.kind = kind, !.out = out])

(* A fault that explains why the publication may fail in the end, or one   *)
(* that does not.                                                          *)
Fault(excuse) ==
  /\ faults < MaxFaults /\ faults' = faults + 1
  /\ blamed' = (blamed \/ excuse) /\ UNCHANGED stalled

-----------------------------------------------------------------------------
(* The queue.                                                              *)

(* Slip: a job whose worker died is not claimed again.                     *)
NotRunning ==
  /\ job.status \in {"READY", "RETRY_SCHEDULED"}
  /\ job.target \in {"READY", "SCHEDULED", "RETRY_SCHEDULED"}

(* A target that is PROCESSING or waits for a reconnect is not claimed,    *)
(* whatever its job says, unless a worker died over it.                    *)
Claimable ==
  \/ /\ job.status \in {"READY", "RETRY_SCHEDULED"}
     /\ job.target \in {"READY", "SCHEDULED", "RETRY_SCHEDULED"}
  \/ job.status = "RUNNING" /\ ~job.lease

(* A job whose last execution has left no operation is given up            *)
(* (RecoveryUncertain).  The second query of the claim, for the target,    *)
(* accepts whatever the first has selected.                                *)
claimContentPublish(w) ==
  LET lost == job.status = "RUNNING" /\ op = NoOp
  IN  /\ At(w, "idle") /\ Claimable
      /\ job' = [job EXCEPT !.status = "RUNNING",
                   !.target = IF op = NoOp THEN "PUBLISHING" ELSE "PROCESSING",
                   !.owner = w, !.lease = TRUE]
      /\ Step(w, [Idle EXCEPT !.pc = IF lost THEN "finish" ELSE "begin",
                              !.kind = IF lost THEN "permanent" ELSE "none",
                              !.known = op # NoOp, !.op = op])
      /\ UNCHANGED <<open, target>> /\ UNCHANGED provider
      /\ UNCHANGED history

Owns(w) == job.status = "RUNNING" /\ job.owner = w

(* COALESCE(NULLIF(result, ''), provider_operation_id), whoever has        *)
(* written it since.                                                       *)
Coalesced(out) == IF out = NoOp THEN op ELSE out

Released(status, shown, tries) ==
  [status |-> status, target |-> shown, owner |-> Nobody, lease |-> FALSE,
   tries |-> tries]

(* finishContentPublish with finishSuccessfulPublish, finishPendingPublish *)
(* and finishFailedPublish.  A pending result leaves the target PROCESSING.*)
finishContentPublish(w) ==
  LET r == worker[w]
      pending == \/ r.kind = "pending" /\ (r.out # NoOp \/ r.known)
                 \/ r.kind = "retryable" /\ r.known
      again == r.kind = "retryable" /\ ~r.known /\ job.tries < Budget
      later(shown, tries) == Released("RETRY_SCHEDULED", shown, tries)
  IN  /\ At(w, "finish")
      /\ IF Owns(w)
         THEN /\ job' = CASE r.kind = "success" ->
                               Released("SUCCEEDED", "SUCCEEDED", job.tries)
                          [] pending -> later("PROCESSING", job.tries)
                          [] r.kind = "auth" ->
                               later("WAITING_FOR_REAUTH", job.tries)
                          [] again -> later("RETRY_SCHEDULED", job.tries + 1)
                          [] OTHER -> Released("FAILED", "FAILED", job.tries)
              /\ op' = Coalesced(r.out)
         ELSE UNCHANGED <<job, op>>
      /\ Step(w, Idle)
      /\ UNCHANGED <<open, resume>> /\ UNCHANGED provider /\ UNCHANGED history

(* ResumeContentPublishAfterReconnect, or the deadline of 24 hours.        *)
ReauthEnds(status) ==
  /\ job.status = "RETRY_SCHEDULED" /\ job.target = "WAITING_FOR_REAUTH"
  /\ job' = Released(status, status, job.tries)
  /\ blamed' = (blamed \/ status = "FAILED")
  /\ UNCHANGED <<open, worker, faults, stalled>>
  /\ UNCHANGED target /\ UNCHANGED provider

(* The process dies.  What an execution may have done without a trace      *)
(* justifies a failure: no operation yet, or an intent.                    *)
Crash(w) ==
  /\ "crash" \in open /\ ~At(w, "idle")
  /\ Fault(Owns(w) /\ op.phase \in Intent \cup {"none"})
  /\ Step(w, Idle)
  /\ UNCHANGED <<open, job>> /\ UNCHANGED target /\ UNCHANGED provider

LeaseExpires ==
  /\ job.status = "RUNNING" /\ job.lease
  /\ At(job.owner, "idle")
  /\ job' = [job EXCEPT !.lease = FALSE]
  /\ UNCHANGED <<open, worker>> /\ UNCHANGED target
  /\ UNCHANGED provider /\ UNCHANGED history

(* The heartbeat fails, and the worker goes on.                            *)
Stall ==
  /\ "stall" \in open /\ job.status = "RUNNING" /\ job.lease
  /\ ~At(job.owner, "idle")
  /\ faults < MaxFaults /\ faults' = faults + 1
  /\ stalled' = TRUE /\ blamed' = TRUE
  /\ job' = [job EXCEPT !.lease = FALSE]
  /\ UNCHANGED <<open, worker>> /\ UNCHANGED target /\ UNCHANGED provider

-----------------------------------------------------------------------------
(* The operation of the target.                                            *)

(* Slip: it is written whatever it has become.                             *)
Anyway(w) == TRUE

(* COALESCE(provider_operation_id, '') is the operation of the request;    *)
(* the VK adapter also accepts an empty one.                               *)
Expected(w) == op = worker[w].op \/ ("VK" \in open /\ op = NoOp)

(* Slip: the stored session or URL is left as it is.                       *)
OperationOnly(new) == op' = new /\ UNCHANGED resume

(* persistOperation and persist drop the stored session or URL, ...        *)
Persist(new) == op' = new /\ resume' = 0

(* ... and persistProviderResume stores it with the operation.             *)
PersistResume(new) == op' = new /\ resume' = new.url

(* What a failed write of the operation comes to.                          *)
Unpersisted(w, out) ==
  IF "INSTAGRAM" \in open THEN Ends(w, "permanent", out)
  ELSE Ends(w, "retryable", NoOp)

Calls == UNCHANGED <<open, job>> /\ UNCHANGED target
Quiet == UNCHANGED <<open, job>> /\ UNCHANGED provider /\ UNCHANGED history

-----------------------------------------------------------------------------
(* The calls that create something.                                        *)

Creation == CASE "INSTAGRAM" \in open -> "create"
              [] "YOUTUBE" \in open -> "init"
              [] "VK" \in open -> "save"

(* The media, the access token or the state at the provider cannot be had, *)
(* or the platform is switched off.                                        *)
Unavailable(w, kind) ==
  /\ At(w, "begin") /\ worker[w].op.phase \notin Intent
  /\ Fault(kind = "permanent") /\ Ends(w, kind, NoOp)
  /\ Calls /\ UNCHANGED provider

(* An execution that finds an intent gives up.                             *)
Uncertain(w) ==
  /\ At(w, "begin") /\ worker[w].op.phase \in Intent
  /\ Ends(w, "permanent", IF "VK" \in open THEN NoOp ELSE worker[w].op)
  /\ UNCHANGED target /\ Quiet

(* The intent is durable before the call.                                  *)
PersistIntent(w) ==
  LET intent == CASE At(w, "intend") -> "dispatch"
                  [] worker[w].op.phase = "video" -> "wall"
                  [] OTHER -> Creation
  IN  /\ \/ At(w, "intend")
         \/ At(w, "begin") /\ worker[w].op = NoOp
         \/ At(w, "begin") /\ worker[w].op.phase = "video"
              /\ "wall" \in open
      /\ IF Expected(w)
         THEN /\ Persist(Op(intent))
              /\ Step(w, [worker[w] EXCEPT !.pc = "call", !.op = Op(intent)])
         ELSE Unpersisted(w, NoOp) /\ UNCHANGED target
      /\ Quiet

(* What the provider does, and the session or URL that it gives.           *)
CarriedOut(c) ==
  /\ calls' = [calls EXCEPT ![c] = IF @ < 2 THEN @ + 1 ELSE @]
  /\ ready' = IF c = "create" THEN "processing" ELSE ready
  /\ IF c \in {"init", "save"}
     THEN urls < MaxUrls /\ urls' = urls + 1 /\ live' = live \cup {urls'}
     ELSE UNCHANGED <<urls, live>>
  /\ UNCHANGED stored

Answers(w) ==
  /\ At(w, "call") /\ CarriedOut(worker[w].op.phase)
  /\ Step(w, [worker[w] EXCEPT !.pc = "answered", !.url = urls'])
  /\ Calls /\ UNCHANGED history

(* No answer, or 429 or 5xx.  A call of media_publish is polled again, and *)
(* then given up.                                                          *)
AnswerIsLost(w) ==
  LET c == worker[w].op.phase
  IN  /\ At(w, "call") /\ Fault(TRUE)
      /\ CarriedOut(c) \/ UNCHANGED provider
      /\ CASE c = "dispatch" -> Ends(w, "retryable", worker[w].op)
           [] c \in {"create", "init"} -> Ends(w, "permanent", worker[w].op)
           [] OTHER -> Ends(w, "permanent", NoOp)
      /\ Calls

(* A refusal: 401 or 403, or another error.                                *)
Refuses(w, kind) ==
  /\ At(w, "call") /\ Fault(TRUE)
  /\ Ends(w, kind, IF "VK" \in open THEN NoOp ELSE worker[w].op)
  /\ Calls /\ UNCHANGED provider

(* The operation of the request after persistResume (r, op).               *)
Carries(w, new) == IF "VK" \in open THEN worker[w].op ELSE new

(* The answer is persisted.  An upload goes on in the same execution; the  *)
(* media id of Instagram is left to the queue.                             *)
PersistAnswer(w) ==
  LET c == worker[w].op.phase
      new == CASE c = "create" -> Op("container")
               [] c = "dispatch" -> Op("media")
               [] c = "init" -> Upload("session", worker[w].url)
               [] c = "save" -> Upload("upload", worker[w].url)
               [] c = "wall" -> Op("posted")
  IN  /\ At(w, "answered")
      /\ \/ /\ c = "dispatch"
            /\ Ends(w, "pending", new) /\ UNCHANGED target
         \/ /\ c \in {"create", "wall"} /\ Expected(w)
            /\ Persist(new)
            /\ Ends(w, IF c = "wall" THEN "success" ELSE "pending", new)
         \/ /\ c \in {"init", "save"} /\ op = worker[w].op
            /\ PersistResume(new)
            /\ Step(w, [worker[w] EXCEPT
                 !.pc = IF c = "init" THEN "query" ELSE "send",
                 !.op = Carries(w, new)])
         \/ /\ c # "dispatch" /\ op # worker[w].op
            /\ ~(c = "wall" /\ Expected(w))
            /\ Unpersisted(w, worker[w].op) /\ UNCHANGED target
      /\ Quiet

-----------------------------------------------------------------------------
(* What a later execution asks the provider.                               *)

(* Slip: a container is published unless it was rejected.                  *)
NotRejected == ready # "rejected"

(* FINISHED, READY and PUBLISHED.                                          *)
Finished == ready = "done"

(* A container or a video is looked up.  YouTube counts UPLOADED as done.  *)
Poll(w) ==
  LET phase == worker[w].op.phase
  IN  /\ At(w, "begin") /\ ~("VK" \in open)
      /\ \/ phase \in {"container", "video"} /\ ready = "processing"
            /\ Ends(w, "pending", worker[w].op)
         \/ phase = "container" /\ Finished /\ Goes(w, "intend")
         \/ phase = "video" /\ ready # "rejected"
            /\ Ends(w, "success", worker[w].op)
         \/ phase \in {"container", "video"} /\ ready = "rejected"
            /\ Ends(w, "permanent", NoOp)
         \/ phase = "media" /\ Ends(w, "success", worker[w].op)
      /\ UNCHANGED target /\ Quiet

PollVK(w) ==
  LET phase == worker[w].op.phase
  IN  /\ At(w, "begin") /\ "VK" \in open
      /\ phase = "posted" \/ (phase = "video" /\ ~("wall" \in open))
      /\ Ends(w, "success", worker[w].op)
      /\ UNCHANGED target /\ Quiet

(* loadProviderResume finds the session or URL of this operation, or the   *)
(* publication fails.                                                      *)
LoadResume(w) ==
  /\ At(w, "begin") /\ worker[w].op.phase \in {"session", "upload"}
  /\ IF op = worker[w].op /\ resume # 0
     THEN Step(w, [worker[w] EXCEPT
            !.pc = IF "VK" \in open THEN "send" ELSE "query",
            !.url = resume])
     ELSE Ends(w, "permanent", NoOp)
  /\ UNCHANGED target /\ Quiet

-----------------------------------------------------------------------------
(* Uploads.                                                                *)

(* Slip: the byte after the first missing one.                             *)
CountedTwice == stored + 1

(* parseRange gives the last byte that the session has.                    *)
FirstMissing == stored

ParamOp(w) ==
  Upload(IF "VK" \in open THEN "upload" ELSE "session", worker[w].url)

(* resumeUpload asks for the offset first.  An answer that the upload is   *)
(* complete carries the video; an offset with nothing left to send is      *)
(* pending.                                                                *)
QueryOffset(w) ==
  /\ At(w, "query")
  /\ \/ worker[w].url \notin live /\ Ends(w, "permanent", NoOp)
     \/ worker[w].url \in live /\ stored = Size /\ Goes(w, "uploaded")
     \/ /\ worker[w].url \in live /\ FirstMissing < Size
        /\ Step(w, [worker[w] EXCEPT !.pc = "send", !.next = FirstMissing])
     \/ /\ worker[w].url \in live /\ FirstMissing >= Size
        /\ Ends(w, "pending", ParamOp(w))
  /\ UNCHANGED target /\ Quiet

(* Any other answer leaves the offset at the first byte, and the whole     *)
(* media is sent.                                                          *)
OffsetUnknown(w) ==
  /\ At(w, "query") /\ Fault(FALSE)
  /\ Step(w, [worker[w] EXCEPT !.pc = "send", !.next = 0])
  /\ Calls /\ UNCHANGED provider

(* The session or URL is valid, and the bytes to be sent leave no gap.     *)
Takes(w) == worker[w].url \in live /\ worker[w].next <= stored

(* 2xx, and not 308, answers the last byte.                                *)
Complete(bytes) == bytes = Size

(* Bytes arrive at the provider from the offset on, those that it has once *)
(* more.  VK takes the whole video or nothing.                             *)
Arrives(w, bytes) ==
  /\ "VK" \in open => bytes \in {stored, Size}
  /\ stored' = bytes
  /\ ready' = IF bytes = Size /\ ready = "none" THEN "processing" ELSE ready
  /\ UNCHANGED <<calls, urls, live>>

SendBytes(w, bytes) ==
  /\ At(w, "send") /\ Takes(w) /\ bytes \in stored .. Size
  /\ Arrives(w, bytes)
  /\ IF Complete(bytes)
     THEN Goes(w, "uploaded") /\ UNCHANGED history
     ELSE "YOUTUBE" \in open /\ Ends(w, "pending", ParamOp(w)) /\ Fault(FALSE)
  /\ Calls

(* The connection breaks: pending with the operation.                      *)
BreaksOff(w, bytes) ==
  /\ \/ At(w, "query") /\ UNCHANGED provider
     \/ /\ At(w, "send") /\ Takes(w)
        /\ bytes \in stored .. Size /\ Arrives(w, bytes)
  /\ Ends(w, "pending", ParamOp(w)) /\ Fault(FALSE) /\ Calls

(* 401, 5xx, or another refusal.                                           *)
UploadRefused(w, kind) ==
  /\ At(w, "query") \/ At(w, "send")
  /\ Ends(w, kind, NoOp) /\ Fault(kind = "permanent")
  /\ Calls /\ UNCHANGED provider

(* An expired session, or bytes that leave a gap, end the publication; an  *)
(* expired URL is refreshed by video.save with the id of the video.        *)
UrlIsGone(w) ==
  /\ At(w, "send") /\ ~Takes(w)
  /\ IF "VK" \in open THEN Goes(w, "expired")
     ELSE Ends(w, "permanent", NoOp)
  /\ UNCHANGED target /\ Quiet

Refresh(w) ==
  /\ At(w, "expired")
  /\ \/ /\ urls < MaxUrls /\ urls' = urls + 1
        /\ live' = live \cup {urls'}
        /\ Step(w, [worker[w] EXCEPT !.pc = "refreshed", !.url = urls'])
        /\ UNCHANGED <<calls, stored, ready>> /\ UNCHANGED history
     \/ Ends(w, "permanent", NoOp) /\ Fault(TRUE) /\ UNCHANGED provider
  /\ Calls

PersistRefreshed(w) ==
  LET new == Upload("upload", worker[w].url)
  IN  /\ At(w, "refreshed")
      /\ IF op = worker[w].op
         THEN /\ PersistResume(new)
              /\ Step(w, [worker[w] EXCEPT !.pc = "send", !.op = new])
         ELSE Ends(w, "retryable", NoOp) /\ UNCHANGED target
      /\ Quiet

(* The operation becomes that of the video.  In the execution that saved a *)
(* video of VK the request still carries the intent, and this fails.       *)
PersistVideo(w) ==
  /\ At(w, "uploaded")
  /\ IF Expected(w)
     THEN Persist(Op("video")) /\ Ends(w, "pending", Op("video"))
     ELSE Unpersisted(w, NoOp) /\ UNCHANGED target
  /\ Quiet

-----------------------------------------------------------------------------
(* The provider goes on by itself.                                         *)

Processes(state) ==
  /\ ready = "processing" /\ ready' = state
  /\ IF state = "rejected" THEN Fault(TRUE) ELSE UNCHANGED history
  /\ UNCHANGED <<worker, calls, stored, urls, live>> /\ Calls

(* Only the expiry of a session is the end of a publication.               *)
UrlExpires(url) ==
  /\ url \in live /\ live' = live \ {url}
  /\ Fault("YOUTUBE" \in open)
  /\ UNCHANGED <<worker, calls, stored, ready, urls>> /\ Calls

-----------------------------------------------------------------------------
Execute(w) ==
  \/ Uncertain(w) \/ PersistIntent(w) \/ Answers(w) \/ PersistAnswer(w)
  \/ Poll(w) \/ PollVK(w) \/ LoadResume(w) \/ QueryOffset(w)
  \/ SendBytes(w, Size) \/ UrlIsGone(w) \/ Refresh(w) \/ PersistRefreshed(w)
  \/ PersistVideo(w) \/ finishContentPublish(w)

Fails(w) ==
  \/ \E kind \in {"auth", "retryable", "permanent"} :
       Unavailable(w, kind) \/ UploadRefused(w, kind)
  \/ AnswerIsLost(w) \/ OffsetUnknown(w)
  \/ \E kind \in {"auth", "permanent"} : Refuses(w, kind)
  \/ \E bytes \in 0 .. Size : SendBytes(w, bytes) \/ BreaksOff(w, bytes)
  \/ Crash(w)

Next ==
  \/ \E w \in Worker : claimContentPublish(w) \/ Execute(w) \/ Fails(w)
  \/ LeaseExpires \/ Stall
  \/ \E url \in 1 .. MaxUrls : UrlExpires(url)
  \/ \E status \in {"READY", "FAILED"} : ReauthEnds(status)
  \/ \E state \in {"done", "rejected"} : Processes(state)

Spec == Init /\ [][Next]_vars

(* The workers go on and claim every few seconds, a lease runs out, and a  *)
(* reauthorization has a deadline; faults are bounded.                     *)
FairSpec ==
  /\ Spec
  /\ \A w \in Worker : WF_vars(Execute(w))
  /\ WF_vars(\E w \in Worker : claimContentPublish(w))
  /\ WF_vars(LeaseExpires) /\ WF_vars(ReauthEnds("FAILED"))
=============================================================================
