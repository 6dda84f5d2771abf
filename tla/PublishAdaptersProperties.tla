---------------------- MODULE PublishAdaptersProperties ----------------------
(* What the adapters promise.                                              *)
EXTENDS PublishAdapters

(* A call that creates something is carried out at most once, whichever    *)
(* answers are lost, processes die and leases lapse                        *)
(* (content_publish_vk.go:92-98, 162-166, content_publish_youtube.go:90-96,*)
(* content_publish_instagram.go:69-76, 119-127).  The one exception is     *)
(* media_publish after a lease has lapsed under a worker that went on: the *)
(* pending result of the new owner takes the operation back to the         *)
(* container (content_publish_worker.go:393), with three workers at it.    *)
CallsAreMadeOnce ==
  \A c \in Intent : calls[c] > 1 => c = "dispatch" /\ stalled

(* A target is shown as published only when the provider has all of it:    *)
(* the whole upload, or a published container, and the wall post that was  *)
(* asked for (content_publish_worker.go:463-483).                          *)
SuccessIsComplete ==
  job.status = "SUCCEEDED" =>
    /\ calls[Creation] = 1
    /\ "INSTAGRAM" \in open => calls["dispatch"] > 0
    /\ ~("INSTAGRAM" \in open) => stored = Size
    /\ "wall" \in open => calls["wall"] = 1

(* A publication fails only for a reason: an answer was lost, something    *)
(* was refused or rejected, a process died when an intent was on record or *)
(* no operation, a session expired, or a lease lapsed under a worker.  A   *)
(* process that dies during an upload, a broken connection, an offset that *)
(* is not told and an expired URL do not fail it, and no upload is resumed *)
(* behind a gap (content_publish_youtube.go:170-224,                       *)
(* content_publish_vk.go:139-149, 223-238).                                *)
FailsForAReason == job.status = "FAILED" => blamed

(* The parts that a platform asks for, and those that are complete.  A     *)
(* container is processed before it is published; YouTube and VK process   *)
(* an upload when they please.                                             *)
Plan ==
  {"create"}
    \cup (IF "INSTAGRAM" \in open THEN {"process"} ELSE {"upload"})
    \cup (IF open \cap {"INSTAGRAM", "wall"} # {} THEN {"publish"} ELSE {})

Done ==
  {p \in Plan :
     CASE p = "create" -> calls[Creation] > 0
       [] p = "upload" -> stored = Size
       [] p = "process" -> ready = "done"
       [] p = "publish" -> IF "INSTAGRAM" \in open THEN calls["dispatch"] > 0
                           ELSE calls["wall"] > 0}

(* The operation on record, the parts and the success, as the abstract     *)
(* publication sees them.                                                  *)
Order == INSTANCE PublishInOrder WITH
  plan <- Plan, recorded <- op # NoOp, done <- Done,
  public <- job.status = "SUCCEEDED"

(* The adapters implement PublishInOrder: nothing is created before the    *)
(* target has an operation on record, no container is published before it  *)
(* is processed (content_publish_instagram.go:108-126), no wall post is    *)
(* made for half a video (content_publish_vk.go:150-181), and success is   *)
(* shown last and is final, with whatever executions repeat, overlap or    *)
(* break off (content_publish_worker.go:463-483).                          *)
ImplementsPublishInOrder == Order!Spec

(* A pending result is on record: nothing claims this job again            *)
(* (content_publish_worker.go:210, 224, 390-393; the divergence            *)
(* ProcessingIsPolled is about it).                                        *)
LeftPending ==
  /\ job.status = "RETRY_SCHEDULED" /\ job.target = "PROCESSING"
  /\ op # NoOp

(* Every publication settles: it ends, or is left pending with its         *)
(* operation on record.  No execution is repeated for ever, a job whose    *)
(* worker has died is taken over, and a target that waits for a retry or a *)
(* reconnect does not wait for ever.                                       *)
PublicationSettles ==
  <>[](job.status \in {"SUCCEEDED", "FAILED"} \/ LeftPending)
=============================================================================
