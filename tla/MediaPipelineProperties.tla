---------------------- MODULE MediaPipelineProperties ----------------------
(* What the media pipeline promises.                                       *)
EXTENDS MediaPipeline

(* The sessions that count against a user's quota never exceed it, however *)
(* many uploads are created at once (media_storage.go:281-299).            *)
QuotaIsKept == Cardinality(Active) <= MaxActive

(* Crashes and failures between the two stores, and the purge of every row *)
(* that knew of it, leave no multipart upload behind: an open one has a    *)
(* session the collector will visit, or a task of the outbox, or is being  *)
(* created (lifecycle.go:205-218 and 254-269).                             *)
UploadsAreTracked ==
  \A a \in Asset : upload[a] = "open" =>
    \/ a \in creating \/ session[a].status = "ACTIVE"
    \/ task[Abort(a)].status \in {"PENDING", "RUNNING"}

(* The source a user uploaded is known to some row for as long as it is    *)
(* stored: as the asset's key, as its temporary source, or as a task of    *)
(* the outbox (content_media_worker.go:618-620, lifecycle.go:219-230).     *)
SourcesAreTracked ==
  \A a \in Asset \cap objects :
    \/ asset[a].key = a \/ asset[a].temporary
    \/ task[Delete(a)].status \in {"PENDING", "RUNNING"}

(* Crashes, failures and purges lose track of nothing that is stored for a *)
(* user, the upload or its result.                                         *)
StorageIsTracked == UploadsAreTracked /\ SourcesAreTracked

(* The collector never declares an asset deleted, nor drops its key, while *)
(* a publish target refers to it, in whatever order the reference and the  *)
(* claim arrive (content_media_worker.go:344-356 and 510-514).             *)
ReferencedAreKept ==
  \A a \in Asset : Referenced(a) => asset[a].key # NoKey

(* An upload that awaits validation does not await it for ever, although   *)
(* the worker that claimed it may crash or stall                           *)
(* (content_media_worker.go:88-105).                                       *)
UploadsAreDecided ==
  \A a \in Asset :
    asset[a].status = "VALIDATING" ~> asset[a].status # "VALIDATING"

-----------------------------------------------------------------------------
(* What documents and comments say, and the code does not do.              *)

(* "Never delete READY media used by a revision or a published target":    *)
(* the object of a READY asset that a target refers to is there            *)
(* (docs/content-publishing-runbook.md:41-43).                             *)
UsedMediaIsStored ==
  \A a \in Asset : asset[a].status = "READY" /\ Referenced(a)
                     => asset[a].key \in objects
=============================================================================
