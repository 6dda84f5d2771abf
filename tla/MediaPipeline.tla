--------------------------- MODULE MediaPipeline ---------------------------
(***************************************************************************)
(* A video from its upload to its removal (media_storage.go,               *)
(* content_media_worker.go and the media half of lifecycle.go), across two *)
(* stores that share no transaction: PostgreSQL and the object storage.    *)
(*                                                                         *)
(* A handler or a worker takes effect on the storage while it holds a row  *)
(* lock, and commits or rolls back in a later step; what the storage did   *)
(* stays done.  Workers claim a row under a lease, may stall past it, and  *)
(* may crash at any point.  A generation is the identity of one claim: as  *)
(* a worker makes one claim at a time, the row names the worker.           *)
(*                                                                         *)
(* An object is known by its key: the temporary key of an upload is the    *)
(* asset itself, and the immutable key of a video is its digest.           *)
(***************************************************************************)
EXTENDS Naturals, FiniteSets

CONSTANTS
  Asset,      \* rows of media_assets, each uploaded by one creator
  Digest,     \* SHA-256 of a video
  DigestOf,   \* the video behind each asset
  Company,
  CompanyOf,  \* the company of each asset; all are of one workspace
  Worker,     \* worker processes
  Nobody,
  MaxActive,  \* bound: mediaUploadMaxActorSessions
  MaxFaults,  \* bound: crashes, stalls and failures of one behaviour
  Scopes      \* bound: the uploads and the events of one behaviour

Event == {"abort", "attach", "archive", "purge", "creator", "actor",
          "workspace"}

ASSUME MediaAssumption ==
  /\ DigestOf \in [Asset -> Digest] /\ CompanyOf \in [Asset -> Company]
  /\ Nobody \notin Worker /\ Asset \cap Digest = {}
  /\ MaxActive \in Nat /\ MaxFaults \in Nat
  /\ Scopes \subseteq SUBSET (Asset \cup Event)

VARIABLES
  open,      \* the scope
  asset,     \* media_assets
  session,   \* media_upload_sessions, one for an asset
  task,      \* media_cleanup_tasks, by task_key
  target,    \* content_publish_targets.media_asset_id: who refers to an asset
  archived,  \* companies.archived_at
  upload,    \* the storage's multipart uploads
  objects,   \* the keys that hold an object
  creating,  \* uploads whose transaction is open
  job,       \* what each worker has claimed
  faults

tables == <<asset, session, task, target, archived, open>>
storage == <<upload, objects>>
vars == <<tables, storage, creating, job, faults>>

NoKey == "NULL"
Key == Asset \cup Digest
(* A column that holds a key is not NULL.                                  *)
ASSUME KeyAssumption == NoKey \notin Key

Abort(a) == <<"ABORT_MULTIPART", a>>
Delete(k) == <<"DELETE_OBJECT", k>>
Task == {Abort(a) : a \in Asset} \cup {Delete(k) : k \in Key}

Lease == [by : Worker \cup {Nobody}, live : BOOLEAN]
Unleased == [by |-> Nobody, live |-> FALSE]
LeasedTo(w) == [by |-> w, live |-> TRUE]
(* lease_until IS NULL OR lease_until < now(): the row may be claimed.     *)
Free(lease) == ~lease.live
Idle == [kind |-> "none", id |-> NoKey, key |-> NoKey, acted |-> FALSE,
         ready |-> FALSE]
Due == {"REJECTED", "DELETE_PENDING"}

(* Every row, lease and claim keeps to its type, and an asset is READY     *)
(* under the digest of its own video.                                      *)
TypeOK ==
  /\ open \in Scopes
  /\ asset \in [Asset ->
       [status : {"ABSENT", "UPLOADING", "VALIDATING", "READY", "REJECTED",
                  "DELETE_PENDING", "DELETED", "PURGED"},
        key : Key \cup {NoKey}, temporary : BOOLEAN, due : BOOLEAN,
        old : BOOLEAN, validation : Lease, cleanup : Lease]]
  /\ session \in [Asset ->
       [status : {"NONE", "ACTIVE", "COMPLETED", "ABORTED", "EXPIRED"},
        expired : BOOLEAN, cleanup : Lease, locked : BOOLEAN]]
  /\ task \in [Task ->
       [status : {"NONE", "PENDING", "RUNNING", "COMPLETE"}, lease : Lease]]
  /\ target \in [Asset -> {"none", "attaching", "open", "done"}]
  /\ archived \in [Company -> BOOLEAN]
  /\ upload \in [Asset -> {"none", "open", "done", "gone", "leaked"}]
  /\ objects \subseteq Key /\ creating \subseteq Asset
  /\ job \in [Worker ->
       [kind : {"none", "VALIDATE", "TASK", "MULTIPART", "TEMP", "OBJECT"},
        id : Asset \cup Task \cup {NoKey}, key : Key \cup {NoKey},
        acted : BOOLEAN, ready : BOOLEAN]]
  /\ faults \in 0 .. MaxFaults
  /\ \A a \in Asset :
       asset[a].status = "READY" => asset[a].key = DigestOf[a]

Init ==
  /\ open \in Scopes
  /\ asset = [a \in Asset |->
       [status |-> "ABSENT", key |-> NoKey, temporary |-> FALSE,
        due |-> FALSE, old |-> FALSE, validation |-> Unleased,
        cleanup |-> Unleased]]
  /\ session = [a \in Asset |-> [status |-> "NONE", expired |-> FALSE,
                                 cleanup |-> Unleased, locked |-> FALSE]]
  /\ task = [t \in Task |-> [status |-> "NONE", lease |-> Unleased]]
  /\ target = [a \in Asset |-> "none"]
  /\ archived = [c \in Company |-> FALSE]
  /\ upload = [a \in Asset |-> "none"] /\ objects = {} /\ creating = {}
  /\ job = [w \in Worker |-> Idle] /\ faults = 0

-----------------------------------------------------------------------------
(* Row locks and quota.                                                    *)

Acting(kinds, i) ==
  \E w \in Worker : job[w].acted /\ job[w].kind \in kinds /\ job[w].id = i
AssetLocked(a) == Acting({"VALIDATE", "TEMP", "OBJECT"}, a)
SessionLocked(a) == session[a].locked \/ Acting({"MULTIPART"}, a)
TaskLocked(t) == Acting({"TASK"}, t)
Unlocked(a) == ~AssetLocked(a) /\ ~SessionLocked(a)

Active == {a \in Asset : session[a].status = "ACTIVE" /\ ~session[a].expired}
mediaUploadQuotaExceeded == Cardinality(Active) >= MaxActive

Fault == faults < MaxFaults /\ faults' = faults + 1

-----------------------------------------------------------------------------
(* The upload handlers.                                                    *)

\* Slip: two creations count the sessions before either inserts its own.
CreateAtOnce(a) ==
  /\ asset[a].status = "ABSENT" /\ upload[a] = "none"
  /\ ~archived[CompanyOf[a]] /\ ~mediaUploadQuotaExceeded
  /\ creating' = creating \cup {a}
  /\ upload' = [upload EXCEPT ![a] = "open"]
  /\ UNCHANGED <<tables, objects, job, faults>>

(* The advisory lock is held from the count to the commit.  The multipart  *)
(* upload is created inside the transaction.                               *)
CreateBegins(a) ==
  /\ asset[a].status = "ABSENT" /\ upload[a] = "none"
  /\ ~archived[CompanyOf[a]] /\ creating = {} /\ ~mediaUploadQuotaExceeded
  /\ creating' = {a}
  /\ upload' = [upload EXCEPT ![a] = "open"]
  /\ UNCHANGED <<tables, objects, job, faults>>

CreateCommits(a) ==
  /\ a \in creating /\ creating' = creating \ {a}
  /\ asset' = [asset EXCEPT ![a].status = "UPLOADING", ![a].key = a]
  /\ session' = [session EXCEPT ![a].status = "ACTIVE"]
  /\ UNCHANGED <<task, target, archived, open, storage, job, faults>>

(* The deferred abort compensates; a crash leaves the storage its upload,  *)
(* of which no row was ever committed.                                     *)
CreateFails(a, left) ==
  /\ a \in creating /\ Fault
  /\ creating' = creating \ {a}
  /\ upload' = [upload EXCEPT ![a] = left]
  /\ UNCHANGED <<tables, objects, job>>

(* Only an open upload has parts to list; the declared ones must match.    *)
validateUploadedMediaParts(a) == upload[a] = "open"

(* The session is locked, and the storage assembles the object.            *)
CompleteBegins(a) ==
  /\ session[a].status = "ACTIVE" /\ ~session[a].expired /\ Unlocked(a)
  /\ asset[a].key # NoKey /\ validateUploadedMediaParts(a)
  /\ session' = [session EXCEPT ![a].locked = TRUE]
  /\ upload' = [upload EXCEPT ![a] = "done"]
  /\ objects' = objects \cup {asset[a].key}
  /\ UNCHANGED <<asset, task, target, archived, open, creating, job, faults>>

Completed(a) ==
  session' = [session EXCEPT ![a].locked = FALSE, ![a].status = "COMPLETED"]
Given(a, status) ==
  [asset[a] EXCEPT !.status = status, !.due = FALSE]

CompleteCommits(a) ==
  /\ session[a].locked /\ ~AssetLocked(a) /\ Completed(a)
  /\ asset' = IF asset[a].status = "UPLOADING"
              THEN [asset EXCEPT ![a].status = "VALIDATING"] ELSE asset
  /\ UNCHANGED <<task, target, archived, open, storage, creating, job, faults>>

(* The commit failed, or reported a failure it did not have and no stored  *)
(* answer was found: the object is left for the collector.                 *)
CompleteFails(a, committed) ==
  /\ session[a].locked /\ ~AssetLocked(a) /\ Fault
  /\ IF committed THEN Completed(a)
     ELSE session' = [session EXCEPT ![a].locked = FALSE]
  /\ asset' = IF asset[a].status \in {"UPLOADING", "VALIDATING"}
              THEN [asset EXCEPT ![a] = Given(a, "DELETE_PENDING")]
              ELSE asset
  /\ UNCHANGED <<task, target, archived, open, storage, creating, job>>

(* The server stops before it can compensate.                              *)
CompleteCrashes(a) ==
  /\ session[a].locked /\ Fault
  /\ session' = [session EXCEPT ![a].locked = FALSE]
  /\ UNCHANGED <<asset, task, target, archived, open, storage, creating, job>>

Stopped(a) ==
  IF upload[a] = "open" THEN [upload EXCEPT ![a] = "gone"] ELSE upload

(* An upload the storage no longer has counts as aborted.  The transaction *)
(* may fail after the storage obeyed.                                      *)
abortMediaUpload(a, commits) ==
  /\ session[a].status = "ACTIVE" /\ Unlocked(a) /\ asset[a].key # NoKey
  /\ upload' = Stopped(a)
  /\ IF commits
     THEN /\ session' = [session EXCEPT ![a].status = "ABORTED"]
          /\ asset' = [asset EXCEPT ![a] = Given(a, "DELETE_PENDING")]
          /\ UNCHANGED faults
     ELSE Fault /\ UNCHANGED <<session, asset>>
  /\ UNCHANGED <<task, target, archived, open, objects, creating, job>>

-----------------------------------------------------------------------------
(* Time.                                                                   *)

Expire(a) ==
  /\ session[a].status = "ACTIVE" /\ ~session[a].expired
  /\ ~session[a].locked
  /\ session' = [session EXCEPT ![a].expired = TRUE]
  /\ UNCHANGED <<asset, task, target, archived, open, storage, creating, job,
                 faults>>

(* Seven days pass; a session lasts one.                                   *)
Grow(a) ==
  /\ session[a].status = "ACTIVE" => session[a].expired
  /\ \/ /\ asset[a].status \in Due /\ ~asset[a].due
        /\ asset' = [asset EXCEPT ![a].due = TRUE]
     \/ /\ asset[a].status = "READY" /\ ~asset[a].old
        /\ asset' = [asset EXCEPT ![a].old = TRUE]
  /\ UNCHANGED <<session, task, target, archived, open, storage, creating, job,
                 faults>>

-----------------------------------------------------------------------------
(* Leases.  The one of a crashed worker lapses in time; a worker at work   *)
(* keeps its own alive, unless it stalls.                                  *)

Working(w, kinds, i) == job[w].kind \in kinds /\ job[w].id = i
Lapsing(lease, kinds, i) ==
  /\ lease.live
  /\ IF Working(lease.by, kinds, i) THEN Fault ELSE UNCHANGED faults

Lapse ==
  /\ \/ \E a \in Asset :
          /\ Lapsing(asset[a].validation, {"VALIDATE"}, a)
          /\ asset' = [asset EXCEPT ![a].validation.live = FALSE]
          /\ UNCHANGED <<session, task>>
     \/ \E a \in Asset :
          /\ Lapsing(asset[a].cleanup, {"TEMP", "OBJECT"}, a)
          /\ asset' = [asset EXCEPT ![a].cleanup.live = FALSE]
          /\ UNCHANGED <<session, task>>
     \/ \E a \in Asset :
          /\ Lapsing(session[a].cleanup, {"MULTIPART"}, a)
          /\ session' = [session EXCEPT ![a].cleanup.live = FALSE]
          /\ UNCHANGED <<asset, task>>
     \/ \E t \in Task :
          /\ Lapsing(task[t].lease, {"TASK"}, t)
          /\ task' = [task EXCEPT ![t].lease.live = FALSE]
          /\ UNCHANGED <<asset, session>>
  /\ UNCHANGED <<target, archived, open, storage, creating, job>>

Took(w, kind, i, key) ==
  /\ job[w] = Idle
  /\ job' = [job EXCEPT ![w] = [Idle EXCEPT !.kind = kind, !.id = i,
                                            !.key = key]]
  /\ UNCHANGED <<target, archived, open, storage, creating, faults>>

-----------------------------------------------------------------------------
(* Validation.                                                             *)

\* Slip: a lease is taken for good.
ClaimNew(w, a) ==
  /\ asset[a].status = "VALIDATING" /\ asset[a].validation = Unleased
  /\ ~AssetLocked(a)
  /\ Took(w, "VALIDATE", a, asset[a].key)
  /\ asset' = [asset EXCEPT ![a].validation = LeasedTo(w)]
  /\ UNCHANGED <<session, task>>

claimMediaValidation(w, a) ==
  /\ asset[a].status = "VALIDATING" /\ Free(asset[a].validation)
  /\ ~AssetLocked(a)
  /\ Took(w, "VALIDATE", a, asset[a].key)
  /\ asset' = [asset EXCEPT ![a].validation = LeasedTo(w)]
  /\ UNCHANGED <<session, task>>

HoldsValidation(w, a) ==
  asset[a].status = "VALIDATING" /\ asset[a].validation = LeasedTo(w)

immutableExists(a) ==
  \E b \in Asset : asset[b].status = "READY" /\ asset[b].key = DigestOf[a]

(* Two installations of one digest are serialized.                         *)
Installing(a) ==
  \E w \in Worker : /\ job[w].acted /\ job[w].ready
                    /\ DigestOf[job[w].id] = DigestOf[a]

(* The source is read, measured and hashed; what cannot be read is unfit.  *)
validateMedia(w, fit) == fit => job[w].key \in objects

(* The row is locked, and a fit video copied unless the workspace has it.  *)
Install(w, fit) ==
  LET a == job[w].id IN
  /\ job[w].kind = "VALIDATE" /\ ~job[w].acted
  /\ HoldsValidation(w, a) /\ ~AssetLocked(a)
  /\ validateMedia(w, fit) /\ (fit => ~Installing(a))
  /\ job' = [job EXCEPT ![w].acted = TRUE, ![w].ready = fit]
  /\ objects' = IF fit /\ ~immutableExists(a)
                THEN objects \cup {DigestOf[a]} ELSE objects
  /\ UNCHANGED <<tables, upload, creating, faults>>

\* Slip: the asset becomes READY under its temporary key.
FinishInPlace(w) ==
  LET a == job[w].id IN
  /\ job[w].kind = "VALIDATE" /\ job[w].acted
  /\ asset' = [asset EXCEPT ![a] =
       IF job[w].ready
       THEN [@ EXCEPT !.status = "READY", !.temporary = TRUE,
                      !.validation = Unleased]
       ELSE [@ EXCEPT !.status = "REJECTED", !.due = FALSE,
                      !.validation = Unleased]]
  /\ job' = [job EXCEPT ![w] = Idle]
  /\ UNCHANGED <<session, task, target, archived, open, storage, creating,
                 faults>>

finishMediaValidation(w) ==
  LET a == job[w].id IN
  /\ job[w].kind = "VALIDATE" /\ job[w].acted
  /\ asset' = [asset EXCEPT ![a] =
       IF job[w].ready
       THEN [@ EXCEPT !.status = "READY", !.key = DigestOf[a],
                      !.temporary = TRUE, !.validation = Unleased]
       ELSE [@ EXCEPT !.status = "REJECTED", !.due = FALSE,
                      !.validation = Unleased]]
  /\ job' = [job EXCEPT ![w] = Idle]
  /\ UNCHANGED <<session, task, target, archived, open, storage, creating,
                 faults>>

-----------------------------------------------------------------------------
(* Collection.  A worker takes the first kind of work there is.            *)

TasksDue == {t \in Task : /\ task[t].status \in {"PENDING", "RUNNING"}
                          /\ Free(task[t].lease) /\ ~TaskLocked(t)}
SessionsDue == {a \in Asset :
  /\ session[a].status = "ACTIVE" /\ session[a].expired
  /\ Free(session[a].cleanup) /\ ~SessionLocked(a)}
TempDue == {a \in Asset :
  /\ asset[a].status = "READY" /\ asset[a].temporary
  /\ Free(asset[a].cleanup) /\ ~AssetLocked(a)}

Referenced(a) == target[a] \in {"open", "done"}
ObjectsDue == {a \in Asset :
  /\ \/ asset[a].status \in Due /\ asset[a].due
     \/ asset[a].status = "READY" /\ asset[a].old
  /\ asset[a].key # NoKey /\ ~Referenced(a)
  /\ Free(asset[a].cleanup) /\ ~AssetLocked(a)}

ClaimTask(w, t) ==
  /\ t \in TasksDue /\ Took(w, "TASK", t, t[2])
  /\ task' = [task EXCEPT ![t] = [status |-> "RUNNING",
                                  lease |-> LeasedTo(w)]]
  /\ UNCHANGED <<asset, session>>

(* A row whose asset has lost its key cannot be scanned: the pass ends     *)
(* with an error, whatever else there is to collect.                       *)
ClaimMultipart(w, a) ==
  /\ TasksDue = {} /\ a \in SessionsDue /\ asset[a].key # NoKey
  /\ Took(w, "MULTIPART", a, asset[a].key)
  /\ session' = [session EXCEPT ![a].cleanup = LeasedTo(w)]
  /\ UNCHANGED <<asset, task>>

Collecting(w, kind, a, key) ==
  /\ TasksDue = {} /\ SessionsDue = {} /\ Took(w, kind, a, key)
  /\ UNCHANGED <<session, task>>

ClaimTemp(w, a) ==
  /\ a \in TempDue /\ Collecting(w, "TEMP", a, a)
  /\ asset' = [asset EXCEPT ![a].cleanup = LeasedTo(w)]

\* Slip: the claim does not wait for a reference being added.
ClaimUnwaited(w, a) ==
  /\ TempDue = {} /\ a \in ObjectsDue
  /\ Collecting(w, "OBJECT", a, asset[a].key)
  /\ asset' = [asset EXCEPT ![a].status = "DELETE_PENDING", ![a].due = TRUE,
                            ![a].cleanup = LeasedTo(w)]

(* The claim waits for the lock of a reference being added, then looks for *)
(* references again.                                                       *)
ClaimObject(w, a) ==
  /\ TempDue = {} /\ a \in ObjectsDue /\ target[a] # "attaching"
  /\ Collecting(w, "OBJECT", a, asset[a].key)
  /\ asset' = [asset EXCEPT ![a].status = "DELETE_PENDING", ![a].due = TRUE,
                            ![a].cleanup = LeasedTo(w)]

claimMediaCleanup(w) ==
  \/ \E t \in Task : ClaimTask(w, t)
  \/ \E a \in Asset :
       ClaimMultipart(w, a) \/ ClaimTemp(w, a) \/ ClaimObject(w, a)

HoldsCleanup(w) ==
  LET i == job[w].id IN
  \/ /\ job[w].kind = "TASK" /\ ~TaskLocked(i)
     /\ task[i] = [status |-> "RUNNING", lease |-> LeasedTo(w)]
  \/ /\ job[w].kind = "MULTIPART" /\ ~SessionLocked(i)
     /\ session[i].status = "ACTIVE" /\ session[i].cleanup = LeasedTo(w)
  \/ /\ job[w].kind \in {"TEMP", "OBJECT"} /\ ~AssetLocked(i)
     /\ asset[i].cleanup = LeasedTo(w)

(* The row is locked and the storage obeys; what it no longer has counts   *)
(* as removed.                                                             *)
executeMediaCleanup(w) ==
  LET i == job[w].id IN
  /\ ~job[w].acted /\ HoldsCleanup(w)
  /\ job' = [job EXCEPT ![w].acted = TRUE]
  /\ IF job[w].kind = "MULTIPART"
     THEN upload' = Stopped(i) /\ UNCHANGED objects
     ELSE IF job[w].kind = "TASK" /\ i[1] = "ABORT_MULTIPART"
     THEN upload' = Stopped(i[2]) /\ UNCHANGED objects
     ELSE objects' = objects \ {job[w].key} /\ UNCHANGED upload
  /\ UNCHANGED <<tables, creating, faults>>

Kept == UNCHANGED <<target, archived, open, storage, creating>>
Unclaimed(a) == [asset[a] EXCEPT !.cleanup = Unleased]

TaskDone(w) ==
  /\ job[w].kind = "TASK"
  /\ task' = [task EXCEPT ![job[w].id] = [status |-> "COMPLETE",
                                          lease |-> Unleased]]
  /\ UNCHANGED <<asset, session>>

SessionDone(w) ==
  LET a == job[w].id IN
  /\ job[w].kind = "MULTIPART" /\ ~AssetLocked(a)
  /\ session' = [session EXCEPT ![a].status = "EXPIRED",
                                ![a].cleanup = Unleased]
  /\ asset' = IF asset[a].status = "UPLOADING"
              THEN [asset EXCEPT ![a] = Given(a, "DELETE_PENDING")]
              ELSE asset
  /\ UNCHANGED task

TempDone(w) ==
  LET a == job[w].id IN
  /\ job[w].kind = "TEMP" /\ asset[a].status = "READY"
  /\ asset' = [asset EXCEPT ![a] = [Unclaimed(a) EXCEPT !.temporary = FALSE]]
  /\ UNCHANGED <<session, task>>

ObjectDone(w) ==
  LET a == job[w].id IN
  /\ job[w].kind = "OBJECT" /\ asset[a].status = "DELETE_PENDING"
  /\ ~Referenced(a)
  /\ asset' = [asset EXCEPT ![a] = [Unclaimed(a) EXCEPT
                                      !.status = "DELETED", !.key = NoKey]]
  /\ UNCHANGED <<session, task>>

CleanupCommits(w) ==
  /\ job[w].acted /\ job' = [job EXCEPT ![w] = Idle]
  /\ \/ TaskDone(w) \/ SessionDone(w) \/ TempDone(w) \/ ObjectDone(w)
  /\ Kept /\ UNCHANGED faults

(* releaseMediaCleanup, fenced like the rest.                              *)
Released(w) ==
  LET i == job[w].id
      kind == job[w].kind IN
  /\ asset' = IF kind \in {"TEMP", "OBJECT"} /\ asset[i].cleanup.by = w
              THEN [asset EXCEPT ![i] = Unclaimed(i)] ELSE asset
  /\ session' = IF kind = "MULTIPART" /\ session[i].cleanup.by = w
                THEN [session EXCEPT ![i].cleanup = Unleased] ELSE session
  /\ task' = IF kind = "TASK" /\ task[i].lease.by = w
             THEN [task EXCEPT ![i] = [status |-> "PENDING",
                                       lease |-> Unleased]]
             ELSE task

(* The lease was lost, or the asset is no longer what was claimed: the     *)
(* transaction rolls back.                                                 *)
Refused(w) ==
  \/ /\ job[w].kind = "VALIDATE" /\ ~job[w].acted
     /\ ~HoldsValidation(w, job[w].id)
  \/ /\ job[w].kind \notin {"none", "VALIDATE"} /\ ~job[w].acted
     /\ ~HoldsCleanup(w)
  \/ job[w].acted /\ job[w].kind = "TEMP"
       /\ asset[job[w].id].status # "READY"
  \/ job[w].acted /\ job[w].kind = "OBJECT" /\ Referenced(job[w].id)

EndsRefused(w) ==
  /\ Refused(w) /\ Released(w) /\ Kept /\ UNCHANGED faults
  /\ job' = [job EXCEPT ![w] = Idle]

(* The storage or the database fails, before or after the storage obeyed.  *)
EndsFailed(w) ==
  /\ job[w] # Idle /\ Fault /\ Released(w) /\ Kept
  /\ job' = [job EXCEPT ![w] = Idle]

(* The process stops: its locks are gone, its lease is not.                *)
Crash(w) ==
  /\ job[w] # Idle /\ Fault /\ Kept /\ UNCHANGED <<asset, session, task>>
  /\ job' = [job EXCEPT ![w] = Idle]

-----------------------------------------------------------------------------
(* References to an asset, and the lifecycle of its owner.                 *)

Aside == UNCHANGED <<storage, creating, job, faults>>

(* The trigger takes the asset's lock and finds it READY; the reference    *)
(* shows when the transaction commits.                                     *)
Attach(a) ==
  /\ target[a] = "none" /\ asset[a].status = "READY"
  /\ ~archived[CompanyOf[a]]
  /\ target' = [target EXCEPT ![a] = "attaching"]
  /\ UNCHANGED <<asset, session, task, archived, open>> /\ Aside

AttachEnds(a, becomes) ==
  /\ target[a] = "attaching"
  /\ target' = [target EXCEPT ![a] = becomes]
  /\ UNCHANGED <<asset, session, task, archived, open>> /\ Aside

TargetSucceeds(a) ==
  /\ target[a] = "open" /\ target' = [target EXCEPT ![a] = "done"]
  /\ UNCHANGED <<asset, session, task, archived, open>> /\ Aside

Closed(a) == IF session[a].status = "ACTIVE"
             THEN [session[a] EXCEPT !.expired = TRUE] ELSE session[a]
Condemned(a) == [asset[a] EXCEPT !.status = "DELETE_PENDING", !.due = TRUE]
Existing == {a \in Asset : asset[a].status \notin {"ABSENT", "PURGED"}}
Of(c) == {a \in Existing : CompanyOf[a] = c}

(* What archiving hands to the collector.                                  *)
Disposable(a) ==
  /\ asset[a].status # "DELETED"
  /\ asset[a].status # "READY" \/ ~Referenced(a)

markArchivedMediaCleanup(c) ==
  /\ ~archived[c] /\ archived' = [archived EXCEPT ![c] = TRUE]
  /\ \A a \in creating : CompanyOf[a] # c
  /\ \A a \in Of(c) : Unlocked(a)
  /\ session' = [a \in Asset |-> IF a \in Of(c) THEN Closed(a)
                                 ELSE session[a]]
  /\ asset' = [a \in Asset |->
       IF a \in Of(c) /\ Disposable(a)
       THEN [Condemned(a) EXCEPT !.cleanup = Unleased] ELSE asset[a]]
  /\ UNCHANGED <<task, target, open>> /\ Aside

(* A deleted creator: what was published stays, every reference goes.      *)
tombstoneCreatorContentDomain(a) ==
  /\ a \in Existing /\ Unlocked(a)
  /\ session' = [session EXCEPT ![a] = Closed(a)]
  /\ asset' = IF \/ asset[a].status = "DELETED"
                 \/ asset[a].status = "READY" /\ target[a] = "done"
              THEN asset ELSE [asset EXCEPT ![a] = Condemned(a)]
  /\ target' = IF target[a] = "attaching" THEN target
               ELSE [target EXCEPT ![a] = "none"]
  /\ UNCHANGED <<task, archived, open>> /\ Aside

(* INSERT ... ON CONFLICT (task_key) DO NOTHING; the key may not be NULL.  *)
Enqueued(T) == [t \in Task |->
  IF t \in T /\ task[t].status = "NONE"
  THEN [status |-> "PENDING", lease |-> Unleased] ELSE task[t]]
Stoppable(S) == {a \in S : session[a].status = "ACTIVE"}
Nameable(S) == \A a \in Stoppable(S) : asset[a].key # NoKey

(* The user's other sessions go with the active ones.                      *)
purgeActorMediaUploadSessions(a) ==
  /\ a \in Existing /\ session[a].status # "NONE"
  /\ Unlocked(a) /\ Nameable({a})
  /\ task' = Enqueued({Abort(b) : b \in Stoppable({a})})
  /\ asset' = IF /\ session[a].status = "ACTIVE" /\ ~Referenced(a)
                 /\ asset[a].status # "DELETED"
              THEN [asset EXCEPT ![a] = [Condemned(a) EXCEPT
                                           !.cleanup = Unleased]]
              ELSE asset
  /\ session' = [session EXCEPT ![a].status = "NONE",
                                ![a].cleanup = Unleased]
  /\ UNCHANGED <<target, archived, open>> /\ Aside

\* Slip: only the objects under an asset's present key are recorded.
KeysOnly(S) ==
  {Delete(asset[a].key) : a \in {b \in S : asset[b].key # NoKey}}
    \cup {Abort(a) : a \in Stoppable(S)}

(* What is left in the storage of the assets of a scope: multipart         *)
(* uploads, temporary sources, and objects nobody outside refers to.       *)
RemoteOf(S) ==
  {Abort(a) : a \in Stoppable(S)}
    \cup {Delete(a) : a \in {b \in S : asset[b].temporary}}
    \cup {Delete(asset[a].key) : a \in {b \in S :
            /\ asset[b].key # NoKey
            /\ \A o \in Existing \ S : asset[o].key = asset[b].key
                                         => asset[o].status = "DELETED"}}

(* The remote work is recorded, and the rows go, in one transaction.       *)
Purge(S) ==
  /\ S # {} /\ creating = {} /\ Nameable(S)
  /\ \A a \in S : Unlocked(a) /\ target[a] # "attaching"
  /\ task' = Enqueued(RemoteOf(S))
  /\ asset' = [a \in Asset |->
       IF a \in S
       THEN [asset[a] EXCEPT !.status = "PURGED", !.key = NoKey,
               !.temporary = FALSE, !.due = FALSE, !.old = FALSE,
               !.validation = Unleased, !.cleanup = Unleased]
       ELSE asset[a]]
  /\ session' = [a \in Asset |->
       IF a \in S THEN [status |-> "NONE", expired |-> FALSE,
                        cleanup |-> Unleased, locked |-> FALSE]
       ELSE session[a]]
  /\ target' = [a \in Asset |-> IF a \in S THEN "none" ELSE target[a]]
  /\ Aside

purgeCompanyContentDomain(c) ==
  archived[c] /\ Purge(Of(c)) /\ UNCHANGED <<archived, open>>

purgeWorkspaceContentDomain ==
  /\ Purge(Existing) /\ UNCHANGED open
  /\ archived' = [c \in Company |-> TRUE]

-----------------------------------------------------------------------------
Upload(a) ==
  \/ a \in open /\ CreateBegins(a)
  \/ CreateCommits(a)
  \/ \E left \in {"gone", "leaked"} : CreateFails(a, left)
  \/ CompleteBegins(a) \/ CompleteCommits(a) \/ CompleteCrashes(a)
  \/ \E b \in BOOLEAN :
       \/ CompleteFails(a, b)
       \/ "abort" \in open /\ abortMediaUpload(a, b)
  \/ Expire(a) \/ Grow(a)

Lifecycle(a) ==
  \/ "attach" \in open /\ Attach(a)
  \/ TargetSucceeds(a)
  \/ \E becomes \in {"none", "open"} : AttachEnds(a, becomes)
  \/ "creator" \in open /\ tombstoneCreatorContentDomain(a)
  \/ "actor" \in open /\ purgeActorMediaUploadSessions(a)

Validate(w) ==
  \/ \E a \in Asset : claimMediaValidation(w, a)
  \/ \E fit \in BOOLEAN : Install(w, fit)
  \/ finishMediaValidation(w)
Collect(w) ==
  claimMediaCleanup(w) \/ executeMediaCleanup(w) \/ CleanupCommits(w)

Next ==
  \/ \E a \in Asset : Upload(a) \/ Lifecycle(a)
  \/ \E w \in Worker : \/ Validate(w) \/ Collect(w) \/ EndsRefused(w)
                       \/ EndsFailed(w) \/ Crash(w)
  \/ Lapse
  \/ \E c \in Company :
       \/ "archive" \in open /\ markArchivedMediaCleanup(c)
       \/ "purge" \in open /\ purgeCompanyContentDomain(c)
  \/ "workspace" \in open /\ purgeWorkspaceContentDomain

Spec == Init /\ [][Next]_vars

(* A worker loops for as long as it runs, and time passes.                 *)
Fairness ==
  /\ \A w \in Worker : /\ WF_vars(Validate(w))
                       /\ WF_vars(Collect(w))
                       /\ WF_vars(EndsRefused(w))
  /\ WF_vars(Lapse)
  /\ \A a \in Asset : /\ WF_vars(CompleteCommits(a))
                      /\ WF_vars(CreateCommits(a))

LiveSpec == Spec /\ Fairness
=============================================================================
