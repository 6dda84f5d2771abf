------------------------- MODULE MediaPipelineProofs ------------------------
(***************************************************************************)
(* MediaPipeline keeps what it promises for any uploads, videos, companies *)
(* and workers.  The invariant is stated row by row: what the two stores   *)
(* may say of one asset at a time, and what a worker may rely on from the  *)
(* transaction of its claim to the commit of its last one.  It needs no    *)
(* order between the stores: an upload or an object that is gone does not  *)
(* come back while a row lock protects it, and a purged row never changes. *)
(***************************************************************************)
EXTENDS MediaPipelineProperties, FiniteSetTheorems, TLAPS

Gone == {"DELETE_PENDING", "DELETED", "PURGED"}
Pending == {"PENDING", "RUNNING"}
Begun == {"done", "gone", "leaked"}

AssetRow ==
  [status : {"ABSENT", "UPLOADING", "VALIDATING", "READY", "REJECTED",
             "DELETE_PENDING", "DELETED", "PURGED"},
   key : Key \cup {NoKey}, temporary : BOOLEAN, due : BOOLEAN,
   old : BOOLEAN, validation : Lease, cleanup : Lease]
SessionRow ==
  [status : {"NONE", "ACTIVE", "COMPLETED", "ABORTED", "EXPIRED"},
   expired : BOOLEAN, cleanup : Lease, locked : BOOLEAN]
TaskRow ==
  [status : {"NONE", "PENDING", "RUNNING", "COMPLETE"}, lease : Lease]
JobRow ==
  [kind : {"none", "VALIDATE", "TASK", "MULTIPART", "TEMP", "OBJECT"},
   id : Asset \cup Task \cup {NoKey}, key : Key \cup {NoKey},
   acted : BOOLEAN, ready : BOOLEAN]

Typed ==
  /\ open \in Scopes
  /\ asset \in [Asset -> AssetRow]
  /\ session \in [Asset -> SessionRow]
  /\ task \in [Task -> TaskRow]
  /\ target \in [Asset -> {"none", "attaching", "open", "done"}]
  /\ archived \in [Company -> BOOLEAN]
  /\ upload \in [Asset -> {"none", "open", "done", "gone", "leaked"}]
  /\ objects \subseteq Key /\ creating \subseteq Asset
  /\ job \in [Worker -> JobRow]
  /\ faults \in 0 .. MaxFaults

(* A key names one video, or the upload it came from; a purged row has     *)
(* none, and a row that may be referred to has one.                        *)
KeyInv(a) ==
  /\ asset[a].status = "READY" => asset[a].key = DigestOf[a]
  /\ asset[a].status \in {"ABSENT", "PURGED"} => asset[a].key = NoKey
  /\ asset[a].key \in Asset => asset[a].key = a
  /\ target[a] # "none" => asset[a].key # NoKey

(* A row, a session and a task exist only once the upload was created; a   *)
(* session is locked, and an abort complete, only when it is over.         *)
UploadInv(a) ==
  /\ asset[a].status # "ABSENT" => upload[a] # "none"
  /\ asset[a].status = "ABSENT" =>
       session[a].status = "NONE" /\ ~session[a].locked
  /\ a \in creating => asset[a].status = "ABSENT" /\ upload[a] # "none"
  /\ session[a].locked => upload[a] \in Begun
  /\ task[Abort(a)].status # "NONE" => upload[a] # "none"
  /\ task[Abort(a)].status = "COMPLETE" => upload[a] \in Begun
  /\ upload[a] = "open" =>
       \/ a \in creating \/ session[a].status = "ACTIVE"
       \/ task[Abort(a)].status \in Pending

(* The source of an upload is the business of one row: a task that deletes *)
(* it comes with the purge of that row.                                    *)
SourceInv(a) ==
  /\ task[Delete(a)].status # "NONE" => asset[a].status = "PURGED"
  /\ a \in objects =>
       \/ asset[a].key = a \/ asset[a].temporary
       \/ task[Delete(a)].status \in Pending

RowInv(a) == KeyInv(a) /\ UploadInv(a) /\ SourceInv(a)

(* What a worker holds on to: under the lock of its second transaction,    *)
(* what it did to the storage stays done.                                  *)
TaskJob(w) ==
  job[w].kind = "TASK" =>
    /\ job[w].id \in Task /\ job[w].key = job[w].id[2]
    /\ \A a \in Asset :
         /\ job[w].id = Abort(a) =>
              upload[a] # "none" /\ (job[w].acted => upload[a] \in Begun)
         /\ job[w].id = Delete(a) =>
              /\ asset[a].status = "PURGED"
              /\ job[w].acted => a \notin objects

AssetJob(w) ==
  LET a == job[w].id IN
  job[w].kind \in {"VALIDATE", "MULTIPART", "TEMP", "OBJECT"} =>
    a \in Asset /\ asset[a].status # "ABSENT"

LockedJob(w) ==
  LET a == job[w].id IN
  /\ job[w].acted => job[w].kind # "none"
  /\ job[w].acted /\ job[w].kind = "VALIDATE" =>
       asset[a].status = "VALIDATING"
  /\ job[w].acted /\ job[w].kind = "MULTIPART" => upload[a] \in Begun
  /\ job[w].kind = "TEMP" =>
       job[w].key = a /\ (job[w].acted => a \notin objects)

ObjectJob(w) ==
  LET a == job[w].id IN
  job[w].kind = "OBJECT" =>
    /\ asset[a].status \in Gone /\ target[a] = "none"
    /\ asset[a].key = a =>
         job[w].key = a /\ (job[w].acted => a \notin objects)

JobInv(w) == TaskJob(w) /\ AssetJob(w) /\ LockedJob(w) /\ ObjectJob(w)

(* The lock of a row has one holder.                                       *)
OneInstalls ==
  \A w, v \in Worker :
    /\ job[w].acted /\ job[w].kind = "VALIDATE"
    /\ job[v].acted /\ job[v].kind = "VALIDATE" /\ job[v].id = job[w].id
    => w = v

(* Whoever is inside the advisory lock has found the quota unused.         *)
QuotaInv ==
  /\ IsFiniteSet(Active) /\ QuotaIsKept
  /\ creating # {} => /\ Cardinality(Active) < MaxActive
                      /\ \E a \in Asset : creating = {a}

IInv ==
  /\ Typed /\ QuotaInv /\ OneInstalls
  /\ \A a \in Asset : RowInv(a)
  /\ \A w \in Worker : JobInv(w)

-----------------------------------------------------------------------------
(* Steps.                                                                  *)

(* What every step keeps of a row, whoever takes it: the past of the row   *)
(* is not undone, and what its lock protects does not move.                *)
Steady(x) ==
  /\ asset[x].status # "ABSENT" => asset'[x].status # "ABSENT"
  /\ asset[x].status \in Gone => asset'[x].status \in Gone
  /\ asset[x].status = "PURGED" => asset'[x].status = "PURGED"
  /\ asset[x].status # "ABSENT" /\ asset'[x].key = x => asset[x].key = x
  /\ asset[x].status \in Gone /\ target[x] = "none" => target'[x] = "none"
  /\ upload[x] # "none" => upload'[x] # "none"
  /\ upload[x] \in Begun => upload'[x] \in Begun
  /\ /\ x \notin objects
     /\ AssetLocked(x) \/ asset[x].status = "PURGED"
     => x \notin objects'

(* Only the worker that installs a video decides what becomes of it.       *)
Validates(w, x) ==
  job[w].acted /\ job[w].kind = "VALIDATE" /\ job[w].id = x
StaysFor(v, x) ==
  Validates(v, x) /\ asset[x].status = "VALIDATING" =>
    asset'[x].status = "VALIDATING"

(* A session that did not count against the quota does not begin to.       *)
Counts(x) == session[x].status = "ACTIVE" /\ ~session[x].expired
CountsNoMore(x) ==
  session'[x].status = "ACTIVE" /\ ~session'[x].expired => Counts(x)

(* A row no step of another one reaches.                                   *)
Same(x) ==
  /\ asset'[x] = asset[x] /\ session'[x] = session[x]
  /\ task'[Abort(x)].status = task[Abort(x)].status
  /\ task'[Delete(x)].status = task[Delete(x)].status
  /\ target'[x] = target[x] /\ upload'[x] = upload[x]
  /\ x \in creating' <=> x \in creating
  /\ x \in objects' <=> x \in objects

LEMMA TasksDiffer ==
  /\ \A a \in Asset : Abort(a) \in Task /\ Delete(a) \in Task
  /\ \A k \in Key : Delete(k) \in Task
  /\ \A a, b \in Asset : Abort(a) = Abort(b) => a = b
  /\ \A j, k \in Key : Delete(j) = Delete(k) => j = k
  /\ \A a \in Asset, k \in Key : Abort(a) # Delete(k)
  /\ Asset \subseteq Key /\ Digest \subseteq Key
  /\ \A t \in Task : t[2] \in Key
  BY DEF Task, Abort, Delete, Key

LEMMA RestTyped ==
  /\ Unleased \in Lease /\ \A w \in Worker : LeasedTo(w) \in Lease
  /\ Idle \in JobRow /\ Idle.kind = "none" /\ ~Idle.acted
  BY DEF Unleased, Lease, LeasedTo, Idle, JobRow

(* A row written is the only one that changes.                             *)
LEMMA AssetWritten ==
  ASSUME Typed, NEW a \in Asset, NEW r \in AssetRow,
         asset' = [asset EXCEPT ![a] = r]
  PROVE  /\ asset' \in [Asset -> AssetRow] /\ asset'[a] = r
         /\ \A x \in Asset \ {a} : asset'[x] = asset[x]
  BY DEF Typed

LEMMA SameRow ==
  ASSUME NEW x \in Asset, RowInv(x), Same(x)
  PROVE  /\ RowInv(x)' /\ CountsNoMore(x) /\ Steady(x)
         /\ \A v \in Worker : StaysFor(v, x)
<1>1. KeyInv(x)'
  BY DEF RowInv, KeyInv, Same
<1>2. UploadInv(x)'
  BY DEF RowInv, UploadInv, Same
<1>3. SourceInv(x)'
  BY DEF RowInv, SourceInv, Same
<1>4. CountsNoMore(x) /\ Steady(x)
  BY DEF Same, CountsNoMore, Counts, Steady
<1>5. \A v \in Worker : StaysFor(v, x)
  BY DEF Same, StaysFor
<1> QED
  BY <1>1, <1>2, <1>3, <1>4, <1>5 DEF RowInv

(* Whoever does not move is not disturbed.                                 *)
LEMMA JobKept ==
  ASSUME Typed, NEW v \in Worker, JobInv(v), job'[v] = job[v],
         \A x \in Asset : Steady(x) /\ StaysFor(v, x)
  PROVE  JobInv(v)'
<1>1. TaskJob(v)'
  BY DEF JobInv, TaskJob, Steady
<1>2. AssetJob(v)'
  BY DEF JobInv, AssetJob, Steady
<1>3. job[v].acted /\ job[v].kind \in {"VALIDATE", "TEMP", "OBJECT"} =>
        AssetLocked(job[v].id)
  BY DEF AssetLocked, Acting
<1>4. LockedJob(v)'
  <2>1. job[v].acted => job[v].kind # "none"
    BY DEF JobInv, LockedJob
  <2>2. job[v].acted /\ job[v].kind = "VALIDATE" =>
          asset'[job[v].id].status = "VALIDATING"
    BY DEF JobInv, LockedJob, AssetJob, StaysFor, Validates
  <2>3. job[v].acted /\ job[v].kind = "MULTIPART" =>
          upload'[job[v].id] \in Begun
    BY DEF JobInv, LockedJob, AssetJob, Steady
  <2>4. job[v].kind = "TEMP" =>
          /\ job[v].key = job[v].id
          /\ job[v].acted => job[v].id \notin objects'
    BY <1>3 DEF JobInv, LockedJob, AssetJob, Steady
  <2> QED
    BY <2>1, <2>2, <2>3, <2>4 DEF LockedJob
<1>5. ObjectJob(v)'
  BY <1>3 DEF JobInv, ObjectJob, AssetJob, Steady
<1> QED
  BY <1>1, <1>2, <1>4, <1>5 DEF JobInv

LEMMA ActiveCounts ==
  /\ Active = {x \in Asset : Counts(x)}
  /\ Active' = {x \in Asset :
                  session'[x].status = "ACTIVE" /\ ~session'[x].expired}
  BY DEF Active, Counts

(* Sessions that end or expire make room.                                  *)
LEMMA QuotaKept ==
  ASSUME QuotaInv, \A x \in Asset : CountsNoMore(x),
         creating' = creating \/ creating' = {}
  PROVE  QuotaInv'
<1>1. Active' \subseteq Active
  BY ActiveCounts DEF CountsNoMore
<1>2. IsFiniteSet(Active) /\ Cardinality(Active) <= MaxActive
  BY DEF QuotaInv, QuotaIsKept
<1>3. /\ IsFiniteSet(Active') /\ Cardinality(Active') <= Cardinality(Active)
      /\ Cardinality(Active) \in Nat /\ Cardinality(Active') \in Nat
  BY <1>1, <1>2, FS_Subset, FS_CardinalityType
<1>4. Cardinality(Active') <= MaxActive
  BY <1>2, <1>3, MediaAssumption
<1>5. creating' # {} =>
        /\ Cardinality(Active') < MaxActive
        /\ \E a \in Asset : creating' = {a}
  BY <1>3, MediaAssumption DEF QuotaInv
<1> QED
  BY <1>3, <1>4, <1>5 DEF QuotaInv, QuotaIsKept

(* What a step owes to a row, and to the workers that rely on it.          *)
RowKept(x) == RowInv(x)' /\ Steady(x) /\ \A v \in Worker : StaysFor(v, x)

LEMMA RowsStepInv ==
  ASSUME IInv, \A x \in Asset : RowKept(x), Typed', QuotaInv', UNCHANGED job
  PROVE  IInv'
<1>1. \A v \in Worker : JobInv(v)'
  BY JobKept DEF IInv, RowKept
<1>2. OneInstalls'
  BY DEF IInv, OneInstalls
<1> QED
  BY <1>1, <1>2 DEF IInv, RowKept

(* A step of a handler, or of time, on the row of one asset.               *)
OneRow(a) == RowKept(a) /\ \A x \in Asset \ {a} : Same(x)

LEMMA OneRowKept ==
  ASSUME IInv, NEW a \in Asset, OneRow(a)
  PROVE  \A x \in Asset : RowKept(x)
<1> TAKE x \in Asset
<1>1. CASE x = a
  BY <1>1 DEF OneRow
<1>2. CASE x # a
  BY <1>2, SameRow DEF OneRow, RowKept, IInv
<1> QED
  BY <1>1, <1>2

LEMMA RowStepInv ==
  ASSUME IInv, NEW a \in Asset, OneRow(a), Typed', QuotaInv', UNCHANGED job
  PROVE  IInv'
  BY OneRowKept, RowsStepInv

LEMMA QuotaOfRow ==
  ASSUME IInv, NEW a \in Asset, OneRow(a), CountsNoMore(a),
         creating' = creating \/ creating' = {}
  PROVE  QuotaInv'
<1>1. \A x \in Asset : CountsNoMore(x)
  BY SameRow DEF OneRow, IInv
<1> QED
  BY <1>1, QuotaKept DEF IInv

LEMMA InitInv == Init => IInv
<1> SUFFICES ASSUME Init PROVE IInv
  OBVIOUS
<1>1. Typed
  <2>1. /\ \A a \in Asset :
             [status |-> "ABSENT", key |-> NoKey, temporary |-> FALSE,
              due |-> FALSE, old |-> FALSE, validation |-> Unleased,
              cleanup |-> Unleased] \in AssetRow
        /\ [status |-> "NONE", expired |-> FALSE, cleanup |-> Unleased,
            locked |-> FALSE] \in SessionRow
        /\ [status |-> "NONE", lease |-> Unleased] \in TaskRow
    BY RestTyped DEF AssetRow, SessionRow, TaskRow
  <2>2. faults \in 0 .. MaxFaults
    BY MediaAssumption DEF Init
  <2> QED
    BY <2>1, <2>2, RestTyped DEF Init, Typed
<1>2. QuotaInv
  <2>1. Active = {}
    BY DEF Init, Active
  <2> QED
    BY <2>1, FS_EmptySet, MediaAssumption DEF Init, QuotaInv, QuotaIsKept
<1>3. OneInstalls /\ \A w \in Worker : JobInv(w)
  BY RestTyped
  DEF Init, OneInstalls, JobInv, TaskJob, AssetJob, LockedJob, ObjectJob
<1>4. ASSUME NEW a \in Asset PROVE RowInv(a)
  <2>1. KeyInv(a)
    BY KeyAssumption DEF Init, KeyInv, Key
  <2>2. UploadInv(a)
    BY TasksDiffer DEF Init, UploadInv
  <2>3. SourceInv(a)
    BY TasksDiffer DEF Init, SourceInv
  <2> QED
    BY <2>1, <2>2, <2>3 DEF RowInv
<1> QED
  BY <1>1, <1>2, <1>3, <1>4 DEF IInv

-----------------------------------------------------------------------------
(* The upload handlers.                                                    *)

LEMMA CreateBeginsInv ==
  ASSUME IInv, NEW a \in Asset, CreateBegins(a)
  PROVE  IInv'
<1> USE DEF CreateBegins, tables
<1>1. Typed'
  BY DEF IInv, Typed
<1>2. OneRow(a)
  <2>1. \A x \in Asset \ {a} : Same(x)
    BY DEF Same, IInv, Typed
  <2>2. /\ upload' [a] = "open" /\ a \in creating'
        /\ asset' = asset /\ session' = session /\ task' = task
        /\ target' = target /\ objects' = objects
    BY DEF IInv, Typed
  <2>3. RowInv(a)'
    BY <2>2 DEF IInv, RowInv, KeyInv, UploadInv, SourceInv, Begun
  <2>4. Steady(a) /\ \A v \in Worker : StaysFor(v, a)
    BY <2>2 DEF Steady, StaysFor, Begun
  <2> QED
    BY <2>1, <2>3, <2>4 DEF OneRow, RowKept
<1>3. QuotaInv'
  <2>1. Active' = Active
    BY DEF Active
  <2>2. /\ IsFiniteSet(Active) /\ Cardinality(Active) <= MaxActive
        /\ Cardinality(Active) \in Nat
    BY FS_CardinalityType DEF IInv, QuotaInv, QuotaIsKept
  <2>3. Cardinality(Active) < MaxActive
    BY <2>2, MediaAssumption DEF mediaUploadQuotaExceeded
  <2> QED
    BY <2>1, <2>2, <2>3 DEF QuotaInv, QuotaIsKept
<1> QED
  BY <1>1, <1>2, <1>3, RowStepInv

LEMMA CreateCommitsInv ==
  ASSUME IInv, NEW a \in Asset, CreateCommits(a)
  PROVE  IInv'
<1> USE DEF CreateCommits, storage
<1>1. /\ \A x \in Asset \ {a} :
             asset'[x] = asset[x] /\ session'[x] = session[x]
      /\ asset'[a] = [asset[a] EXCEPT !.status = "UPLOADING", !.key = a]
      /\ session'[a] = [session[a] EXCEPT !.status = "ACTIVE"]
      /\ asset'[a].status = "UPLOADING" /\ asset'[a].key = a
      /\ asset'[a].temporary = asset[a].temporary
      /\ session'[a].status = "ACTIVE"
      /\ session'[a].locked = session[a].locked
  BY DEF IInv, Typed, AssetRow, SessionRow
<1>2. Typed'
  <2>1. asset[a] \in AssetRow /\ session[a] \in SessionRow /\ a \in Key
    BY DEF IInv, Typed, Key
  <2>2. [asset[a] EXCEPT !.status = "UPLOADING", !.key = a] \in AssetRow
    BY <2>1 DEF AssetRow
  <2>3. [session[a] EXCEPT !.status = "ACTIVE"] \in SessionRow
    BY <2>1 DEF SessionRow
  <2>4. asset'[a] \in AssetRow /\ session'[a] \in SessionRow
    BY <1>1, <2>2, <2>3
  <2> QED
    BY <2>4 DEF IInv, Typed
<1>3. a \in creating /\ a \notin creating' /\ asset[a].status = "ABSENT"
  BY DEF IInv, RowInv, UploadInv
<1>4. OneRow(a)
  <2>1. \A x \in Asset \ {a} : Same(x)
    BY <1>1 DEF Same
  <2>2. KeyInv(a)'
    BY <1>1, KeyAssumption DEF IInv, RowInv, KeyInv, Key
  <2>3. UploadInv(a)' /\ SourceInv(a)'
    BY <1>1, <1>3 DEF IInv, RowInv, UploadInv, SourceInv, Pending
  <2>4. Steady(a) /\ \A v \in Worker : StaysFor(v, a)
    BY <1>1, <1>3 DEF Steady, StaysFor, Gone
  <2> QED
    BY <2>1, <2>2, <2>3, <2>4 DEF OneRow, RowKept, RowInv
<1>5. QuotaInv'
  <2>1. Active' \subseteq Active \cup {a}
    BY <1>1 DEF Active
  <2>2. IsFiniteSet(Active) /\ Cardinality(Active) < MaxActive
    BY DEF IInv, QuotaInv
  <2>3. /\ IsFiniteSet(Active \cup {a})
        /\ Cardinality(Active \cup {a}) <= Cardinality(Active) + 1
        /\ Cardinality(Active) \in Nat
    <3>1. Cardinality(Active) \in Nat
      BY <2>2, FS_CardinalityType
    <3>2. /\ IsFiniteSet(Active \cup {a})
          /\ Cardinality(Active \cup {a})
               = IF a \in Active THEN Cardinality(Active)
                 ELSE Cardinality(Active) + 1
      BY <2>2, FS_AddElement, Zenon
    <3> QED
      BY <3>1, <3>2
  <2>4. /\ IsFiniteSet(Active')
        /\ Cardinality(Active') <= Cardinality(Active \cup {a})
        /\ Cardinality(Active') \in Nat
        /\ Cardinality(Active \cup {a}) \in Nat
    BY <2>1, <2>3, FS_Subset, FS_CardinalityType
  <2>5. creating' = {}
    BY DEF IInv, QuotaInv
  <2> QED
    BY <2>2, <2>3, <2>4, <2>5, MediaAssumption DEF QuotaInv, QuotaIsKept
<1> QED
  BY <1>2, <1>4, <1>5, RowStepInv

(* One more fault within the bound.                                        *)
LEMMA FaultTyped ==
  ASSUME Typed, Fault
  PROVE  faults' \in 0 .. MaxFaults
  BY MediaAssumption DEF Typed, Fault

LEMMA CreateFailsInv ==
  ASSUME IInv, NEW a \in Asset, NEW left \in {"gone", "leaked"},
         CreateFails(a, left)
  PROVE  IInv'
<1> USE DEF CreateFails, tables
<1>1. Typed'
  BY FaultTyped DEF IInv, Typed
<1>2. /\ upload'[a] \in Begun /\ upload'[a] # "none" /\ upload'[a] # "open"
      /\ a \notin creating' /\ creating' = {} /\ CountsNoMore(a)
  BY DEF IInv, Typed, Begun, QuotaInv, CountsNoMore, Counts
<1>3. OneRow(a)
  <2>1. \A x \in Asset \ {a} : Same(x)
    BY DEF Same, IInv, Typed
  <2>2. RowInv(a)'
    BY <1>2 DEF IInv, RowInv, KeyInv, UploadInv, SourceInv
  <2>3. Steady(a) /\ \A v \in Worker : StaysFor(v, a)
    BY <1>2 DEF Steady, StaysFor
  <2> QED
    BY <2>1, <2>2, <2>3 DEF OneRow, RowKept
<1> QED
  BY <1>1, <1>2, <1>3, QuotaOfRow, RowStepInv

LEMMA CompleteBeginsInv ==
  ASSUME IInv, NEW a \in Asset, CompleteBegins(a)
  PROVE  IInv'
<1> USE DEF CompleteBegins
<1>1. /\ session'[a] = [session[a] EXCEPT !.locked = TRUE]
      /\ session'[a].status = "ACTIVE"
      /\ \A x \in Asset \ {a} : session'[x] = session[x]
      /\ upload'[a] = "done" /\ \A x \in Asset \ {a} : upload'[x] = upload[x]
      /\ CountsNoMore(a)
  BY DEF IInv, Typed, SessionRow, CountsNoMore, Counts
<1>2. asset[a].key \in Key /\ asset[a].key # NoKey
      /\ (asset[a].key \in Asset => asset[a].key = a)
  BY DEF IInv, Typed, AssetRow, RowInv, KeyInv
<1>3. Typed'
  <2>1. session[a] \in SessionRow
    BY DEF IInv, Typed
  <2>2. [session[a] EXCEPT !.locked = TRUE] \in SessionRow
    BY <2>1 DEF SessionRow
  <2> QED
    BY <1>1, <1>2, <2>2 DEF IInv, Typed
<1>4. OneRow(a)
  <2>1. \A x \in Asset \ {a} : Same(x)
    BY <1>1, <1>2 DEF Same
  <2>2. asset[a].status \notin {"ABSENT", "PURGED"}
    BY <1>2 DEF IInv, RowInv, KeyInv
  <2>3. RowInv(a)'
    BY <1>1, <1>2, <2>2
    DEF IInv, RowInv, KeyInv, UploadInv, SourceInv, Begun
  <2>4. ~AssetLocked(a)
    BY DEF Unlocked
  <2>5. Steady(a) /\ \A v \in Worker : StaysFor(v, a)
    BY <1>1, <2>2, <2>4 DEF Steady, StaysFor, Begun
  <2> QED
    BY <2>1, <2>3, <2>5 DEF OneRow, RowKept
<1> QED
  BY <1>1, <1>3, <1>4, QuotaOfRow, RowStepInv

-----------------------------------------------------------------------------
(* Rows that move on without a new key.                                    *)

(* The end of a session, a decision against an asset, the passing of time: *)
(* the row stays under its key, and a session ends with its upload.        *)
SettlesAt(a) ==
  /\ asset'[a].key = asset[a].key
  /\ asset'[a].temporary = asset[a].temporary
  /\ \/ asset'[a].status = asset[a].status
     \/ /\ asset'[a].status = "DELETE_PENDING" /\ ~AssetLocked(a)
        /\ asset[a].status \notin {"ABSENT", "PURGED"}
     \/ asset'[a].status = "VALIDATING" /\ asset[a].status = "UPLOADING"
  /\ session'[a].status = session[a].status \/ asset[a].status # "ABSENT"
  /\ session'[a].locked => session[a].locked
  /\ session[a].status = "ACTIVE" =>
       session'[a].status = "ACTIVE" \/ upload'[a] \in Begun
  /\ CountsNoMore(a)
  /\ upload'[a] = upload[a] \/ upload'[a] \in Begun
  /\ target'[a] # "none" => target[a] # "none"

Settles(a) ==
  /\ SettlesAt(a)
  /\ \A x \in Asset \ {a} :
       /\ asset'[x] = asset[x] /\ session'[x] = session[x]
       /\ target'[x] = target[x] /\ upload'[x] = upload[x]

LEMMA SettlesAtRow ==
  ASSUME IInv, NEW a \in Asset, SettlesAt(a),
         UNCHANGED <<task, objects, creating>>
  PROVE  RowKept(a)
<1> USE DEF SettlesAt
<1>1. KeyInv(a)'
  BY DEF IInv, RowInv, KeyInv
<1>2. UploadInv(a)'
  BY DEF IInv, RowInv, UploadInv, Begun
<1>3. SourceInv(a)'
  BY DEF IInv, RowInv, SourceInv
<1>4. Steady(a)
  BY DEF Steady, Gone, Begun
<1>5. \A v \in Worker : StaysFor(v, a)
  BY DEF StaysFor, Validates, AssetLocked, Acting
<1> QED
  BY <1>1, <1>2, <1>3, <1>4, <1>5 DEF RowKept, RowInv

LEMMA SettlesRow ==
  ASSUME IInv, NEW a \in Asset, Settles(a),
         UNCHANGED <<task, objects, creating>>
  PROVE  OneRow(a) /\ CountsNoMore(a)
<1>1. \A x \in Asset \ {a} : Same(x)
  BY DEF Settles, Same
<1> QED
  BY <1>1, SettlesAtRow DEF OneRow, Settles, SettlesAt

LEMMA SettlesInv ==
  ASSUME IInv, NEW a \in Asset, Settles(a), Typed',
         UNCHANGED <<task, objects, creating, job>>
  PROVE  IInv'
<1>1. OneRow(a) /\ CountsNoMore(a)
  BY SettlesRow
<1> QED
  BY <1>1, QuotaOfRow, RowStepInv

(* The rows a handler writes.                                              *)
LEMMA RowsWritten ==
  ASSUME Typed, NEW a \in Asset
  PROVE  /\ Given(a, "DELETE_PENDING") \in AssetRow
         /\ Given(a, "DELETE_PENDING").status = "DELETE_PENDING"
         /\ Given(a, "DELETE_PENDING").key = asset[a].key
         /\ Given(a, "DELETE_PENDING").temporary = asset[a].temporary
         /\ Condemned(a) \in AssetRow
         /\ Condemned(a).status = "DELETE_PENDING"
         /\ Condemned(a).key = asset[a].key
         /\ Condemned(a).temporary = asset[a].temporary
         /\ Unclaimed(a) \in AssetRow
         /\ Unclaimed(a).status = asset[a].status
         /\ Unclaimed(a).key = asset[a].key
         /\ Unclaimed(a).temporary = asset[a].temporary
         /\ Closed(a) \in SessionRow
         /\ Closed(a).status = session[a].status
         /\ Closed(a).locked = session[a].locked
         /\ session[a].expired => Closed(a).expired
<1>1. asset[a] \in AssetRow /\ session[a] \in SessionRow
  BY DEF Typed
<1>2. /\ Given(a, "DELETE_PENDING") \in AssetRow
      /\ Given(a, "DELETE_PENDING").status = "DELETE_PENDING"
      /\ Given(a, "DELETE_PENDING").key = asset[a].key
      /\ Given(a, "DELETE_PENDING").temporary = asset[a].temporary
  BY <1>1 DEF Given, AssetRow
<1>3. /\ Condemned(a) \in AssetRow
      /\ Condemned(a).status = "DELETE_PENDING"
      /\ Condemned(a).key = asset[a].key
      /\ Condemned(a).temporary = asset[a].temporary
  BY <1>1 DEF Condemned, AssetRow
<1>4. /\ Unclaimed(a) \in AssetRow
      /\ Unclaimed(a).status = asset[a].status
      /\ Unclaimed(a).key = asset[a].key
      /\ Unclaimed(a).temporary = asset[a].temporary
  BY <1>1, RestTyped DEF Unclaimed, AssetRow
<1>5. /\ Closed(a) \in SessionRow
      /\ Closed(a).status = session[a].status
      /\ Closed(a).locked = session[a].locked
      /\ session[a].expired => Closed(a).expired
  BY <1>1 DEF Closed, SessionRow
<1> QED
  BY <1>2, <1>3, <1>4, <1>5

LEMMA CompletedRow ==
  ASSUME IInv, NEW a \in Asset, session[a].locked,
         \/ Completed(a)
         \/ session' = [session EXCEPT ![a].locked = FALSE]
  PROVE  /\ session' \in [Asset -> SessionRow]
         /\ \A x \in Asset \ {a} : session'[x] = session[x]
         /\ ~session'[a].locked /\ CountsNoMore(a)
         /\ asset[a].status # "ABSENT" /\ upload[a] \in Begun
<1>1. session \in [Asset -> SessionRow]
  BY DEF IInv, Typed
<1>2. asset[a].status # "ABSENT" /\ upload[a] \in Begun
  BY DEF IInv, RowInv, UploadInv
<1>3. CASE Completed(a)
  <2>1. /\ session' = [session EXCEPT ![a] =
                        [session[a] EXCEPT !.locked = FALSE,
                                           !.status = "COMPLETED"]]
    BY <1>1, <1>3 DEF Completed
  <2>2. [session[a] EXCEPT !.locked = FALSE, !.status = "COMPLETED"]
          \in SessionRow
    BY <1>1 DEF SessionRow
  <2>3. session'[a].status = "COMPLETED" /\ ~session'[a].locked
    BY <1>1, <2>1 DEF SessionRow
  <2> QED
    BY <1>1, <1>2, <2>1, <2>2, <2>3 DEF CountsNoMore
<1>4. CASE session' = [session EXCEPT ![a].locked = FALSE]
  <2>1. session' = [session EXCEPT ![a] = [session[a] EXCEPT !.locked = FALSE]]
    BY <1>1, <1>4
  <2>2. [session[a] EXCEPT !.locked = FALSE] \in SessionRow
    BY <1>1 DEF SessionRow
  <2>3. /\ session'[a].status = session[a].status
        /\ session'[a].expired = session[a].expired
        /\ ~session'[a].locked
    BY <1>1, <2>1 DEF SessionRow
  <2> QED
    BY <1>1, <1>2, <2>1, <2>2, <2>3 DEF CountsNoMore, Counts
<1> QED
  BY <1>3, <1>4

LEMMA CompleteCommitsInv ==
  ASSUME IInv, NEW a \in Asset, CompleteCommits(a)
  PROVE  IInv'
<1> USE DEF CompleteCommits, storage
<1>1. /\ session' \in [Asset -> SessionRow]
      /\ \A x \in Asset \ {a} : session'[x] = session[x]
      /\ ~session'[a].locked /\ CountsNoMore(a)
      /\ asset[a].status # "ABSENT" /\ upload[a] \in Begun
  BY CompletedRow
<1>2. /\ asset' \in [Asset -> AssetRow]
      /\ \A x \in Asset \ {a} : asset'[x] = asset[x]
      /\ asset'[a].key = asset[a].key
      /\ asset'[a].temporary = asset[a].temporary
      /\ \/ asset'[a].status = asset[a].status
         \/ asset'[a].status = "VALIDATING" /\ asset[a].status = "UPLOADING"
  BY DEF IInv, Typed, AssetRow
<1>3. Typed'
  BY <1>1, <1>2 DEF IInv, Typed
<1>4. Settles(a)
  BY <1>1, <1>2 DEF Settles, SettlesAt
<1> QED
  BY <1>3, <1>4, SettlesInv

LEMMA CompleteFailsInv ==
  ASSUME IInv, NEW a \in Asset, NEW committed \in BOOLEAN,
         CompleteFails(a, committed)
  PROVE  IInv'
<1> USE DEF CompleteFails, storage
<1>1. /\ session' \in [Asset -> SessionRow]
      /\ \A x \in Asset \ {a} : session'[x] = session[x]
      /\ ~session'[a].locked /\ CountsNoMore(a)
      /\ asset[a].status # "ABSENT" /\ upload[a] \in Begun
  <2>1. \/ Completed(a)
        \/ session' = [session EXCEPT ![a].locked = FALSE]
    BY Zenon
  <2> QED
    BY <2>1, CompletedRow
<1>2. /\ asset' \in [Asset -> AssetRow]
      /\ \A x \in Asset \ {a} : asset'[x] = asset[x]
      /\ asset'[a].key = asset[a].key
      /\ asset'[a].temporary = asset[a].temporary
      /\ \/ asset'[a].status = asset[a].status
         \/ /\ asset'[a].status = "DELETE_PENDING"
            /\ asset[a].status \in {"UPLOADING", "VALIDATING"}
  BY RowsWritten DEF IInv, Typed
<1>3. Typed'
  BY <1>1, <1>2, FaultTyped DEF IInv, Typed
<1>4. Settles(a)
  BY <1>1, <1>2 DEF Settles, SettlesAt
<1> QED
  BY <1>3, <1>4, SettlesInv

LEMMA CompleteCrashesInv ==
  ASSUME IInv, NEW a \in Asset, CompleteCrashes(a)
  PROVE  IInv'
<1> USE DEF CompleteCrashes, storage
<1>1. /\ session' \in [Asset -> SessionRow]
      /\ \A x \in Asset \ {a} : session'[x] = session[x]
      /\ ~session'[a].locked /\ CountsNoMore(a)
      /\ asset[a].status # "ABSENT" /\ upload[a] \in Begun
  BY CompletedRow
<1>2. Typed'
  BY <1>1, FaultTyped DEF IInv, Typed
<1>3. Settles(a)
  BY <1>1 DEF Settles, SettlesAt
<1> QED
  BY <1>2, <1>3, SettlesInv

(* An upload that is stopped does not come back.                           *)
LEMMA StoppedUpload ==
  ASSUME Typed, NEW a \in Asset, upload' = Stopped(a)
  PROVE  /\ upload' \in [Asset -> {"none", "open", "done", "gone", "leaked"}]
         /\ \A x \in Asset \ {a} : upload'[x] = upload[x]
         /\ upload'[a] = upload[a] \/ upload'[a] = "gone"
         /\ upload[a] # "none" => upload'[a] \in Begun
  BY DEF Typed, Stopped, Begun

LEMMA abortMediaUploadInv ==
  ASSUME IInv, NEW a \in Asset, NEW commits \in BOOLEAN,
         abortMediaUpload(a, commits)
  PROVE  IInv'
<1> USE DEF abortMediaUpload
<1>1. /\ upload' \in [Asset -> {"none", "open", "done", "gone", "leaked"}]
      /\ \A x \in Asset \ {a} : upload'[x] = upload[x]
      /\ upload'[a] = upload[a] \/ upload'[a] = "gone"
      /\ upload'[a] \in Begun
  BY StoppedUpload DEF IInv, RowInv, UploadInv
<1>2. /\ asset[a].status \notin {"ABSENT", "PURGED"} /\ ~AssetLocked(a)
  BY DEF IInv, RowInv, KeyInv, Unlocked
<1>3. CASE commits
  <2>1. /\ asset' = [asset EXCEPT ![a] = Given(a, "DELETE_PENDING")]
        /\ session' = [session EXCEPT ![a].status = "ABORTED"]
        /\ UNCHANGED faults
    BY <1>3
  <2>2. /\ asset' \in [Asset -> AssetRow]
        /\ \A x \in Asset \ {a} : asset'[x] = asset[x]
        /\ asset'[a].key = asset[a].key
        /\ asset'[a].temporary = asset[a].temporary
        /\ asset'[a].status = "DELETE_PENDING"
    BY <2>1, RowsWritten DEF IInv, Typed
  <2>3. /\ session' \in [Asset -> SessionRow]
        /\ \A x \in Asset \ {a} : session'[x] = session[x]
        /\ session'[a].status = "ABORTED"
        /\ session'[a].locked = session[a].locked
    BY <2>1 DEF IInv, Typed, SessionRow
  <2>4. Typed'
    BY <1>1, <2>1, <2>2, <2>3 DEF IInv, Typed
  <2>5. Settles(a)
    BY <1>1, <1>2, <2>2, <2>3 DEF Settles, SettlesAt, CountsNoMore, Begun
  <2> QED
    BY <2>4, <2>5, SettlesInv
<1>4. CASE ~commits
  <2>1. Fault /\ UNCHANGED <<session, asset>>
    BY <1>4
  <2>2. Typed'
    BY <1>1, <2>1, FaultTyped DEF IInv, Typed
  <2>3. Settles(a)
    BY <1>1, <2>1 DEF Settles, SettlesAt, CountsNoMore, Counts
  <2> QED
    BY <2>2, <2>3, SettlesInv
<1> QED
  BY <1>3, <1>4

-----------------------------------------------------------------------------
(* Time.                                                                   *)

LEMMA ExpireInv ==
  ASSUME IInv, NEW a \in Asset, Expire(a)
  PROVE  IInv'
<1> USE DEF Expire, storage
<1>1. /\ session' \in [Asset -> SessionRow]
      /\ \A x \in Asset \ {a} : session'[x] = session[x]
      /\ session'[a].status = session[a].status
      /\ session'[a].locked = session[a].locked
      /\ session'[a].expired
  BY DEF IInv, Typed, SessionRow
<1>2. Typed'
  BY <1>1 DEF IInv, Typed
<1>3. Settles(a)
  BY <1>1 DEF Settles, SettlesAt, CountsNoMore
<1> QED
  BY <1>2, <1>3, SettlesInv

LEMMA GrowInv ==
  ASSUME IInv, NEW a \in Asset, Grow(a)
  PROVE  IInv'
<1> USE DEF Grow, storage
<1>1. /\ asset' \in [Asset -> AssetRow]
      /\ \A x \in Asset \ {a} : asset'[x] = asset[x]
      /\ asset'[a].status = asset[a].status
      /\ asset'[a].key = asset[a].key
      /\ asset'[a].temporary = asset[a].temporary
  <2>1. asset[a] \in AssetRow
    BY DEF IInv, Typed
  <2>2. /\ [asset[a] EXCEPT !.due = TRUE] \in AssetRow
        /\ [asset[a] EXCEPT !.due = TRUE].status = asset[a].status
        /\ [asset[a] EXCEPT !.due = TRUE].key = asset[a].key
        /\ [asset[a] EXCEPT !.due = TRUE].temporary = asset[a].temporary
    BY <2>1 DEF AssetRow
  <2>3. /\ [asset[a] EXCEPT !.old = TRUE] \in AssetRow
        /\ [asset[a] EXCEPT !.old = TRUE].status = asset[a].status
        /\ [asset[a] EXCEPT !.old = TRUE].key = asset[a].key
        /\ [asset[a] EXCEPT !.old = TRUE].temporary = asset[a].temporary
    BY <2>1 DEF AssetRow
  <2>4. \/ asset' = [asset EXCEPT ![a] = [asset[a] EXCEPT !.due = TRUE]]
        \/ asset' = [asset EXCEPT ![a] = [asset[a] EXCEPT !.old = TRUE]]
    BY DEF IInv, Typed
  <2> QED
    <3>1. CASE asset' = [asset EXCEPT ![a] = [asset[a] EXCEPT !.due = TRUE]]
      BY <2>2, <3>1, AssetWritten DEF IInv
    <3>2. CASE asset' = [asset EXCEPT ![a] = [asset[a] EXCEPT !.old = TRUE]]
      BY <2>3, <3>2, AssetWritten DEF IInv
    <3> QED
      BY <2>4, <3>1, <3>2
<1>2. Typed'
  BY <1>1 DEF IInv, Typed
<1>3. Settles(a)
  BY <1>1 DEF Settles, SettlesAt, CountsNoMore, Counts
<1> QED
  BY <1>2, <1>3, SettlesInv

(* A lease that changes hands or lapses leaves the rest of its row.        *)
SameButLeases ==
  /\ \A x \in Asset :
       /\ asset'[x].status = asset[x].status /\ asset'[x].key = asset[x].key
       /\ asset'[x].temporary = asset[x].temporary
       /\ session'[x].status = session[x].status
       /\ session'[x].expired = session[x].expired
       /\ session'[x].locked = session[x].locked
       /\ task'[Abort(x)].status = task[Abort(x)].status
       /\ task'[Delete(x)].status = task[Delete(x)].status
  /\ UNCHANGED <<target, archived, open, storage, creating>>

LEMMA LeasesOnly ==
  ASSUME IInv, SameButLeases
  PROVE  /\ \A x \in Asset : RowInv(x)' /\ Steady(x) /\ CountsNoMore(x)
         /\ \A v \in Worker, x \in Asset : StaysFor(v, x)
         /\ QuotaInv'
<1> USE DEF SameButLeases, storage
<1>1. ASSUME NEW x \in Asset
      PROVE  RowInv(x)' /\ Steady(x) /\ CountsNoMore(x)
  <2>1. KeyInv(x)'
    BY DEF IInv, RowInv, KeyInv
  <2>2. UploadInv(x)'
    BY DEF IInv, RowInv, UploadInv
  <2>3. SourceInv(x)'
    BY DEF IInv, RowInv, SourceInv
  <2>4. Steady(x) /\ CountsNoMore(x)
    BY DEF Steady, CountsNoMore, Counts
  <2> QED
    BY <2>1, <2>2, <2>3, <2>4 DEF RowInv
<1>2. \A v \in Worker, x \in Asset : StaysFor(v, x)
  BY DEF StaysFor
<1>3. QuotaInv'
  BY <1>1, QuotaKept DEF IInv
<1> QED
  BY <1>1, <1>2, <1>3

(* A row whose lease has lapsed.                                           *)
LEMMA LapsedRows ==
  /\ \A r \in AssetRow :
       /\ [r EXCEPT !.validation.live = FALSE] \in AssetRow
       /\ [r EXCEPT !.cleanup.live = FALSE] \in AssetRow
  /\ \A r \in SessionRow : [r EXCEPT !.cleanup.live = FALSE] \in SessionRow
  /\ \A r \in TaskRow : [r EXCEPT !.lease.live = FALSE] \in TaskRow
<1>1. \A l \in Lease : [l EXCEPT !.live = FALSE] \in Lease
  BY DEF Lease
<1>2. ASSUME NEW r \in AssetRow
      PROVE  /\ [r EXCEPT !.validation.live = FALSE] \in AssetRow
             /\ [r EXCEPT !.cleanup.live = FALSE] \in AssetRow
  <2>1. /\ [r.validation EXCEPT !.live = FALSE] \in Lease
        /\ [r.cleanup EXCEPT !.live = FALSE] \in Lease
    BY <1>1 DEF AssetRow
  <2>2. /\ [r EXCEPT !.validation = [r.validation EXCEPT !.live = FALSE]]
             \in AssetRow
        /\ [r EXCEPT !.cleanup = [r.cleanup EXCEPT !.live = FALSE]]
             \in AssetRow
    BY <2>1 DEF AssetRow
  <2> QED
    BY <2>2
<1>3. ASSUME NEW r \in SessionRow
      PROVE  [r EXCEPT !.cleanup.live = FALSE] \in SessionRow
  <2>1. [r.cleanup EXCEPT !.live = FALSE] \in Lease
    BY <1>1 DEF SessionRow
  <2> QED
    BY <2>1 DEF SessionRow
<1>4. ASSUME NEW r \in TaskRow
      PROVE  [r EXCEPT !.lease.live = FALSE] \in TaskRow
  <2>1. [r.lease EXCEPT !.live = FALSE] \in Lease
    BY <1>1 DEF TaskRow
  <2> QED
    BY <2>1 DEF TaskRow
<1> QED
  BY <1>2, <1>3, <1>4

LEMMA LapseInv ==
  ASSUME IInv, Lapse
  PROVE  IInv'
<1> USE DEF storage
<1>1. faults' \in 0 .. MaxFaults
  <2>1. UNCHANGED faults \/ Fault
    BY Zenon DEF Lapse, Lapsing
  <2> QED
    BY <2>1, FaultTyped DEF IInv, Typed
<1>2. UNCHANGED <<target, archived, open, storage, creating, job>>
  BY DEF Lapse
<1>3. /\ asset' \in [Asset -> AssetRow] /\ session' \in [Asset -> SessionRow]
      /\ task' \in [Task -> TaskRow] /\ SameButLeases
  <2> USE <1>2 DEF SameButLeases
  <2>1. CASE \E a \in Asset :
               /\ asset' = [asset EXCEPT ![a].validation.live = FALSE]
               /\ UNCHANGED <<session, task>>
    <3>1. PICK a \in Asset :
            asset' = [asset EXCEPT ![a].validation.live = FALSE]
      BY <2>1
    <3> DEFINE r == [asset[a] EXCEPT !.validation.live = FALSE]
    <3>2. asset[a] \in AssetRow
      BY DEF IInv, Typed
    <3>3. r \in AssetRow
      BY <3>2, LapsedRows
    <3>4. /\ r.status = asset[a].status /\ r.key = asset[a].key
             /\ r.temporary = asset[a].temporary
      BY <3>2 DEF AssetRow
    <3>5. asset' = [asset EXCEPT ![a] = r]
      BY <3>1
    <3> HIDE DEF r
    <3> QED
      BY <2>1, <3>3, <3>4, <3>5, TasksDiffer DEF IInv, Typed
  <2>2. CASE \E a \in Asset :
               /\ asset' = [asset EXCEPT ![a].cleanup.live = FALSE]
               /\ UNCHANGED <<session, task>>
    <3>1. PICK a \in Asset :
            asset' = [asset EXCEPT ![a].cleanup.live = FALSE]
      BY <2>2
    <3> DEFINE r == [asset[a] EXCEPT !.cleanup.live = FALSE]
    <3>2. asset[a] \in AssetRow
      BY DEF IInv, Typed
    <3>3. r \in AssetRow
      BY <3>2, LapsedRows
    <3>4. /\ r.status = asset[a].status /\ r.key = asset[a].key
             /\ r.temporary = asset[a].temporary
      BY <3>2 DEF AssetRow
    <3>5. asset' = [asset EXCEPT ![a] = r]
      BY <3>1
    <3> HIDE DEF r
    <3> QED
      BY <2>2, <3>3, <3>4, <3>5, TasksDiffer DEF IInv, Typed
  <2>3. CASE \E a \in Asset :
               /\ session' = [session EXCEPT ![a].cleanup.live = FALSE]
               /\ UNCHANGED <<asset, task>>
    <3>1. PICK a \in Asset :
            session' = [session EXCEPT ![a].cleanup.live = FALSE]
      BY <2>3
    <3> DEFINE r == [session[a] EXCEPT !.cleanup.live = FALSE]
    <3>2. session[a] \in SessionRow
      BY DEF IInv, Typed
    <3>3. r \in SessionRow
      BY <3>2, LapsedRows
    <3>4. /\ r.status = session[a].status /\ r.expired = session[a].expired
             /\ r.locked = session[a].locked
      BY <3>2 DEF SessionRow
    <3>5. session' = [session EXCEPT ![a] = r]
      BY <3>1
    <3> HIDE DEF r
    <3> QED
      BY <2>3, <3>3, <3>4, <3>5, TasksDiffer DEF IInv, Typed
  <2>4. CASE \E t \in Task :
               /\ task' = [task EXCEPT ![t].lease.live = FALSE]
               /\ UNCHANGED <<asset, session>>
    <3>1. PICK t \in Task :
            task' = [task EXCEPT ![t].lease.live = FALSE]
      BY <2>4
    <3> DEFINE r == [task[t] EXCEPT !.lease.live = FALSE]
    <3>2. task[t] \in TaskRow
      BY DEF IInv, Typed
    <3>3. r \in TaskRow
      BY <3>2, LapsedRows
    <3>4. /\ r.status = task[t].status
      BY <3>2 DEF TaskRow
    <3>5. task' = [task EXCEPT ![t] = r]
      BY <3>1
    <3> HIDE DEF r
    <3> QED
      BY <2>4, <3>3, <3>4, <3>5, TasksDiffer DEF IInv, Typed
  <2> QED
    BY <2>1, <2>2, <2>3, <2>4, Zenon DEF Lapse
<1>4. Typed'
  BY <1>1, <1>2, <1>3 DEF IInv, Typed
<1>5. \A v \in Worker : JobInv(v)'
  BY <1>2, <1>3, LeasesOnly, JobKept DEF IInv
<1>6. OneInstalls'
  BY <1>2 DEF IInv, OneInstalls
<1> QED
  BY <1>3, <1>4, <1>5, <1>6, LeasesOnly DEF IInv

-----------------------------------------------------------------------------
(* References, and the lifecycle of the owner.                             *)

LEMMA AttachInv ==
  ASSUME IInv, NEW a \in Asset, Attach(a)
  PROVE  IInv'
<1> USE DEF Attach, Aside, storage
<1>1. Typed'
  BY DEF IInv, Typed
<1>2. asset[a].key # NoKey
  BY MediaAssumption, KeyAssumption DEF IInv, RowInv, KeyInv, Key
<1>3. OneRow(a) /\ CountsNoMore(a)
  <2>1. \A x \in Asset \ {a} : Same(x)
    BY DEF IInv, Typed, Same
  <2>2. RowInv(a)'
    BY <1>2 DEF IInv, RowInv, KeyInv, UploadInv, SourceInv
  <2>3. Steady(a) /\ CountsNoMore(a) /\ \A v \in Worker : StaysFor(v, a)
    BY DEF Steady, Gone, CountsNoMore, Counts, StaysFor
  <2> QED
    BY <2>1, <2>2, <2>3 DEF OneRow, RowKept
<1> QED
  BY <1>1, <1>3, QuotaOfRow, RowStepInv

LEMMA ReferenceMovesInv ==
  ASSUME IInv, NEW a \in Asset, NEW becomes \in {"none", "open"},
         AttachEnds(a, becomes) \/ TargetSucceeds(a)
  PROVE  IInv'
<1> USE DEF AttachEnds, TargetSucceeds, Aside, storage
<1>1. Typed'
  BY DEF IInv, Typed
<1>2. Settles(a)
  BY DEF IInv, Typed, Settles, SettlesAt, CountsNoMore, Counts
<1> QED
  BY <1>1, <1>2, SettlesInv

LEMMA tombstoneCreatorContentDomainInv ==
  ASSUME IInv, NEW a \in Asset, tombstoneCreatorContentDomain(a)
  PROVE  IInv'
<1> USE DEF tombstoneCreatorContentDomain, Aside, storage
<1>1. /\ session' \in [Asset -> SessionRow]
      /\ \A x \in Asset \ {a} : session'[x] = session[x]
      /\ session'[a].status = session[a].status
      /\ session'[a].locked = session[a].locked
      /\ session[a].expired => session'[a].expired
  BY RowsWritten DEF IInv, Typed
<1>2. /\ asset' \in [Asset -> AssetRow]
      /\ \A x \in Asset \ {a} : asset'[x] = asset[x]
      /\ asset'[a].key = asset[a].key
      /\ asset'[a].temporary = asset[a].temporary
      /\ \/ asset'[a].status = asset[a].status
         \/ asset'[a].status = "DELETE_PENDING"
  BY RowsWritten DEF IInv, Typed
<1>3. /\ target' \in [Asset -> {"none", "attaching", "open", "done"}]
      /\ \A x \in Asset \ {a} : target'[x] = target[x]
      /\ target'[a] # "none" => target[a] # "none"
  BY DEF IInv, Typed
<1>4. Typed'
  BY <1>1, <1>2, <1>3 DEF IInv, Typed
<1>5. Settles(a)
  BY <1>1, <1>2, <1>3
  DEF Settles, SettlesAt, CountsNoMore, Counts, Existing, Unlocked
<1> QED
  BY <1>4, <1>5, SettlesInv

(* What one transaction adds to the outbox.                                *)
LEMMA EnqueuedTasks ==
  ASSUME Typed, NEW T, task' = Enqueued(T)
  PROVE  /\ task' \in [Task -> TaskRow]
         /\ \A t \in Task :
              /\ t \notin T => task'[t] = task[t]
              /\ task[t].status # "NONE" => task'[t] = task[t]
              /\ t \in T /\ task[t].status = "NONE" =>
                   task'[t].status = "PENDING"
<1>1. [status |-> "PENDING", lease |-> Unleased] \in TaskRow
  BY RestTyped DEF TaskRow
<1> QED
  BY <1>1 DEF Typed, Enqueued

LEMMA purgeActorMediaUploadSessionsInv ==
  ASSUME IInv, NEW a \in Asset, purgeActorMediaUploadSessions(a)
  PROVE  IInv'
<1> USE DEF purgeActorMediaUploadSessions, Aside, storage
<1>1. /\ asset[a].status \notin {"ABSENT", "PURGED"} /\ ~AssetLocked(a)
      /\ ~session[a].locked /\ upload[a] # "none"
  BY DEF Existing, Unlocked, SessionLocked, IInv, RowInv, UploadInv
<1>2. /\ session' \in [Asset -> SessionRow]
      /\ \A x \in Asset \ {a} : session'[x] = session[x]
      /\ session'[a].status = "NONE"
      /\ session'[a].locked = session[a].locked
  <2>1. session[a] \in SessionRow
    BY DEF IInv, Typed
  <2>2. /\ [session[a] EXCEPT !.status = "NONE", !.cleanup = Unleased]
             \in SessionRow
        /\ session' = [session EXCEPT ![a] =
             [session[a] EXCEPT !.status = "NONE", !.cleanup = Unleased]]
    BY <2>1, RestTyped DEF IInv, Typed, SessionRow
  <2> QED
    BY <2>1, <2>2 DEF IInv, Typed, SessionRow
<1>3. /\ asset' \in [Asset -> AssetRow]
      /\ \A x \in Asset \ {a} : asset'[x] = asset[x]
      /\ asset'[a].key = asset[a].key
      /\ asset'[a].temporary = asset[a].temporary
      /\ \/ asset'[a].status = asset[a].status
         \/ asset'[a].status = "DELETE_PENDING"
  <2> DEFINE r == [Condemned(a) EXCEPT !.cleanup = Unleased]
  <2>1. /\ r \in AssetRow /\ r.status = "DELETE_PENDING"
        /\ r.key = asset[a].key /\ r.temporary = asset[a].temporary
    BY RowsWritten, RestTyped DEF IInv, AssetRow
  <2>2. asset' = asset \/ asset' = [asset EXCEPT ![a] = r]
    OBVIOUS
  <2> HIDE DEF r
  <2> QED
    BY <2>1, <2>2 DEF IInv, Typed
<1>4. Stoppable({a}) = IF session[a].status = "ACTIVE" THEN {a} ELSE {}
  BY DEF Stoppable
<1>5. /\ task' \in [Task -> TaskRow]
      /\ \A x \in Asset \ {a} : task'[Abort(x)] = task[Abort(x)]
      /\ \A x \in Asset : task'[Delete(x)] = task[Delete(x)]
      /\ task[Abort(a)].status # "NONE" => task'[Abort(a)] = task[Abort(a)]
      /\ task[Abort(a)].status = "NONE" =>
           task'[Abort(a)].status =
             IF session[a].status = "ACTIVE" THEN "PENDING" ELSE "NONE"
  <2> DEFINE T == {Abort(b) : b \in Stoppable({a})}
  <2>1. T = IF session[a].status = "ACTIVE" THEN {Abort(a)} ELSE {}
    BY <1>4
  <2>2. task' = Enqueued(T)
    OBVIOUS
  <2> HIDE DEF T
  <2>3. /\ task' \in [Task -> TaskRow]
        /\ \A t \in Task :
             /\ t \notin T => task'[t] = task[t]
             /\ task[t].status # "NONE" => task'[t] = task[t]
             /\ t \in T /\ task[t].status = "NONE" =>
                  task'[t].status = "PENDING"
    BY <2>2, EnqueuedTasks DEF IInv
  <2> QED
    BY <2>1, <2>3, TasksDiffer
<1>6. Typed'
  BY <1>2, <1>3, <1>5 DEF IInv, Typed
<1>7. CountsNoMore(a)
  BY <1>2 DEF CountsNoMore
<1>8. OneRow(a)
  <2>1. \A x \in Asset \ {a} : Same(x)
    BY <1>2, <1>3, <1>5 DEF Same
  <2>2. KeyInv(a)'
    BY <1>3 DEF IInv, RowInv, KeyInv
  <2>3. UploadInv(a)'
    <3>1. task[Abort(a)] \in TaskRow
      BY TasksDiffer DEF IInv, Typed
    <3>2. task[Abort(a)].status \in {"NONE", "PENDING", "RUNNING", "COMPLETE"}
      BY <3>1 DEF TaskRow
    <3> QED
      BY <1>1, <1>2, <1>3, <1>5, <3>2
      DEF IInv, RowInv, UploadInv, Begun, Pending
  <2>4. SourceInv(a)'
    BY <1>1, <1>3, <1>5 DEF IInv, RowInv, SourceInv
  <2>5. Steady(a) /\ \A v \in Worker : StaysFor(v, a)
    BY <1>1, <1>3
    DEF Steady, StaysFor, Gone, Validates, AssetLocked, Acting
  <2> QED
    BY <2>1, <2>2, <2>3, <2>4, <2>5 DEF OneRow, RowKept, RowInv
<1> QED
  BY <1>6, <1>7, <1>8, QuotaOfRow, RowStepInv

LEMMA markArchivedMediaCleanupInv ==
  ASSUME IInv, NEW c \in Company, markArchivedMediaCleanup(c)
  PROVE  IInv'
<1> USE DEF markArchivedMediaCleanup, Aside, storage
<1>1. ASSUME NEW x \in Asset
      PROVE  /\ session'[x] \in SessionRow
             /\ session'[x].status = session[x].status
             /\ session'[x].locked = session[x].locked
             /\ session[x].expired => session'[x].expired
  <2>1. session'[x] = session[x] \/ session'[x] = Closed(x)
    OBVIOUS
  <2> QED
    BY <2>1, RowsWritten DEF IInv, Typed
<1>2. ASSUME NEW x \in Asset
      PROVE  /\ asset'[x] \in AssetRow
             /\ asset'[x].key = asset[x].key
             /\ asset'[x].temporary = asset[x].temporary
             /\ \/ asset'[x].status = asset[x].status
                \/ asset'[x].status = "DELETE_PENDING" /\ x \in Of(c)
  <2> DEFINE r == [Condemned(x) EXCEPT !.cleanup = Unleased]
  <2>1. /\ r \in AssetRow /\ r.status = "DELETE_PENDING"
        /\ r.key = asset[x].key /\ r.temporary = asset[x].temporary
    BY RowsWritten, RestTyped DEF IInv, AssetRow
  <2>2. asset'[x] = asset[x] \/ (asset'[x] = r /\ x \in Of(c))
    OBVIOUS
  <2> HIDE DEF r
  <2> QED
    BY <2>1, <2>2 DEF IInv, Typed
<1>3. Typed'
  BY <1>1, <1>2 DEF IInv, Typed
<1>4. \A x \in Asset : SettlesAt(x)
  BY <1>1, <1>2 DEF SettlesAt, CountsNoMore, Counts, Of, Existing, Unlocked
<1>5. \A x \in Asset : RowKept(x)
  BY <1>4, SettlesAtRow
<1>6. QuotaInv'
  BY <1>4, QuotaKept DEF IInv, SettlesAt
<1> QED
  BY <1>3, <1>5, <1>6, RowsStepInv

(* The outbox of a purge concerns the purged rows alone.                   *)
LEMMA RemoteTasks ==
  ASSUME IInv, NEW S \in SUBSET Existing
  PROVE  /\ \A x \in Asset \ S :
              Abort(x) \notin RemoteOf(S) /\ Delete(x) \notin RemoteOf(S)
         /\ \A x \in S : session[x].status = "ACTIVE" =>
              Abort(x) \in RemoteOf(S)
         /\ \A x \in S : asset[x].temporary \/ asset[x].key = x =>
              Delete(x) \in RemoteOf(S)
<1>1. /\ Existing \subseteq Asset
      /\ \A x \in Asset : asset[x].key \in Key \cup {NoKey}
      /\ \A x \in Asset : asset[x].key \in Asset => asset[x].key = x
  BY DEF Existing, IInv, Typed, AssetRow, RowInv, KeyInv
<1>2. ASSUME NEW x \in Asset \ S PROVE Abort(x) \notin RemoteOf(S)
  BY <1>1, TasksDiffer DEF RemoteOf, Stoppable
<1>3. ASSUME NEW x \in Asset \ S PROVE Delete(x) \notin RemoteOf(S)
  BY <1>1, TasksDiffer DEF RemoteOf, Stoppable
<1>4. ASSUME NEW x \in S, session[x].status = "ACTIVE"
      PROVE  Abort(x) \in RemoteOf(S)
  BY <1>4 DEF RemoteOf, Stoppable
<1>5. ASSUME NEW x \in S, asset[x].temporary
      PROVE  Delete(x) \in RemoteOf(S)
  BY <1>5 DEF RemoteOf
<1>6. ASSUME NEW x \in S, asset[x].key = x
      PROVE  Delete(x) \in RemoteOf(S)
  <2>1. \A o \in Existing \ S : asset[o].key # asset[x].key
    BY <1>1, <1>6
  <2>2. asset[x].key # NoKey
    BY <1>1, <1>6, KeyAssumption DEF Key
  <2> QED
    BY <1>6, <2>1, <2>2 DEF RemoteOf
<1> QED
  BY <1>2, <1>3, <1>4, <1>5, <1>6

LEMMA PurgeInv ==
  ASSUME IInv, NEW S \in SUBSET Existing, Purge(S), UNCHANGED open,
         archived' \in [Company -> BOOLEAN]
  PROVE  IInv'
<1> USE DEF Purge, Aside, storage
<1>1. /\ S \subseteq Asset
      /\ \A x \in S : /\ asset[x].status \notin {"ABSENT", "PURGED"}
                      /\ ~AssetLocked(x) /\ upload[x] # "none"
  BY DEF Existing, Unlocked, IInv, RowInv, UploadInv
<1>2. ASSUME NEW x \in S
      PROVE  /\ asset'[x] \in AssetRow /\ asset'[x].status = "PURGED"
             /\ asset'[x].key = NoKey
  <2>1. asset[x] \in AssetRow /\ x \in Asset
    BY <1>1 DEF IInv, Typed
  <2> DEFINE r == [asset[x] EXCEPT !.status = "PURGED", !.key = NoKey,
                     !.temporary = FALSE, !.due = FALSE, !.old = FALSE,
                     !.validation = Unleased, !.cleanup = Unleased]
  <2>2. r \in AssetRow /\ r.status = "PURGED" /\ r.key = NoKey
    BY <2>1, RestTyped DEF AssetRow
  <2>3. asset'[x] = r
    BY <2>1
  <2> HIDE DEF r
  <2> QED
    BY <2>2, <2>3
<1>3. ASSUME NEW x \in S
      PROVE  /\ session'[x] \in SessionRow /\ session'[x].status = "NONE"
             /\ ~session'[x].locked /\ target'[x] = "none"
  BY <1>1, RestTyped DEF SessionRow
<1>4. ASSUME NEW x \in Asset \ S
      PROVE  /\ asset'[x] = asset[x] /\ session'[x] = session[x]
             /\ target'[x] = target[x]
  OBVIOUS
<1>5. /\ task' \in [Task -> TaskRow]
      /\ \A t \in Task :
           /\ t \notin RemoteOf(S) => task'[t] = task[t]
           /\ task[t].status # "NONE" => task'[t] = task[t]
           /\ t \in RemoteOf(S) /\ task[t].status = "NONE" =>
                task'[t].status = "PENDING"
  BY EnqueuedTasks DEF IInv
<1>6. Typed'
  <2>1. asset' \in [Asset -> AssetRow] /\ session' \in [Asset -> SessionRow]
    BY <1>2, <1>3, <1>4 DEF IInv, Typed
  <2>2. target' \in [Asset -> {"none", "attaching", "open", "done"}]
    BY DEF IInv, Typed
  <2> QED
    BY <1>5, <2>1, <2>2 DEF IInv, Typed
<1>7. ASSUME NEW x \in Asset \ S PROVE RowKept(x) /\ CountsNoMore(x)
  <2>1. Same(x)
    BY <1>4, <1>5, RemoteTasks, TasksDiffer DEF Same
  <2> QED
    BY <2>1, SameRow DEF RowKept, IInv
<1>8. ASSUME NEW x \in S PROVE RowKept(x) /\ CountsNoMore(x)
  <2>1. x \in Asset /\ Abort(x) \in Task /\ Delete(x) \in Task /\ x \in Key
    BY <1>1, TasksDiffer
  <2>2. KeyInv(x)'
    BY <1>2, <1>3, <2>1, KeyAssumption DEF KeyInv, Key
  <2>3. UploadInv(x)'
    <3>1. task[Abort(x)].status \in {"NONE", "PENDING", "RUNNING", "COMPLETE"}
      BY <2>1 DEF IInv, Typed, TaskRow
    <3>2. session[x].status = "ACTIVE" => Abort(x) \in RemoteOf(S)
      BY RemoteTasks
    <3>3. UploadInv(x)
      BY <2>1 DEF IInv, RowInv
    <3>4. /\ x \notin creating /\ creating' = creating /\ upload' = upload
          /\ asset'[x].status = "PURGED" /\ session'[x].status = "NONE"
          /\ ~session'[x].locked /\ upload[x] # "none"
      BY <1>1, <1>2, <1>3
    <3>5. /\ task[Abort(x)].status # "NONE" =>
               task'[Abort(x)] = task[Abort(x)]
          /\ task[Abort(x)].status = "NONE" =>
               \/ task'[Abort(x)].status = "NONE"
                    /\ session[x].status # "ACTIVE"
               \/ task'[Abort(x)].status = "PENDING"
      BY <1>5, <2>1, <3>2
    <3> QED
      BY <3>1, <3>3, <3>4, <3>5 DEF UploadInv, Begun, Pending
  <2>4. SourceInv(x)'
    <3>1. asset[x].temporary \/ asset[x].key = x => Delete(x) \in RemoteOf(S)
      BY RemoteTasks
    <3> QED
      BY <1>1, <1>2, <1>5, <2>1, <3>1
      DEF IInv, RowInv, SourceInv, Pending
  <2>5. Steady(x) /\ \A v \in Worker : StaysFor(v, x)
    <3>1. /\ asset'[x].status = "PURGED" /\ asset'[x].key # x
          /\ target'[x] = "none" /\ upload' = upload /\ objects' = objects
      <4>1. asset'[x].status = "PURGED" /\ asset'[x].key = NoKey
        BY <1>2
      <4>2. NoKey # x
        BY <2>1, KeyAssumption
      <4>3. target'[x] = "none"
        BY <1>3
      <4>4. upload' = upload /\ objects' = objects
        OBVIOUS
      <4> QED
        BY <4>1, <4>2, <4>3, <4>4
    <3>2. Steady(x)
      BY <3>1 DEF Steady, Gone
    <3>3. \A v \in Worker : StaysFor(v, x)
      BY <1>1 DEF StaysFor, Validates, AssetLocked, Acting
    <3> QED
      BY <3>2, <3>3
  <2>6. CountsNoMore(x)
    BY <1>3 DEF CountsNoMore
  <2> QED
    BY <2>2, <2>3, <2>4, <2>5, <2>6 DEF RowKept, RowInv
<1>9. QuotaInv'
  BY <1>7, <1>8, QuotaKept DEF IInv
<1> QED
  BY <1>6, <1>7, <1>8, <1>9, RowsStepInv

LEMMA purgeCompanyContentDomainInv ==
  ASSUME IInv, NEW c \in Company, purgeCompanyContentDomain(c)
  PROVE  IInv'
<1>1. Of(c) \in SUBSET Existing
  BY DEF Of
<1> QED
  BY <1>1, PurgeInv DEF purgeCompanyContentDomain, IInv, Typed

LEMMA purgeWorkspaceContentDomainInv ==
  ASSUME IInv, purgeWorkspaceContentDomain
  PROVE  IInv'
  BY PurgeInv DEF purgeWorkspaceContentDomain

-----------------------------------------------------------------------------
(* Workers.                                                                *)

WorkerStep(w) ==
  job' \in [Worker -> JobRow] /\ \A v \in Worker \ {w} : job'[v] = job[v]

(* A step of one worker, over any rows.                                    *)
LEMMA WorkerInv ==
  ASSUME IInv, NEW w \in Worker, WorkerStep(w), Typed', QuotaInv',
         \A x \in Asset : RowInv(x)' /\ Steady(x),
         \A v \in Worker \ {w}, x \in Asset : StaysFor(v, x),
         JobInv(w)', OneInstalls'
  PROVE  IInv'
<1>1. \A v \in Worker \ {w} : JobInv(v)'
  BY JobKept DEF IInv, WorkerStep
<1> QED
  BY <1>1 DEF IInv

(* A worker that has just begun holds no lock; one that ends has no job.   *)
LEMMA OneInstallsKept ==
  ASSUME IInv, NEW w \in Worker, WorkerStep(w),
         job'[w].acted /\ job'[w].kind = "VALIDATE" =>
           \A v \in Worker \ {w} : ~Validates(v, job'[w].id)
  PROVE  OneInstalls'
  BY DEF IInv, OneInstalls, WorkerStep, Validates

LEMMA RestsInv ==
  ASSUME IInv, NEW w \in Worker, job' = [job EXCEPT ![w] = Idle],
         Typed', QuotaInv', \A x \in Asset : RowInv(x)' /\ Steady(x),
         \A v \in Worker \ {w}, x \in Asset : StaysFor(v, x)
  PROVE  IInv'
<1>1. WorkerStep(w) /\ job'[w] = Idle
  BY RestTyped DEF IInv, Typed, WorkerStep
<1>2. JobInv(w)'
  BY <1>1, RestTyped DEF JobInv, TaskJob, AssetJob, LockedJob, ObjectJob
<1>3. OneInstalls'
  BY <1>1, RestTyped, OneInstallsKept
<1> QED
  BY <1>1, <1>2, <1>3, WorkerInv

(* A claim: what the worker now knows of the row.                          *)
LEMMA TookJob ==
  ASSUME IInv, NEW w \in Worker,
         NEW kind \in {"VALIDATE", "TASK", "MULTIPART", "TEMP", "OBJECT"},
         NEW i \in Asset \cup Task, NEW key \in Key \cup {NoKey},
         Took(w, kind, i, key)
  PROVE  /\ WorkerStep(w) /\ OneInstalls'
         /\ job'[w].kind = kind /\ job'[w].id = i /\ job'[w].key = key
         /\ ~job'[w].acted
         /\ UNCHANGED <<target, archived, open, storage, creating, faults>>
<1> DEFINE r == [Idle EXCEPT !.kind = kind, !.id = i, !.key = key]
<1>1. /\ r \in JobRow /\ r.kind = kind /\ r.id = i /\ r.key = key
      /\ ~r.acted
  BY DEF Idle, JobRow
<1>2. /\ job' = [job EXCEPT ![w] = r]
      /\ UNCHANGED <<target, archived, open, storage, creating, faults>>
  BY DEF Took
<1> HIDE DEF r
<1>3. WorkerStep(w) /\ job'[w] = r
  BY <1>1, <1>2 DEF IInv, Typed, WorkerStep
<1> QED
  BY <1>1, <1>2, <1>3, OneInstallsKept

(* The lease a claim writes.                                               *)
LEMMA LeasedRows ==
  ASSUME Typed, NEW w \in Worker
  PROVE  /\ \A a \in Asset :
              /\ [asset[a] EXCEPT !.validation = LeasedTo(w)] \in AssetRow
              /\ [asset[a] EXCEPT !.cleanup = LeasedTo(w)] \in AssetRow
              /\ [session[a] EXCEPT !.cleanup = LeasedTo(w)] \in SessionRow
         /\ \A status \in {"PENDING", "RUNNING", "COMPLETE"} :
              /\ [status |-> status, lease |-> LeasedTo(w)] \in TaskRow
              /\ [status |-> status, lease |-> Unleased] \in TaskRow
<1>1. LeasedTo(w) \in Lease /\ Unleased \in Lease
  BY RestTyped
<1>2. \A a \in Asset :
        /\ [asset[a] EXCEPT !.validation = LeasedTo(w)] \in AssetRow
        /\ [asset[a] EXCEPT !.cleanup = LeasedTo(w)] \in AssetRow
  BY <1>1 DEF Typed, AssetRow
<1>3. \A a \in Asset :
        [session[a] EXCEPT !.cleanup = LeasedTo(w)] \in SessionRow
  BY <1>1 DEF Typed, SessionRow
<1>4. \A status \in {"PENDING", "RUNNING", "COMPLETE"} :
        /\ [status |-> status, lease |-> LeasedTo(w)] \in TaskRow
        /\ [status |-> status, lease |-> Unleased] \in TaskRow
  BY <1>1 DEF TaskRow
<1> QED
  BY <1>2, <1>3, <1>4

(* A claim that writes a lease alone.                                      *)
LEMMA LeaseClaimInv ==
  ASSUME IInv, NEW w \in Worker, SameButLeases, WorkerStep(w), OneInstalls',
         asset' \in [Asset -> AssetRow], session' \in [Asset -> SessionRow],
         task' \in [Task -> TaskRow], UNCHANGED faults, JobInv(w)'
  PROVE  IInv'
<1>1. Typed'
  BY DEF IInv, Typed, SameButLeases, WorkerStep, storage
<1> QED
  BY <1>1, LeasesOnly, WorkerInv

LEMMA claimMediaValidationInv ==
  ASSUME IInv, NEW w \in Worker, NEW a \in Asset, claimMediaValidation(w, a)
  PROVE  IInv'
<1> USE DEF claimMediaValidation
<1>1. asset[a] \in AssetRow /\ asset[a].key \in Key \cup {NoKey}
  BY DEF IInv, Typed, AssetRow
<1>2. /\ WorkerStep(w) /\ OneInstalls'
      /\ job'[w].kind = "VALIDATE" /\ job'[w].id = a /\ ~job'[w].acted
      /\ UNCHANGED <<target, archived, open, storage, creating, faults>>
  BY <1>1, TookJob
<1>3. asset' \in [Asset -> AssetRow] /\ SameButLeases
  <2> DEFINE r == [asset[a] EXCEPT !.validation = LeasedTo(w)]
  <2>1. /\ r \in AssetRow /\ r.status = asset[a].status
        /\ r.key = asset[a].key /\ r.temporary = asset[a].temporary
    BY <1>1, LeasedRows DEF IInv, AssetRow
  <2>2. asset' = [asset EXCEPT ![a] = r]
    OBVIOUS
  <2> HIDE DEF r
  <2> QED
    BY <1>2, <2>1, <2>2 DEF IInv, Typed, SameButLeases
<1>4. JobInv(w)'
  BY <1>2, <1>3
  DEF SameButLeases, JobInv, TaskJob, AssetJob, LockedJob, ObjectJob
<1> QED
  BY <1>2, <1>3, <1>4, LeaseClaimInv DEF IInv, Typed

LEMMA InstallInv ==
  ASSUME IInv, NEW w \in Worker, NEW fit \in BOOLEAN, Install(w, fit)
  PROVE  IInv'
<1> DEFINE a == job[w].id
<1> USE DEF Install, tables
<1>1. /\ a \in Asset /\ asset[a].status = "VALIDATING"
      /\ job[w].kind = "VALIDATE" /\ ~AssetLocked(a)
      /\ DigestOf[a] \in Key /\ DigestOf[a] \notin Asset
  BY MediaAssumption DEF HoldsValidation, IInv, JobInv, AssetJob, Key
<1>2. /\ WorkerStep(w) /\ job'[w].kind = "VALIDATE" /\ job'[w].id = a
  <2> DEFINE r == [job[w] EXCEPT !.acted = TRUE, !.ready = fit]
  <2>1. job[w] \in JobRow
    BY DEF IInv, Typed
  <2>2. r \in JobRow /\ r.kind = job[w].kind /\ r.id = job[w].id
    BY <2>1 DEF JobRow
  <2>3. job' = [job EXCEPT ![w] = r]
    BY DEF IInv, Typed
  <2> HIDE DEF r
  <2> QED
    <3>1. WorkerStep(w) /\ job'[w] = r
      BY <2>2, <2>3 DEF IInv, Typed, WorkerStep
    <3> QED
      BY <1>1, <2>2, <3>1
<1>3. /\ objects' \subseteq Key
      /\ \A x \in Asset : x \in objects' <=> x \in objects
  BY <1>1 DEF IInv, Typed
<1>4. Typed'
  BY <1>2, <1>3 DEF IInv, Typed, WorkerStep
<1>5. \A x \in Asset : Same(x)
  BY <1>3 DEF Same
<1>6. /\ \A x \in Asset : RowInv(x)' /\ Steady(x) /\ CountsNoMore(x)
      /\ \A v \in Worker, x \in Asset : StaysFor(v, x)
  BY <1>5, SameRow DEF IInv
<1>7. QuotaInv'
  BY <1>6, QuotaKept DEF IInv
<1>8. OneInstalls'
  <2>1. \A v \in Worker : ~Validates(v, a)
    BY <1>1 DEF Validates, AssetLocked, Acting
  <2> QED
    BY <1>2, <2>1, OneInstallsKept
<1>9. JobInv(w)'
  BY <1>1, <1>2 DEF JobInv, TaskJob, AssetJob, LockedJob, ObjectJob
<1> QED
  BY <1>2, <1>4, <1>6, <1>7, <1>8, <1>9, WorkerInv

LEMMA finishMediaValidationInv ==
  ASSUME IInv, NEW w \in Worker, finishMediaValidation(w)
  PROVE  IInv'
<1> USE DEF finishMediaValidation, storage
<1>0. PICK a \in Asset : a = job[w].id
  BY DEF IInv, JobInv, AssetJob
<1>1. /\ a \in Asset /\ asset[a].status = "VALIDATING"
      /\ asset[a] \in AssetRow
      /\ DigestOf[a] \in Key /\ DigestOf[a] \notin Asset
      /\ DigestOf[a] # NoKey
  <2>1. a \in Asset /\ asset[a].status = "VALIDATING"
    BY <1>0 DEF IInv, JobInv, AssetJob, LockedJob
  <2>2. asset[a] \in AssetRow
    BY <2>1 DEF IInv, Typed
  <2>3. DigestOf[a] \in Digest
    BY <2>1, MediaAssumption
  <2> QED
    BY <2>1, <2>2, <2>3, MediaAssumption, KeyAssumption DEF Key
<1>2. /\ asset' \in [Asset -> AssetRow]
      /\ \A x \in Asset \ {a} : asset'[x] = asset[x]
      /\ \/ /\ asset'[a].status = "READY" /\ asset'[a].key = DigestOf[a]
            /\ asset'[a].temporary
         \/ /\ asset'[a].status = "REJECTED" /\ asset'[a].key = asset[a].key
            /\ asset'[a].temporary = asset[a].temporary
  <2> DEFINE r == [asset[a] EXCEPT !.status = "READY", !.key = DigestOf[a],
                     !.temporary = TRUE, !.validation = Unleased]
             q == [asset[a] EXCEPT !.status = "REJECTED", !.due = FALSE,
                     !.validation = Unleased]
  <2>1. /\ r \in AssetRow /\ r.status = "READY" /\ r.key = DigestOf[a]
        /\ r.temporary
    BY <1>1, RestTyped DEF AssetRow
  <2>2. /\ q \in AssetRow /\ q.status = "REJECTED"
        /\ q.key = asset[a].key /\ q.temporary = asset[a].temporary
    BY <1>1, RestTyped DEF AssetRow
  <2>3. asset' = [asset EXCEPT ![a] = r] \/ asset' = [asset EXCEPT ![a] = q]
    BY <1>0, <1>1 DEF IInv, Typed
  <2> HIDE DEF r, q
  <2> QED
    <3>1. CASE asset' = [asset EXCEPT ![a] = r]
      BY <2>1, <3>1, AssetWritten DEF IInv
    <3>2. CASE asset' = [asset EXCEPT ![a] = q]
      BY <2>2, <3>2, AssetWritten DEF IInv
    <3> QED
      BY <2>3, <3>1, <3>2
<1>3. Typed'
  BY <1>0, <1>2, RestTyped DEF IInv, Typed
<1>4. /\ \A v \in Worker \ {w} : ~Validates(v, a)
      /\ UNCHANGED <<session, task, target, upload, objects, creating>>
      /\ job' = [job EXCEPT ![w] = Idle]
  BY <1>0 DEF Validates, IInv, OneInstalls
<1> HIDE DEF finishMediaValidation
<1>5. \A x \in Asset \ {a} : Same(x)
  BY <1>2, <1>4 DEF Same
<1>6. RowInv(a)'
  <2>1. KeyInv(a)'
    BY <1>1, <1>2, <1>4 DEF IInv, RowInv, KeyInv
  <2>2. UploadInv(a)'
    BY <1>1, <1>2, <1>4 DEF IInv, RowInv, UploadInv
  <2>3. SourceInv(a)'
    BY <1>1, <1>2, <1>4 DEF IInv, RowInv, SourceInv
  <2> QED
    BY <2>1, <2>2, <2>3 DEF RowInv
<1>7. Steady(a) /\ CountsNoMore(a)
  BY <1>1, <1>2, <1>4 DEF Steady, Gone, CountsNoMore, Counts
<1>8. \A v \in Worker \ {w} : StaysFor(v, a)
  BY <1>4 DEF StaysFor
<1>9. /\ \A x \in Asset : RowInv(x)' /\ Steady(x) /\ CountsNoMore(x)
      /\ \A v \in Worker \ {w}, x \in Asset : StaysFor(v, x)
  BY <1>5, <1>6, <1>7, <1>8, SameRow DEF IInv
<1>10. QuotaInv'
  BY <1>4, <1>9, QuotaKept DEF IInv
<1> QED
  BY <1>3, <1>4, <1>9, <1>10, RestsInv

-----------------------------------------------------------------------------
(* Collection.                                                             *)

(* A task of the outbox moves on.                                          *)
TaskStep(t) ==
  /\ \A s \in Task \ {t} : task'[s] = task[s]
  /\ task'[t].status \in Pending \cup {"COMPLETE"}
  /\ \A a \in Asset :
       /\ t = Abort(a) =>
            /\ upload[a] # "none"
            /\ task'[t].status = "COMPLETE" => upload[a] \in Begun
       /\ t = Delete(a) =>
            /\ asset[a].status = "PURGED"
            /\ task'[t].status = "COMPLETE" => a \notin objects
  /\ UNCHANGED <<asset, session, target, upload, objects, creating>>

LEMMA TaskStepRows ==
  ASSUME IInv, NEW t \in Task, TaskStep(t)
  PROVE  /\ \A x \in Asset : RowInv(x)' /\ Steady(x)
         /\ \A v \in Worker, x \in Asset : StaysFor(v, x)
         /\ QuotaInv'
<1> USE DEF TaskStep
<1>1. ASSUME NEW x \in Asset
      PROVE  RowInv(x)' /\ Steady(x) /\ CountsNoMore(x)
  <2>1. KeyInv(x)'
    BY DEF IInv, RowInv, KeyInv
  <2>2. UploadInv(x)'
    <3>1. CASE t = Abort(x)
      BY <3>1 DEF IInv, RowInv, UploadInv, Pending, Begun
    <3>2. CASE t # Abort(x)
      BY <3>2, TasksDiffer DEF IInv, RowInv, UploadInv
    <3> QED
      BY <3>1, <3>2
  <2>3. SourceInv(x)'
    <3>1. CASE t = Delete(x)
      BY <3>1 DEF IInv, RowInv, SourceInv, Pending
    <3>2. CASE t # Delete(x)
      BY <3>2, TasksDiffer DEF IInv, RowInv, SourceInv
    <3> QED
      BY <3>1, <3>2
  <2>4. Steady(x) /\ CountsNoMore(x)
    BY DEF Steady, CountsNoMore, Counts
  <2> QED
    BY <2>1, <2>2, <2>3, <2>4 DEF RowInv
<1>2. \A v \in Worker, x \in Asset : StaysFor(v, x)
  BY DEF StaysFor
<1>3. QuotaInv'
  BY <1>1, QuotaKept DEF IInv
<1> QED
  BY <1>1, <1>2, <1>3

LEMMA ClaimTaskInv ==
  ASSUME IInv, NEW w \in Worker, NEW t \in Task, ClaimTask(w, t)
  PROVE  IInv'
<1> USE DEF ClaimTask
<1>1. t[2] \in Key /\ task[t].status \in Pending
  BY TasksDiffer DEF TasksDue, Pending
<1>2. /\ WorkerStep(w) /\ OneInstalls' /\ job'[w].kind = "TASK"
      /\ job'[w].id = t /\ job'[w].key = t[2] /\ ~job'[w].acted
      /\ UNCHANGED <<target, archived, open, storage, creating, faults>>
  BY <1>1, TookJob
<1>3. /\ task' \in [Task -> TaskRow] /\ task'[t].status = "RUNNING"
      /\ \A s \in Task \ {t} : task'[s] = task[s]
      /\ UNCHANGED <<asset, session>>
  BY LeasedRows DEF IInv, Typed
<1>4. \A a \in Asset : /\ t = Abort(a) => upload[a] # "none"
                       /\ t = Delete(a) => asset[a].status = "PURGED"
  BY <1>1 DEF IInv, RowInv, UploadInv, SourceInv, Pending
<1>5. TaskStep(t)
  BY <1>2, <1>3, <1>4 DEF TaskStep, Pending, storage
<1>6. Typed'
  BY <1>2, <1>3 DEF IInv, Typed, WorkerStep, storage
<1>7. JobInv(w)'
  BY <1>2, <1>3, <1>4
  DEF JobInv, TaskJob, AssetJob, LockedJob, ObjectJob, storage
<1> QED
  BY <1>2, <1>5, <1>6, <1>7, TaskStepRows, WorkerInv

LEMMA ClaimMultipartInv ==
  ASSUME IInv, NEW w \in Worker, NEW a \in Asset, ClaimMultipart(w, a)
  PROVE  IInv'
<1> USE DEF ClaimMultipart
<1>1. /\ asset[a].key \in Key \cup {NoKey} /\ session[a] \in SessionRow
      /\ session[a].status = "ACTIVE" /\ asset[a].status # "ABSENT"
  BY DEF SessionsDue, IInv, Typed, AssetRow, RowInv, UploadInv
<1>2. /\ WorkerStep(w) /\ OneInstalls' /\ job'[w].kind = "MULTIPART"
      /\ job'[w].id = a /\ ~job'[w].acted
      /\ UNCHANGED <<target, archived, open, storage, creating, faults>>
  BY <1>1, TookJob
<1>3. /\ session' \in [Asset -> SessionRow] /\ SameButLeases
      /\ UNCHANGED <<asset, task>>
  <2> DEFINE r == [session[a] EXCEPT !.cleanup = LeasedTo(w)]
  <2>1. /\ r \in SessionRow /\ r.status = session[a].status
        /\ r.expired = session[a].expired /\ r.locked = session[a].locked
    BY <1>1, LeasedRows DEF IInv, SessionRow
  <2>2. session' = [session EXCEPT ![a] = r] /\ UNCHANGED <<asset, task>>
    OBVIOUS
  <2> HIDE DEF r
  <2> QED
    BY <1>2, <2>1, <2>2 DEF IInv, Typed, SameButLeases
<1>4. JobInv(w)'
  BY <1>1, <1>2, <1>3 DEF JobInv, TaskJob, AssetJob, LockedJob, ObjectJob
<1> QED
  BY <1>2, <1>3, <1>4, LeaseClaimInv DEF IInv, Typed

LEMMA ClaimTempInv ==
  ASSUME IInv, NEW w \in Worker, NEW a \in Asset, ClaimTemp(w, a)
  PROVE  IInv'
<1> USE DEF ClaimTemp, Collecting
<1>1. a \in Key /\ asset[a] \in AssetRow /\ asset[a].status = "READY"
  BY DEF TempDue, IInv, Typed, Key
<1>2. /\ WorkerStep(w) /\ OneInstalls' /\ job'[w].kind = "TEMP"
      /\ job'[w].id = a /\ job'[w].key = a /\ ~job'[w].acted
      /\ UNCHANGED <<target, archived, open, storage, creating, faults>>
  BY <1>1, TookJob
<1>3. /\ asset' \in [Asset -> AssetRow] /\ SameButLeases
      /\ UNCHANGED <<session, task>>
  <2> DEFINE r == [asset[a] EXCEPT !.cleanup = LeasedTo(w)]
  <2>1. /\ r \in AssetRow /\ r.status = asset[a].status
        /\ r.key = asset[a].key /\ r.temporary = asset[a].temporary
    BY <1>1, LeasedRows DEF IInv, AssetRow
  <2>2. asset' = [asset EXCEPT ![a] = r] /\ UNCHANGED <<session, task>>
    OBVIOUS
  <2> HIDE DEF r
  <2> QED
    BY <1>2, <2>1, <2>2 DEF IInv, Typed, SameButLeases
<1>4. asset'[a].status # "ABSENT"
  BY <1>1, <1>3 DEF SameButLeases
<1>5. JobInv(w)'
  BY <1>2, <1>4 DEF JobInv, TaskJob, AssetJob, LockedJob, ObjectJob
<1> QED
  BY <1>2, <1>3, <1>5, LeaseClaimInv DEF IInv, Typed

LEMMA ClaimObjectInv ==
  ASSUME IInv, NEW w \in Worker, NEW a \in Asset, ClaimObject(w, a)
  PROVE  IInv'
<1> USE DEF ClaimObject, Collecting
<1>1. /\ asset[a].key \in Key \cup {NoKey} /\ asset[a] \in AssetRow
      /\ asset[a].status \notin {"ABSENT", "PURGED"}
      /\ ~AssetLocked(a) /\ target[a] = "none"
  BY DEF ObjectsDue, Referenced, Due, IInv, Typed, AssetRow
<1>2. /\ WorkerStep(w) /\ OneInstalls' /\ job'[w].kind = "OBJECT"
      /\ job'[w].id = a /\ job'[w].key = asset[a].key /\ ~job'[w].acted
      /\ UNCHANGED <<target, archived, open, storage, creating, faults>>
  BY <1>1, TookJob
<1>3. /\ asset' \in [Asset -> AssetRow]
      /\ \A x \in Asset \ {a} : asset'[x] = asset[x]
      /\ asset'[a].status = "DELETE_PENDING" /\ asset'[a].key = asset[a].key
      /\ asset'[a].temporary = asset[a].temporary
      /\ UNCHANGED <<session, task>>
  <2> DEFINE r == [asset[a] EXCEPT !.status = "DELETE_PENDING", !.due = TRUE,
                                   !.cleanup = LeasedTo(w)]
  <2>1. /\ r \in AssetRow /\ r.status = "DELETE_PENDING"
        /\ r.key = asset[a].key /\ r.temporary = asset[a].temporary
    BY <1>1, RestTyped DEF AssetRow
  <2>2. asset' = [asset EXCEPT ![a] = r] /\ UNCHANGED <<session, task>>
    BY Zenon
  <2> HIDE DEF r
  <2> QED
    BY <2>1, <2>2, AssetWritten DEF IInv
<1>4. Typed'
  BY <1>2, <1>3 DEF IInv, Typed, WorkerStep, storage
<1>5. Settles(a)
  BY <1>1, <1>2, <1>3
  DEF Settles, SettlesAt, CountsNoMore, Counts, storage
<1>6. \A x \in Asset : RowKept(x)
  BY <1>2, <1>3, <1>5, SettlesRow, OneRowKept DEF storage
<1>7. QuotaInv'
  BY <1>2, <1>3, <1>5, SettlesRow, QuotaOfRow DEF storage
<1>8. JobInv(w)'
  BY <1>1, <1>2, <1>3
  DEF JobInv, TaskJob, AssetJob, LockedJob, ObjectJob, Gone
<1> QED
  BY <1>2, <1>4, <1>6, <1>7, <1>8, WorkerInv DEF RowKept

LEMMA claimMediaCleanupInv ==
  ASSUME IInv, NEW w \in Worker, claimMediaCleanup(w)
  PROVE  IInv'
  BY ClaimTaskInv, ClaimMultipartInv, ClaimTempInv, ClaimObjectInv
  DEF claimMediaCleanup

(* The collector removes an object: whoever lost it was waiting for that.  *)
LEMMA FewerObjects ==
  ASSUME IInv, objects' \subseteq objects,
         UNCHANGED <<asset, session, task, target, upload, creating>>
  PROVE  /\ \A x \in Asset : RowInv(x)' /\ Steady(x)
         /\ \A v \in Worker, x \in Asset : StaysFor(v, x)
         /\ QuotaInv'
<1>1. ASSUME NEW x \in Asset
      PROVE  RowInv(x)' /\ Steady(x) /\ CountsNoMore(x)
  <2>1. KeyInv(x)'
    BY DEF IInv, RowInv, KeyInv
  <2>2. UploadInv(x)'
    BY DEF IInv, RowInv, UploadInv
  <2>3. SourceInv(x)'
    BY DEF IInv, RowInv, SourceInv
  <2>4. Steady(x) /\ CountsNoMore(x)
    BY DEF Steady, CountsNoMore, Counts
  <2> QED
    BY <2>1, <2>2, <2>3, <2>4 DEF RowInv
<1>2. \A v \in Worker, x \in Asset : StaysFor(v, x)
  BY DEF StaysFor
<1>3. QuotaInv'
  BY <1>1, QuotaKept DEF IInv
<1> QED
  BY <1>1, <1>2, <1>3

(* The storage stops an upload, whatever the database knows of it.         *)
LEMMA FewerUploads ==
  ASSUME IInv, NEW a \in Asset, upload' = Stopped(a),
         UNCHANGED <<asset, session, task, target, objects, creating>>
  PROVE  /\ \A x \in Asset : RowInv(x)' /\ Steady(x)
         /\ \A v \in Worker, x \in Asset : StaysFor(v, x)
         /\ QuotaInv'
<1>1. /\ \A x \in Asset \ {a} : upload'[x] = upload[x]
      /\ upload'[a] = upload[a] \/ upload'[a] \in Begun
  BY StoppedUpload DEF IInv, Begun
<1>2. Settles(a)
  BY <1>1 DEF Settles, SettlesAt, CountsNoMore, Counts
<1> QED
  BY <1>2, SettlesRow, OneRowKept, QuotaOfRow DEF RowKept

LEMMA executeMediaCleanupInv ==
  ASSUME IInv, NEW w \in Worker, executeMediaCleanup(w)
  PROVE  IInv'
<1> USE DEF executeMediaCleanup, tables
<1>1. /\ WorkerStep(w) /\ job'[w].kind = job[w].kind
      /\ job'[w].id = job[w].id /\ job'[w].key = job[w].key
      /\ job'[w].acted
  BY DEF IInv, Typed, JobRow, WorkerStep
<1>2. job[w].kind \in {"TASK", "MULTIPART", "TEMP", "OBJECT"}
  BY DEF HoldsCleanup
<1>3. OneInstalls'
  BY <1>1, <1>2, OneInstallsKept
<1>4. JobInv(w)
  BY DEF IInv
<1>5. CASE job[w].kind = "MULTIPART"
  <2>1. PICK a \in Asset : a = job[w].id
    BY <1>4, <1>5 DEF JobInv, AssetJob
  <2>2. asset[a].status # "ABSENT" /\ upload[a] # "none"
    BY <1>4, <1>5, <2>1 DEF JobInv, AssetJob, IInv, RowInv, UploadInv
  <2>3. /\ upload' = Stopped(a)
        /\ UNCHANGED <<asset, session, task, target, archived, open, objects,
                       creating, faults>>
    BY <1>5, <2>1
  <2>4. /\ upload' \in [Asset -> {"none", "open", "done", "gone", "leaked"}]
        /\ upload'[a] \in Begun
    BY <2>2, <2>3, StoppedUpload DEF IInv
  <2>5. Typed'
    BY <1>1, <2>3, <2>4 DEF IInv, Typed, WorkerStep
  <2>6. JobInv(w)'
    BY <1>1, <1>5, <2>1, <2>2, <2>3, <2>4
    DEF JobInv, TaskJob, AssetJob, LockedJob, ObjectJob
  <2> QED
    BY <1>1, <1>3, <2>3, <2>5, <2>6, FewerUploads, WorkerInv
<1>6. CASE job[w].kind = "TASK" /\ job[w].id[1] = "ABORT_MULTIPART"
  <2>1. PICK a \in Asset : Abort(a) = job[w].id
    BY <1>4, <1>6 DEF JobInv, TaskJob, Task, Delete
  <2>2. upload[a] # "none"
    BY <1>4, <1>6, <2>1 DEF JobInv, TaskJob
  <2>3. /\ upload' = Stopped(a)
        /\ UNCHANGED <<asset, session, task, target, archived, open, objects,
                       creating, faults>>
    BY <1>6, <2>1 DEF Abort
  <2>4. /\ upload' \in [Asset -> {"none", "open", "done", "gone", "leaked"}]
        /\ upload'[a] \in Begun
    BY <2>2, <2>3, StoppedUpload DEF IInv
  <2>5. Typed'
    BY <1>1, <2>3, <2>4 DEF IInv, Typed, WorkerStep
  <2>6. TaskJob(w)'
    <3>1. job[w].id \in Task /\ job[w].key = job[w].id[2]
      BY <1>4, <1>6 DEF JobInv, TaskJob
    <3>2. \A b \in Asset : job[w].id = Abort(b) => b = a
      BY <2>1, TasksDiffer
    <3>3. \A b \in Asset : job[w].id # Delete(b)
      BY <2>1, TasksDiffer
    <3>4. upload'[a] # "none"
      BY <2>4 DEF Begun
    <3> QED
      BY <1>1, <2>4, <3>1, <3>2, <3>3, <3>4 DEF TaskJob
  <2>7. JobInv(w)'
    BY <1>1, <1>6, <2>6 DEF JobInv, AssetJob, LockedJob, ObjectJob
  <2> QED
    BY <1>1, <1>3, <2>3, <2>5, <2>7, FewerUploads, WorkerInv
<1>7. CASE /\ job[w].kind \in {"TASK", "TEMP", "OBJECT"}
           /\ ~(job[w].kind = "TASK" /\ job[w].id[1] = "ABORT_MULTIPART")
  <2>1. /\ objects' = objects \ {job[w].key}
        /\ UNCHANGED <<asset, session, task, target, archived, open, upload,
                       creating, faults>>
    BY <1>7
  <2>2. Typed'
    BY <1>1, <2>1 DEF IInv, Typed, WorkerStep
  <2>3. TaskJob(w)'
    <3>1. \A a \in Asset : job[w].kind = "TASK" => job[w].id # Abort(a)
      BY <1>7 DEF Abort
    <3>2. \A a \in Asset : job[w].kind = "TASK" /\ job[w].id = Delete(a) =>
            asset[a].status = "PURGED" /\ job[w].key = a
      BY <1>4 DEF JobInv, TaskJob, Delete
    <3> QED
      BY <1>1, <1>4, <2>1, <3>1, <3>2 DEF JobInv, TaskJob
  <2>4. AssetJob(w)' /\ LockedJob(w)' /\ ObjectJob(w)'
    BY <1>1, <1>4, <1>7, <2>1 DEF JobInv, AssetJob, LockedJob, ObjectJob
  <2>5. JobInv(w)'
    BY <2>3, <2>4 DEF JobInv
  <2> QED
    BY <1>1, <1>3, <2>1, <2>2, <2>5, FewerObjects, WorkerInv
<1> QED
  BY <1>2, <1>5, <1>6, <1>7

-----------------------------------------------------------------------------
(* The commit of a collection.                                             *)

LEMMA TaskDoneInv ==
  ASSUME IInv, NEW w \in Worker, job[w].acted,
         job' = [job EXCEPT ![w] = Idle], TaskDone(w), Kept, UNCHANGED faults
  PROVE  IInv'
<1> USE DEF TaskDone, Kept, storage
<1>1. PICK t \in Task : t = job[w].id
  BY DEF IInv, JobInv, TaskJob
<1>2. /\ task' \in [Task -> TaskRow] /\ task'[t].status = "COMPLETE"
      /\ \A s \in Task \ {t} : task'[s] = task[s]
  BY <1>1, LeasedRows DEF IInv, Typed
<1>3. TaskStep(t)
  BY <1>1, <1>2 DEF TaskStep, IInv, JobInv, TaskJob
<1>4. Typed'
  BY <1>2, RestTyped DEF IInv, Typed
<1> QED
  BY <1>3, <1>4, TaskStepRows, RestsInv

LEMMA SessionDoneInv ==
  ASSUME IInv, NEW w \in Worker, job[w].acted,
         job' = [job EXCEPT ![w] = Idle], SessionDone(w), Kept,
         UNCHANGED faults
  PROVE  IInv'
<1> USE DEF SessionDone, Kept, storage
<1>1. PICK a \in Asset : a = job[w].id
  BY DEF IInv, JobInv, AssetJob
<1>2. /\ asset[a].status # "ABSENT" /\ upload[a] \in Begun /\ ~AssetLocked(a)
  BY <1>1 DEF IInv, JobInv, AssetJob, LockedJob
<1>3. /\ session' \in [Asset -> SessionRow]
      /\ \A x \in Asset \ {a} : session'[x] = session[x]
      /\ session'[a].status = "EXPIRED"
      /\ session'[a].locked = session[a].locked
  <2> DEFINE r == [session[a] EXCEPT !.status = "EXPIRED",
                                     !.cleanup = Unleased]
  <2>1. session[a] \in SessionRow
    BY DEF IInv, Typed
  <2>2. /\ r \in SessionRow /\ r.status = "EXPIRED"
        /\ r.locked = session[a].locked
    BY <2>1, RestTyped DEF SessionRow
  <2>3. session' = [session EXCEPT ![a] = r]
    BY <1>1 DEF IInv, Typed
  <2> HIDE DEF r
  <2> QED
    BY <2>2, <2>3 DEF IInv, Typed
<1>4. /\ asset' \in [Asset -> AssetRow]
      /\ \A x \in Asset \ {a} : asset'[x] = asset[x]
      /\ asset'[a].key = asset[a].key
      /\ asset'[a].temporary = asset[a].temporary
      /\ \/ asset'[a].status = asset[a].status
         \/ /\ asset'[a].status = "DELETE_PENDING"
            /\ asset[a].status = "UPLOADING"
  BY <1>1, RowsWritten DEF IInv, Typed
<1>5. Typed'
  BY <1>3, <1>4, RestTyped DEF IInv, Typed
<1>6. Settles(a)
  BY <1>2, <1>3, <1>4 DEF Settles, SettlesAt, CountsNoMore
<1>7. (\A x \in Asset : RowKept(x)) /\ QuotaInv'
  BY <1>6, SettlesRow, OneRowKept, QuotaOfRow
<1> QED
  BY <1>5, <1>7, RestsInv DEF RowKept

LEMMA TempDoneInv ==
  ASSUME IInv, NEW w \in Worker, job[w].acted,
         job' = [job EXCEPT ![w] = Idle], TempDone(w), Kept, UNCHANGED faults
  PROVE  IInv'
<1> USE DEF TempDone, Kept, storage
<1>1. PICK a \in Asset : a = job[w].id
  BY DEF IInv, JobInv, AssetJob
<1>2. a \notin objects
  BY <1>1 DEF IInv, JobInv, LockedJob
<1>3. /\ asset' \in [Asset -> AssetRow]
      /\ \A x \in Asset \ {a} : asset'[x] = asset[x]
      /\ asset'[a].status = asset[a].status /\ asset'[a].key = asset[a].key
  <2> DEFINE r == [Unclaimed(a) EXCEPT !.temporary = FALSE]
  <2>1. /\ r \in AssetRow /\ r.status = asset[a].status
        /\ r.key = asset[a].key
    <3>1. /\ Unclaimed(a) \in AssetRow
          /\ Unclaimed(a).status = asset[a].status
          /\ Unclaimed(a).key = asset[a].key
          /\ Unclaimed(a).temporary = asset[a].temporary
      BY RowsWritten DEF IInv
    <3> QED
      BY <3>1 DEF AssetRow
  <2>2. asset' = [asset EXCEPT ![a] = r]
    BY <1>1
  <2> HIDE DEF r
  <2> QED
    BY <2>1, <2>2, AssetWritten DEF IInv
<1>4. Typed'
  BY <1>3, RestTyped DEF IInv, Typed
<1>5. OneRow(a) /\ CountsNoMore(a)
  <2>1. \A x \in Asset \ {a} : Same(x)
    BY <1>3 DEF Same
  <2>2. KeyInv(a)'
    BY <1>3 DEF IInv, RowInv, KeyInv
  <2>3. UploadInv(a)' /\ SourceInv(a)'
    BY <1>2, <1>3 DEF IInv, RowInv, UploadInv, SourceInv
  <2>4. Steady(a) /\ CountsNoMore(a) /\ \A v \in Worker : StaysFor(v, a)
    BY <1>3 DEF Steady, CountsNoMore, Counts, StaysFor
  <2> QED
    BY <2>1, <2>2, <2>3, <2>4 DEF OneRow, RowKept, RowInv
<1>6. (\A x \in Asset : RowKept(x)) /\ QuotaInv'
  BY <1>5, OneRowKept, QuotaOfRow
<1> QED
  BY <1>4, <1>6, RestsInv DEF RowKept

LEMMA ObjectDoneInv ==
  ASSUME IInv, NEW w \in Worker, job[w].acted,
         job' = [job EXCEPT ![w] = Idle], ObjectDone(w), Kept,
         UNCHANGED faults
  PROVE  IInv'
<1> USE DEF ObjectDone, Kept, storage
<1>1. PICK a \in Asset : a = job[w].id
  BY DEF IInv, JobInv, AssetJob
<1>2. /\ asset[a].status = "DELETE_PENDING" /\ target[a] = "none"
      /\ asset[a].key = a => a \notin objects
  BY <1>1 DEF IInv, JobInv, ObjectJob
<1>3. /\ asset' \in [Asset -> AssetRow]
      /\ \A x \in Asset \ {a} : asset'[x] = asset[x]
      /\ asset'[a].status = "DELETED" /\ asset'[a].key = NoKey
      /\ asset'[a].temporary = asset[a].temporary
  <2> DEFINE r == [Unclaimed(a) EXCEPT !.status = "DELETED", !.key = NoKey]
  <2>1. /\ r \in AssetRow /\ r.status = "DELETED" /\ r.key = NoKey
        /\ r.temporary = asset[a].temporary
    <3>1. /\ Unclaimed(a) \in AssetRow
          /\ Unclaimed(a).status = asset[a].status
          /\ Unclaimed(a).key = asset[a].key
          /\ Unclaimed(a).temporary = asset[a].temporary
      BY RowsWritten DEF IInv
    <3> QED
      BY <3>1 DEF AssetRow
  <2>2. asset' = [asset EXCEPT ![a] = r]
    BY <1>1
  <2> HIDE DEF r
  <2> QED
    BY <2>1, <2>2, AssetWritten DEF IInv
<1>4. Typed'
  BY <1>3, RestTyped DEF IInv, Typed
<1>5. a # NoKey /\ NoKey \notin Asset
  BY KeyAssumption DEF Key
<1>6. OneRow(a) /\ CountsNoMore(a)
  <2>1. \A x \in Asset \ {a} : Same(x)
    BY <1>3 DEF Same
  <2>2. KeyInv(a)'
    BY <1>2, <1>3, <1>5 DEF IInv, RowInv, KeyInv
  <2>3. UploadInv(a)' /\ SourceInv(a)'
    BY <1>2, <1>3 DEF IInv, RowInv, UploadInv, SourceInv, Pending
  <2>4. Steady(a) /\ CountsNoMore(a) /\ \A v \in Worker : StaysFor(v, a)
    BY <1>2, <1>3, <1>5 DEF Steady, Gone, CountsNoMore, Counts, StaysFor
  <2> QED
    BY <2>1, <2>2, <2>3, <2>4 DEF OneRow, RowKept, RowInv
<1>7. (\A x \in Asset : RowKept(x)) /\ QuotaInv'
  BY <1>6, OneRowKept, QuotaOfRow
<1> QED
  BY <1>4, <1>7, RestsInv DEF RowKept

LEMMA CleanupCommitsInv ==
  ASSUME IInv, NEW w \in Worker, CleanupCommits(w)
  PROVE  IInv'
  BY TaskDoneInv, SessionDoneInv, TempDoneInv, ObjectDoneInv
  DEF CleanupCommits

-----------------------------------------------------------------------------
(* The end of a job that came to nothing.                                  *)

LEMMA LeavesInv ==
  ASSUME IInv, NEW w \in Worker, SameButLeases,
         job' = [job EXCEPT ![w] = Idle],
         asset' \in [Asset -> AssetRow], session' \in [Asset -> SessionRow],
         task' \in [Task -> TaskRow], faults' \in 0 .. MaxFaults
  PROVE  IInv'
<1>1. Typed'
  BY RestTyped DEF IInv, Typed, SameButLeases, storage
<1> QED
  BY <1>1, LeasesOnly, RestsInv

LEMMA ReleasedInv ==
  ASSUME IInv, NEW w \in Worker, Released(w), Kept,
         job' = [job EXCEPT ![w] = Idle], faults' \in 0 .. MaxFaults
  PROVE  IInv'
<1> USE DEF Kept
<1>1. CASE job[w].kind \in {"TEMP", "OBJECT"}
  <2>1. PICK a \in Asset : a = job[w].id
    BY <1>1 DEF IInv, JobInv, AssetJob
  <2>2. /\ UNCHANGED <<session, task>>
        /\ asset' = asset \/ asset' = [asset EXCEPT ![a] = Unclaimed(a)]
    BY <1>1, <2>1 DEF Released
  <2>3. /\ Unclaimed(a) \in AssetRow
        /\ Unclaimed(a).status = asset[a].status
        /\ Unclaimed(a).key = asset[a].key
        /\ Unclaimed(a).temporary = asset[a].temporary
    BY RowsWritten DEF IInv
  <2>4. asset' \in [Asset -> AssetRow] /\ SameButLeases
    BY <2>2, <2>3 DEF IInv, Typed, SameButLeases
  <2> QED
    BY <2>2, <2>4, LeavesInv DEF IInv, Typed
<1>2. CASE job[w].kind = "MULTIPART"
  <2>1. PICK a \in Asset : a = job[w].id
    BY <1>2 DEF IInv, JobInv, AssetJob
  <2> DEFINE r == [session[a] EXCEPT !.cleanup = Unleased]
  <2>2. session[a] \in SessionRow
    BY DEF IInv, Typed
  <2>3. /\ r \in SessionRow /\ r.status = session[a].status
        /\ r.expired = session[a].expired /\ r.locked = session[a].locked
    BY <2>2, RestTyped DEF SessionRow
  <2>4. /\ UNCHANGED <<asset, task>>
        /\ session' = session \/ session' = [session EXCEPT ![a] = r]
    BY <1>2, <2>1 DEF Released, IInv, Typed
  <2> HIDE DEF r
  <2>5. session' \in [Asset -> SessionRow] /\ SameButLeases
    BY <2>3, <2>4 DEF IInv, Typed, SameButLeases
  <2> QED
    BY <2>4, <2>5, LeavesInv DEF IInv, Typed
<1>3. CASE job[w].kind = "TASK"
  <2>1. PICK t \in Task : t = job[w].id
    BY <1>3 DEF IInv, JobInv, TaskJob
  <2>2. UNCHANGED <<asset, session>>
    BY <1>3 DEF Released
  <2>3. CASE task' = task
    <3>1. SameButLeases
      BY <2>2, <2>3 DEF SameButLeases
    <3> QED
      BY <2>2, <2>3, <3>1, LeavesInv DEF IInv, Typed
  <2>4. CASE task' = [task EXCEPT ![t] = [status |-> "PENDING",
                                          lease |-> Unleased]]
    <3>1. /\ task' \in [Task -> TaskRow] /\ task'[t].status = "PENDING"
          /\ \A s \in Task \ {t} : task'[s] = task[s]
      BY <2>4, LeasedRows DEF IInv, Typed
    <3>2. TaskStep(t)
      BY <1>3, <2>1, <2>2, <3>1
      DEF TaskStep, Pending, IInv, JobInv, TaskJob, storage
    <3>3. Typed'
      BY <2>2, <3>1, RestTyped DEF IInv, Typed, storage
    <3> QED
      BY <3>2, <3>3, TaskStepRows, RestsInv
  <2> QED
    BY <1>3, <2>1, <2>3, <2>4 DEF Released
<1>4. CASE job[w].kind \in {"none", "VALIDATE"}
  <2>1. UNCHANGED <<asset, session, task>>
    BY <1>4 DEF Released
  <2>2. SameButLeases
    BY <2>1 DEF SameButLeases
  <2> QED
    BY <2>1, <2>2, LeavesInv DEF IInv, Typed
<1>5. job[w].kind \in {"none", "VALIDATE", "TASK", "MULTIPART", "TEMP",
                       "OBJECT"}
  BY DEF IInv, Typed, JobRow
<1> QED
  BY <1>1, <1>2, <1>3, <1>4, <1>5

LEMMA EndsRefusedInv ==
  ASSUME IInv, NEW w \in Worker, EndsRefused(w)
  PROVE  IInv'
<1>1. faults' \in 0 .. MaxFaults
  BY DEF EndsRefused, IInv, Typed
<1> QED
  BY <1>1, ReleasedInv DEF EndsRefused

LEMMA EndsFailedInv ==
  ASSUME IInv, NEW w \in Worker, EndsFailed(w)
  PROVE  IInv'
  BY FaultTyped, ReleasedInv DEF EndsFailed, IInv

LEMMA CrashInv ==
  ASSUME IInv, NEW w \in Worker, Crash(w)
  PROVE  IInv'
<1> USE DEF Crash, Kept
<1>1. SameButLeases
  BY DEF SameButLeases
<1>2. /\ asset' \in [Asset -> AssetRow] /\ session' \in [Asset -> SessionRow]
      /\ task' \in [Task -> TaskRow] /\ faults' \in 0 .. MaxFaults
  BY FaultTyped DEF IInv, Typed
<1> QED
  BY <1>1, <1>2, LeavesInv

-----------------------------------------------------------------------------
(* Every step.                                                             *)

LEMMA UploadStepInv ==
  ASSUME IInv, NEW a \in Asset, Upload(a)
  PROVE  IInv'
<1>1. CASE CreateBegins(a) \/ CreateCommits(a)
  BY <1>1, CreateBeginsInv, CreateCommitsInv
<1>2. CASE \E left \in {"gone", "leaked"} : CreateFails(a, left)
  BY <1>2, CreateFailsInv
<1>3. CASE CompleteBegins(a) \/ CompleteCommits(a) \/ CompleteCrashes(a)
  BY <1>3, CompleteBeginsInv, CompleteCommitsInv, CompleteCrashesInv
<1>4. CASE \E b \in BOOLEAN : CompleteFails(a, b) \/ abortMediaUpload(a, b)
  BY <1>4, CompleteFailsInv, abortMediaUploadInv
<1>5. CASE Expire(a) \/ Grow(a)
  BY <1>5, ExpireInv, GrowInv
<1> QED
  BY <1>1, <1>2, <1>3, <1>4, <1>5, Zenon DEF Upload

LEMMA LifecycleStepInv ==
  ASSUME IInv, NEW a \in Asset, Lifecycle(a)
  PROVE  IInv'
<1>1. CASE Attach(a)
  BY <1>1, AttachInv
<1>2. CASE \/ TargetSucceeds(a)
           \/ \E becomes \in {"none", "open"} : AttachEnds(a, becomes)
  BY <1>2, ReferenceMovesInv
<1>3. CASE tombstoneCreatorContentDomain(a)
  BY <1>3, tombstoneCreatorContentDomainInv
<1>4. CASE purgeActorMediaUploadSessions(a)
  BY <1>4, purgeActorMediaUploadSessionsInv
<1> QED
  BY <1>1, <1>2, <1>3, <1>4, Zenon DEF Lifecycle

LEMMA WorkerStepInv ==
  ASSUME IInv, NEW w \in Worker,
         Validate(w) \/ Collect(w) \/ EndsRefused(w) \/ EndsFailed(w)
           \/ Crash(w)
  PROVE  IInv'
<1>1. CASE Validate(w)
  BY <1>1, claimMediaValidationInv, InstallInv, finishMediaValidationInv
  DEF Validate
<1>2. CASE Collect(w)
  BY <1>2, claimMediaCleanupInv, executeMediaCleanupInv, CleanupCommitsInv
  DEF Collect
<1>3. CASE EndsRefused(w) \/ EndsFailed(w) \/ Crash(w)
  BY <1>3, EndsRefusedInv, EndsFailedInv, CrashInv
<1> QED
  BY <1>1, <1>2, <1>3

LEMMA StutterInv ==
  ASSUME IInv, UNCHANGED vars
  PROVE  IInv'
<1> USE DEF vars, tables, storage
<1>1. Typed' /\ OneInstalls'
  BY DEF IInv, Typed, OneInstalls
<1>2. \A x \in Asset : Same(x)
  BY DEF Same
<1>3. \A x \in Asset : RowKept(x) /\ CountsNoMore(x)
  BY <1>2, SameRow DEF RowKept, IInv
<1>4. QuotaInv'
  BY <1>3, QuotaKept DEF IInv
<1> QED
  BY <1>1, <1>3, <1>4, RowsStepInv

LEMMA NextInv == IInv /\ [Next]_vars => IInv'
<1> SUFFICES ASSUME IInv, [Next]_vars PROVE IInv'
  OBVIOUS
<1>1. ASSUME NEW a \in Asset, Upload(a) \/ Lifecycle(a) PROVE IInv'
  BY <1>1, UploadStepInv, LifecycleStepInv
<1>2. ASSUME NEW w \in Worker,
             Validate(w) \/ Collect(w) \/ EndsRefused(w) \/ EndsFailed(w)
               \/ Crash(w)
      PROVE  IInv'
  BY <1>2, WorkerStepInv
<1>3. CASE Lapse
  BY <1>3, LapseInv
<1>4. ASSUME NEW c \in Company,
             markArchivedMediaCleanup(c) \/ purgeCompanyContentDomain(c)
      PROVE  IInv'
  BY <1>4, markArchivedMediaCleanupInv, purgeCompanyContentDomainInv
<1>5. CASE purgeWorkspaceContentDomain
  BY <1>5, purgeWorkspaceContentDomainInv
<1>6. CASE UNCHANGED vars
  BY <1>6, StutterInv
<1> QED
  BY <1>1, <1>2, <1>3, <1>4, <1>5, <1>6, Zenon DEF Next

-----------------------------------------------------------------------------

(* Two stores without a common transaction agree as the rows, the outbox   *)
(* and the locks of the code make them.                                    *)
THEOREM MediaInvariant == Spec => []IInv
<1> QED
  BY InitInv, NextInv, PTL DEF Spec

(* Every row, lease and claim keeps to its type, and a READY asset to the  *)
(* digest of its own video.                                                *)
THEOREM MediaTypeCorrect == Spec => []TypeOK
<1>1. IInv => TypeOK
  BY DEF IInv, Typed, RowInv, KeyInv, TypeOK, AssetRow, SessionRow, TaskRow,
         JobRow
<1> QED
  BY <1>1, MediaInvariant, PTL

(* However many uploads are created at once, those that count never exceed *)
(* what one user may have (media_storage.go:281-299).                      *)
THEOREM QuotaIsAlwaysKept == Spec => []QuotaIsKept
<1>1. IInv => QuotaIsKept
  BY DEF IInv, QuotaInv
<1> QED
  BY <1>1, MediaInvariant, PTL

(* Neither a crash between the two stores nor the purge of every row that  *)
(* knew of it loses an upload or a source (lifecycle.go:205-230 and        *)
(* 254-269, content_media_worker.go:618-620).                              *)
THEOREM StorageIsAlwaysTracked == Spec => []StorageIsTracked
<1>1. IInv => UploadsAreTracked
  BY DEF IInv, RowInv, UploadInv, UploadsAreTracked, Pending
<1>2. IInv => SourcesAreTracked
  BY DEF IInv, RowInv, SourceInv, SourcesAreTracked, Pending
<1> QED
  BY <1>1, <1>2, MediaInvariant, PTL DEF StorageIsTracked

(* The collector drops the key of no asset a target refers to, in whatever *)
(* order the reference, the claim and the commit arrive                    *)
(* (content_media_worker.go:344-356 and 510-514).                          *)
THEOREM ReferencedAreAlwaysKept == Spec => []ReferencedAreKept
<1>1. IInv => ReferencedAreKept
  BY DEF IInv, RowInv, KeyInv, ReferencedAreKept, Referenced
<1> QED
  BY <1>1, MediaInvariant, PTL
=============================================================================
