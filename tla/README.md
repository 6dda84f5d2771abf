# Statzavod: a verification project

TLA+ models of the publishing backend (Go API and worker, PostgreSQL, object
storage), checked with TLC on small instances; their safety is proved with TLAPS
for all of them.  Line references are to the source tree; file
names without a directory live in `internal/transport/http/`.

Contents: 1 the system, 2 the modules and the code they stand for, 3 what the
runs show, 4 where the code departs from its documents, 5 what is proved, 6 what
is not modelled.

## 1. The system

A React client talks to a Go API; a worker binary (`cmd/worker/main.go`) runs a
one-minute loop.  All coordination goes through PostgreSQL rows: there is no
other shared memory, and several API and worker processes may run at once.  A
pass of the worker loop is: media validation, media cleanup, content publish,
reauthorization expiry, lifecycle purge, OAuth token refresh, platform sync.

| component | state | operations | what is hard | module |
|---|---|---|---|---|
| publishing queue (`content_publish_worker.go`) | jobs, attempts, targets, revision status | claim, heartbeat, execute, finish, expire, resume | leases, reclaim, late finalizers, cancellation in flight | `PublishQueue`, `RevisionAggregate` |
| publish adapters (`content_publish_{tiktok,instagram,youtube,vk}.go`) | `provider_operation_id`, stored session of a target | Publish, Poll | calls that create, lost answers, resumed uploads | `PublishQueue` (TikTok), `PublishAdapters` |
| content commands and approval (`content.go`, `content_preflight.go`, `content_notifications.go`) | items, revisions, approval requests, targets | create, edit, submit, approve, reject, publish, schedule, retry, cancel, copy | edits racing with commands and decisions | `ContentWorkflow` |
| command idempotency (`content_idempotency.go`) | key, body hash, stored response | begin, finish | duplicated and concurrent requests | `ContentWorkflow` |
| media pipeline (`content_media_worker.go`, `media_storage.go`) | assets, upload sessions, cleanup tasks, leases | multipart upload, validation, collection, purge | object storage and database are not atomic | `MediaPipeline` |
| OAuth (`oauth.go`, `oauth_selection.go`, `tiktok.go`) | states, selections, connections, generations | start, callback, select, refresh, disconnect | overlapping reconnects, archives in between | `Connections` |
| synchronization (`platform_sync.go`, `vk_sync.go`) | sync targets, account status | claim, sync, finish, refresh, pause | refused refreshes that are out of date | `Connections` |
| lifecycle (`companies.go`, `lifecycle.go`, `account_lifecycle.go`, `instagram_privacy.go`) | lifecycle states, purge leases, receipts, deletion requests | archive, restore, purge, delete, withdraw a grant | leases over provider calls, grants shared by accounts | `Lifecycle`; archive also in `PublishQueue`, `Connections`, `MediaPipeline` |
| team and access (`server.go`, `authz.go`, `team.go`, `invitations.go`) | users, sessions, contexts, assignments, login accounts, invitations | sign in, select a context, invite, assign, suspend, delete, leave | principals that are out of date, the last owner | `TeamAccess` |
| read side (`exports.go`, `creator_portal.go`, `audit.go`, ...), analytics clients, set-up, web client, deployment | none of their own | queries | - | not modelled |

How they meet: a command inserts jobs under the lock of its revision; the worker
claims a job under a lease and calls the provider outside any transaction; the
heartbeat renews the lease only as long as company, creator, account and target
allow it; archive, revoke, reassignment and edit *fence* the queue (queued jobs
end, running ones get a marker on their target); a failed authorization parks the
target until an OAuth callback resumes it or a deadline ends it; each
finalization recomputes the status of the revision.  Media are referred to by
publish targets, collected when nothing refers to them, and purged with their
company or workspace; the purge also withdraws provider grants.

## 2. The modules

Each model `M` has `MProperties` (what is promised), where it is checked an
instance `MCM`, and where it is proved `MProofs`.

| module | contents |
|---|---|
| `PublishQueue` | the queue with the TikTok adapter: one action per transaction or provider call |
| `PublishOnce` | the abstract promise: intend, make, learn, reveal, each once and in this order |
| `PublishInOrder` | the abstract promise of publishing in parts: record, create, upload or process, publish, show, in this order |
| `PublishQueueDivergences` | statements about the queue that the code does not keep |
| `ContentAggregate` | the status of a revision as a function of its targets; used by both queue modules and by `ContentWorkflow` |
| `RevisionAggregate` | finalizations as transactions that overlap: lock, read the aggregate, write it, commit |
| `PublishAdapters` | the adapters of Instagram, YouTube and VK Video, with the queue's claim and finalization around them |
| `ContentWorkflow` | commands on an item, its revisions and approval requests, idempotency keys |
| `Connections` | authorization flows, connections, refresh, synchronization, archive of the company |
| `MediaPipeline` | uploads, validation, collection and purges over two stores |
| `Lifecycle` | leased purges of companies and workspaces, withdrawal of a grant, deletion requests |
| `TeamAccess` | sign-in, contexts, team, login accounts, invitations |

Conventions in all of them.  A transaction is one step where its locks make it
one, and two where what it decides on can change before it commits or where it
calls a provider or the storage in between.  What a request, callback or worker
remembers between two steps is a record in a variable of its own (`worker`,
`handler`, `flow`, `job`, `request`).  Time is what guards read of it: a lease is
live, a token is expiring, a deadline has passed.  *History* variables are read by
properties only.  Operators marked "Slip" are not part of the machine: each is a
plausible mistake in the operator after it.  `Scopes` bounds a behaviour: a scope
names the commands and events that may happen in it, so that one run covers
several combinations without their product.  Initial states are fresh rows.

### PublishQueue and RevisionAggregate

`target` (status, cancellation marker, operation), `job` (the latest job row of a
target: id, status, `attempt_count` as `tries`, `execution_count` as `exec`,
`locked_by` as `owner`, a live lease, `run_at` reached as `due`), `attempt` (the
attempts of that job by number), `rev` (revision status) and `current` are rows
of the database.  `worker` is the memory of a worker: the `contentPublishJob` it
claimed and how far it is.  `bound`, `companyActive` and `creatorActive` abstract
the tables that authorize publishing; `callback` is an OAuth callback between its
two transactions; `created` counts the objects the provider made, which no
program state shows.  `faults` is a budget.

Operation ids are `none`, `intent` (`tiktok:init:<target>`) or `accepted` (a
`publish_id`).  Results of an execution are what finalization tells apart: `ok`,
`pending`, `retry` (retryable, rate limit), `auth` (auth, permission), `perm` (the
rest).  A reauthorization deadline equals the `run_at` that the same UPDATE
writes, so `due` stands for both.

`Publish`, `Schedule`, `Retry`, `Cancel` are branches of `transitionContent`;
`Supersede` is `patchContentItem`; `ArchiveCompany`, `ArchiveCreator` and `Revoke`
share the fence (`FenceQueue`), `Reconnect` and `Resume` are the two transactions
of an OAuth callback and `CallbackDies` the crash between them.  `Claim` is the
whole claim transaction, with the refusal of a lost account and the closing of
the reclaimed attempt.  `Heartbeat` renews the lease, `LoseHeartbeat` ends the
execution context; calls made after that can only fail, which `Persists` and
`EndCall` observe.  `PersistIntent`, `ProviderAccepts`, `PersistAccepted` and their
failures are the steps of `Publish` in `content_publish_tiktok.go`.  The `Finish*`
actions are the branches of `finishContentPublish`, each with all it writes.
`Crash` is a dead process or a finalization that does not commit.

`PublishQueue` takes a transaction for one step.  For the rows of one target the
code justifies this: claims and finalizations lock company, job and target in this
order before they read them, and a command or fence that updates targets before
jobs, or the revision before targets, waits for those locks or is aborted by
PostgreSQL as the victim of a deadlock (a command that did nothing, or a `Crash`
of the finalization).  It is not true of the revision, whose status a finalization
computes from targets it does not lock.  `RevisionAggregate` therefore opens the
transaction: `Begin` updates the targets and reads the aggregate from what is
committed and its own write (`View`, `Read`), `Commit` writes what was read, `Abort`
loses it.  Its rows are only status, job (none, queued, running) and `late`, the
targets that a reclaimed owner may still return to; leases, markers, the provider
and the `current` revision are dropped, so its actions are enabled in more states
than those of `PublishQueue`.

### PublishAdapters

One target on one platform.  `op` and `resume` are the operation and the stored
session or URL of the target, `job` its job and, as `job.target`, the status of the
target, which the claim asks for as well: a target whose pending result is on record
is PROCESSING, and its job is not claimed again unless a worker died over it
(section 4, 1).  `worker` is what an execution knows: the operation it was claimed
with (`op` of the request), the session in hand, the offset, the result.  `calls`, `stored`, `ready`, `urls`, `live` are the provider: how
often it carried out a creating call, the bytes it has, the state of the container
or video, the sessions it gave and those that have not expired.  An execution goes
`claimContentPublish` - (`PersistIntent` - `Answers` - `PersistAnswer`) - (`LoadResume`,
`QueryOffset` or `OffsetUnknown`, `SendBytes`, `PersistVideo`) - `finishContentPublish`, with `Poll` and
`PollVK` for what exists already and `UrlIsGone`, `Refresh`, `PersistRefreshed` for an
upload URL of VK that has expired.  `Expected` is the compare-and-swap of
`persistOperation` and of the VK adapter; `Persist` and `PersistResume` are the two
ways to write the operation.  An upload is sent from the offset that the execution
has (`next`): a session takes bytes that begin at or before its first missing byte
(`Takes`) and refuses those that leave a gap.  A lost answer, a refusal, a broken connection, an
expiry, a crash and a lease that lapses under a working process (`Stall`) are
faults.  The fence of a finalization is the owner of the job rather than the
number of the execution; cancellation and archival are left to `PublishQueue`; the
retries inside one call of a provider client are part of the call.

### ContentWorkflow

A request is admitted (`Admit`, `AdmitEdit`: read the item outside any transaction),
decided (`Handle`: one transaction that claims the key, locks item and revision,
changes them and stores the answer) and answered (`Leave`, or the answer is lost);
`Replay` is a key found complete.  `stored` is `content_command_idempotency`,
`announced` the event keys of notifications; `effects` and `outcome` are history.
A revision has one target here, whose job is taken and ended by `TakeJob` and
`EndJob`.

### Connections

The connections of one company over several provider identities.  `status` and
`owner` are the account and its open assignment, `conn` its connection with
`authorization_generation`, `rows` its `sync_targets`, `flow` an authorization from
its state to its save, `job` a run of the refresh or of the synchronization.  A
callback is split where it exchanges the code at the provider; a refresh is split
although it is one transaction, because it calls the provider while it holds its
row locks: `Unlocked` guards every other writer.

### MediaPipeline

`asset`, `session`, `task` and `target` are rows, `upload` and `objects` the storage, `job`
what each worker has claimed.  A worker or handler acts on the storage first and
commits later, and may die in between: `acted` is what the storage has done.  A
generation is the identity of a claim, and as a worker makes one claim at a time
the row names the worker; an asset has one session; clocks are Booleans (`due`,
`old`, `expired`, a live lease).

### Lifecycle

Every company has at most one account and all accounts are copies of one grant,
the case in which it has to be decided who withdraws it.  `Claiming`,
`LifecyclePass` (read the tokens, revoke, finish) and `Crash` are the leased worker;
`request` is a disconnect or purge of an account by a user, in the steps *local*,
*elect*, *revoke*, *sweep*; `notice` is the loop of a data deletion.  `missed` is history:
a withdrawal failed or found no token.

### TeamAccess

`request` holds a principal that was read once (`by`, `context`, `companies`) and how
far a transaction is.  Locks are those of the code: the advisory lock of the
workspace around the count of owners, the one of a login, the row of a membership
or a profile.  The triggers of migrations 00020 and 00021 are part of the actions
that fire them (contexts that must be assigned, sessions that end with a status or password).

## 3. What the runs show

Where a run switches CHECK_DEADLOCK off, it is because the system really comes to
rest: everything ended and nothing left to do within the bounds.

| run | instance | shows | states, time |
|---|---|---|---|
| `queue_safety` | 1 target, 2 workers, 2 retries, 2 jobs, 3 executions, 2 faults, every command | the queue implements `PublishOnce`; one object per target, real and final successes, a fenced job, no queued work behind a cancellation | 250,000, 22 s |
| `queue_liveness` | 1 target, 2 workers, fairness | executions close, queued targets run, a reauthorization settles | 27 s |
| `aggregate_safety` | 3 targets, 2 sessions, all interference | PUBLISHED and PARTIALLY_PUBLISHED are true of the targets under overlapping finalizations | 98,000, 10 s |
| `adapters` | every platform (VK with and without a wall post; with a crash or a stall), 3 workers, 3 faults, fairness | creating calls are made once, a failure has a reason, every publication ends or is left with its pending result; the adapters implement `PublishInOrder` | 508,000, 105 s |
| `workflow` | the creator and a manager, 2 keys, 2 handlers, 2 revisions | approvals and jobs stay with the current revision, the policy holds, a key does its command once | 1,540,000, 90 s |
| `connections` | 2 identities, 2 flows, a worker, 2 generations | an overtaken reconnect saves nothing, a refused refresh spares a fresh authorization, an archive leaves nothing connected | 1,130,000, 110 s |
| `media` | 2 uploads of one video by 2 companies, 2 workers, 1 fault, fairness | nothing stored is forgotten, nothing referred to is declared deleted, quotas hold, uploads are decided | 65 s |
| `lifecycle` | 2 companies in 2 workspaces, 2 workers, 2 requests, 1 fault, fairness | a shared grant is withdrawn with its last copy, reported deletions are done, deletions end | 92,000, 77 s |
| `access` | 3 owners, 3 managers, 2 login accounts, 2 requests in flight | an owner stays, contexts are assigned, login accounts have profiles, an invitation makes one account | 760,000, 80 s |
| `shared_media`, `pending_never_polled`, `retry_never_runs` | as small as the counterexample | section 4 | seconds |

*Bounds.*  Queue: two workers and two faults suffice for a stalled owner, a second
owner, and the second one crashing; three executions allow two reclaims of one
job; a second job lets a worker of the first return to rows of the second; two
retries reach the last entry of the backoff table and the failure after it.
Adapters: three workers are the least with two stalled ones besides an owner, which
the exception of `CallsAreMadeOnce` takes; three faults are a lost answer or a broken connection, a crash or stall
on top of it, and an expiry; a medium of two parts has an offset inside;
`MaxUrls` exceeds what three faults can use up, and `Budget` is the program's own, so
that faults alone never exhaust it.  Workflow: two requests in flight are the least
that can overtake each other, two revisions the least of which one is superseded,
two keys distinguish a repetition from a new command.  Connections: the second
flow overtakes the first, two identities are what a selection may confuse, and
two generations are enough for one flow to be overtaken.  Media: two assets with
one digest are the least that share an object, two workers the least of which one
returns with a lapsed lease.  Lifecycle: two companies are the least that share a
grant.  Access: two requests are the least of which one acts on rights that the
other takes away.

*Symmetry*: workers, sessions, accounts, managers, keys and handlers are
interchangeable; it is used in safety runs only, and only for sets the
specification treats alike (not for the companies of `Lifecycle`, whose order
the election reads).

*Fairness*.  A worker that is up finishes what it executes and claims again (the
loop of `cmd/worker/main.go`), clocks advance, `ExpireContentReauth` runs in every
pass.  In `Lifecycle` each subject is claimed with strong fairness: a subject that
failed stays leased while the worker claims the next, so that every candidate is
claimable again and again (that candidates never outnumber the LIMIT of its query for
good is assumed with it).  Nothing is assumed of providers (any result is possible), nothing of operators, heartbeats, OAuth callbacks or requests; a crash
is a step that may happen until the budget is spent.

*What the properties say.*  `AtMostOneObject` and `CallsAreMadeOnce` are the point of
the durable intent; `SuccessIsReal` and `SuccessIsFinal` relate the places a success is
visible in; `StaleWorkerLeavesJob` is the fence seen from the worker;
`MarkedTargetIsNotQueued` is the queue's side of cancelling work in flight;
`FailsForAReason` says which losses do not fail an upload, a wrong offset among the
mistakes it would catch; `PublicationSettles` that no execution is repeated for ever
and nobody waits for a dead worker, a retry or a reconnect for ever - it does not say
that a publication ends, since a pending one does not; `ImplementsPublishInOrder`
that the parts of a publication, made by different executions, keep their order and
are all there before a success is shown (with `CallsAreMadeOnce` this is
`SuccessIsComplete`, which has a theorem and no run of its own).  `PendingIsCurrent`,
`OnlyCurrentIsQueued` and `PolicyIsKept` are about commands that overtake each other
after their admission.  `SupersededSavesNothing` and `RefreshSparesReconnect` are
about callbacks and refreshes that return late.  `StorageIsTracked` says that every
multipart upload and every source is known to a row that a collector will visit,
across crashes between the two stores and purges of the rows; `ReferencedAreKept`
is the race of a reference with the collector.  `GrantIsWithdrawn` is about two
endings that must not rely on each other.  `AnOwnerStays`, `ContextIsAssigned` and
`NoLoginIsLeftBehind` are about two requests that each see the other's rows as
still there.

Each property is paired in `PROJECT.json` with a mutant: a plausible mistake in a
modelled operation (the operator after the comment "Slip") under which TLC finds
the property violated in the same run.

## 4. Where the code departs from its documents

Found by a run, whose counterexample shows it:

1. `pending_never_polled`: a pending answer leaves the target PROCESSING, which the
   claim does not select; the scheduled poll does not happen
   (`content_publish_worker.go:387`).  In `PublishAdapters` the parts of a publication
   after its first pending result are therefore reached only when a worker dies
   before it has finalized that result, and its job is reclaimed, after a retry, or
   after a reconnect; the media id of Instagram is written by that finalization only,
   so that no Instagram publication is ever shown as published, and its last poll is
   in the model but never enabled.
2. `retry_never_runs`: the retry command leaves the target FAILED, which the claim
   does not select either (`content.go:957`).
3. `shared_media`: the collector deletes an object although another asset with the
   same digest is used by a target (`content_media_worker.go:489`; the purge looks,
   `lifecycle.go:233-245`).  (Runbook 41-43: "Never delete READY media used by a
   revision or a published target".)

Met while modelling, and modelled as the code has it unless said otherwise:

*Queue.*  The sixth failure writes `attempt_count = 6` against `CHECK (attempt_count
<= 5)`; the finalization aborts and the job is reclaimed once the lease lapses
(`content_publish_worker.go:499`).  A reclaimed worker that returns writes the
target by its id, although not the job (`:408`).  Fencing a company leaves the
revision PUBLISHING over cancelled targets (`companies.go:177`), and cancelling a
partly published revision sets CANCELLED.  An edit cancels the job of a target that
waits for a reconnect and leaves the target waiting (`content.go:658`).  Two workers
that finalize two targets of one revision at the same time each read the other as
PUBLISHING, and the revision stays PUBLISHING over FAILED targets (`:547`).

*Adapters.*  In the execution that saved a VK video, the request still carries the
intent while `persistResume` has replaced it, so that `persist("video")` never
matches: the finished upload ends as a retryable failure, a retry is spent, and
the next execution uploads the whole video again (`content_publish_vk.go:246`,
against `docs/content-publishing-vk-video.md:17-19`).  The pending result of an owner
may take the operation back behind what a stalled worker has written
(`content_publish_worker.go:393`): Instagram may be asked to publish a container
twice, when three workers have come to hold it, hence the exception in `CallsAreMadeOnce`; a finished upload may end as a
failure.  A 401 on a creating call leaves its intent, so that after the reconnect
the publication fails as uncertain.

*Workflow.*  `listContentItems` and `listContentAttempts` skip one row at every page
boundary (`content.go:348-350`, `558-560`; not modelled).  The event key of a request
names the revision, so that a resubmission notifies nobody.  A creator under the
policy can never retry.  A creator may decide on a manager's request; a rejection
sets DRAFT; `edit_requires_approval` and `delete_requires_approval` are never read;
the expiry of keys is not enforced.

*Connections.*  Generations restart at 0 when a connection is deleted, so that a
callback that is older than the deletion may match again (migration 00025:2-4:
"newer state invalidates every older callback"); `SupersededSavesNothing` excepts
it.  `finishPlatformSync` marks an account although its comment (`platform_sync.go:176-178`)
wants a new authorization to stay active.  A rotated refresh token is lost with a
refresh that rolls back.  A refresh holds the rows of company and workspace during
a provider call.  Disconnecting and reconnecting makes a second target row, on
which resume and synchronization meet the unique index (`:766`, `:686`).  A pause
in the middle leaves `sync_runs` RUNNING.

*Media.*  An upload that was never given a key stops the collector: every pass
scans NULL into a string and fails, before it reaches sources and objects
(`content_media_worker.go:294-305`, against its comment 250-252); the purge of its
company violates NOT NULL.  A crash between creating a multipart upload and the
commit leaks it (`leaked` in `upload`).  `ON CONFLICT DO NOTHING` on `task_key` meets
tasks that are COMPLETE.  A deletion task that outlives a new upload of the same
video deletes its bytes.  A crash after the copy leaves an immutable object that
no row names, hence `StorageIsTracked` speaks of uploads and sources.  A transient
download error rejects the video.

*Lifecycle.*  A workspace in which a content command was ever answered cannot be
deleted: `DELETE FROM users` violates the key of `content_command_idempotency`
(`lifecycle.go:441`, migration 00025:176-187, against
`docs/security/lifecycle-audit.md:9`); `LeftWorkspacesEnd` excepts it.  Likewise
`content_publish_targets` keeps accounts from being purged (`oauth.go:1882-1883`).
A deletion request stays PENDING after a crash.  The lifecycle worker decides
on a withdrawal without the lock of the grant, which requests take
(`lifecycle.go:464-502`, `oauth.go:1773-1805`): a purge that counts on the copy of
another company, or a second worker, and a disconnect that meanwhile counts on the
copy to be purged leave the grant standing.  `GrantIsWithdrawn` therefore speaks of
behaviours in which one worker decides, or requests do (`DecidesAlone`), and
excepts a withdrawal that failed or found no token; the other properties of the
run hold in all of them.  `DecidesAlone` also leaves out that the person grants
access anew while a deletion request is carried out: its loop deletes the new
connection with the old ones and asks nobody to withdraw it.

*Access.*  A co-owner who is suspended while leaving takes the workspace along
(`account_lifecycle.go:88-97`, against `lifecycle-audit.md:9`).  A sign-in inserts its
session after the password check without looking again (migration 00021:2-3).
`deleteCreator` of another profile may delete a login account that a PUT has just
answered 200 for (`server.go:754`).  `restoreCreator` restores tombstones.
`deleteCreator` leaves contexts that name nothing.  A bootstrap that starts again
makes its owner anew if the email is gone.

## 5. What is proved

With TLAPS, for any sets (finite or not, unless an assumption says so) and any
values of the bounds that satisfy the `ASSUME` of the module.  Each invariant below
was checked by TLC before it was proved.  A proof has one lemma per action or per
group of actions that disturb the same conjuncts, and one step per conjunct; the
rows an action writes are typed once and stay folded elsewhere.

**PublishQueue** (`PublishQueueProofs`).  `TypeCorrect`;
`MakesAtMostOneObject`, `ObjectsAreTraceable`, `SuccessesAreReal`, `SuccessesAreFinal`;
`QueuePublishesOnce`: `Spec => ImplementsPublishOnce`.  The last five rest on `OnceInv`.
`AtMostOneObject` is not inductive: the step that creates an object must know that
none exists, which needs (i) what the operation of a target tells of the provider
(`ObjectInv`: no operation means no object, an accepted one means one object), (ii)
what a worker between intent and checkpoint may rely on (`CallerInv`), and (iii) that
no two workers are there for the same target.  (iii) does not come from the lease,
which may lapse at any time, but from the compare-and-swap that writes the intent
only over an empty operation.  The proof splits the steps into four that move an
operation or a success and *quiet* ones; `Steps` states that there are no others,
and each theorem follows from it.

`MarkedTargetsLeaveTheQueue` and `LateWorkersLeaveTheJob` rest on `QueueInv`, a
statement about one target, its job and its attempts: while a job runs its target
cannot be started, so that a target that is marked has no status from which a
command enqueues it (unless its revision was superseded, and no command applies);
and the only attempt that is open is the one of the running execution, so that a
worker that returns late finds none to close.

**RevisionAggregate** (`RevisionAggregateProofs`).  `AggregateInvariant`,
`ShownIsAlwaysTrue`.  A finalization may commit an aggregate that is out of date, so
PUBLISHED is safe for another reason: `SeenIsTrue`, what was read of successes is
still true at the commit.  It is inductive with `HeldOnce` (no two sessions hold a
target, from the row locks) and `OwnersAreRunning` (no owner holds a target that has
SUCCEEDED, from the fence of the job), which make SUCCEEDED final.

**PublishAdapters** (`PublishAdaptersProofs`).  `AdaptersTypeCorrect`,
`CallsAlwaysMadeOnce`, `SuccessesAreAlwaysComplete`.  The invariant has four parts.
`RowInv`: what an operation says of the provider is true of every copy of it, in the
row and in the memories of workers (`Evident`: a phase after the creation means it was
carried out, a phase after the upload that all bytes are there), and nothing the
provider has done is undone.  `CreateInv`: the creating call is made by whoever wrote
its intent over an empty operation, and an operation never becomes empty again.
`WallInv`: the wall post is called for only from the operation of the video, and
never again, because an owner has claimed the job later than every other worker and
knows of the post if any of them does; this is why the stale results of owners
are harmless here and not for Instagram.  `CalmInv`: while no lease has lapsed under a
working process, the worker works alone on the operation it was claimed with; this
carries media_publish and the stored session.

`FailuresHaveReasons`: `MaxFaults < Budget => (Spec => []FailsForAReason)`.  The
hypothesis says that the faults cannot use up the attempts by themselves, and is
exact: with as many faults as attempts TLC finds a publication that failed without
a reason, because the execution that saved a VK video spends a retry without any
fault (section 4).  `ReasonInv` holds until something excuses a failure: the operation
is an intent only while the execution that wrote it runs, so that nobody who begins
meets one; an operation that can be resumed has its session, which has not expired
(of YouTube, every session is live); and a retry that counts, while there is no
operation, is a fault that was counted.

`UploadsLeaveNoGap` (`OffsetInv`): the offset of an upload is never beyond what the
session has, as it comes from the session or is 0, and no bytes are taken away;
`ReasonInv` needs it, since bytes behind a gap would be refused.

`AdaptersPublishInOrder`: the adapters implement `PublishInOrder`.  The parts of a
publication are read off the provider (a creating call carried out, all bytes
there, a container processed, a publishing call carried out), so the mapping
needs no history.  `OrderInv` adds that a container which is published, or is
about to be, has been processed; the whole upload behind a wall post and the
operation on record behind a creation are known from `Evident` and `CreateInv`.
Each action of the machine is then one step of the abstract one or none.

**ContentWorkflow** (`ContentWorkflowProofs`).  `WorkflowTypeCorrect`,
`PendingIsAlwaysCurrent`, `QueuedIsAlwaysCurrent`, `KeysAreIdempotent`, `PolicyIsAlwaysKept`.
The invariant relates the rows of an item (`ItemInv`: a revision that was superseded
neither waits nor has work to begin, work in progress belongs to a revision that
was started, an approved one was approved by somebody other than its requester)
and a key with what was answered under it (`KeyInv`: no record means no effect, and
the record and every answer given are the outcome of the one that was made).

**MediaPipeline** (`MediaPipelineProofs`).  `MediaTypeCorrect`, `QuotaIsAlwaysKept`,
`StorageIsAlwaysTracked`, `ReferencedAreAlwaysKept`, under `MediaAssumption` and
`KeyAssumption` (the absent key is no key).  None of the three is inductive: whether
an upload is tracked depends on what a worker or a handler has done to the storage
and not yet committed.  The invariant therefore says per asset which combinations
of row, session, cleanup tasks and upload may occur (`RowInv`: an upload that is open
has an active session, an abort to come, or is being created; a source that is
stored has a row or a deletion to come), and per worker what it may rely on from
its claim to its commit (`JobInv`: what it did to the storage under the lock of a row
stays done, and a row once claimed for deletion is not referred to again).
`QuotaIsKept` counts rows; that the set it counts is finite, for any assets, is part
of the invariant, and the count grows by one only below the quota.

**Connections** (`ConnectionsProofs`).  `ConnectionsTypeCorrect`,
`ArchivedAlwaysHoldsNothing`, `SupersededNeverSaves`, `RefreshAlwaysSparesReconnect`,
`FirstConnectionNeverReplaces`.  `FlowInv`: a flow that was overtaken has an older
generation than its connection.  `JobInv`: a refresh in flight is alone, in an active
company, with the token it read, and a worker about to mark an account after it was
overtaken finds a token that does not expire.  `ConnInv`: a connection is suspended
only in an archived company.

**TeamAccess** (`TeamAccessProofs`).  `AccessTypeCorrect`, `AnOwnerAlwaysStays`,
`ContextsAreAssigned`, `LoginsHaveProfiles`, `InvitationsMakeOneAccount`.  What a request
in flight has read stays true for as long as it holds the lock it read it under:
`OwnersInv` (the count of owners, under the lock of the workspace), `ContextInv` (the
assignment, under the row of the membership), `LoginInv` (the other profiles of a login,
under its lock); `References` and `Unique` are what keys and triggers guarantee, `SpentInv`
that an account goes with an accepted invitation.

**Lifecycle** (`LifecycleProofs`).  `LifecycleTypeCorrect`, `ReportsAreAlwaysTrue`.  The
loop of a deletion request runs beside purges, disconnects and reconnects;
`NoticeInv` is what it may rely on: every account found that is still there is yet
to be reached, since everything else that touches these rows only deletes them.
`GoneInv` (part of the type) says that a purged company or a deleted workspace has
no account and no publish target.

`GrantIsAlwaysWithdrawn` needs that there is a company (`LifecycleAssumption`).  Where
one worker decides (`DecidesAlone`), it holds at most one subject between its reading
and its deletion, what is due or being deleted when it elects is all there is, and
the last copies elect exactly one account that asks for the withdrawal
(`LastAreElected`); `DecisionInv` says that it has asked before it deletes them.  Where
requests decide, the lock of the grant orders them: who deletes the last copy has
elected itself after every other copy was gone, or the token was missing, which
`missed` records; so that, while the grant stands, somebody holds a copy or is about
to withdraw it (`KeptInv`).

**Only model-checked**: every property of a run under fairness that says something
happens, as fairness and ENABLED are out of the prover's reach; the divergences,
which are counterexamples.  Every other property of a passing run is one of the
theorems above.

## 6. Not modelled

*Inside the modelled components*: audit rows and `publications` rows (written in the
same transactions, read by nobody here); the delivery of notifications; payload
validation, snapshots and media readiness; platform feature flags; tenant isolation
(one workspace stands for all); the loop's limits and timeouts beyond their effect;
the order in which jobs of different creators are claimed (any claimable job may be
taken); PKCE, scopes and the decoding of provider answers; the metrics a
synchronization stores; passwords, secrets and their hashing; permissions below the
role; several sessions per user; several upload sessions of one asset; the restore of
a company in `MediaPipeline`; the expiry of invitations.

*Components*: exports, portal, audit and other read models, which have no state of
their own; analytics clients, which build requests and decode answers; set-up and
configuration; the web client; deployment scripts.

What could follow: the composition of `PublishAdapters` with the commands of
`PublishQueue` (an adapter under cancellation), several sessions of one asset in
`MediaPipeline`, and a restore that races with a purge of media.
