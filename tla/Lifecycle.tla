------------------------------ MODULE Lifecycle ------------------------------
(***************************************************************************)
(* The end of companies, workspaces and provider grants: the leased        *)
(* lifecycle worker (lifecycle.go), the deletion of a workspace by its     *)
(* last owner (account_lifecycle.go), disconnects and purges of an account *)
(* with the withdrawal of its grant (oauth.go), and the data deletion that *)
(* a provider requests (instagram_privacy.go).                             *)
(*                                                                         *)
(* Every company has at most one account here, and all accounts are copies *)
(* of one person's Facebook grant, the case in which "who withdraws it"    *)
(* has to be decided.  A company is DUE when it is archived and its        *)
(* purge_at has passed.  Companies are numbered in the order of the ids of *)
(* their accounts, which the election of a worker compares.                *)
(***************************************************************************)
EXTENDS Naturals

CONSTANTS
  Company,    \* companies, numbers
  Workspace,
  Home,       \* the workspace of each company
  Worker,     \* lifecycle workers
  Request,    \* HTTP requests in flight
  Nobody,
  MaxFaults,  \* bound: crashes and provider failures of one behaviour
  Scopes      \* bound: which events happen in one behaviour

Subject == Company \cup Workspace

ASSUME LifecycleAssumption ==
  /\ Company \subseteq Nat /\ Company # {} /\ Workspace \cap Nat = {}
  /\ Home \in [Company -> Workspace]
  /\ Nobody \notin Worker \cup Subject /\ MaxFaults \in Nat
  /\ Scopes \subseteq SUBSET {"connect", "end", "requests", "purge", "delete",
                              "restore", "pair", "notice", "publish",
                              "command"}

VARIABLES
  open,       \* the scope of this behaviour
  faults,     \* bound: how often something has failed
  workspace,  \* organizations.lifecycle_state
  receipt,    \* operational_receipts of the workspace's deletion
  keyed,      \* whether content_command_idempotency knows the workspace
  company,    \* companies.lifecycle_state and purge_at
  lease,      \* purge_lease_*, delete_lease_*
  account,    \* the account of each company and its connection
  published,  \* accounts that content_publish_targets refer to
  grant,      \* whether the grant is valid at the provider
  worker,     \* what a worker remembers
  request,    \* what a request remembers
  notice,     \* the data deletion the provider has requested
  missed      \* history: a withdrawal has failed, or had no token

vars == <<open, faults, workspace, receipt, keyed, company, lease, account,
          published, grant, worker, request, notice, missed>>

(* after is history: the companies archived since the lease was taken, as  *)
(* long as it is live.                                                     *)
NoLease == [by |-> Nobody, live |-> FALSE, after |-> {}]
Lease == [by : Worker \cup {Nobody}, live : BOOLEAN, after : SUBSET Company]

IdleWorker == [pc |-> "idle", of |-> Nobody, token |-> FALSE]
WorkerState == [pc : {"idle", "read", "revoke", "finish"},
                of : Subject \cup {Nobody}, token : BOOLEAN]

(* last is what platformConnectionForRevocation has seen.                  *)
IdleRequest == [pc |-> "idle", task |-> "sweep", of |-> Nobody,
                token |-> FALSE, last |-> FALSE]
RequestState ==
  [pc : {"idle", "local", "elect", "revoke", "sweep"},
   task : {"disconnect", "purge", "sweep"}, of : Subject \cup {Nobody},
   token : BOOLEAN, last : BOOLEAN]

(* todo is the rest of the loop; rows is history: the accounts found that  *)
(* are still there.                                                        *)
NoNotice == [status |-> "none", todo |-> {}, rows |-> {}]
Notice == [status : {"none", "PENDING", "COMPLETED", "FAILED"},
           todo : SUBSET Company, rows : SUBSET Company]

(* Every column and every process keeps to its type; a lease names its     *)
(* holder, and what is gone has left nothing behind.                       *)
TypeOK ==
  /\ open \in Scopes /\ faults \in 0 .. MaxFaults
  /\ workspace \in [Workspace -> {"ACTIVE", "DELETING", "GONE"}]
  /\ receipt \in [Workspace -> {"none", "PENDING", "COMPLETE"}]
  /\ keyed \in [Workspace -> BOOLEAN]
  /\ company \in [Company -> {"ACTIVE", "ARCHIVED", "DUE", "GONE"}]
  /\ lease \in [Subject -> Lease]
  /\ account \in [Company -> {"NONE", "LINKED", "DISCONNECTED"}]
  /\ published \in SUBSET Company
  /\ grant \in BOOLEAN /\ missed \in BOOLEAN
  /\ worker \in [Worker -> WorkerState]
  /\ request \in [Request -> RequestState]
  /\ notice \in Notice
  /\ \A x \in Subject : lease[x].live => lease[x].by # Nobody
  /\ \A c \in Company :
       /\ workspace[Home[c]] = "GONE" => company[c] = "GONE"
       /\ company[c] = "GONE" => account[c] = "NONE" /\ c \notin published

Init ==
  /\ open \in Scopes /\ faults = 0
  /\ workspace = [x \in Workspace |-> "ACTIVE"]
  /\ receipt = [x \in Workspace |-> "none"]
  /\ keyed = [x \in Workspace |-> FALSE]
  /\ company = [c \in Company |-> "ACTIVE"]
  /\ lease = [x \in Subject |-> NoLease]
  /\ account = [c \in Company |-> "LINKED"]
  /\ published = {}
  /\ grant = TRUE /\ missed = FALSE
  /\ worker = [w \in Worker |-> IdleWorker]
  /\ request = [r \in Request |-> IdleRequest]
  /\ notice = NoNotice

Rows == <<workspace, receipt, keyed, company, account, published>>
Processes == <<worker, request, notice>>
Provider == <<grant, missed>>
Bounds == <<open, faults>>

Linked == {c \in Company : account[c] = "LINKED"}
Existing == {c \in Company : account[c] # "NONE"}
Of(x) == IF x \in Workspace THEN {c \in Company : Home[c] = x} ELSE {x}
InUse(c) == company[c] = "ACTIVE" /\ workspace[Home[c]] = "ACTIVE"

-----------------------------------------------------------------------------
(* What the rest of the system does to these rows.                         *)

(* A connection is saved under the locked company and workspace, also over *)
(* one that is there.                                                      *)
Connect(c) ==
  /\ InUse(c)
  /\ account' = [account EXCEPT ![c] = "LINKED"]
  /\ grant' = TRUE
  /\ UNCHANGED <<workspace, receipt, keyed, company, published, lease,
                 missed>>
  /\ UNCHANGED Bounds /\ UNCHANGED Processes

(* A publish target is created for an account.                             *)
Publish(c) ==
  /\ InUse(c) /\ account[c] = "LINKED"
  /\ published' = published \cup {c}
  /\ UNCHANGED <<workspace, receipt, keyed, company, account, lease>>
  /\ UNCHANGED Bounds /\ UNCHANGED Processes /\ UNCHANGED Provider

(* The answer of a content command is kept under its key; nothing in the   *)
(* code deletes it.                                                        *)
Command(x) ==
  /\ workspace[x] = "ACTIVE"
  /\ keyed' = [keyed EXCEPT ![x] = TRUE]
  /\ UNCHANGED <<workspace, receipt, company, account, published, lease>>
  /\ UNCHANGED Bounds /\ UNCHANGED Processes /\ UNCHANGED Provider

archiveCompany(c) ==
  /\ InUse(c)
  /\ company' = [company EXCEPT ![c] = "ARCHIVED"]
  /\ lease' = [x \in Subject |-> IF lease[x].live
                    THEN [lease[x] EXCEPT !.after = @ \cup {c}]
                    ELSE lease[x]]
  /\ UNCHANGED <<workspace, receipt, keyed, account, published>>
  /\ UNCHANGED Bounds /\ UNCHANGED Processes /\ UNCHANGED Provider

(* Strictly before purge_at.                                               *)
restoreCompany(c) ==
  /\ company[c] = "ARCHIVED" /\ workspace[Home[c]] = "ACTIVE"
  /\ company' = [company EXCEPT ![c] = "ACTIVE"]
  /\ lease' = [lease EXCEPT ![c] = NoLease]
  /\ UNCHANGED <<workspace, receipt, keyed, account, published>>
  /\ UNCHANGED Bounds /\ UNCHANGED Processes /\ UNCHANGED Provider

(* Ninety days later: no lease of before the archive is still live.        *)
BecomesDue(c) ==
  /\ company[c] = "ARCHIVED"
  /\ \A x \in Subject : lease[x].live => c \notin lease[x].after
  /\ company' = [company EXCEPT ![c] = "DUE"]
  /\ UNCHANGED <<workspace, receipt, keyed, account, published, lease>>
  /\ UNCHANGED Bounds /\ UNCHANGED Processes /\ UNCHANGED Provider

-----------------------------------------------------------------------------
(* The withdrawal of a grant.                                              *)

(* The provider confirms, or it does not and nobody asks again.            *)
Withdraw(asked) ==
  \/ /\ asked /\ grant' = FALSE
     /\ UNCHANGED <<missed, faults>>
  \/ /\ asked /\ faults < MaxFaults /\ faults' = faults + 1
     /\ missed' = TRUE /\ UNCHANGED grant
  \/ ~asked /\ UNCHANGED <<grant, missed, faults>>

(* lifecycleTokens: account c of the scope x is the copy that withdraws    *)
(* the grant.  No account outside the scope outlives it, and of the        *)
(* companies that are due the one with the smallest id is elected.         *)
Elected(x, c) ==
  \A d \in Linked \ {c} : workspace[Home[d]] = "ACTIVE" =>
    /\ company[d] \in {"ACTIVE", "ARCHIVED"} => d \in Of(x)
    /\ company[d] = "DUE" => d > c

lifecycleTokens(x) == \E c \in Of(x) \cap Linked : Elected(x, c)

-----------------------------------------------------------------------------
(* The lifecycle worker.                                                   *)

WorkerStep(w, new) == worker' = [worker EXCEPT ![w] = new]

(* Slip: a lease that has lapsed is not taken over.                        *)
Unclaimed(x) == lease[x].by = Nobody

Claimable(x) == ~lease[x].live

Claim(w, x) ==
  /\ worker[w].pc = "idle" /\ Claimable(x)
  /\ lease' = [lease EXCEPT ![x] = [by |-> w, live |-> TRUE, after |-> {}]]
  /\ WorkerStep(w, [IdleWorker EXCEPT !.pc = "read", !.of = x])
  /\ UNCHANGED Rows /\ UNCHANGED Bounds /\ UNCHANGED Provider
  /\ UNCHANGED <<request, notice>>

claimDeletingWorkspace(w, x) ==
  workspace[x] = "DELETING" /\ Claim(w, x)

(* RunLifecycle looks for companies when no workspace can be claimed.      *)
claimExpiredCompany(w, c) ==
  /\ \A x \in Workspace : workspace[x] = "DELETING" => ~Claimable(x)
  /\ company[c] = "DUE" /\ Claim(w, c)

ReadTokens(w) ==
  /\ worker[w].pc = "read"
  /\ WorkerStep(w, [worker[w] EXCEPT !.pc = "revoke",
                      !.token = lifecycleTokens(worker[w].of)])
  /\ UNCHANGED Rows /\ UNCHANGED Bounds /\ UNCHANGED Provider
  /\ UNCHANGED <<lease, request, notice>>

bestEffortRevoke(w) ==
  /\ worker[w].pc = "revoke" /\ Withdraw(worker[w].token)
  /\ WorkerStep(w, [worker[w] EXCEPT !.pc = "finish"])
  /\ UNCHANGED Rows /\ UNCHANGED <<open, lease, request, notice>>

(* Slip: only the connections of the accounts are deleted.                 *)
Unlinked(S) ==
  /\ account' = [c \in Company |->
                   IF c \in S /\ account[c] = "LINKED" THEN "DISCONNECTED"
                   ELSE account[c]]
  /\ published' = published \ S
  /\ UNCHANGED notice

(* The accounts S are deleted, and what refers to them.                    *)
Deleted(S) ==
  /\ account' = [c \in Company |-> IF c \in S THEN "NONE" ELSE account[c]]
  /\ published' = published \ S
  /\ notice' = [notice EXCEPT !.rows = @ \ S]

HoldsLease(w) ==
  LET x == worker[w].of IN lease[x].by = w /\ lease[x].live

(* finishCompanyPurge: nothing happens unless the company is still due and *)
(* leased to this worker.                                                  *)
finishCompanyPurge(w) ==
  LET c == worker[w].of
  IN /\ worker[w].pc = "finish" /\ c \in Company
     /\ IF company[c] = "DUE" /\ HoldsLease(w)
        THEN /\ company' = [company EXCEPT ![c] = "GONE"]
             /\ lease' = [lease EXCEPT ![c] = NoLease]
             /\ Deleted({c})
        ELSE UNCHANGED <<company, lease, account, published, notice>>
     /\ WorkerStep(w, IdleWorker)
     /\ UNCHANGED <<workspace, receipt, keyed, request>>
     /\ UNCHANGED Bounds /\ UNCHANGED Provider

(* finishWorkspaceDeletion: the transaction fails where the stored answer  *)
(* of a command refers to one of the users.                                *)
finishWorkspaceDeletion(w) ==
  LET x == worker[w].of
  IN /\ worker[w].pc = "finish" /\ x \in Workspace
     /\ IF workspace[x] = "DELETING" /\ HoldsLease(w) /\ ~keyed[x]
        THEN /\ workspace' = [workspace EXCEPT ![x] = "GONE"]
             /\ receipt' = [receipt EXCEPT ![x] = "COMPLETE"]
             /\ company' = [c \in Company |->
                              IF c \in Of(x) THEN "GONE" ELSE company[c]]
             /\ lease' = [y \in Subject |->
                            IF y \in Of(x) \cup {x} THEN NoLease ELSE lease[y]]
             /\ Deleted(Of(x))
        ELSE UNCHANGED <<workspace, receipt, company, lease, account,
                         published, notice>>
     /\ WorkerStep(w, IdleWorker)
     /\ UNCHANGED <<keyed, request>>
     /\ UNCHANGED Bounds /\ UNCHANGED Provider

(* The process dies or the database does; the lease stays.                 *)
Crash(w) ==
  /\ worker[w].pc # "idle" /\ faults < MaxFaults
  /\ faults' = faults + 1
  /\ WorkerStep(w, IdleWorker)
  /\ UNCHANGED Rows /\ UNCHANGED Provider
  /\ UNCHANGED <<open, lease, request, notice>>

Unleased(x) ==
  /\ lease[x].live
  /\ lease' = [lease EXCEPT ![x].live = FALSE, ![x].after = {}]
  /\ UNCHANGED Rows /\ UNCHANGED Provider /\ UNCHANGED Processes

LeaseExpires(x) ==
  /\ lease[x].live /\ worker[lease[x].by].of # x
  /\ Unleased(x) /\ UNCHANGED Bounds

(* The provider is asked for five seconds at most, and a lease lasts two   *)
(* minutes: a worker that outlives its lease has stalled.                  *)
Stall(x) ==
  /\ lease[x].live /\ worker[lease[x].by].of = x
  /\ faults < MaxFaults /\ faults' = faults + 1
  /\ Unleased(x) /\ UNCHANGED open

-----------------------------------------------------------------------------
(* Requests.                                                               *)

RequestStep(r, new) == request' = [request EXCEPT ![r] = new]

(* platformConnectionForRevocation: the token is read before the account   *)
(* is disconnected or purged.                                              *)
BeginEnding(r, c, task) ==
  /\ request[r].pc = "idle" /\ InUse(c) /\ account[c] # "NONE"
  /\ RequestStep(r, [pc |-> "local", task |-> task, of |-> c,
                     token |-> account[c] = "LINKED",
                     last |-> Linked \subseteq {c}])
  /\ UNCHANGED Rows /\ UNCHANGED Bounds /\ UNCHANGED Provider
  /\ UNCHANGED <<lease, worker, notice>>

Committed(r) ==
  IF request[r].token THEN [request[r] EXCEPT !.pc = "elect"]
                      ELSE IdleRequest

(* A connection saved since the first read is deleted with its token.      *)
LosesToken(r) ==
  /\ missed' = (missed \/ (~request[r].token /\ request[r].of \in Linked))
  /\ UNCHANGED grant

(* disconnectPlatform, its transaction.                                    *)
disconnectPlatform(r) ==
  LET c == request[r].of
  IN /\ request[r].pc = "local" /\ request[r].task = "disconnect"
     /\ account' = [account EXCEPT ![c] = IF @ = "NONE" THEN @
                                          ELSE "DISCONNECTED"]
     /\ RequestStep(r, IF account[c] = "NONE" THEN IdleRequest
                                              ELSE Committed(r))
     /\ UNCHANGED <<workspace, receipt, keyed, company, published, lease>>
     /\ UNCHANGED <<worker, notice>>
     /\ UNCHANGED Bounds /\ LosesToken(r)

(* purgePlatformData, its transaction: a publish target keeps the account. *)
purgePlatformData(r) ==
  LET c == request[r].of
  IN /\ request[r].pc = "local" /\ request[r].task = "purge"
     /\ IF account[c] = "NONE" \/ c \in published
        THEN /\ RequestStep(r, IdleRequest)
             /\ UNCHANGED <<account, published, notice>>
             /\ UNCHANGED Provider
        ELSE /\ Deleted({c}) /\ LosesToken(r)
             /\ RequestStep(r, Committed(r))
     /\ UNCHANGED <<workspace, receipt, keyed, company, lease, worker>>
     /\ UNCHANGED Bounds

(* Slip: whether this was the last copy is taken from the first read.      *)
LastBefore(r) == request[r].last

LastCopy(r) == Linked = {}

(* revokeDisconnectedPlatform: under the lock of the grant, the last       *)
(* disconnected copy is elected ...                                        *)
Elect(r) ==
  /\ request[r].pc = "elect"
  /\ \A other \in Request : request[other].pc # "revoke"
  /\ RequestStep(r, IF LastCopy(r) THEN [request[r] EXCEPT !.pc = "revoke"]
                                   ELSE IdleRequest)
  /\ UNCHANGED Rows /\ UNCHANGED Bounds /\ UNCHANGED Provider
  /\ UNCHANGED <<lease, worker, notice>>

(* ... and withdraws the grant before it releases the lock.                *)
revokePlatform(r) ==
  /\ request[r].pc = "revoke" /\ Withdraw(TRUE)
  /\ RequestStep(r, IdleRequest)
  /\ UNCHANGED Rows /\ UNCHANGED <<open, lease, worker, notice>>

(* selfDelete of the last owner: no session is left, the worker does the   *)
(* rest.                                                                   *)
selfDelete(r, x) ==
  /\ request[r].pc = "idle" /\ workspace[x] = "ACTIVE"
  /\ workspace' = [workspace EXCEPT ![x] = "DELETING"]
  /\ receipt' = [receipt EXCEPT ![x] = "PENDING"]
  /\ lease' = [lease EXCEPT ![x] = NoLease]
  /\ RequestStep(r, [IdleRequest EXCEPT !.pc = "sweep", !.of = x])
  /\ UNCHANGED <<keyed, company, account, published, worker, notice>>
  /\ UNCHANGED Bounds /\ UNCHANGED Provider

(* It tries to withdraw the grants at once.                                *)
Sweep(r) ==
  /\ request[r].pc = "sweep" /\ Withdraw(lifecycleTokens(request[r].of))
  /\ RequestStep(r, IdleRequest)
  /\ UNCHANGED Rows /\ UNCHANGED <<open, lease, worker, notice>>

(* A request dies after its transaction.                                   *)
RequestDies(r) ==
  /\ request[r].pc \in {"elect", "revoke", "sweep"}
  /\ faults < MaxFaults /\ faults' = faults + 1
  /\ missed' = (missed \/ request[r].pc # "sweep")
  /\ RequestStep(r, IdleRequest)
  /\ UNCHANGED Rows /\ UNCHANGED <<open, grant, lease, worker, notice>>

-----------------------------------------------------------------------------
(* Deletion at the provider's request.  The person has withdrawn the grant *)
(* there.                                                                  *)

(* instagramDataDeletion: the accounts are found and the request is        *)
(* recorded.                                                               *)
instagramDataDeletion ==
  /\ notice.status = "none"
  /\ notice' = [status |-> "PENDING", todo |-> Existing, rows |-> Existing]
  /\ grant' = FALSE
  /\ UNCHANGED Rows /\ UNCHANGED Bounds
  /\ UNCHANGED <<lease, worker, request, missed>>

(* Slip: the copy that could not be deleted is passed over.                *)
PassedOver(c) == [notice EXCEPT !.todo = @ \ {c}]

Refused(c) == [notice EXCEPT !.status = "FAILED", !.todo = {}]

(* deleteInstagramAccountCopies: one transaction for each, in the order of *)
(* their ids; one that has gone is skipped, a failure ends the request.    *)
deletePlatformAccountData(c) ==
  /\ notice.status = "PENDING" /\ c \in notice.todo
  /\ \A d \in notice.todo : c <= d
  /\ IF c \in notice.rows /\ c \in published
     THEN notice' = Refused(c) /\ UNCHANGED <<account, published>>
     ELSE /\ account' = IF c \in notice.rows
                        THEN [account EXCEPT ![c] = "NONE"] ELSE account
          /\ published' = published
          /\ notice' = [notice EXCEPT !.todo = @ \ {c}, !.rows = @ \ {c}]
  /\ UNCHANGED <<workspace, receipt, keyed, company, lease>>
  /\ UNCHANGED <<worker, request>> /\ UNCHANGED Bounds /\ UNCHANGED Provider

NoticeEnds ==
  /\ notice.status = "PENDING" /\ notice.todo = {}
  /\ notice' = [notice EXCEPT !.status = "COMPLETED"]
  /\ UNCHANGED Rows /\ UNCHANGED Bounds /\ UNCHANGED Provider
  /\ UNCHANGED <<lease, worker, request>>

-----------------------------------------------------------------------------
(* A second worker runs only in a scope with "pair", a second request only *)
(* in one with "requests".                                                 *)
Running(w) == "pair" \in open \/ w = CHOOSE v \in Worker : TRUE
Serving(r) == "requests" \in open \/ r = CHOOSE s \in Request : TRUE

LifecyclePass(w) ==
  \/ ReadTokens(w) \/ bestEffortRevoke(w)
  \/ finishCompanyPurge(w) \/ finishWorkspaceDeletion(w)

Claiming(w, x) ==
  /\ Running(w)
  /\ \/ x \in Workspace /\ claimDeletingWorkspace(w, x)
     \/ x \in Company /\ claimExpiredCompany(w, x)

Ending(r) ==
  \/ \E c \in Company, task \in {"disconnect", "purge"} :
       "end" \in open /\ Serving(r) /\ BeginEnding(r, c, task)
  \/ disconnectPlatform(r) \/ purgePlatformData(r)
  \/ Elect(r) \/ revokePlatform(r)
  \/ \E x \in Workspace : "delete" \in open /\ Serving(r) /\ selfDelete(r, x)
  \/ Sweep(r) \/ RequestDies(r)

Next ==
  \/ \E w \in Worker : \/ LifecyclePass(w) \/ Crash(w)
                       \/ \E x \in Subject : Claiming(w, x)
  \/ \E r \in Request : Ending(r)
  \/ \E x \in Subject : LeaseExpires(x) \/ Stall(x)
  \/ \E c \in Company :
       \/ "connect" \in open /\ Connect(c)
       \/ "publish" \in open /\ Publish(c)
       \/ "purge" \in open /\ archiveCompany(c)
       \/ "purge" \in open /\ BecomesDue(c)
       \/ "restore" \in open /\ restoreCompany(c)
       \/ deletePlatformAccountData(c)
  \/ \E x \in Workspace : "command" \in open /\ Command(x)
  \/ "notice" \in open /\ instagramDataDeletion
  \/ NoticeEnds

Spec == Init /\ [][Next]_vars

(* A worker loops for as long as it runs, and time passes.  What a worker  *)
(* has failed to finish stays leased while it goes on to claim the next,   *)
(* so that every candidate is claimable again and again.                   *)
Fairness ==
  /\ \A x \in Subject : SF_vars(\E w \in Worker : Claiming(w, x))
  /\ \A w \in Worker : WF_vars(LifecyclePass(w))
  /\ \A x \in Subject : WF_vars(LeaseExpires(x))

LiveSpec == Spec /\ Fairness
=============================================================================
