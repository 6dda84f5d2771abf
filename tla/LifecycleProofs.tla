-------------------------- MODULE LifecycleProofs ---------------------------
(***************************************************************************)
(* The lifecycle keeps its rows in order, and reports a deletion only when *)
(* it is done, for any companies, workspaces, workers and requests.  The   *)
(* loop over the accounts of a deletion request and everything else that   *)
(* deletes accounts run at the same time; the invariant that carries the   *)
(* report is that what the loop has passed is gone.                        *)
(*                                                                         *)
(* The grant of a person who has none of the copies left is withdrawn:     *)
(* who is about to delete the last ones knows that they are the last, and  *)
(* has asked for the withdrawal before deleting them (GrantInv).           *)
(***************************************************************************)
EXTENDS LifecycleProperties, TLAPS

Typed ==
  /\ open \in Scopes /\ faults \in 0 .. MaxFaults
  /\ workspace \in [Workspace -> {"ACTIVE", "DELETING", "GONE"}]
  /\ receipt \in [Workspace -> {"none", "PENDING", "COMPLETE"}]
  /\ keyed \in [Workspace -> BOOLEAN]
  /\ company \in [Company -> {"ACTIVE", "ARCHIVED", "DUE", "GONE"}]
  /\ lease \in [Subject -> Lease]
  /\ account \in [Company -> {"NONE", "LINKED", "DISCONNECTED"}]
  /\ published \in SUBSET Company
  /\ grant \in BOOLEAN /\ missed \in BOOLEAN
  /\ worker \in [Worker -> WorkerState]
  /\ request \in [Request -> RequestState]
  /\ notice \in Notice

LeaseInv == \A x \in Subject : lease[x].live => lease[x].by # Nobody

GoneInv ==
  \A c \in Company :
    /\ workspace[Home[c]] = "GONE" => company[c] = "GONE"
    /\ company[c] = "GONE" => account[c] = "NONE" /\ c \notin published

(* A process at work knows what it works on.                               *)
ProcessInv ==
  /\ \A w \in Worker : worker[w].pc # "idle" => worker[w].of \in Subject
  /\ \A r \in Request : request[r].pc = "local" => request[r].of \in Company

(* The loop has yet to reach every account that is still there.            *)
NoticeInv ==
  /\ notice.status = "PENDING" => notice.rows \subseteq notice.todo
  /\ notice.status = "COMPLETED" => notice.rows = {}

IInv == Typed /\ LeaseInv /\ GoneInv /\ ProcessInv /\ NoticeInv

-----------------------------------------------------------------------------
(* What several actions have in common.                                    *)

(* Companies and workspaces are told apart, and every company has a home.  *)
LEMMA SubjectsDiffer ==
  /\ \A c \in Company : c \in Subject /\ c \notin Workspace
  /\ \A c \in Company : Home[c] \in Workspace
  /\ \A x \in Workspace : x \in Subject /\ x \notin Company
  /\ \A x \in Subject : x \in Company \/ x \in Workspace
  BY LifecycleAssumption DEF Subject

(* The rows and processes of a quiet system have their types.              *)
LEMMA RestTyped ==
  /\ NoLease \in Lease /\ ~NoLease.live
  /\ IdleWorker \in WorkerState /\ IdleWorker.pc = "idle"
  /\ IdleRequest \in RequestState /\ IdleRequest.pc = "idle"
  /\ NoNotice \in Notice /\ NoNotice.status = "none"
  BY DEF NoLease, Lease, IdleWorker, WorkerState, IdleRequest, RequestState,
         NoNotice, Notice

(* A worker that moves on keeps to its type.                               *)
LEMMA WorkerMoves ==
  ASSUME Typed, ProcessInv, NEW w \in Worker, NEW new \in WorkerState,
         new.pc # "idle" => new.of \in Subject, WorkerStep(w, new),
         UNCHANGED request
  PROVE  worker' \in [Worker -> WorkerState] /\ ProcessInv'
  BY DEF Typed, ProcessInv, WorkerStep

(* And so does a request.                                                  *)
LEMMA RequestMoves ==
  ASSUME Typed, ProcessInv, NEW r \in Request, NEW new \in RequestState,
         new.pc = "local" => new.of \in Company, RequestStep(r, new),
         UNCHANGED worker
  PROVE  request' \in [Request -> RequestState] /\ ProcessInv'
  BY DEF Typed, ProcessInv, RequestStep

(* A withdrawal succeeds, fails or is not asked for.                       *)
LEMMA WithdrawTyped ==
  ASSUME Typed, NEW asked \in BOOLEAN, Withdraw(asked)
  PROVE  /\ grant' \in BOOLEAN /\ missed' \in BOOLEAN
         /\ faults' \in 0 .. MaxFaults
<1>1. /\ grant' = grant \/ grant' = FALSE
      /\ missed' = missed \/ missed' = TRUE
  BY Zenon DEF Withdraw
<1>2. faults' = faults \/ (faults < MaxFaults /\ faults' = faults + 1)
  BY Zenon DEF Withdraw
<1>3. grant \in BOOLEAN /\ missed \in BOOLEAN /\ faults \in 0 .. MaxFaults
  BY DEF Typed
<1>4. grant' \in BOOLEAN /\ missed' \in BOOLEAN
  BY <1>1, <1>3, Zenon
<1>5. faults' \in 0 .. MaxFaults
  BY <1>2, <1>3, LifecycleAssumption
<1> QED
  BY <1>4, <1>5

(* One more fault within the bound.                                        *)
LEMMA FaultTyped ==
  ASSUME Typed, faults < MaxFaults, faults' = faults + 1
  PROVE  faults' \in 0 .. MaxFaults
  BY LifecycleAssumption DEF Typed

(* Deleting accounts only takes away, and never what a loop has passed.    *)
LEMMA DeletedKeeps ==
  ASSUME Typed, NoticeInv, NEW S \in SUBSET Company, Deleted(S)
  PROVE  /\ account' \in [Company -> {"NONE", "LINKED", "DISCONNECTED"}]
         /\ published' \in SUBSET Company
         /\ notice' \in Notice /\ NoticeInv'
         /\ \A c \in S : account'[c] = "NONE" /\ c \notin published'
         /\ \A c \in Company \ S : account'[c] = account[c]
         /\ published' \subseteq published
<1>1. account' \in [Company -> {"NONE", "LINKED", "DISCONNECTED"}]
  BY DEF Typed, Deleted
<1>2. /\ \A c \in S : account'[c] = "NONE" /\ c \notin published'
      /\ \A c \in Company \ S : account'[c] = account[c]
      /\ published' \subseteq published /\ published' \in SUBSET Company
  BY DEF Typed, Deleted
<1>3. /\ notice' \in Notice /\ notice'.status = notice.status
      /\ notice'.todo = notice.todo /\ notice'.rows = notice.rows \ S
  BY DEF Typed, Deleted, Notice
<1>4. NoticeInv'
  BY <1>3 DEF NoticeInv
<1> QED
  BY <1>1, <1>2, <1>3, <1>4

LEMMA InitInv == Init => IInv
<1> SUFFICES ASSUME Init PROVE IInv
  OBVIOUS
<1>1. Typed
  <2>1. faults \in 0 .. MaxFaults /\ open \in Scopes
    BY LifecycleAssumption DEF Init
  <2>2. /\ workspace \in [Workspace -> {"ACTIVE", "DELETING", "GONE"}]
        /\ receipt \in [Workspace -> {"none", "PENDING", "COMPLETE"}]
        /\ keyed \in [Workspace -> BOOLEAN]
        /\ company \in [Company -> {"ACTIVE", "ARCHIVED", "DUE", "GONE"}]
        /\ account \in [Company -> {"NONE", "LINKED", "DISCONNECTED"}]
        /\ published \in SUBSET Company
        /\ grant \in BOOLEAN /\ missed \in BOOLEAN
    BY DEF Init
  <2>3. /\ lease \in [Subject -> Lease]
        /\ worker \in [Worker -> WorkerState]
        /\ request \in [Request -> RequestState]
        /\ notice \in Notice
    BY RestTyped DEF Init
  <2> QED
    BY <2>1, <2>2, <2>3 DEF Typed
<1>2. LeaseInv /\ ProcessInv /\ NoticeInv
  BY RestTyped DEF Init, LeaseInv, ProcessInv, NoticeInv
<1>3. GoneInv
  BY SubjectsDiffer DEF Init, GoneInv
<1> QED
  BY <1>1, <1>2, <1>3 DEF IInv

-----------------------------------------------------------------------------
(* The rest of the system.                                                 *)

LEMMA ConnectInv ==
  ASSUME IInv, NEW c \in Company, Connect(c)
  PROVE  IInv'
<1> USE DEF Connect, Bounds, Processes
<1>1. Typed'
  BY DEF IInv, Typed
<1>2. GoneInv'
  BY DEF IInv, Typed, GoneInv, InUse
<1>3. LeaseInv' /\ ProcessInv' /\ NoticeInv'
  BY DEF IInv, LeaseInv, ProcessInv, NoticeInv
<1> QED
  BY <1>1, <1>2, <1>3 DEF IInv

LEMMA PublishInv ==
  ASSUME IInv, NEW c \in Company, Publish(c)
  PROVE  IInv'
<1> USE DEF Publish, Bounds, Processes, Provider
<1>1. Typed'
  BY DEF IInv, Typed
<1>2. GoneInv'
  BY DEF IInv, Typed, GoneInv, InUse
<1>3. LeaseInv' /\ ProcessInv' /\ NoticeInv'
  BY DEF IInv, LeaseInv, ProcessInv, NoticeInv
<1> QED
  BY <1>1, <1>2, <1>3 DEF IInv

LEMMA CommandInv ==
  ASSUME IInv, NEW x \in Workspace, Command(x)
  PROVE  IInv'
<1> USE DEF Command, Bounds, Processes, Provider
<1>1. Typed'
  BY DEF IInv, Typed
<1>2. GoneInv' /\ LeaseInv' /\ ProcessInv' /\ NoticeInv'
  BY DEF IInv, GoneInv, LeaseInv, ProcessInv, NoticeInv
<1> QED
  BY <1>1, <1>2 DEF IInv

LEMMA archiveCompanyInv ==
  ASSUME IInv, NEW c \in Company, archiveCompany(c)
  PROVE  IInv'
<1> USE DEF archiveCompany, Bounds, Processes, Provider
<1>1. lease' \in [Subject -> Lease]
  <2>1. \A x \in Subject : lease[x] \in Lease
    BY DEF IInv, Typed
  <2>2. \A x \in Subject : [lease[x] EXCEPT !.after = @ \cup {c}] \in Lease
    BY <2>1 DEF Lease
  <2> QED
    BY <2>2 DEF IInv, Typed
<1>2. \A x \in Subject :
        lease'[x].live = lease[x].live /\ lease'[x].by = lease[x].by
  BY DEF IInv, Typed, Lease
<1>3. Typed'
  BY <1>1 DEF IInv, Typed
<1>4. GoneInv'
  BY DEF IInv, Typed, GoneInv, InUse
<1>5. LeaseInv'
  BY <1>2 DEF IInv, LeaseInv
<1>6. ProcessInv' /\ NoticeInv'
  BY DEF IInv, ProcessInv, NoticeInv
<1> QED
  BY <1>3, <1>4, <1>5, <1>6 DEF IInv

LEMMA restoreCompanyInv ==
  ASSUME IInv, NEW c \in Company, restoreCompany(c)
  PROVE  IInv'
<1> USE DEF restoreCompany, Bounds, Processes, Provider
<1>1. Typed'
  BY RestTyped, SubjectsDiffer DEF IInv, Typed
<1>2. GoneInv'
  BY DEF IInv, Typed, GoneInv
<1>3. LeaseInv'
  BY RestTyped, SubjectsDiffer DEF IInv, Typed, LeaseInv
<1>4. ProcessInv' /\ NoticeInv'
  BY DEF IInv, ProcessInv, NoticeInv
<1> QED
  BY <1>1, <1>2, <1>3, <1>4 DEF IInv

LEMMA BecomesDueInv ==
  ASSUME IInv, NEW c \in Company, BecomesDue(c)
  PROVE  IInv'
<1> USE DEF BecomesDue, Bounds, Processes, Provider
<1>1. Typed'
  BY DEF IInv, Typed
<1>2. GoneInv'
  BY DEF IInv, Typed, GoneInv
<1>3. LeaseInv' /\ ProcessInv' /\ NoticeInv'
  BY DEF IInv, LeaseInv, ProcessInv, NoticeInv
<1> QED
  BY <1>1, <1>2, <1>3 DEF IInv

-----------------------------------------------------------------------------
(* The lifecycle worker.                                                   *)

LEMMA ClaimInv ==
  ASSUME IInv, NEW w \in Worker, NEW x \in Subject, Claim(w, x)
  PROVE  IInv'
<1> USE DEF Claim, Rows, Bounds, Provider
<1>1. [by |-> w, live |-> TRUE, after |-> {}] \in Lease /\ w # Nobody
  BY LifecycleAssumption DEF Lease
<1>2. [IdleWorker EXCEPT !.pc = "read", !.of = x] \in WorkerState
  BY DEF IdleWorker, WorkerState
<1>3. worker' \in [Worker -> WorkerState] /\ ProcessInv'
  <2>1. [IdleWorker EXCEPT !.pc = "read", !.of = x].of = x
    BY DEF IdleWorker
  <2> QED
    BY <1>2, <2>1, WorkerMoves DEF IInv
<1>4. Typed'
  BY <1>1, <1>3 DEF IInv, Typed
<1>5. LeaseInv'
  BY <1>1 DEF IInv, Typed, LeaseInv
<1>6. GoneInv' /\ NoticeInv'
  BY DEF IInv, GoneInv, NoticeInv
<1> QED
  BY <1>3, <1>4, <1>5, <1>6 DEF IInv

LEMMA ClaimingInv ==
  ASSUME IInv, NEW w \in Worker, NEW x \in Subject, Claiming(w, x)
  PROVE  IInv'
  BY ClaimInv DEF Claiming, claimDeletingWorkspace, claimExpiredCompany

LEMMA ReadTokensInv ==
  ASSUME IInv, NEW w \in Worker, ReadTokens(w)
  PROVE  IInv'
<1> USE DEF ReadTokens, Rows, Bounds, Provider
<1> DEFINE t   == lifecycleTokens(worker[w].of)
           new == [worker[w] EXCEPT !.pc = "revoke", !.token = t]
<1>1. t \in BOOLEAN
  BY DEF lifecycleTokens
<1>2. worker[w] \in WorkerState /\ worker[w].of \in Subject
  BY DEF IInv, Typed, ProcessInv
<1>3. WorkerStep(w, new)
  OBVIOUS
<1> HIDE DEF t
<1>4. new \in WorkerState /\ new.of = worker[w].of
  BY <1>1, <1>2 DEF WorkerState
<1> HIDE DEF new
<1>5. worker' \in [Worker -> WorkerState] /\ ProcessInv'
  BY <1>2, <1>3, <1>4, WorkerMoves DEF IInv
<1>6. Typed'
  BY <1>5 DEF IInv, Typed
<1>7. LeaseInv' /\ GoneInv' /\ NoticeInv'
  BY DEF IInv, LeaseInv, GoneInv, NoticeInv
<1> QED
  BY <1>5, <1>6, <1>7 DEF IInv

LEMMA bestEffortRevokeInv ==
  ASSUME IInv, NEW w \in Worker, bestEffortRevoke(w)
  PROVE  IInv'
<1> USE DEF bestEffortRevoke, Rows
<1>1. worker[w] \in WorkerState /\ worker[w].of \in Subject
  BY DEF IInv, Typed, ProcessInv
<1>2. /\ grant' \in BOOLEAN /\ missed' \in BOOLEAN
      /\ faults' \in 0 .. MaxFaults
  <2>1. worker[w].token \in BOOLEAN
    BY <1>1 DEF WorkerState
  <2> QED
    BY <2>1, WithdrawTyped DEF IInv
<1> DEFINE new == [worker[w] EXCEPT !.pc = "finish"]
<1>3. new \in WorkerState /\ new.of = worker[w].of
  BY <1>1 DEF WorkerState
<1>4. WorkerStep(w, new)
  OBVIOUS
<1> HIDE DEF new
<1>5. worker' \in [Worker -> WorkerState] /\ ProcessInv'
  BY <1>1, <1>3, <1>4, WorkerMoves DEF IInv
<1>6. Typed'
  BY <1>2, <1>5 DEF IInv, Typed
<1>7. LeaseInv' /\ GoneInv' /\ NoticeInv'
  BY DEF IInv, LeaseInv, GoneInv, NoticeInv
<1> QED
  BY <1>5, <1>6, <1>7 DEF IInv

(* A worker that has nothing left to do.                                   *)
LEMMA WorkerRests ==
  ASSUME Typed, ProcessInv, NEW w \in Worker, WorkerStep(w, IdleWorker),
         UNCHANGED request
  PROVE  worker' \in [Worker -> WorkerState] /\ ProcessInv'
  BY RestTyped, WorkerMoves

LEMMA finishCompanyPurgeInv ==
  ASSUME IInv, NEW w \in Worker, finishCompanyPurge(w)
  PROVE  IInv'
<1> DEFINE c == worker[w].of
<1>1. c \in Company /\ c \in Subject
  BY SubjectsDiffer DEF finishCompanyPurge
<1>2. worker' \in [Worker -> WorkerState] /\ ProcessInv'
  BY WorkerRests DEF IInv, finishCompanyPurge
<1>3. /\ UNCHANGED <<workspace, receipt, keyed, request>>
      /\ UNCHANGED <<open, faults, grant, missed>>
  BY DEF finishCompanyPurge, Bounds, Provider
<1>4. CASE company[c] = "DUE" /\ HoldsLease(w)
  <2>1. /\ company' = [company EXCEPT ![c] = "GONE"]
        /\ lease' = [lease EXCEPT ![c] = NoLease]
        /\ Deleted({c})
    BY <1>4 DEF finishCompanyPurge
  <2> HIDE DEF c
  <2>2. /\ account' \in [Company -> {"NONE", "LINKED", "DISCONNECTED"}]
        /\ published' \in SUBSET Company
        /\ notice' \in Notice /\ NoticeInv'
        /\ account'[c] = "NONE" /\ c \notin published'
        /\ \A d \in Company \ {c} : account'[d] = account[d]
        /\ published' \subseteq published
    BY <1>1, <2>1, DeletedKeeps DEF IInv
  <2>3. Typed'
    BY <1>1, <1>2, <1>3, <2>1, <2>2, RestTyped DEF IInv, Typed
  <2>4. GoneInv'
    BY <1>1, <1>3, <2>1, <2>2 DEF IInv, Typed, GoneInv
  <2>5. LeaseInv'
    BY <1>1, <2>1, RestTyped DEF IInv, Typed, LeaseInv
  <2> QED
    BY <1>2, <2>2, <2>3, <2>4, <2>5 DEF IInv
<1>5. CASE ~(company[c] = "DUE" /\ HoldsLease(w))
  <2>1. UNCHANGED <<company, lease, account, published, notice>>
    BY <1>5 DEF finishCompanyPurge
  <2>2. Typed'
    BY <1>2, <1>3, <2>1 DEF IInv, Typed
  <2>3. LeaseInv' /\ GoneInv' /\ NoticeInv'
    BY <1>3, <2>1 DEF IInv, LeaseInv, GoneInv, NoticeInv
  <2> QED
    BY <1>2, <2>2, <2>3 DEF IInv
<1> QED
  BY <1>4, <1>5

LEMMA finishWorkspaceDeletionInv ==
  ASSUME IInv, NEW w \in Worker, finishWorkspaceDeletion(w)
  PROVE  IInv'
<1> DEFINE x == worker[w].of
           D == workspace[x] = "DELETING" /\ HoldsLease(w) /\ ~keyed[x]
<1>1. x \in Workspace /\ x \in Subject /\ Of(x) \in SUBSET Company
  BY SubjectsDiffer DEF finishWorkspaceDeletion, Of
<1>2. worker' \in [Worker -> WorkerState] /\ ProcessInv'
  BY WorkerRests DEF IInv, finishWorkspaceDeletion
<1>3. /\ UNCHANGED <<keyed, request>>
      /\ UNCHANGED <<open, faults, grant, missed>>
  BY DEF finishWorkspaceDeletion, Bounds, Provider
<1>4. CASE D
  <2>1. /\ workspace' = [workspace EXCEPT ![x] = "GONE"]
        /\ receipt' = [receipt EXCEPT ![x] = "COMPLETE"]
        /\ company' = [c \in Company |->
                         IF c \in Of(x) THEN "GONE" ELSE company[c]]
        /\ lease' = [y \in Subject |->
                       IF y \in Of(x) \cup {x} THEN NoLease ELSE lease[y]]
        /\ Deleted(Of(x))
    BY <1>4 DEF finishWorkspaceDeletion
  <2>2. Of(x) = {c \in Company : Home[c] = x}
    BY <1>1 DEF Of
  <2> HIDE DEF x
  <2>3. /\ account' \in [Company -> {"NONE", "LINKED", "DISCONNECTED"}]
        /\ published' \in SUBSET Company
        /\ notice' \in Notice /\ NoticeInv'
        /\ \A c \in Of(x) : account'[c] = "NONE" /\ c \notin published'
        /\ \A c \in Company \ Of(x) : account'[c] = account[c]
        /\ published' \subseteq published
    BY <1>1, <2>1, DeletedKeeps DEF IInv
  <2>4. Typed'
    <3>1. company' \in [Company -> {"ACTIVE", "ARCHIVED", "DUE", "GONE"}]
      BY <2>1 DEF IInv, Typed
    <3>2. lease' \in [Subject -> Lease]
      BY <2>1, RestTyped DEF IInv, Typed
    <3> QED
      BY <1>1, <1>2, <1>3, <2>1, <2>3, <3>1, <3>2 DEF IInv, Typed
  <2>5. GoneInv'
    BY <1>1, <2>1, <2>2, <2>3, SubjectsDiffer DEF IInv, Typed, GoneInv
  <2>6. LeaseInv'
    BY <2>1, RestTyped DEF IInv, Typed, LeaseInv
  <2> QED
    BY <1>2, <2>3, <2>4, <2>5, <2>6 DEF IInv
<1>5. CASE ~D
  <2>1. UNCHANGED <<workspace, receipt, company, lease, account, published,
                    notice>>
    BY <1>5 DEF finishWorkspaceDeletion
  <2>2. Typed'
    BY <1>2, <1>3, <2>1 DEF IInv, Typed
  <2>3. LeaseInv' /\ GoneInv' /\ NoticeInv'
    BY <2>1 DEF IInv, LeaseInv, GoneInv, NoticeInv
  <2> QED
    BY <1>2, <2>2, <2>3 DEF IInv
<1> QED
  BY <1>4, <1>5

LEMMA CrashInv ==
  ASSUME IInv, NEW w \in Worker, Crash(w)
  PROVE  IInv'
<1> USE DEF Crash, Rows, Provider
<1>1. worker' \in [Worker -> WorkerState] /\ ProcessInv'
  BY WorkerRests DEF IInv
<1>2. faults' \in 0 .. MaxFaults
  BY FaultTyped DEF IInv
<1>3. Typed'
  BY <1>1, <1>2 DEF IInv, Typed
<1>4. LeaseInv' /\ GoneInv' /\ NoticeInv'
  BY DEF IInv, LeaseInv, GoneInv, NoticeInv
<1> QED
  BY <1>1, <1>3, <1>4 DEF IInv

(* A lease that lapses keeps its holder.                                   *)
LEMMA UnleasedInv ==
  ASSUME IInv, NEW x \in Subject, Unleased(x), UNCHANGED open,
         faults' \in 0 .. MaxFaults
  PROVE  IInv'
<1> USE DEF Unleased, Rows, Processes, Provider
<1> DEFINE new == [lease[x] EXCEPT !.live = FALSE, !.after = {}]
<1>1. new \in Lease /\ ~new.live
  BY DEF IInv, Typed, Lease
<1>2. lease' = [lease EXCEPT ![x] = new]
  BY DEF IInv, Typed, Lease
<1> HIDE DEF new
<1>3. Typed'
  BY <1>1, <1>2 DEF IInv, Typed
<1>4. LeaseInv'
  BY <1>1, <1>2 DEF IInv, Typed, LeaseInv
<1>5. GoneInv' /\ ProcessInv' /\ NoticeInv'
  BY DEF IInv, GoneInv, ProcessInv, NoticeInv
<1> QED
  BY <1>3, <1>4, <1>5 DEF IInv

LEMMA LapseInv ==
  ASSUME IInv, NEW x \in Subject, LeaseExpires(x) \/ Stall(x)
  PROVE  IInv'
<1>1. CASE LeaseExpires(x)
  BY <1>1, UnleasedInv DEF IInv, Typed, LeaseExpires, Bounds
<1>2. CASE Stall(x)
  BY <1>2, UnleasedInv, FaultTyped DEF IInv, Stall
<1> QED
  BY <1>1, <1>2

-----------------------------------------------------------------------------
(* Requests.                                                               *)

(* A request that has nothing left to do.                                  *)
LEMMA RequestRests ==
  ASSUME Typed, ProcessInv, NEW r \in Request, RequestStep(r, IdleRequest),
         UNCHANGED worker
  PROVE  request' \in [Request -> RequestState] /\ ProcessInv'
  BY RestTyped, RequestMoves

LEMMA BeginEndingInv ==
  ASSUME IInv, NEW r \in Request, NEW c \in Company,
         NEW task \in {"disconnect", "purge"}, BeginEnding(r, c, task)
  PROVE  IInv'
<1> USE DEF BeginEnding, Rows, Bounds, Provider
<1> DEFINE t   == account[c] = "LINKED"
           l   == Linked \subseteq {c}
           new == [pc |-> "local", task |-> task, of |-> c,
                   token |-> t, last |-> l]
<1>1. t \in BOOLEAN /\ l \in BOOLEAN
  OBVIOUS
<1>2. RequestStep(r, new)
  OBVIOUS
<1> HIDE DEF t, l
<1>3. new \in RequestState /\ new.of \in Company
  BY <1>1, SubjectsDiffer DEF RequestState
<1> HIDE DEF new
<1>4. request' \in [Request -> RequestState] /\ ProcessInv'
  BY <1>2, <1>3, RequestMoves DEF IInv
<1>5. Typed'
  BY <1>4 DEF IInv, Typed
<1>6. LeaseInv' /\ GoneInv' /\ NoticeInv'
  BY DEF IInv, LeaseInv, GoneInv, NoticeInv
<1> QED
  BY <1>4, <1>5, <1>6 DEF IInv

LEMMA CommittedTyped ==
  ASSUME Typed, NEW r \in Request
  PROVE  /\ Committed(r) \in RequestState
         /\ Committed(r).pc \in {"elect", "idle"}
<1>1. [request[r] EXCEPT !.pc = "elect"] \in RequestState
  BY DEF Typed, RequestState
<1>2. [request[r] EXCEPT !.pc = "elect"].pc = "elect"
  BY DEF Typed, RequestState
<1> QED
  BY <1>1, <1>2, RestTyped DEF Committed

LEMMA LosesTokenTyped ==
  ASSUME Typed, NEW r \in Request, LosesToken(r)
  PROVE  grant' \in BOOLEAN /\ missed' \in BOOLEAN
  BY DEF Typed, LosesToken

LEMMA disconnectPlatformInv ==
  ASSUME IInv, NEW r \in Request, disconnectPlatform(r)
  PROVE  IInv'
<1> USE DEF disconnectPlatform, Bounds
<1> DEFINE c   == request[r].of
           new == IF account[c] = "NONE" THEN IdleRequest ELSE Committed(r)
<1>1. c \in Company
  BY DEF IInv, ProcessInv
<1>2. new \in RequestState /\ new.pc # "local" /\ RequestStep(r, new)
  BY RestTyped, CommittedTyped DEF IInv
<1>3. account' = [account EXCEPT ![c] = IF @ = "NONE" THEN @
                                        ELSE "DISCONNECTED"]
  OBVIOUS
<1>4. grant' \in BOOLEAN /\ missed' \in BOOLEAN
  BY LosesTokenTyped DEF IInv
<1> HIDE DEF c, new
<1>5. request' \in [Request -> RequestState] /\ ProcessInv'
  BY <1>2, RequestMoves DEF IInv
<1>6. Typed'
  BY <1>1, <1>3, <1>4, <1>5 DEF IInv, Typed
<1>7. GoneInv'
  BY <1>1, <1>3 DEF IInv, Typed, GoneInv
<1>8. LeaseInv' /\ NoticeInv'
  BY DEF IInv, LeaseInv, NoticeInv
<1> QED
  BY <1>5, <1>6, <1>7, <1>8 DEF IInv

LEMMA purgePlatformDataInv ==
  ASSUME IInv, NEW r \in Request, purgePlatformData(r)
  PROVE  IInv'
<1> DEFINE c == request[r].of
           K == account[c] = "NONE" \/ c \in published
<1>1. c \in Company
  BY DEF IInv, ProcessInv, purgePlatformData
<1>2. /\ UNCHANGED <<workspace, receipt, keyed, company, lease, worker>>
      /\ UNCHANGED <<open, faults>>
  BY DEF purgePlatformData, Bounds
<1>3. CASE K
  <2>1. /\ RequestStep(r, IdleRequest)
        /\ UNCHANGED <<account, published, notice, grant, missed>>
    BY <1>3 DEF purgePlatformData, Provider
  <2>2. request' \in [Request -> RequestState] /\ ProcessInv'
    BY <1>2, <2>1, RequestRests DEF IInv
  <2>3. Typed'
    BY <1>2, <2>1, <2>2 DEF IInv, Typed
  <2>4. LeaseInv' /\ GoneInv' /\ NoticeInv'
    BY <1>2, <2>1 DEF IInv, LeaseInv, GoneInv, NoticeInv
  <2> QED
    BY <2>2, <2>3, <2>4 DEF IInv
<1>4. CASE ~K
  <2>1. Deleted({c}) /\ LosesToken(r) /\ RequestStep(r, Committed(r))
    BY <1>4 DEF purgePlatformData
  <2> HIDE DEF c
  <2>2. /\ account' \in [Company -> {"NONE", "LINKED", "DISCONNECTED"}]
        /\ published' \in SUBSET Company
        /\ notice' \in Notice /\ NoticeInv'
        /\ account'[c] = "NONE" /\ c \notin published'
        /\ \A d \in Company \ {c} : account'[d] = account[d]
        /\ published' \subseteq published
    BY <1>1, <2>1, DeletedKeeps DEF IInv
  <2>3. grant' \in BOOLEAN /\ missed' \in BOOLEAN
    BY <2>1, LosesTokenTyped DEF IInv
  <2>4. request' \in [Request -> RequestState] /\ ProcessInv'
    BY <1>2, <2>1, CommittedTyped, RequestMoves DEF IInv
  <2>5. Typed'
    BY <1>2, <2>2, <2>3, <2>4 DEF IInv, Typed
  <2>6. GoneInv'
    BY <1>1, <1>2, <2>2 DEF IInv, Typed, GoneInv
  <2>7. LeaseInv'
    BY <1>2 DEF IInv, LeaseInv
  <2> QED
    BY <2>2, <2>4, <2>5, <2>6, <2>7 DEF IInv
<1> QED
  BY <1>3, <1>4

LEMMA ElectInv ==
  ASSUME IInv, NEW r \in Request, Elect(r)
  PROVE  IInv'
<1> USE DEF Elect, Rows, Bounds, Provider
<1> DEFINE new == IF LastCopy(r) THEN [request[r] EXCEPT !.pc = "revoke"]
                                 ELSE IdleRequest
<1>1. new \in RequestState /\ new.pc # "local"
  <2>1. /\ [request[r] EXCEPT !.pc = "revoke"] \in RequestState
        /\ [request[r] EXCEPT !.pc = "revoke"].pc = "revoke"
    BY DEF IInv, Typed, RequestState
  <2> QED
    BY <2>1, RestTyped
<1>2. RequestStep(r, new)
  OBVIOUS
<1> HIDE DEF new
<1>3. request' \in [Request -> RequestState] /\ ProcessInv'
  BY <1>1, <1>2, RequestMoves DEF IInv
<1>4. Typed'
  BY <1>3 DEF IInv, Typed
<1>5. LeaseInv' /\ GoneInv' /\ NoticeInv'
  BY DEF IInv, LeaseInv, GoneInv, NoticeInv
<1> QED
  BY <1>3, <1>4, <1>5 DEF IInv

(* A request that ends with a withdrawal, by a disconnect or a sweep.      *)
LEMMA WithdrawalInv ==
  ASSUME IInv, NEW r \in Request, NEW asked \in BOOLEAN, Withdraw(asked),
         RequestStep(r, IdleRequest),
         UNCHANGED Rows, UNCHANGED <<open, lease, worker, notice>>
  PROVE  IInv'
<1> USE DEF Rows
<1>1. /\ grant' \in BOOLEAN /\ missed' \in BOOLEAN
      /\ faults' \in 0 .. MaxFaults
  BY WithdrawTyped DEF IInv
<1>2. request' \in [Request -> RequestState] /\ ProcessInv'
  BY RequestRests DEF IInv
<1>3. Typed'
  BY <1>1, <1>2 DEF IInv, Typed
<1>4. LeaseInv' /\ GoneInv' /\ NoticeInv'
  BY DEF IInv, LeaseInv, GoneInv, NoticeInv
<1> QED
  BY <1>2, <1>3, <1>4 DEF IInv

LEMMA revokePlatformInv ==
  ASSUME IInv, NEW r \in Request, revokePlatform(r)
  PROVE  IInv'
  BY WithdrawalInv DEF revokePlatform

LEMMA SweepInv ==
  ASSUME IInv, NEW r \in Request, Sweep(r)
  PROVE  IInv'
<1> DEFINE t == lifecycleTokens(request[r].of)
<1>1. t \in BOOLEAN
  BY DEF lifecycleTokens
<1>2. /\ Withdraw(t) /\ RequestStep(r, IdleRequest)
      /\ UNCHANGED Rows /\ UNCHANGED <<open, lease, worker, notice>>
  BY DEF Sweep
<1> HIDE DEF t
<1> QED
  BY <1>1, <1>2, WithdrawalInv

LEMMA selfDeleteInv ==
  ASSUME IInv, NEW r \in Request, NEW x \in Workspace, selfDelete(r, x)
  PROVE  IInv'
<1> USE DEF selfDelete, Bounds, Provider
<1> DEFINE new == [IdleRequest EXCEPT !.pc = "sweep", !.of = x]
<1>1. new \in RequestState /\ new.pc = "sweep"
  BY SubjectsDiffer DEF IdleRequest, RequestState
<1>2. RequestStep(r, new)
  OBVIOUS
<1> HIDE DEF new
<1>3. request' \in [Request -> RequestState] /\ ProcessInv'
  BY <1>1, <1>2, RequestMoves DEF IInv
<1>4. Typed'
  BY <1>3, RestTyped, SubjectsDiffer DEF IInv, Typed
<1>5. GoneInv'
  BY SubjectsDiffer DEF IInv, Typed, GoneInv
<1>6. LeaseInv'
  BY RestTyped, SubjectsDiffer DEF IInv, Typed, LeaseInv
<1>7. NoticeInv'
  BY DEF IInv, NoticeInv
<1> QED
  BY <1>3, <1>4, <1>5, <1>6, <1>7 DEF IInv

LEMMA RequestDiesInv ==
  ASSUME IInv, NEW r \in Request, RequestDies(r)
  PROVE  IInv'
<1> USE DEF RequestDies, Rows
<1>1. faults' \in 0 .. MaxFaults
  BY FaultTyped DEF IInv
<1>2. missed' \in BOOLEAN
  BY DEF IInv, Typed
<1>3. request' \in [Request -> RequestState] /\ ProcessInv'
  BY RequestRests DEF IInv
<1>4. Typed'
  BY <1>1, <1>2, <1>3 DEF IInv, Typed
<1>5. LeaseInv' /\ GoneInv' /\ NoticeInv'
  BY DEF IInv, LeaseInv, GoneInv, NoticeInv
<1> QED
  BY <1>3, <1>4, <1>5 DEF IInv

-----------------------------------------------------------------------------
(* Deletion at the provider's request.                                     *)

LEMMA instagramDataDeletionInv ==
  ASSUME IInv, instagramDataDeletion
  PROVE  IInv'
<1> USE DEF instagramDataDeletion, Rows, Bounds
<1>1. notice' \in Notice /\ NoticeInv'
  BY DEF Notice, NoticeInv, Existing
<1>2. Typed'
  BY <1>1 DEF IInv, Typed
<1>3. LeaseInv' /\ GoneInv' /\ ProcessInv'
  BY DEF IInv, LeaseInv, GoneInv, ProcessInv
<1> QED
  BY <1>1, <1>2, <1>3 DEF IInv

LEMMA deletePlatformAccountDataInv ==
  ASSUME IInv, NEW c \in Company, deletePlatformAccountData(c)
  PROVE  IInv'
<1> USE DEF Bounds, Provider
<1>1. /\ UNCHANGED <<workspace, receipt, keyed, company, lease>>
      /\ UNCHANGED <<worker, request>> /\ UNCHANGED <<open, faults>>
      /\ UNCHANGED <<grant, missed>>
      /\ notice.status = "PENDING" /\ published' = published
  BY DEF deletePlatformAccountData
<1>2. \/ account' = account
      \/ account' = [account EXCEPT ![c] = "NONE"]
  BY DEF deletePlatformAccountData
<1>3. notice' \in Notice /\ NoticeInv'
  <2>1. CASE notice' = Refused(c)
    BY <2>1 DEF Refused, IInv, Typed, Notice, NoticeInv
  <2>2. CASE notice' = [notice EXCEPT !.todo = @ \ {c}, !.rows = @ \ {c}]
    BY <1>1, <2>2 DEF IInv, Typed, Notice, NoticeInv
  <2> QED
    BY <2>1, <2>2 DEF deletePlatformAccountData
<1>4. Typed'
  BY <1>1, <1>2, <1>3 DEF IInv, Typed
<1>5. GoneInv'
  BY <1>1, <1>2 DEF IInv, Typed, GoneInv
<1>6. LeaseInv' /\ ProcessInv'
  BY <1>1 DEF IInv, LeaseInv, ProcessInv
<1> QED
  BY <1>3, <1>4, <1>5, <1>6 DEF IInv

LEMMA NoticeEndsInv ==
  ASSUME IInv, NoticeEnds
  PROVE  IInv'
<1> USE DEF NoticeEnds, Rows, Bounds, Provider
<1>1. notice' \in Notice /\ NoticeInv'
  BY DEF IInv, Typed, Notice, NoticeInv
<1>2. Typed'
  BY <1>1 DEF IInv, Typed
<1>3. LeaseInv' /\ GoneInv' /\ ProcessInv'
  BY DEF IInv, LeaseInv, GoneInv, ProcessInv
<1> QED
  BY <1>1, <1>2, <1>3 DEF IInv

-----------------------------------------------------------------------------
(* Every step.                                                             *)

LEMMA EndingInv ==
  ASSUME IInv, NEW r \in Request, Ending(r)
  PROVE  IInv'
<1>1. CASE \E c \in Company, task \in {"disconnect", "purge"} :
             BeginEnding(r, c, task)
  BY <1>1, BeginEndingInv
<1>2. CASE disconnectPlatform(r) \/ purgePlatformData(r)
  BY <1>2, disconnectPlatformInv, purgePlatformDataInv
<1>3. CASE Elect(r) \/ revokePlatform(r)
  BY <1>3, ElectInv, revokePlatformInv
<1>4. CASE \E x \in Workspace : selfDelete(r, x)
  BY <1>4, selfDeleteInv
<1>5. CASE Sweep(r) \/ RequestDies(r)
  BY <1>5, SweepInv, RequestDiesInv
<1> QED
  BY <1>1, <1>2, <1>3, <1>4, <1>5 DEF Ending

LEMMA StutterInv ==
  ASSUME IInv, UNCHANGED vars
  PROVE  IInv'
<1> USE DEF vars
<1>1. Typed'
  BY DEF IInv, Typed
<1>2. LeaseInv' /\ GoneInv' /\ ProcessInv' /\ NoticeInv'
  BY DEF IInv, LeaseInv, GoneInv, ProcessInv, NoticeInv
<1> QED
  BY <1>1, <1>2 DEF IInv

LEMMA StepInv ==
  ASSUME IInv, [Next]_vars
  PROVE  IInv'
<1>1. CASE \E w \in Worker : \/ LifecyclePass(w) \/ Crash(w)
                             \/ \E x \in Subject : Claiming(w, x)
  BY <1>1, ReadTokensInv, bestEffortRevokeInv, finishCompanyPurgeInv,
     finishWorkspaceDeletionInv, CrashInv, ClaimingInv DEF LifecyclePass
<1>2. CASE \E r \in Request : Ending(r)
  BY <1>2, EndingInv
<1>3. CASE \E x \in Subject : LeaseExpires(x) \/ Stall(x)
  BY <1>3, LapseInv
<1>4. CASE \E c \in Company :
             \/ Connect(c) \/ Publish(c) \/ archiveCompany(c)
             \/ BecomesDue(c) \/ restoreCompany(c)
             \/ deletePlatformAccountData(c)
  BY <1>4, ConnectInv, PublishInv, archiveCompanyInv, BecomesDueInv,
     restoreCompanyInv, deletePlatformAccountDataInv
<1>5. CASE \E x \in Workspace : Command(x)
  BY <1>5, CommandInv
<1>6. CASE instagramDataDeletion \/ NoticeEnds
  BY <1>6, instagramDataDeletionInv, NoticeEndsInv
<1>7. CASE UNCHANGED vars
  BY <1>7, StutterInv
<1> QED
  BY <1>1, <1>2, <1>3, <1>4, <1>5, <1>6, <1>7 DEF Next

-----------------------------------------------------------------------------
(* What follows.                                                           *)

(* The invariant of purges, disconnects, sweeps and deletion requests that *)
(* run at the same time.                                                   *)
THEOREM LifecycleInvariant == Spec => []IInv
<1>1. Init => IInv
  BY InitInv
<1>2. IInv /\ [Next]_vars => IInv'
  BY StepInv
<1> QED
  BY <1>1, <1>2, PTL DEF Spec

(* Rows and processes keep to their types, leases name their holders, and  *)
(* nothing of a purged company or a deleted workspace is left.             *)
THEOREM LifecycleTypeCorrect == Spec => []TypeOK
<1>1. IInv => TypeOK
  BY DEF IInv, Typed, LeaseInv, GoneInv, TypeOK
<1> QED
  BY <1>1, LifecycleInvariant, PTL

(* COMPLETED is never reported while an account found for the request is   *)
(* still there (instagram_privacy.go:93-109), whatever purges and          *)
(* disconnects do between the transactions of the loop.                    *)
THEOREM ReportsAreAlwaysTrue == Spec => []ReportedDeletionsAreDone
<1>1. IInv => ReportedDeletionsAreDone
  BY DEF IInv, NoticeInv, ReportedDeletionsAreDone
<1> QED
  BY <1>1, LifecycleInvariant, PTL

-----------------------------------------------------------------------------
(* The withdrawal of the grant, where somebody decides alone.              *)

TheWorker == CHOOSE v \in Worker : TRUE

(* The person has withdrawn the grant before the loop begins.              *)
ToldInv == notice.status # "none" => "notice" \in open /\ ~grant

(* What is purged or deleted is no longer in use, and stays so.            *)
Doomed(x) ==
  \/ x \in Workspace /\ workspace[x] = "DELETING"
  \/ x \in Company /\ company[x] = "DUE"

SingleInv ==
  \A w \in Worker :
    worker[w].pc # "idle" => w = TheWorker /\ Doomed(worker[w].of)

(* Where requests decide, nothing is archived or deleted, and the other    *)
(* way round.                                                              *)
EndInv ==
  /\ "end" \in open =>
       /\ \A w \in Worker : worker[w].pc = "idle"
       /\ \A x \in Workspace : workspace[x] = "ACTIVE"
       /\ \A c \in Company : company[c] = "ACTIVE"
  /\ "end" \notin open =>
       \A r \in Request : request[r].pc \in {"idle", "sweep"}

(* A worker that is about to delete the last copies asks for the grant to  *)
(* be withdrawn, and has done so before it deletes them.                   *)
DecisionInv ==
  grant /\ ~missed =>
    \A w \in Worker :
      (\A d \in Company : account[d] = "LINKED" => d \in Of(worker[w].of)) =>
        /\ worker[w].pc = "revoke" => worker[w].token
        /\ worker[w].pc # "finish"

(* Somebody holds a copy of the grant or is about to withdraw it.          *)
Kept ==
  \/ \E d \in Company : account[d] = "LINKED"
  \/ \E r \in Request : request[r].pc \in {"elect", "revoke"}

KeptInv == grant /\ ~missed => Kept

AloneInv == ToldInv /\ SingleInv /\ EndInv /\ DecisionInv /\ KeptInv

GrantInv == DecidesAlone => AloneInv

(* A step of this section: the types hold before and after it, and the     *)
(* scope is one where somebody decides alone.                              *)
Alone == IInv /\ IInv' /\ DecidesAlone /\ AloneInv /\ UNCHANGED open

LEMMA InitAlone == Init => GrantInv
<1> SUFFICES ASSUME Init, DecidesAlone PROVE AloneInv
  BY DEF GrantInv
<1>1. ToldInv /\ SingleInv /\ EndInv
  BY RestTyped, SubjectsDiffer DEF Init, ToldInv, SingleInv, EndInv
<1>2. DecisionInv
  BY RestTyped DEF Init, DecisionInv
<1>3. KeptInv
  BY LifecycleAssumption DEF Init, KeptInv, Kept
<1> QED
  BY <1>1, <1>2, <1>3 DEF AloneInv

(* What concerns neither accounts nor the provider: workers may stop.      *)
LEMMA QuietAlone ==
  ASSUME Alone, UNCHANGED <<account, grant, missed, notice>>,
         UNCHANGED <<company, workspace, request>>,
         \A w \in Worker : worker'[w] = worker[w] \/ worker'[w].pc = "idle"
  PROVE  AloneInv'
<1> USE DEF Alone, AloneInv
<1>1. ToldInv'
  BY DEF ToldInv
<1>2. SingleInv'
  BY DEF SingleInv, Doomed
<1>3. EndInv'
  BY DEF EndInv
<1>4. DecisionInv'
  BY DEF DecisionInv
<1>5. KeptInv'
  BY DEF KeptInv, Kept
<1> QED
  BY <1>1, <1>2, <1>3, <1>4, <1>5

(* Archiving, restoring and the end of the ninety days happen to companies *)
(* that no worker is busy with, and where no request decides.              *)
LEMMA CompanyAlone ==
  ASSUME Alone, NEW c \in Company,
         UNCHANGED <<account, grant, missed, notice>>,
         UNCHANGED <<workspace, request, worker>>,
         company[c] # "DUE", NEW new, company' = [company EXCEPT ![c] = new],
         "end" \in open => company[c] = new
  PROVE  AloneInv'
<1> USE DEF Alone, AloneInv
<1>1. ToldInv'
  BY DEF ToldInv
<1>2. SingleInv'
  BY DEF SingleInv, Doomed, IInv, Typed
<1>3. EndInv'
  BY DEF EndInv, IInv, Typed
<1>4. DecisionInv' /\ KeptInv'
  BY DEF DecisionInv, KeptInv, Kept
<1> QED
  BY <1>1, <1>2, <1>3, <1>4

(* A new connection is in a company and a workspace that are in use.       *)
LEMMA ConnectAlone ==
  ASSUME Alone, NEW c \in Company, "connect" \in open, Connect(c)
  PROVE  AloneInv'
<1> USE DEF Alone, AloneInv, Connect, Bounds, Processes
<1>1. ToldInv'
  BY DEF ToldInv, DecidesAlone
<1>2. SingleInv'
  BY DEF SingleInv, Doomed
<1>3. EndInv'
  BY DEF EndInv
<1>4. account'[c] = "LINKED"
  BY DEF IInv, Typed
<1>5. DecisionInv'
  <2> SUFFICES ASSUME NEW w \in Worker, worker[w].pc # "idle"
               PROVE  c \notin Of(worker[w].of)
    BY <1>4 DEF DecisionInv
  <2>1. Doomed(worker[w].of)
    BY DEF SingleInv
  <2> QED
    BY <2>1, SubjectsDiffer DEF Doomed, Of, InUse
<1>6. KeptInv'
  BY <1>4 DEF KeptInv, Kept
<1> QED
  BY <1>1, <1>2, <1>3, <1>5, <1>6

-----------------------------------------------------------------------------
(* The worker decides.                                                     *)

LEMMA ClaimAlone ==
  ASSUME Alone, NEW w \in Worker, NEW x \in Subject, Claiming(w, x)
  PROVE  AloneInv'
<1> USE DEF Alone, AloneInv
<1>1. /\ Claim(w, x) /\ Doomed(x) /\ w = TheWorker
  BY DEF Claiming, claimDeletingWorkspace, claimExpiredCompany, Doomed,
         Running, DecidesAlone, TheWorker
<1>2. /\ UNCHANGED <<workspace, company, account, grant, missed>>
      /\ UNCHANGED <<request, notice>>
  BY <1>1 DEF Claim, Rows, Provider
<1>3. /\ \A v \in Worker \ {w} : worker'[v] = worker[v]
      /\ worker'[w].pc = "read" /\ worker'[w].of = x
  BY <1>1 DEF Claim, WorkerStep, IdleWorker, IInv, Typed
<1>4. ToldInv'
  BY <1>2 DEF ToldInv
<1>5. SingleInv'
  BY <1>1, <1>2, <1>3 DEF SingleInv, Doomed
<1>6. EndInv'
  <2>1. "end" \notin open
    BY <1>1, SubjectsDiffer DEF EndInv, Doomed
  <2> QED
    BY <1>2, <2>1 DEF EndInv
<1>7. DecisionInv'
  BY <1>2, <1>3 DEF DecisionInv
<1>8. KeptInv'
  BY <1>2 DEF KeptInv, Kept
<1> QED
  BY <1>4, <1>5, <1>6, <1>7, <1>8

(* If every copy of the grant ends with x, one of them is elected.         *)
LEMMA LastAreElected ==
  ASSUME Alone, NEW x \in Subject, Doomed(x),
         NEW c \in Company, account[c] = "LINKED",
         \A d \in Company : account[d] = "LINKED" => d \in Of(x)
  PROVE  lifecycleTokens(x)
<1>1. c \in Of(x) \cap Linked
  BY DEF Linked
<1>2. CASE x \in Workspace
  BY <1>1, <1>2, SubjectsDiffer
     DEF Doomed, lifecycleTokens, Elected, Of, Linked
<1>3. CASE x \in Company
  BY <1>1, <1>3, SubjectsDiffer
     DEF lifecycleTokens, Elected, Of, Linked
<1> QED
  BY <1>2, <1>3, SubjectsDiffer

LEMMA ReadTokensAlone ==
  ASSUME Alone, NEW w \in Worker, ReadTokens(w)
  PROVE  AloneInv'
<1> USE DEF Alone, AloneInv
<1> DEFINE x == worker[w].of
           t == lifecycleTokens(x)
<1>1. x \in Subject /\ worker[w].pc = "read" /\ Doomed(x)
  BY DEF ReadTokens, IInv, ProcessInv, SingleInv
<1>2. /\ UNCHANGED <<workspace, company, account, grant, missed>>
      /\ UNCHANGED <<request, notice>>
  BY DEF ReadTokens, Rows, Provider
<1>3. /\ \A v \in Worker \ {w} : worker'[v] = worker[v]
      /\ worker'[w].pc = "revoke" /\ worker'[w].of = x
      /\ worker'[w].token = t
  BY DEF ReadTokens, WorkerStep, IInv, Typed, WorkerState
<1> HIDE DEF x, t
<1>4. ToldInv'
  BY <1>2 DEF ToldInv
<1>5. SingleInv'
  BY <1>1, <1>2, <1>3 DEF SingleInv, Doomed, x
<1>6. "end" \notin open /\ EndInv'
  <2>1. "end" \notin open
    BY <1>1, SubjectsDiffer DEF EndInv, Doomed
  <2> QED
    BY <1>2, <2>1 DEF EndInv
<1>7. DecisionInv'
  <2> SUFFICES ASSUME grant, ~missed,
                      \A d \in Company : account[d] = "LINKED" => d \in Of(x)
               PROVE  t
    BY <1>2, <1>3 DEF DecisionInv
  <2>1. PICK c \in Company : account[c] = "LINKED"
    BY <1>6 DEF EndInv, KeptInv, Kept
  <2> QED
    BY <1>1, <2>1, LastAreElected DEF t
<1>8. KeptInv'
  BY <1>2 DEF KeptInv, Kept
<1> QED
  BY <1>4, <1>5, <1>6, <1>7, <1>8

(* Who is not asked keeps the grant; who is asked ends it or fails.        *)
LEMMA Withdrawn ==
  ASSUME Alone, NEW asked \in BOOLEAN, Withdraw(asked)
  PROVE  /\ grant' => grant
         /\ grant' /\ ~missed' => ~asked /\ grant /\ ~missed
<1>1. /\ grant \in BOOLEAN /\ missed \in BOOLEAN
      /\ grant' \in BOOLEAN /\ missed' \in BOOLEAN
  BY DEF Alone, IInv, Typed
<1>2. \/ grant' = FALSE
      \/ missed' = TRUE /\ grant' = grant
      \/ ~asked /\ grant' = grant /\ missed' = missed
  BY Zenon DEF Withdraw
<1> QED
  BY <1>1, <1>2

LEMMA bestEffortRevokeAlone ==
  ASSUME Alone, NEW w \in Worker, bestEffortRevoke(w)
  PROVE  AloneInv'
<1> USE DEF Alone, AloneInv
<1>1. /\ UNCHANGED <<workspace, company, account, request, notice>>
      /\ worker[w].pc = "revoke" /\ Withdraw(worker[w].token)
      /\ worker[w].token \in BOOLEAN
  BY DEF bestEffortRevoke, Rows, IInv, Typed, WorkerState
<1>2. /\ \A v \in Worker \ {w} : worker'[v] = worker[v]
      /\ worker'[w].pc = "finish" /\ worker'[w].of = worker[w].of
  BY DEF bestEffortRevoke, WorkerStep, IInv, Typed, WorkerState
<1>3. /\ grant' => grant
      /\ grant' /\ ~missed' => ~worker[w].token /\ grant /\ ~missed
  BY <1>1, Withdrawn
<1>4. ToldInv'
  BY <1>1, <1>3 DEF ToldInv
<1>5. SingleInv'
  BY <1>1, <1>2 DEF SingleInv, Doomed
<1>6. EndInv'
  BY <1>1, <1>2 DEF EndInv
<1>7. DecisionInv'
  BY <1>1, <1>2, <1>3 DEF DecisionInv
<1>8. KeptInv'
  BY <1>1, <1>3 DEF KeptInv, Kept
<1> QED
  BY <1>4, <1>5, <1>6, <1>7, <1>8

(* A worker that ends what it has worked on has had the grant withdrawn,   *)
(* unless copies remain elsewhere.                                         *)
LEMMA FinishAlone ==
  ASSUME Alone, NEW w \in Worker, worker[w].pc = "finish",
         WorkerStep(w, IdleWorker),
         UNCHANGED <<request, grant, missed>>,
         notice'.status = notice.status,
         \A d \in Company \ Of(worker[w].of) : account'[d] = account[d]
  PROVE  /\ ToldInv' /\ SingleInv' /\ EndInv' /\ DecisionInv' /\ KeptInv'
<1> USE DEF Alone, AloneInv
<1>1. /\ w = TheWorker /\ "end" \notin open
      /\ \A v \in Worker : worker'[v].pc = "idle"
  BY RestTyped DEF SingleInv, EndInv, WorkerStep, IInv, Typed
<1>2. ToldInv'
  BY DEF ToldInv
<1>3. SingleInv' /\ EndInv' /\ DecisionInv'
  BY <1>1 DEF SingleInv, EndInv, DecisionInv
<1>4. KeptInv'
  <2> SUFFICES ASSUME grant, ~missed
               PROVE  \E d \in Company : account'[d] = "LINKED"
    BY DEF KeptInv, Kept
  <2>1. PICK d \in Company : account[d] = "LINKED" /\ d \notin Of(worker[w].of)
    BY DEF DecisionInv
  <2> QED
    BY <2>1
<1> QED
  BY <1>2, <1>3, <1>4

LEMMA finishCompanyPurgeAlone ==
  ASSUME Alone, NEW w \in Worker, finishCompanyPurge(w)
  PROVE  AloneInv'
<1> DEFINE c == worker[w].of
<1>1. /\ worker[w].pc = "finish" /\ c \in Company
      /\ WorkerStep(w, IdleWorker) /\ UNCHANGED <<request, grant, missed>>
  BY DEF finishCompanyPurge, Provider
<1>2. Of(c) = {c}
  BY <1>1, SubjectsDiffer DEF Of
<1>3. /\ notice'.status = notice.status
      /\ \A d \in Company \ {c} : account'[d] = account[d]
  BY DEF finishCompanyPurge, Deleted, Alone, IInv, Typed, Notice
<1> QED
  BY <1>1, <1>2, <1>3, FinishAlone DEF AloneInv

LEMMA finishWorkspaceDeletionAlone ==
  ASSUME Alone, NEW w \in Worker, finishWorkspaceDeletion(w)
  PROVE  AloneInv'
<1> DEFINE x == worker[w].of
<1>1. /\ worker[w].pc = "finish"
      /\ WorkerStep(w, IdleWorker) /\ UNCHANGED <<request, grant, missed>>
  BY DEF finishWorkspaceDeletion, Provider
<1>2. \/ Deleted(Of(x))
      \/ UNCHANGED <<account, notice>>
  BY DEF finishWorkspaceDeletion
<1>3. /\ notice'.status = notice.status
      /\ \A d \in Company \ Of(x) : account'[d] = account[d]
  BY <1>2 DEF Deleted, Alone, IInv, Typed, Notice
<1> QED
  BY <1>1, <1>3, FinishAlone DEF AloneInv

-----------------------------------------------------------------------------
(* Requests decide.                                                        *)

(* A step of a request that leaves the worker and the scope's companies as *)
(* they are, where requests decide.                                        *)
LEMMA RequestAlone ==
  ASSUME Alone, "end" \in open, UNCHANGED <<worker, company, workspace>>,
         notice'.status = notice.status, grant' => grant,
         grant' /\ ~missed' => Kept'
  PROVE  AloneInv'
<1> USE DEF Alone, AloneInv
<1>1. ToldInv'
  BY DEF ToldInv
<1>2. SingleInv' /\ EndInv'
  BY DEF SingleInv, EndInv
<1>3. DecisionInv'
  BY DEF DecisionInv, EndInv
<1>4. KeptInv'
  BY DEF KeptInv
<1> QED
  BY <1>1, <1>2, <1>3, <1>4

(* A request that has begun, and is not a sweep, tells the scope.          *)
LEMMA RequestsEnd ==
  ASSUME Alone, NEW r \in Request, request[r].pc \notin {"idle", "sweep"}
  PROVE  "end" \in open
  BY DEF Alone, AloneInv, EndInv

LEMMA BeginEndingAlone ==
  ASSUME Alone, NEW r \in Request, NEW c \in Company,
         NEW task \in {"disconnect", "purge"}, "end" \in open,
         BeginEnding(r, c, task)
  PROVE  AloneInv'
<1>1. /\ request[r].pc = "idle"
      /\ UNCHANGED <<worker, company, workspace, account, notice>>
      /\ UNCHANGED <<grant, missed>>
      /\ \A s \in Request \ {r} : request'[s] = request[s]
  BY DEF BeginEnding, RequestStep, Rows, Provider, Alone, IInv, Typed
<1>2. grant' /\ ~missed' => Kept'
  BY <1>1 DEF Alone, AloneInv, KeptInv, Kept
<1> QED
  BY <1>1, <1>2, RequestAlone

(* Whoever deletes the last copy goes on to the election, or has found no  *)
(* token.                                                                  *)
LEMMA CommitAlone ==
  ASSUME Alone, NEW r \in Request, request[r].pc = "local",
         NEW c \in Company, c = request[r].of,
         \A d \in Company \ {c} : account'[d] = account[d],
         \A s \in Request \ {r} : request'[s] = request[s],
         \/ account' = account
         \/ request'[r] = Committed(r),
         LosesToken(r), grant', ~missed'
  PROVE  Kept'
<1> USE DEF Alone, AloneInv
<1>1. grant /\ ~missed /\ (account[c] = "LINKED" => request[r].token)
  BY DEF LosesToken, Linked
<1>2. CASE \E s \in Request : request[s].pc \in {"elect", "revoke"}
  BY <1>2 DEF Kept
<1>3. CASE \E d \in Company \ {c} : account[d] = "LINKED"
  BY <1>3 DEF Kept
<1>4. CASE account[c] = "LINKED" /\ account' = account
  BY <1>4 DEF Kept
<1>5. CASE account[c] = "LINKED" /\ request'[r] = Committed(r)
  BY <1>1, <1>5 DEF Committed, Kept, IInv, Typed, RequestState
<1> QED
  BY <1>1, <1>2, <1>3, <1>4, <1>5 DEF KeptInv, Kept

LEMMA disconnectPlatformAlone ==
  ASSUME Alone, NEW r \in Request, disconnectPlatform(r)
  PROVE  AloneInv'
<1> DEFINE c == request[r].of
<1>1. /\ request[r].pc = "local" /\ c \in Company /\ LosesToken(r)
      /\ UNCHANGED <<worker, company, workspace, notice>>
  BY DEF disconnectPlatform, Alone, IInv, ProcessInv
<1>2. /\ \A d \in Company \ {c} : account'[d] = account[d]
      /\ \A s \in Request \ {r} : request'[s] = request[s]
      /\ account' = account \/ request'[r] = Committed(r)
  BY <1>1 DEF disconnectPlatform, RequestStep, Alone, IInv, Typed
<1>3. grant' => grant
  BY <1>1 DEF LosesToken
<1> HIDE DEF c
<1>4. grant' /\ ~missed' => Kept'
  BY <1>1, <1>2, CommitAlone DEF c
<1> QED
  BY <1>1, <1>3, <1>4, RequestsEnd, RequestAlone

LEMMA purgePlatformDataAlone ==
  ASSUME Alone, NEW r \in Request, purgePlatformData(r)
  PROVE  AloneInv'
<1> DEFINE c == request[r].of
<1>1. /\ request[r].pc = "local" /\ c \in Company
      /\ UNCHANGED <<worker, company, workspace>>
  BY DEF purgePlatformData, Alone, IInv, ProcessInv
<1>2. \A s \in Request \ {r} : request'[s] = request[s]
  BY DEF purgePlatformData, RequestStep, Alone, IInv, Typed
<1>3. CASE UNCHANGED <<account, notice, grant, missed>>
  <2>1. grant' /\ ~missed' => Kept'
    BY <1>1, <1>2, <1>3 DEF Alone, AloneInv, KeptInv, Kept
  <2> QED
    BY <1>1, <1>3, <2>1, RequestsEnd, RequestAlone
<1>4. CASE Deleted({c}) /\ LosesToken(r) /\ RequestStep(r, Committed(r))
  <2>1. /\ \A d \in Company \ {c} : account'[d] = account[d]
        /\ notice'.status = notice.status
    BY <1>4 DEF Deleted, Alone, IInv, Typed, Notice
  <2>2. request'[r] = Committed(r)
    BY <1>4 DEF RequestStep, Alone, IInv, Typed
  <2>3. grant' => grant
    BY <1>4 DEF LosesToken
  <2> HIDE DEF c
  <2>4. grant' /\ ~missed' => Kept'
    BY <1>1, <1>2, <1>4, <2>1, <2>2, CommitAlone DEF c
  <2> QED
    BY <1>1, <2>1, <2>3, <2>4, RequestsEnd, RequestAlone
<1> QED
  BY <1>3, <1>4 DEF purgePlatformData, Provider

LEMMA ElectAlone ==
  ASSUME Alone, NEW r \in Request, Elect(r)
  PROVE  AloneInv'
<1>1. /\ request[r].pc = "elect"
      /\ UNCHANGED <<worker, company, workspace, account, notice>>
      /\ UNCHANGED <<grant, missed>>
  BY DEF Elect, Rows, Provider
<1>2. \/ \E d \in Company : account[d] = "LINKED"
      \/ request'[r].pc = "revoke"
  BY DEF Elect, LastCopy, Linked, RequestStep, Alone, IInv, Typed, RequestState
<1>3. Kept'
  BY <1>1, <1>2 DEF Kept
<1> QED
  BY <1>1, <1>3, RequestsEnd, RequestAlone

LEMMA revokePlatformAlone ==
  ASSUME Alone, NEW r \in Request, revokePlatform(r)
  PROVE  AloneInv'
<1>1. /\ request[r].pc = "revoke" /\ Withdraw(TRUE)
      /\ UNCHANGED <<worker, company, workspace, notice>>
  BY DEF revokePlatform, Rows
<1>2. (grant' => grant) /\ ~(grant' /\ ~missed')
  BY <1>1, Withdrawn
<1> QED
  BY <1>1, <1>2, RequestsEnd, RequestAlone

(* A sweep only ever withdraws; the rows are left to the worker.           *)
LEMMA SweepAlone ==
  ASSUME Alone, NEW r \in Request, Sweep(r)
  PROVE  AloneInv'
<1> USE DEF Alone, AloneInv
<1>1. /\ request[r].pc = "sweep"
      /\ UNCHANGED <<worker, company, workspace, account, notice>>
  BY DEF Sweep, Rows
<1>2. /\ grant' => grant
      /\ grant' /\ ~missed' => grant /\ ~missed
  <2> DEFINE asked == lifecycleTokens(request[r].of)
  <2>1. asked \in BOOLEAN /\ Withdraw(asked)
    BY DEF Sweep, lifecycleTokens
  <2> HIDE DEF asked
  <2> QED
    BY <2>1, Withdrawn
<1>3. /\ \A s \in Request \ {r} : request'[s] = request[s]
      /\ request'[r].pc = "idle"
  BY RestTyped DEF Sweep, RequestStep, IInv, Typed
<1>4. ToldInv' /\ SingleInv'
  BY <1>1, <1>2 DEF ToldInv, SingleInv, Doomed
<1>5. EndInv'
  BY <1>1, <1>3 DEF EndInv
<1>6. DecisionInv'
  BY <1>1, <1>2 DEF DecisionInv
<1>7. KeptInv'
  BY <1>1, <1>2, <1>3 DEF KeptInv, Kept
<1> QED
  BY <1>4, <1>5, <1>6, <1>7

LEMMA selfDeleteAlone ==
  ASSUME Alone, NEW r \in Request, NEW x \in Workspace, "delete" \in open,
         selfDelete(r, x)
  PROVE  AloneInv'
<1> USE DEF Alone, AloneInv
<1>1. /\ UNCHANGED <<worker, company, account, notice, grant, missed>>
      /\ workspace' = [workspace EXCEPT ![x] = "DELETING"]
      /\ request[r].pc = "idle" /\ workspace[x] = "ACTIVE"
  BY DEF selfDelete, Provider
<1>2. /\ \A s \in Request \ {r} : request'[s] = request[s]
      /\ request'[r].pc = "sweep"
  BY DEF selfDelete, RequestStep, IdleRequest, IInv, Typed
<1>3. ToldInv'
  BY <1>1 DEF ToldInv
<1>4. SingleInv'
  BY <1>1 DEF SingleInv, Doomed, IInv, Typed
<1>5. EndInv'
  BY <1>2 DEF EndInv, DecidesAlone
<1>6. DecisionInv'
  BY <1>1 DEF DecisionInv
<1>7. KeptInv'
  BY <1>1, <1>2 DEF KeptInv, Kept
<1> QED
  BY <1>3, <1>4, <1>5, <1>6, <1>7

(* A request that dies on the way to the provider is missed.               *)
LEMMA RequestDiesAlone ==
  ASSUME Alone, NEW r \in Request, RequestDies(r)
  PROVE  AloneInv'
<1> USE DEF Alone, AloneInv
<1>1. /\ UNCHANGED <<worker, company, workspace, account, notice, grant>>
      /\ missed' = (missed \/ request[r].pc # "sweep")
  BY DEF RequestDies, Rows
<1>2. /\ \A s \in Request \ {r} : request'[s] = request[s]
      /\ request'[r].pc = "idle"
  BY RestTyped DEF RequestDies, RequestStep, IInv, Typed
<1>3. ~missed' => ~missed /\ request[r].pc = "sweep"
  BY <1>1
<1>4. ToldInv' /\ SingleInv'
  BY <1>1 DEF ToldInv, SingleInv, Doomed
<1>5. EndInv'
  BY <1>1, <1>2 DEF EndInv
<1>6. DecisionInv'
  BY <1>1, <1>3 DEF DecisionInv
<1>7. KeptInv'
  BY <1>1, <1>2, <1>3 DEF KeptInv, Kept
<1> QED
  BY <1>4, <1>5, <1>6, <1>7

-----------------------------------------------------------------------------
(* The notice decides nothing: the grant has ended before.                 *)

(* Without a grant there is nothing to withdraw.                           *)
LEMMA EndedAlone ==
  ASSUME Alone, ~grant', notice'.status # "none" => "notice" \in open,
         UNCHANGED <<worker, request, company, workspace>>
  PROVE  AloneInv'
<1> USE DEF Alone, AloneInv
<1>1. ToldInv' /\ DecisionInv' /\ KeptInv'
  BY DEF ToldInv, DecisionInv, KeptInv
<1>2. SingleInv'
  BY DEF SingleInv, Doomed
<1>3. EndInv'
  BY DEF EndInv
<1> QED
  BY <1>1, <1>2, <1>3

LEMMA NoticeAlone ==
  ASSUME Alone, \/ "notice" \in open /\ instagramDataDeletion
                \/ \E c \in Company : deletePlatformAccountData(c)
                \/ NoticeEnds
  PROVE  AloneInv'
<1>1. CASE "notice" \in open /\ instagramDataDeletion
  <2>1. /\ ~grant' /\ "notice" \in open
        /\ UNCHANGED <<worker, request, company, workspace>>
    BY <1>1 DEF instagramDataDeletion, Rows
  <2> QED
    BY <2>1, EndedAlone
<1>2. CASE \E c \in Company : deletePlatformAccountData(c)
  <2>1. /\ notice.status = "PENDING" /\ UNCHANGED grant
        /\ UNCHANGED <<worker, request, company, workspace>>
    BY <1>2 DEF deletePlatformAccountData, Provider
  <2>2. ~grant /\ "notice" \in open
    BY <2>1 DEF Alone, AloneInv, ToldInv
  <2> QED
    BY <2>1, <2>2, EndedAlone
<1>3. CASE NoticeEnds
  <2>1. /\ notice.status = "PENDING" /\ UNCHANGED grant
        /\ UNCHANGED <<worker, request, company, workspace>>
    BY <1>3 DEF NoticeEnds, Provider, Rows
  <2>2. ~grant /\ "notice" \in open
    BY <2>1 DEF Alone, AloneInv, ToldInv
  <2> QED
    BY <2>1, <2>2, EndedAlone
<1> QED
  BY <1>1, <1>2, <1>3

-----------------------------------------------------------------------------
(* Every step where somebody decides alone.                                *)

(* The scope of a behaviour never changes.                                 *)
LEMMA ScopeStays == [Next]_vars => UNCHANGED open
<1> SUFFICES ASSUME [Next]_vars PROVE UNCHANGED open
  OBVIOUS
<1>1. CASE \E w \in Worker : \/ LifecyclePass(w) \/ Crash(w)
                             \/ \E x \in Subject : Claiming(w, x)
  BY <1>1, Zenon
     DEF LifecyclePass, ReadTokens, bestEffortRevoke, finishCompanyPurge,
         finishWorkspaceDeletion, Crash, Claiming, claimDeletingWorkspace,
         claimExpiredCompany, Claim, Bounds
<1>2. CASE \E r \in Request : Ending(r)
  BY <1>2, Zenon
     DEF Ending, BeginEnding, disconnectPlatform, purgePlatformData, Elect,
         revokePlatform, selfDelete, Sweep, RequestDies, Bounds
<1>3. CASE \E x \in Subject : LeaseExpires(x) \/ Stall(x)
  BY <1>3, Zenon DEF LeaseExpires, Stall, Bounds
<1>4. CASE \E c \in Company :
             \/ Connect(c) \/ Publish(c) \/ archiveCompany(c)
             \/ BecomesDue(c) \/ restoreCompany(c)
             \/ deletePlatformAccountData(c)
  BY <1>4, Zenon
     DEF Connect, Publish, archiveCompany, BecomesDue, restoreCompany,
         deletePlatformAccountData, Bounds
<1>5. CASE \E x \in Workspace : Command(x)
  BY <1>5, Zenon DEF Command, Bounds
<1>6. CASE instagramDataDeletion \/ NoticeEnds
  BY <1>6, Zenon DEF instagramDataDeletion, NoticeEnds, Bounds
<1>7. CASE UNCHANGED vars
  BY <1>7 DEF vars
<1> QED
  BY <1>1, <1>2, <1>3, <1>4, <1>5, <1>6, <1>7 DEF Next

(* What moves neither accounts nor decisions.                              *)
LEMMA RestAlone ==
  ASSUME Alone, \/ \E w \in Worker : Crash(w)
                \/ \E x \in Subject : LeaseExpires(x) \/ Stall(x)
                \/ \E c \in Company : Publish(c)
                \/ \E x \in Workspace : Command(x)
                \/ UNCHANGED vars
  PROVE  AloneInv'
<1>1. CASE \E w \in Worker : Crash(w)
  BY <1>1, RestTyped, QuietAlone
     DEF Crash, WorkerStep, Rows, Provider, Alone, IInv, Typed
<1>2. CASE \E x \in Subject : LeaseExpires(x) \/ Stall(x)
  BY <1>2, QuietAlone
     DEF LeaseExpires, Stall, Unleased, Rows, Provider, Processes
<1>3. CASE \E c \in Company : Publish(c)
  BY <1>3, QuietAlone DEF Publish, Provider, Processes
<1>4. CASE \E x \in Workspace : Command(x)
  BY <1>4, QuietAlone DEF Command, Provider, Processes
<1>5. CASE UNCHANGED vars
  BY <1>5, QuietAlone DEF vars
<1> QED
  BY <1>1, <1>2, <1>3, <1>4, <1>5

LEMMA EndOfUseAlone ==
  ASSUME Alone, NEW c \in Company,
         \/ "purge" \in open /\ (archiveCompany(c) \/ BecomesDue(c))
         \/ restoreCompany(c)
  PROVE  AloneInv'
<1>1. CASE "purge" \in open /\ (archiveCompany(c) \/ BecomesDue(c))
  <2>1. "end" \notin open
    BY <1>1 DEF Alone, DecidesAlone
  <2>2. /\ UNCHANGED <<account, grant, missed, notice>>
        /\ UNCHANGED <<workspace, request, worker>> /\ company[c] # "DUE"
        /\ \/ company' = [company EXCEPT ![c] = "ARCHIVED"]
           \/ company' = [company EXCEPT ![c] = "DUE"]
    BY <1>1 DEF archiveCompany, BecomesDue, InUse, Provider, Processes
  <2> QED
    BY <2>1, <2>2, CompanyAlone
<1>2. CASE restoreCompany(c)
  <2>1. "end" \notin open
    BY <1>2 DEF restoreCompany, Alone, AloneInv, EndInv
  <2> QED
    BY <1>2, <2>1, CompanyAlone DEF restoreCompany, Provider, Processes
<1> QED
  BY <1>1, <1>2

LEMMA EndingAlone ==
  ASSUME Alone, NEW r \in Request, Ending(r)
  PROVE  AloneInv'
<1>1. CASE \E c \in Company, task \in {"disconnect", "purge"} :
             "end" \in open /\ BeginEnding(r, c, task)
  BY <1>1, BeginEndingAlone
<1>2. CASE disconnectPlatform(r) \/ purgePlatformData(r)
  BY <1>2, disconnectPlatformAlone, purgePlatformDataAlone
<1>3. CASE Elect(r) \/ revokePlatform(r)
  BY <1>3, ElectAlone, revokePlatformAlone
<1>4. CASE \E x \in Workspace : "delete" \in open /\ selfDelete(r, x)
  BY <1>4, selfDeleteAlone
<1>5. CASE Sweep(r) \/ RequestDies(r)
  BY <1>5, SweepAlone, RequestDiesAlone
<1> QED
  BY <1>1, <1>2, <1>3, <1>4, <1>5, Zenon DEF Ending

LEMMA StepAlone ==
  ASSUME Alone, [Next]_vars
  PROVE  AloneInv'
<1>1. CASE \E w \in Worker : LifecyclePass(w)
  BY <1>1, ReadTokensAlone, bestEffortRevokeAlone, finishCompanyPurgeAlone,
     finishWorkspaceDeletionAlone DEF LifecyclePass
<1>2. CASE \E w \in Worker, x \in Subject : Claiming(w, x)
  BY <1>2, ClaimAlone
<1>3. CASE \E r \in Request : Ending(r)
  BY <1>3, EndingAlone
<1>4. CASE \E c \in Company :
             \/ "purge" \in open /\ (archiveCompany(c) \/ BecomesDue(c))
             \/ restoreCompany(c)
  BY <1>4, EndOfUseAlone
<1>5. CASE \E c \in Company : "connect" \in open /\ Connect(c)
  BY <1>5, ConnectAlone
<1>6. CASE \/ "notice" \in open /\ instagramDataDeletion
           \/ \E c \in Company : deletePlatformAccountData(c)
           \/ NoticeEnds
  BY <1>6, NoticeAlone
<1>7. CASE \/ \E w \in Worker : Crash(w)
           \/ \E x \in Subject : LeaseExpires(x) \/ Stall(x)
           \/ \E c \in Company : Publish(c)
           \/ \E x \in Workspace : Command(x)
           \/ UNCHANGED vars
  BY <1>7, RestAlone
<1> QED
  BY <1>1, <1>2, <1>3, <1>4, <1>5, <1>6, <1>7, Zenon DEF Next

LEMMA StepGrant ==
  ASSUME IInv, IInv', GrantInv, [Next]_vars
  PROVE  GrantInv'
<1>1. UNCHANGED open
  BY ScopeStays
<1>2. DecidesAlone' = DecidesAlone
  BY <1>1 DEF DecidesAlone
<1>3. ASSUME DecidesAlone PROVE AloneInv'
  BY <1>1, <1>3, StepAlone DEF Alone, GrantInv
<1> QED
  BY <1>2, <1>3 DEF GrantInv

(* A grant never outlives its last copy where one worker decides, or       *)
(* requests do, whatever else happens between the reads, the provider's    *)
(* answers and the transactions (lifecycle.go:455-544,                     *)
(* oauth.go:1744-1853).                                                    *)
THEOREM GrantIsAlwaysWithdrawn == Spec => []GrantIsWithdrawn
<1>1. Init => GrantInv
  BY InitAlone
<1>2. IInv /\ IInv' /\ GrantInv /\ [Next]_vars => GrantInv'
  BY StepGrant
<1>3. Spec => []GrantInv
  BY <1>1, <1>2, LifecycleInvariant, PTL DEF Spec
<1>4. GrantInv => GrantIsWithdrawn
  BY DEF GrantInv, AloneInv, KeptInv, Kept, GrantIsWithdrawn, Linked
<1> QED
  BY <1>3, <1>4, PTL
=============================================================================
