---------------------------- MODULE Connections -----------------------------
(***************************************************************************)
(* The OAuth connections of one company: authorization and reconnect       *)
(* flows, token refresh, platform synchronization, pausing, disconnecting, *)
(* and the archive and restore of the company (oauth.go,                   *)
(* oauth_selection.go, platform_sync.go, tiktok.go, companies.go).         *)
(*                                                                         *)
(* Every transaction is one step; what a request or a worker remembers     *)
(* between two transactions is in flow and job.  A refresh is different:   *)
(* it calls the provider inside its transaction, with the rows of the      *)
(* connection, the account, the company and the workspace locked, and is   *)
(* two steps here.  A timestamp is what the guards read of it (expiring);  *)
(* of a token only its age is told apart: a job is stale when the one it   *)
(* has read is no longer the one that is stored.                           *)
(***************************************************************************)
EXTENDS Naturals

CONSTANTS
  Account,   \* provider identities that may be connected
  Creator,   \* creators of the company
  Flow,      \* authorization flows open at a time
  Worker,    \* runs of the token refresh and of the synchronization
  MaxGen,    \* bound: reconnects begun for one connection
  MaxPaused, \* bound: paused synchronization rows of one account
  Scopes     \* bound: what besides authorizing happens in one behaviour

Nobody == "nobody"
TheCompany == "company"
Owner == Creator \cup {TheCompany}
NoAccount == "none"

ASSUME ConnectionsAssumption ==
  /\ MaxGen \in Nat /\ MaxPaused \in Nat
  /\ Nobody \notin Owner /\ NoAccount \notin Account
  /\ TheCompany \notin Creator
  /\ Scopes \subseteq SUBSET {"VK", "select", "hand", "pause", "disconnect",
                              "archive", "refresh", "sync", "crash"}

VARIABLES
  company,  \* companies.archived_at
  open,     \* the scope; in one with "VK" the accounts are the company's
  status,   \* platform_accounts.status, or NONE: no row
  owner,    \* the open creator_account_assignments, or company_vk_accounts
  conn,     \* oauth_connections
  rows,     \* sync_targets of the account
  flow,     \* oauth_states, oauth_account_selections and the callback's state
  job,      \* what a worker remembers
  kept      \* history: the connections an archive has suspended

vars == <<company, open, status, owner, conn, rows, flow, job, kept>>

NoConn == [status |-> "NONE", suspended |-> FALSE, gen |-> 0,
           expiring |-> FALSE]
Conn == [status : {"NONE", "ACTIVE", "REAUTH_REQUIRED", "PAUSED"},
         suspended : BOOLEAN, gen : 0 .. MaxGen, expiring : BOOLEAN]

(* current is the row the partial unique index allows once, or the one an  *)
(* archive has suspended; paused counts the others.                        *)
NoRows == [current |-> "none", paused |-> 0]
Rows == [current : {"none", "active", "suspended"}, paused : 0 .. MaxPaused]

(* newer is history: an authorization of the same connection began later,  *)
(* or the connection was deleted since.                                    *)
NoFlow == [pc |-> "idle", owner |-> Nobody, acct |-> NoAccount, gen |-> 0,
           ids |-> {}, newer |-> "no"]
FlowState ==
  [pc : {"idle", "pending", "exchange", "offer", "save", "select"},
   owner : Owner \cup {Nobody}, acct : Account \cup {NoAccount},
   gen : 0 .. MaxGen, ids : SUBSET Account, newer : {"no", "yes", "deleted"}]

NoJob == [pc |-> "idle", task |-> "sync", acct |-> NoAccount,
          refused |-> FALSE, stale |-> FALSE]
JobState ==
  [pc : {"idle", "read", "refresh", "call", "finish", "mark"},
   task : {"sync", "refresh"}, acct : Account \cup {NoAccount},
   refused : BOOLEAN, stale : BOOLEAN]

(* Every column and every process keeps to its type; a row is suspended    *)
(* for an archive only while the company is archived.                      *)
TypeOK ==
  /\ company \in {"ACTIVE", "ARCHIVED"}
  /\ open \in Scopes
  /\ status \in [Account -> {"NONE", "ACTIVE", "PAUSED", "REAUTH_REQUIRED",
                             "DISCONNECTED"}]
  /\ owner \in [Account -> Owner \cup {Nobody}]
  /\ conn \in [Account -> Conn]
  /\ rows \in [Account -> Rows]
  /\ flow \in [Flow -> FlowState]
  /\ job \in [Worker -> JobState]
  /\ kept \in SUBSET Account
  /\ \A a \in Account :
       conn[a].suspended => company = "ARCHIVED" /\ conn[a].status = "PAUSED"

Init ==
  /\ company = "ACTIVE"
  /\ open \in Scopes
  /\ status = [a \in Account |-> "NONE"]
  /\ owner = [a \in Account |-> Nobody]
  /\ conn = [a \in Account |-> NoConn]
  /\ rows = [a \in Account |-> NoRows]
  /\ flow = [f \in Flow |-> NoFlow]
  /\ job = [w \in Worker |-> NoJob]
  /\ kept = {}

(* A refresh in flight holds the company and the workspace: transactions   *)
(* that lock them, write to them or refer to them wait for its answer.     *)
Unlocked == \A w \in Worker : job[w].pc # "refresh"

(* Slip: the save after the provider's answer trusts the first check.      *)
NotRechecked == Unlocked

(* lockActiveCompanyTarget: the company, re-read and held to the commit.   *)
CompanyHeld == Unlocked /\ company = "ACTIVE"

Connected(a) == conn[a].status # "NONE"
Reauth(a) ==
  status[a] = "REAUTH_REQUIRED" /\ conn[a].status = "REAUTH_REQUIRED"
Owned(o) == {a \in Account : owner[a] = o}
ReauthOf(o) == {a \in Owned(o) : Reauth(a)}

-----------------------------------------------------------------------------
(* Authorization flows.                                                    *)

(* Flow f has begun for the connection of acct, after the others.          *)
Begun(f, o, acct, gen) ==
  [g \in Flow |->
    IF g = f THEN [NoFlow EXCEPT !.pc = "pending", !.owner = o,
                                 !.acct = acct, !.gen = gen]
    ELSE IF acct # NoAccount /\ flow[g].acct = acct /\ flow[g].newer = "no"
    THEN [flow[g] EXCEPT !.newer = "yes"] ELSE flow[g]]

(* beginCreatorOAuthReconnectAuthorization: the state is bound to the one  *)
(* connection that waits for a reconnect, whose generation it advances.    *)
(* Two such connections are an error.                                      *)
Begin(f, o) ==
  /\ flow[f].pc = "idle" /\ CompanyHeld
  /\ \/ /\ ReauthOf(o) = {}
        /\ flow' = Begun(f, o, NoAccount, 0)
        /\ UNCHANGED conn
     \/ \E a \in Account :
          /\ ReauthOf(o) = {a} /\ conn[a].gen < MaxGen
          /\ conn' = [conn EXCEPT ![a].gen = @ + 1]
          /\ flow' = Begun(f, o, a, conn[a].gen + 1)
  /\ UNCHANGED <<company, open, status, owner, rows, job, kept>>

(* oauthAuthorize and tiktokAuthorize: a state of a creator.               *)
Authorize(f) ==
  "VK" \notin open /\ \E c \in Creator : Begin(f, c)

(* companyVKOAuthAuthorize: a state of the company's VK account.           *)
AuthorizeCompanyVK(f) == "VK" \in open /\ Begin(f, TheCompany)

FlowStep(f, new) ==
  /\ flow' = [flow EXCEPT ![f] = new]
  /\ UNCHANGED <<company, open, status, owner, conn, rows, job, kept>>

(* oauthCallback: the state is consumed once; then the initiator must      *)
(* still be allowed to connect, and the company be active.                 *)
Callback(f) ==
  /\ flow[f].pc = "pending"
  /\ \/ company = "ACTIVE" /\ FlowStep(f, [flow[f] EXCEPT !.pc = "exchange"])
     \/ FlowStep(f, NoFlow)

(* tiktokCallback: only the state is read.                                 *)
CallbackTikTok(f) ==
  /\ flow[f].pc = "pending" /\ flow[f].owner \in Creator
  /\ FlowStep(f, [flow[f] EXCEPT !.pc = "exchange"])

(* completeOAuth: whoever signs in at the provider is authenticated.       *)
Exchange(f) ==
  /\ flow[f].pc = "exchange"
  /\ \E a \in Account :
       FlowStep(f, [flow[f] EXCEPT !.pc = "save", !.ids = {a}])

(* discoverInstagramFacebookAccounts: every page the grant reaches is a    *)
(* candidate ...                                                           *)
Discover(f) ==
  /\ flow[f].pc = "exchange" /\ flow[f].owner \in Creator
  /\ \E S \in SUBSET Account \ {{}} :
       FlowStep(f, [flow[f] EXCEPT !.pc = "offer", !.ids = S])

(* ... and the candidates are stored for the person to choose              *)
(* (createInstagramAccountSelection).                                      *)
OfferSelection(f) ==
  /\ flow[f].pc = "offer" /\ CompanyHeld
  /\ FlowStep(f, [flow[f] EXCEPT !.pc = "select"])

(* The provider refuses, a check fails or the process dies.                *)
CallbackFails(f) ==
  flow[f].pc \in {"exchange", "offer", "save"} /\ FlowStep(f, NoFlow)

(* An unused state or selection lapses (cleanupOAuthStates).               *)
Lapse(f) == flow[f].pc \in {"pending", "select"} /\ FlowStep(f, NoFlow)

(* Slip: the generation of the reconnect is not compared.                  *)
AnyGeneration(f, S) ==
  LET o == flow[f].owner  a == flow[f].acct
  IN \/ a # NoAccount /\ S = {a} /\ owner[a] = o /\ Connected(a)
     \/ a = NoAccount /\ (o = TheCompany \/ ReauthOf(o) = {})

(* Slip: a first connection does not look for a pending reconnect.         *)
IdentityUnchecked(f, S) ==
  LET o == flow[f].owner  a == flow[f].acct
  IN \/ /\ a # NoAccount /\ S = {a} /\ owner[a] = o
        /\ Connected(a) /\ conn[a].gen = flow[f].gen
     \/ a = NoAccount

(* verifyOAuthReconnectAuthorization, or verifyOAuthReconnectIdentity: an  *)
(* account that waits for a reconnect is not replaced by another identity. *)
(* The accounts of a selection are saved one after the other, so the one   *)
(* that waits may come first.  A first VK connection is not checked.       *)
Verified(f, S) ==
  LET o == flow[f].owner  a == flow[f].acct
  IN \/ /\ a # NoAccount /\ S = {a} /\ owner[a] = o
        /\ Connected(a) /\ conn[a].gen = flow[f].gen
     \/ /\ a = NoAccount
        /\ o = TheCompany \/ ReauthOf(o) = {}
             \/ \E r \in S : ReauthOf(o) = {r}

(* The tokens of S are replaced.                                           *)
Outdated(S, jobs) ==
  [w \in Worker |-> IF jobs[w].acct \in S
                    THEN [jobs[w] EXCEPT !.stale = TRUE] ELSE jobs[w]]

(* savePlatformConnectionTxAuthorized for the accounts S, under the held   *)
(* company: rows of account, assignment, connection and synchronization.   *)
SaveAll(f, S, owners) ==
  /\ CompanyHeld /\ Verified(f, S)
  /\ status' = [a \in Account |-> IF a \in S THEN "ACTIVE" ELSE status[a]]
  /\ owner' = owners
  /\ conn' = [a \in Account |->
       IF a \in S THEN [conn[a] EXCEPT !.status = "ACTIVE",
                                       !.expiring = FALSE] ELSE conn[a]]
  /\ rows' = [a \in Account |->
       IF a \in S THEN [rows[a] EXCEPT !.current = "active"] ELSE rows[a]]
  /\ job' = Outdated(S, job)
  /\ flow' = [flow EXCEPT ![f] = NoFlow]
  /\ UNCHANGED <<company, open, kept>>

Assigned(S, o) == [a \in Account |-> IF a \in S THEN o ELSE owner[a]]

(* savePlatformConnection; the account leaves another creator.             *)
Save(f) ==
  /\ flow[f].pc = "save" /\ flow[f].owner \in Creator
  /\ SaveAll(f, flow[f].ids, Assigned(flow[f].ids, flow[f].owner))

(* saveCompanyVKConnection; the link of the company moves to the account.  *)
SaveCompanyVK(f) ==
  /\ flow[f].pc = "save" /\ flow[f].owner = TheCompany
  /\ SaveAll(f, flow[f].ids,
       [a \in Account |-> IF a \in flow[f].ids THEN TheCompany
                          ELSE IF owner[a] = TheCompany THEN Nobody
                          ELSE owner[a]])

(* completeInstagramAccountSelection: none of the chosen accounts may      *)
(* belong to another creator.                                              *)
CompleteSelection(f) ==
  /\ flow[f].pc = "select"
  /\ \E S \in SUBSET flow[f].ids \ {{}} :
       /\ \A a \in S : owner[a] \in {Nobody, flow[f].owner}
       /\ SaveAll(f, S, Assigned(S, flow[f].owner))

-----------------------------------------------------------------------------
(* Commands on one account.                                                *)

(* An account entered by hand waits for its authorization; one that is     *)
(* known only changes hands.                                               *)
EnterByHand(a, c) ==
  /\ CompanyHeld
  /\ status' = [status EXCEPT ![a] = IF @ = "NONE" THEN "REAUTH_REQUIRED"
                                                   ELSE @]
  /\ owner' = [owner EXCEPT ![a] = c]
  /\ UNCHANGED <<company, open, conn, rows, flow, job, kept>>

HasRow(a) == rows[a].current # "none" \/ rows[a].paused > 0

(* All rows become ACTIVE; the index refuses two of them.                  *)
Activated(a) ==
  IF HasRow(a) THEN [current |-> "active", paused |-> 0]
               ELSE NoRows
OneRow(a) == rows[a].paused = 0 \/ (rows[a].paused = 1 /\
                                    rows[a].current = "none")
Stopped(a) ==
  IF rows[a].current = "active"
  THEN [rows[a] EXCEPT !.current = "none", !.paused = @ + 1] ELSE rows[a]
RoomToPause(a) == rows[a].current = "active" => rows[a].paused < MaxPaused

(* requestAccountSync.                                                     *)
RequestSync(a) ==
  /\ status[a] = "ACTIVE" /\ CompanyHeld
  /\ conn[a].status = "ACTIVE" /\ HasRow(a) /\ OneRow(a)
  /\ rows' = [rows EXCEPT ![a] = Activated(a)]
  /\ UNCHANGED <<company, open, status, owner, conn, flow, job, kept>>

(* setPlatformAccountPaused.                                               *)
Pause(a) ==
  /\ status[a] \notin {"NONE", "DISCONNECTED"} /\ CompanyHeld
  /\ RoomToPause(a)
  /\ status' = [status EXCEPT ![a] = "PAUSED"]
  /\ rows' = [rows EXCEPT ![a] = Stopped(a)]
  /\ UNCHANGED <<company, open, owner, conn, flow, job, kept>>

ResumeAccount(a) ==
  /\ status[a] \notin {"NONE", "DISCONNECTED"} /\ CompanyHeld /\ OneRow(a)
  /\ status' = [status EXCEPT ![a] = "ACTIVE"]
  /\ rows' = [rows EXCEPT ![a] = Activated(a)]
  /\ UNCHANGED <<company, open, owner, conn, flow, job, kept>>

Disconnected(a) ==
  /\ status[a] # "NONE" /\ Unlocked /\ RoomToPause(a)
  /\ conn' = [conn EXCEPT ![a] = NoConn]
  /\ status' = [status EXCEPT ![a] = "DISCONNECTED"]
  /\ rows' = [rows EXCEPT ![a] = Stopped(a)]
  /\ flow' = [f \in Flow |-> IF flow[f].acct = a
                             THEN [flow[f] EXCEPT !.newer = "deleted"]
                             ELSE flow[f]]
  /\ UNCHANGED <<company, open, owner, job, kept>>

(* disconnectPlatform: the company is not read again, so a request that    *)
(* was let in before an archive acts after it.                             *)
Disconnect(a) == Disconnected(a)

(* disconnectTikTok refuses an account without a connection.               *)
DisconnectTikTok(a) == Connected(a) /\ Disconnected(a)

(* The account is deleted and all that hangs off it.  A state bound to it  *)
(* goes with the foreign key, and a callback that has read one can only    *)
(* fail: the account will have another id.                                 *)
Purged(a) ==
  /\ status[a] # "NONE" /\ Unlocked
  /\ status' = [status EXCEPT ![a] = "NONE"]
  /\ owner' = [owner EXCEPT ![a] = Nobody]
  /\ conn' = [conn EXCEPT ![a] = NoConn]
  /\ rows' = [rows EXCEPT ![a] = NoRows]
  /\ flow' = [f \in Flow |-> IF flow[f].acct = a THEN NoFlow ELSE flow[f]]
  /\ UNCHANGED <<company, open, job, kept>>

(* purgePlatformData: the grant is revoked afterwards, at best effort.     *)
Purge(a) == Purged(a)

(* purgeTikTokData cancels the publishing of the account as well, and      *)
(* revokes nothing.                                                        *)
PurgeTikTok(a) == Purged(a)

-----------------------------------------------------------------------------
(* The company.                                                            *)

(* archiveCompany: what is active is suspended, pending states and         *)
(* selections go.                                                          *)
Archive ==
  /\ CompanyHeld
  /\ company' = "ARCHIVED"
  /\ conn' = [a \in Account |->
       IF conn[a].status = "ACTIVE"
       THEN [conn[a] EXCEPT !.status = "PAUSED", !.suspended = TRUE]
       ELSE conn[a]]
  /\ rows' = [a \in Account |->
       IF rows[a].current = "active"
       THEN [rows[a] EXCEPT !.current = "suspended"] ELSE rows[a]]
  /\ flow' = [f \in Flow |->
       IF flow[f].pc \in {"pending", "select"} THEN NoFlow ELSE flow[f]]
  /\ kept' = {a \in Account : conn[a].status = "ACTIVE"}
  /\ UNCHANGED <<open, status, owner, job>>

(* Slip: a restored connection stays marked as suspended.                  *)
MarkLeft(c) == [c EXCEPT !.status = "ACTIVE"]

Restored(c) == [c EXCEPT !.status = "ACTIVE", !.suspended = FALSE]

Suspended(a) == conn[a].suspended

(* restoreCompany.                                                         *)
Restore ==
  /\ company = "ARCHIVED" /\ Unlocked
  /\ company' = "ACTIVE"
  /\ conn' = [a \in Account |->
       IF Suspended(a) THEN Restored(conn[a]) ELSE conn[a]]
  /\ rows' = [a \in Account |->
       IF rows[a].current = "suspended"
       THEN [rows[a] EXCEPT !.current = "active"] ELSE rows[a]]
  /\ kept' = {}
  /\ UNCHANGED <<open, status, owner, flow, job>>

-----------------------------------------------------------------------------
(* Token refresh and synchronization.                                      *)

JobStep(w, new) ==
  /\ job' = [job EXCEPT ![w] = new]
  /\ UNCHANGED <<company, open, status, owner, conn, rows, flow, kept>>

(* claimPlatformSync: the run is recorded and the row put off; any row     *)
(* may be due.                                                             *)
ClaimSync(w, a) ==
  /\ job[w].pc = "idle" /\ CompanyHeld
  /\ rows[a].current = "active"
  /\ status[a] = "ACTIVE" /\ owner[a] # Nobody
  /\ JobStep(w, [NoJob EXCEPT !.pc = "read", !.acct = a])

(* RunOAuthTokenRefresh selects the tokens about to expire.                *)
SelectExpiring(w, a) ==
  /\ job[w].pc = "idle" /\ company = "ACTIVE"
  /\ conn[a].status = "ACTIVE" /\ conn[a].expiring
  /\ status[a] # "DISCONNECTED"
  /\ JobStep(w, [NoJob EXCEPT !.pc = "read", !.task = "refresh", !.acct = a])

(* What becomes of a job whose token could not be had.                     *)
Refused(w, auth) ==
  IF job[w].task = "sync"
  THEN [job[w] EXCEPT !.pc = "finish", !.refused = auth]
  ELSE IF auth THEN [job[w] EXCEPT !.pc = "mark"] ELSE NoJob

(* accessTokenForSync up to the provider: the token is good, or about to   *)
(* expire and sent for refresh, or there is no active connection to read.  *)
ReadToken(w) ==
  LET a == job[w].acct
      read == [job[w] EXCEPT !.stale = FALSE]
      usable == company = "ACTIVE" /\ conn[a].status = "ACTIVE"
  IN /\ job[w].pc = "read" /\ Unlocked
     /\ \/ /\ usable /\ conn[a].expiring
           /\ JobStep(w, [read EXCEPT !.pc = "refresh"])
        \/ /\ usable /\ ~conn[a].expiring
           /\ JobStep(w, IF read.task = "sync"
                         THEN [read EXCEPT !.pc = "call"] ELSE NoJob)
        \/ ~usable /\ JobStep(w, [Refused(w, TRUE) EXCEPT !.stale = FALSE])

(* The provider has answered with a new token: it is stored, and the       *)
(* connection is written ACTIVE.                                           *)
Refreshed(w) ==
  LET a == job[w].acct IN
  /\ job[w].pc = "refresh"
  /\ conn' = [conn EXCEPT ![a] =
       IF Connected(a) THEN [@ EXCEPT !.status = "ACTIVE", !.expiring = FALSE]
                       ELSE @]
  /\ job' = [Outdated({a}, job) EXCEPT ![w] =
       IF job[w].task = "sync" THEN [job[w] EXCEPT !.pc = "call"] ELSE NoJob]
  /\ UNCHANGED <<company, open, status, owner, rows, flow, kept>>

(* The refresh is refused or fails, and is rolled back; another attempt is *)
(* made after a failure that may pass (refreshOAuthTokenWithRetry).        *)
RefreshFails(w) ==
  /\ job[w].pc = "refresh"
  /\ \/ \E auth \in BOOLEAN : JobStep(w, Refused(w, auth))
     \/ /\ job[w].task = "refresh"
        /\ JobStep(w, [job[w] EXCEPT !.pc = "read"])

(* Slip: the mark does not look whether the connection still expires.      *)
StillActive(a) == conn[a].status = "ACTIVE"

StillExpiring(a) == conn[a].status = "ACTIVE" /\ conn[a].expiring

(* markOAuthReauthRequired.                                                *)
MarkReauth(w) ==
  LET a == job[w].acct IN
  /\ job[w].pc = "mark" /\ Unlocked
  /\ IF StillExpiring(a)
     THEN /\ conn' = [conn EXCEPT ![a].status = "REAUTH_REQUIRED"]
          /\ status' = [status EXCEPT ![a] =
               IF @ \in {"ACTIVE", "PAUSED"} THEN "REAUTH_REQUIRED" ELSE @]
     ELSE UNCHANGED <<conn, status>>
  /\ job' = [job EXCEPT ![w] = NoJob]
  /\ UNCHANGED <<company, open, owner, rows, flow, kept>>

(* The imports of a platform: profile and publications are read with the   *)
(* token and stored under the lock of lockActivePlatformSyncJob.           *)
Call(w) ==
  /\ job[w].pc = "call"
  /\ \E auth \in BOOLEAN :
       JobStep(w, [job[w] EXCEPT !.pc = "finish", !.refused = auth])

(* lockActivePlatformSyncJob.                                              *)
StillWanted(a) ==
  company = "ACTIVE" /\ status[a] = "ACTIVE" /\ rows[a].current = "active"

(* finishPlatformSync: a refusal of authorization marks account and        *)
(* connection, whichever token is stored by then.                          *)
Finish(w) ==
  LET a == job[w].acct IN
  /\ job[w].pc = "finish" /\ Unlocked
  /\ IF StillWanted(a) /\ job[w].refused
     THEN /\ status' = [status EXCEPT ![a] =
               IF conn[a].status = "ACTIVE" THEN "REAUTH_REQUIRED" ELSE @]
          /\ conn' = [conn EXCEPT ![a].status =
               IF Connected(a) THEN "REAUTH_REQUIRED" ELSE @]
     ELSE UNCHANGED <<conn, status>>
  /\ job' = [job EXCEPT ![w] = NoJob]
  /\ UNCHANGED <<company, open, owner, rows, flow, kept>>

(* A worker dies; a transaction it had open is rolled back.                *)
CrashWorker(w) ==
  /\ job[w].pc # "idle"
  /\ JobStep(w, NoJob)

(* Time: a token comes near its end.  A fresh token outlives the failed    *)
(* refresh of the one before it.                                           *)
TokenAges(a) ==
  /\ Connected(a) /\ ~conn[a].expiring
  /\ \A w \in Worker : ~(job[w].pc = "mark" /\ job[w].acct = a)
  /\ conn' = [conn EXCEPT ![a].expiring = TRUE]
  /\ UNCHANGED <<company, open, status, owner, rows, flow, job, kept>>

-----------------------------------------------------------------------------
FlowNext(f) ==
  \/ Authorize(f)
  \/ AuthorizeCompanyVK(f)
  \/ Callback(f)
  \/ CallbackTikTok(f)
  \/ Exchange(f)
  \/ "select" \in open /\ (Discover(f) \/ OfferSelection(f))
  \/ CompleteSelection(f)
  \/ CallbackFails(f)
  \/ Lapse(f)
  \/ Save(f)
  \/ SaveCompanyVK(f)

AccountNext(a) ==
  \/ "hand" \in open /\ \E c \in Creator : EnterByHand(a, c)
  \/ "sync" \in open /\ RequestSync(a)
  \/ "pause" \in open /\ (Pause(a) \/ ResumeAccount(a))
  \/ /\ "disconnect" \in open
     /\ Disconnect(a) \/ DisconnectTikTok(a) \/ Purge(a) \/ PurgeTikTok(a)
  \/ "refresh" \in open /\ TokenAges(a)

RefreshNext(w) ==
  \/ ReadToken(w)
  \/ Refreshed(w)
  \/ RefreshFails(w)
  \/ MarkReauth(w)

WorkerNext(w) ==
  \/ "sync" \in open /\ \E a \in Account : ClaimSync(w, a)
  \/ \E a \in Account : SelectExpiring(w, a)
  \/ RefreshNext(w)
  \/ Call(w)
  \/ Finish(w)
  \/ "crash" \in open /\ CrashWorker(w)

Next ==
  \/ \E f \in Flow : FlowNext(f)
  \/ \E a \in Account : AccountNext(a)
  \/ \E w \in Worker : WorkerNext(w)
  \/ "archive" \in open /\ (Archive \/ Restore)

Spec == Init /\ [][Next]_vars
=============================================================================
