------------------------------ MODULE TeamAccess ------------------------------
(***************************************************************************)
(* Who may act in a workspace: sign-in and the principal of a request      *)
(* (server.go, authz.go), the team of owners and managers with their       *)
(* company assignments (team.go, account_lifecycle.go), the login accounts *)
(* of creators (team.go, server.go), invitations (invitations.go), and the *)
(* triggers that guard sessions (migrations 00020 and 00021).              *)
(*                                                                         *)
(* A request reads its principal once and acts later, in a transaction of  *)
(* its own, when the rights it has read may be gone.  A transaction is two *)
(* steps where it decides on what it has read, and the locks it holds in   *)
(* between are those of the code: the advisory lock of the workspace, the  *)
(* one of a login, the rows of a membership or of a profile.  One session  *)
(* per user and one workspace stand for all of them.  A user who was       *)
(* deleted never comes back; a new account is another user.                *)
(***************************************************************************)
EXTENDS Naturals, FiniteSets

CONSTANTS
  Owner, Manager, Creator,  \* users by their role
  EmailOf,    \* the email of each user who is there at first
  Company,
  Profile,    \* creators, the profiles of persons in a company
  CompanyOf,  \* the company of each profile
  Email,
  Bootstrap,  \* BOOTSTRAP_EMAIL
  Invitation,
  InvitedAs,  \* the email and the role of each invitation
  Request,    \* requests in flight
  Nobody,
  Scopes      \* bound: the users and the events of one behaviour

User == Owner \cup Manager \cup Creator
Context == Company \cup Profile
Event == {"remove", "create", "email", "reset", "assign", "context",
          "logout", "logins", "invite", "bootstrap", "archive"}

ASSUME AccessAssumption ==
  /\ Owner \cap Manager = {} /\ (Owner \cup Manager) \cap Creator = {}
  /\ IsFiniteSet(Owner)
  /\ DOMAIN EmailOf \subseteq Owner \cup Manager
  /\ EmailOf \in [DOMAIN EmailOf -> Email]
  /\ \A u, v \in DOMAIN EmailOf : EmailOf[u] = EmailOf[v] => u = v
  /\ CompanyOf \in [Profile -> Company] /\ Company \cap Profile = {}
  /\ Bootstrap \in Email
  /\ InvitedAs \in [Invitation ->
                      [email : Email, role : {"OWNER", "MANAGER"}]]
  /\ Nobody \notin User \cup Context \cup Email
  /\ Scopes \subseteq SUBSET (User \cup Event)
  /\ \A s \in Scopes : Owner \cap DOMAIN EmailOf \cap s # {}

VARIABLES
  open,        \* the scope of this behaviour
  workspace,   \* organizations.lifecycle_state
  user,        \* users: status and email
  session,     \* the session of each user and its context
  archived,    \* companies.archived_at
  assigned,    \* manager_company_assignments
  profile,     \* creators: state and login_user_id
  invitation,  \* user_invitations
  made,        \* history: accounts that an invitation has made
  request

vars == <<open, workspace, user, session, archived, assigned, profile,
          invitation, made, request>>

NoUser == [status |-> "NEW", email |-> Nobody]
UserRow == [status : {"NEW", "ACTIVE", "SUSPENDED", "GONE"},
            email : Email \cup {Nobody}]

NoSession == [live |-> FALSE, context |-> Nobody]
Session == [live : BOOLEAN, context : Context \cup {Nobody}]

(* A GONE profile is the tombstone of a deleted one.                       *)
ProfileRow == [state : {"ACTIVE", "ARCHIVED", "GONE"},
               login : Creator \cup {Nobody}]

(* by, context and companies are the principal; on is the target; rest is  *)
(* what a transaction has found to remain.                                 *)
Idle == [pc |-> "idle", by |-> Nobody, context |-> Nobody,
         companies |-> {}, task |-> "none", on |-> Nobody,
         login |-> Nobody, rest |-> FALSE]
RequestRow ==
  [pc : {"idle", "verified", "admitted", "counted", "selecting", "linking",
         "removing"},
   by : User \cup {Nobody}, context : Context \cup {Nobody},
   companies : SUBSET Company, task : {"none", "suspend", "delete", "leave"},
   on : User \cup Context \cup {Nobody}, login : Creator \cup {Nobody},
   rest : BOOLEAN]

Exists(u) == user[u].status \in {"ACTIVE", "SUSPENDED"}
Holders(e) == {u \in User : Exists(u) /\ user[u].email = e}

(* Every row keeps to its type, emails are unique, a login has at most one *)
(* profile in each company, and what refers to a user ends with it.        *)
TypeOK ==
  /\ open \in Scopes /\ workspace \in {"ACTIVE", "DELETING"}
  /\ user \in [User -> UserRow] /\ session \in [User -> Session]
  /\ archived \in SUBSET Company
  /\ assigned \in [Manager -> SUBSET Company]
  /\ profile \in [Profile -> ProfileRow]
  /\ invitation \in [Invitation -> {"none", "sent", "accepted"}]
  /\ made \in [Invitation -> 0 .. 2]
  /\ request \in [Request -> RequestRow]
  /\ \A e \in Email : Cardinality(Holders(e)) <= 1
  /\ \A u \in User : session[u].live => Exists(u)
  /\ \A m \in Manager : assigned[m] # {} => Exists(m)
  /\ \A p, q \in Profile :
       profile[p].login # Nobody =>
         /\ Exists(profile[p].login)
         /\ p # q /\ CompanyOf[p] = CompanyOf[q]
              => profile[p].login # profile[q].login

Init ==
  /\ open \in Scopes /\ workspace = "ACTIVE"
  /\ user = [u \in User |->
               IF u \in DOMAIN EmailOf \cap open
               THEN [status |-> "ACTIVE", email |-> EmailOf[u]] ELSE NoUser]
  /\ session = [u \in User |-> NoSession]
  /\ archived = {}
  /\ assigned = [m \in Manager |-> {}]
  /\ profile = [p \in Profile |-> [state |-> "ACTIVE", login |-> Nobody]]
  /\ invitation = [i \in Invitation |-> "none"]
  /\ made = [i \in Invitation |-> 0]
  /\ request = [r \in Request |-> Idle]

Step(r, state) == request' = [request EXCEPT ![r] = state]
Ends(r) == Step(r, Idle)

Rights == <<workspace, archived, assigned, profile>>
Invitations == <<invitation, made>>

-----------------------------------------------------------------------------
(* Sign-in and the principal of a request.                                 *)

(* The password is verified against the row as it is.                      *)
verifyPassword(r, u) ==
  /\ request[r].pc = "idle" /\ user[u].status = "ACTIVE"
  /\ ~session[u].live
  /\ Step(r, [Idle EXCEPT !.pc = "verified", !.by = u])
  /\ UNCHANGED <<open, user, session>>
  /\ UNCHANGED Rights /\ UNCHANGED Invitations

(* Slip: the trigger looks at the assignment without a lock on it.         *)
Unguarded(u) == TRUE

(* validate_session_context holds the membership FOR KEY SHARE until its   *)
(* transaction ends, which FOR UPDATE waits for.                           *)
MembershipIsFree(u) ==
  \A r \in Request : request[r].pc = "selecting" => request[r].by # u

(* The session is inserted afterwards, unless the user has gone.  Another  *)
(* session of the user is not the one that still selects a context.        *)
login(r) ==
  LET u == request[r].by
  IN  /\ request[r].pc = "verified" /\ MembershipIsFree(u)
      /\ session' = [session EXCEPT ![u].live = Exists(u),
                                     ![u].context = Nobody]
      /\ Ends(r)
      /\ UNCHANGED <<open, user>>
      /\ UNCHANGED Rights /\ UNCHANGED Invitations

logout(u) ==
  /\ session[u].live
  /\ session' = [session EXCEPT ![u].live = FALSE]
  /\ UNCHANGED <<open, user, request>>
  /\ UNCHANGED Rights /\ UNCHANGED Invitations

(* The companies of a principal, archived ones excluded.                   *)
Companies(u) ==
  LET of == IF u \in Owner THEN Company
            ELSE IF u \in Manager THEN assigned[u]
            ELSE {CompanyOf[p] : p \in {q \in Profile :
                    profile[q].login = u /\ profile[q].state = "ACTIVE"}}
  IN  of \ archived

contextValid(u) ==
  LET x == session[u].context
  IN  \/ x = Nobody
      \/ x \in Companies(u)
      \/ /\ x \in Profile /\ profile[x] = [state |-> "ACTIVE", login |-> u]
         /\ CompanyOf[x] \notin archived

Usable(u) ==
  session[u].live /\ user[u].status = "ACTIVE" /\ workspace = "ACTIVE"

(* auth with principalForSession: a request is admitted, or its session    *)
(* ends because its context is no longer available.                        *)
auth(r, u) ==
  /\ request[r].pc = "idle" /\ Usable(u)
  /\ IF contextValid(u)
     THEN /\ Step(r, [Idle EXCEPT !.pc = "admitted", !.by = u,
                                  !.context = session[u].context,
                                  !.companies = Companies(u)])
          /\ session' = session
     ELSE /\ session' = [session EXCEPT ![u].live = FALSE]
          /\ request' = request
  /\ UNCHANGED <<open, user>>
  /\ UNCHANGED Rights /\ UNCHANGED Invitations

Admitted(r, role) == request[r].pc = "admitted" /\ request[r].by \in role

canAccessCompany(p, c) ==
  /\ c \in p.companies
  /\ \/ p.by \in Owner /\ p.context \in {Nobody, c}
     \/ p.by \in Manager /\ p.context = c

(* setAuthContext: the context is one of the principal, and the trigger    *)
(* finds that it is one of the user still.                                 *)
Select(r, x) ==
  LET u == request[r].by
  IN  /\ request[r].pc = "admitted" /\ session[u].live
      /\ \/ u \in Owner /\ x \in request[r].companies
         \/ u \in Manager /\ x \in request[r].companies \cap assigned[u]
         \/ u \in Creator /\ x \in Profile /\ profile[x].login = u
      /\ Step(r, [request[r] EXCEPT !.pc = "selecting", !.on = x])
      /\ UNCHANGED <<open, user, session>>
      /\ UNCHANGED Rights /\ UNCHANGED Invitations

setAuthContext(r) ==
  LET u == request[r].by
  IN  /\ request[r].pc = "selecting"
      /\ session' = IF session[u].live
                    THEN [session EXCEPT ![u].context = request[r].on]
                    ELSE session
      /\ Ends(r)
      /\ UNCHANGED <<open, user>>
      /\ UNCHANGED Rights /\ UNCHANGED Invitations

-----------------------------------------------------------------------------
(* The team.                                                               *)

Without(s, who) == [u \in User |-> IF u \in who THEN NoSession ELSE s[u]]

(* Slip: the profiles go on to name a login that was deleted.              *)
StillLinked(u) == profile

Unlinked(u) ==
  [p \in Profile |-> IF profile[p].login = u
                     THEN [profile[p] EXCEPT !.login = Nobody]
                     ELSE profile[p]]

NewUser(u, e) ==
  /\ u \in open /\ user[u].status = "NEW" /\ Holders(e) = {}
  /\ user' = [user EXCEPT ![u] = [status |-> "ACTIVE", email |-> e]]

(* What refers to a user goes with the row, and so do the sessions.        *)
UserDeleted(u) ==
  /\ user' = [user EXCEPT ![u] = [status |-> "GONE", email |-> Nobody]]
  /\ session' = Without(session, {u})
  /\ assigned' = [m \in Manager |-> IF m = u THEN {} ELSE assigned[m]]

(* A manager may be given any companies that are not archived.             *)
createWorkspaceUser(r, u, e, companies) ==
  /\ Admitted(r, Owner) /\ u \in Owner \cup Manager
  /\ NewUser(u, e)
  /\ companies \cap archived = {} /\ (u \in Owner => companies = {})
  /\ assigned' = [m \in Manager |-> IF m = u THEN companies ELSE assigned[m]]
  /\ Ends(r)
  /\ UNCHANGED <<open, workspace, session, archived, profile>>
  /\ UNCHANGED Invitations

ActiveOwners == {u \in Owner : user[u].status = "ACTIVE"}

activeOwnerRemains(excluded) == ActiveOwners \ {excluded} # {}

(* Slip: the owners are counted without the lock of the workspace.         *)
LockForgotten == TRUE

(* pg_advisory_xact_lock(organization)                                     *)
WorkspaceIsFree == \A r \in Request : request[r].pc # "counted"

(* The three ways to take an owner out of the team count the owners under  *)
(* that lock: the suspension and the deletion of a user by an owner, and   *)
(* an owner who leaves.  The status of the requester is not read again.    *)
CountOwners(r, task, u) ==
  LET by == request[r].by
  IN  /\ Admitted(r, Owner) /\ WorkspaceIsFree /\ Exists(u)
      /\ task = "delete" => u # by
      /\ task = "leave" => u = by /\ workspace = "ACTIVE"
      /\ Step(r, [request[r] EXCEPT
              !.pc = "counted", !.task = task, !.on = u,
              !.rest = CASE task = "leave" -> Cardinality(ActiveOwners) > 1
                         [] task = "delete" ->
                              u \in Owner => activeOwnerRemains(u)
                         [] task = "suspend" ->
                              u \in ActiveOwners => activeOwnerRemains(u)])
      /\ UNCHANGED <<open, user, session>>
      /\ UNCHANGED Rights /\ UNCHANGED Invitations

(* The row of a profile is locked while its login is set or taken away.    *)
ProfileIsFree(p) ==
  \A r \in Request :
    request[r].pc \in {"linking", "removing"} => request[r].on # p

Removing(r, task) == request[r].pc = "counted" /\ request[r].task = task

(* A change of status revokes the sessions (migration 00021).              *)
updateWorkspaceUser(r) ==
  LET u == request[r].on
  IN  /\ Removing(r, "suspend")
      /\ IF request[r].rest /\ user[u].status = "ACTIVE"
         THEN /\ user' = [user EXCEPT ![u].status = "SUSPENDED"]
              /\ session' = Without(session, {u})
         ELSE UNCHANGED <<user, session>>
      /\ Ends(r)
      /\ UNCHANGED open /\ UNCHANGED Rights /\ UNCHANGED Invitations

deleteWorkspaceUser(r) ==
  LET u == request[r].on
  IN  /\ Removing(r, "delete")
      /\ \A p \in Profile : profile[p].login = u => ProfileIsFree(p)
      /\ IF request[r].rest /\ Exists(u)
         THEN UserDeleted(u) /\ profile' = Unlinked(u)
         ELSE UNCHANGED <<user, session, assigned, profile>>
      /\ Ends(r)
      /\ UNCHANGED <<open, workspace, archived>> /\ UNCHANGED Invitations

(* selfDelete: the requester goes alone if there is more than one active   *)
(* owner, and takes the workspace along otherwise.                         *)
selfDelete(r) ==
  /\ Removing(r, "leave")
  /\ IF request[r].rest
     THEN UserDeleted(request[r].by) /\ UNCHANGED workspace
     ELSE /\ workspace' = "DELETING" /\ session' = Without(session, User)
          /\ UNCHANGED <<user, assigned>>
  /\ Ends(r)
  /\ UNCHANGED <<open, archived, profile>> /\ UNCHANGED Invitations

(* A new status or a new email, under the same lock.                       *)
ChangeUser(r, u, status, e) ==
  /\ Admitted(r, Owner) /\ WorkspaceIsFree /\ Exists(u)
  /\ status \in {user[u].status, "ACTIVE"} /\ Holders(e) \subseteq {u}
  /\ user[u] # [status |-> status, email |-> e]
  /\ user' = [user EXCEPT ![u] = [status |-> status, email |-> e]]
  /\ session' = Without(session, {u})
  /\ Ends(r)
  /\ UNCHANGED open /\ UNCHANGED Rights /\ UNCHANGED Invitations

resetWorkspaceUserPassword(r, u) ==
  /\ Admitted(r, Owner) /\ Exists(u)
  /\ session' = Without(session, {u})
  /\ Ends(r)
  /\ UNCHANGED <<open, user>> /\ UNCHANGED Rights /\ UNCHANGED Invitations

(* All assignments are deleted, with the sessions that have selected one   *)
(* of them, and the new ones are inserted.                                 *)
replaceManagerCompanyAssignments(r, m, companies) ==
  /\ Admitted(r, Owner) /\ Exists(m) /\ MembershipIsFree(m)
  /\ companies \cap archived = {}
  /\ assigned' = [assigned EXCEPT ![m] = companies]
  /\ session' = IF session[m].context \in assigned[m]
                THEN Without(session, {m}) ELSE session
  /\ Ends(r)
  /\ UNCHANGED <<open, workspace, user, archived, profile>>
  /\ UNCHANGED Invitations

-----------------------------------------------------------------------------
(* The login accounts of creators.                                         *)

(* requireCompanyPermission looks the company of the profile up.           *)
Manages(r, p) ==
  /\ Admitted(r, Owner \cup Manager)
  /\ CompanyOf[p] \notin archived
  /\ canAccessCompany(request[r], CompanyOf[p])

(* putCreatorLoginAccount with an email that nobody has.                   *)
CreateLogin(r, p, u, e) ==
  /\ Manages(r, p) /\ ProfileIsFree(p)
  /\ profile[p] = [state |-> "ACTIVE", login |-> Nobody]
  /\ NewUser(u, e)
  /\ profile' = [profile EXCEPT ![p].login = u]
  /\ Ends(r)
  /\ UNCHANGED <<open, workspace, session, archived, assigned>>
  /\ UNCHANGED Invitations

(* With the email of a creator's account: it is read, without a lock, ...  *)
FindLogin(r, p, u) ==
  /\ Manages(r, p) /\ ProfileIsFree(p) /\ Exists(u)
  /\ profile[p].state = "ACTIVE" /\ profile[p].login \in {u, Nobody}
  /\ Step(r, [request[r] EXCEPT !.pc = "linking", !.on = p, !.login = u])
  /\ UNCHANGED <<open, user, session>>
  /\ UNCHANGED Rights /\ UNCHANGED Invitations

(* ... and linked, unless the account has gone (a foreign key) or has      *)
(* another profile in that company (a unique index).  An owner may give it *)
(* a new password.                                                         *)
putCreatorLoginAccount(r) ==
  LET p == request[r].on
      u == request[r].login
      taken == \E q \in Profile \ {p} :
                 CompanyOf[q] = CompanyOf[p] /\ profile[q].login = u
  IN  /\ request[r].pc = "linking"
      /\ IF Exists(u) /\ ~taken
         THEN /\ profile' = [profile EXCEPT ![p].login = u]
              /\ \/ session' = session
                 \/ request[r].by \in Owner
                    /\ session' = Without(session, {u})
         ELSE UNCHANGED <<profile, session>>
      /\ Ends(r)
      /\ UNCHANGED <<open, workspace, user, archived, assigned>>
      /\ UNCHANGED Invitations

(* Slip: the last profile is looked for without the lock of the login.     *)
LoginUnlocked(u) == TRUE

(* pg_advisory_xact_lock(login)                                            *)
LoginIsFree(u) ==
  \A r \in Request :
    request[r].pc = "removing" => u = Nobody \/ request[r].login # u

(* deleteCreator: are there other profiles of the login, ...               *)
FindProfiles(r, p) ==
  LET u == profile[p].login
  IN  /\ Manages(r, p) /\ ProfileIsFree(p) /\ LoginIsFree(u)
      /\ profile[p].state = "ACTIVE"
      /\ Step(r, [request[r] EXCEPT
              !.pc = "removing", !.on = p, !.login = u,
              !.rest = \E q \in Profile \ {p} : profile[q].login = u])
      /\ UNCHANGED <<open, user, session>>
      /\ UNCHANGED Rights /\ UNCHANGED Invitations

(* ... the profile becomes a tombstone, and without others the login goes, *)
(* unlinked from any profile (ON DELETE SET NULL).                         *)
deleteCreator(r) ==
  LET p == request[r].on
      u == request[r].login
      buried == [state |-> "GONE", login |-> Nobody]
  IN  /\ request[r].pc = "removing"
      /\ IF u = Nobody \/ request[r].rest
         THEN /\ profile' = [profile EXCEPT ![p] = buried]
              /\ UNCHANGED <<user, session, assigned>>
         ELSE /\ \A q \in Profile \ {p} :
                   profile[q].login = u => ProfileIsFree(q)
              /\ UserDeleted(u)
              /\ profile' = [Unlinked(u) EXCEPT ![p] = buried]
      /\ Ends(r)
      /\ UNCHANGED <<open, workspace, archived>> /\ UNCHANGED Invitations

archiveCreator(r, p) ==
  /\ Manages(r, p) /\ ProfileIsFree(p) /\ profile[p].state = "ACTIVE"
  /\ profile' = [profile EXCEPT ![p].state = "ARCHIVED"]
  /\ Ends(r)
  /\ UNCHANGED <<open, workspace, user, session, archived, assigned>>
  /\ UNCHANGED Invitations

(* A tombstone is archived, too.                                           *)
restoreCreator(r, p) ==
  /\ Manages(r, p) /\ ProfileIsFree(p) /\ profile[p].state # "ACTIVE"
  /\ profile' = [profile EXCEPT ![p].state = "ACTIVE"]
  /\ Ends(r)
  /\ UNCHANGED <<open, workspace, user, session, archived, assigned>>
  /\ UNCHANGED Invitations

-----------------------------------------------------------------------------
(* Invitations, the bootstrap owner, and companies.                        *)

createInvitation(r, i) ==
  /\ Admitted(r, Owner) /\ invitation[i] = "none"
  /\ invitation' = [invitation EXCEPT ![i] = "sent"]
  /\ Ends(r)
  /\ UNCHANGED <<open, user, session, made>> /\ UNCHANGED Rights

(* Slip: an invitation that was accepted is accepted again.                *)
EverSent(i) == invitation[i] # "none"

Pending(i) == invitation[i] = "sent"

(* acceptInvitation: nothing changes if the email is in use.               *)
acceptInvitation(i, u) ==
  /\ Pending(i) /\ NewUser(u, InvitedAs[i].email)
  /\ u \in (IF InvitedAs[i].role = "OWNER" THEN Owner ELSE Manager)
  /\ invitation' = [invitation EXCEPT ![i] = "accepted"]
  /\ made' = [made EXCEPT ![i] = @ + 1]
  /\ assigned' = [m \in Manager |-> IF m = u THEN Company \ archived
                                    ELSE assigned[m]]
  /\ UNCHANGED <<open, workspace, session, archived, profile, request>>

(* EnsureBootstrap at every start of the API.                              *)
EnsureBootstrap(u) ==
  /\ u \in Owner /\ NewUser(u, Bootstrap)
  /\ UNCHANGED <<open, session, request>>
  /\ UNCHANGED Rights /\ UNCHANGED Invitations

(* archiveCompany and restoreCompany leave sessions and assignments alone. *)
ArchiveOrRestore(c) ==
  /\ archived' = IF c \in archived THEN archived \ {c} ELSE archived \cup {c}
  /\ UNCHANGED <<open, workspace, user, session, assigned, profile, request>>
  /\ UNCHANGED Invitations

-----------------------------------------------------------------------------
SignIn(r) ==
  \/ \E u \in User : verifyPassword(r, u) \/ auth(r, u)
  \/ login(r)

Contexts(r) ==
  \/ \E x \in Context : Select(r, x)
  \/ setAuthContext(r)

Removal(r) ==
  \/ \E u \in User, task \in {"suspend", "delete", "leave"} :
       CountOwners(r, task, u)
  \/ updateWorkspaceUser(r) \/ deleteWorkspaceUser(r) \/ selfDelete(r)

Logins(r) ==
  \/ \E p \in Profile, u \in Creator :
       FindLogin(r, p, u) \/ \E e \in Email : CreateLogin(r, p, u, e)
  \/ \E p \in Profile : \/ FindProfiles(r, p)
                        \/ archiveCreator(r, p) \/ restoreCreator(r, p)
  \/ putCreatorLoginAccount(r) \/ deleteCreator(r)

Invite ==
  \/ \E r \in Request, i \in Invitation : createInvitation(r, i)
  \/ \E i \in Invitation, u \in User : acceptInvitation(i, u)

Next ==
  \/ \E r \in Request : \/ SignIn(r)
                        \/ "context" \in open /\ Contexts(r)
                        \/ "remove" \in open /\ Removal(r)
                        \/ "logins" \in open /\ Logins(r)
  \/ \E r \in Request, u \in User :
       \/ "reset" \in open /\ resetWorkspaceUserPassword(r, u)
       \/ "remove" \in open /\ ChangeUser(r, u, "ACTIVE", user[u].email)
       \/ \E e \in Email, cs \in SUBSET Company :
            "create" \in open /\ createWorkspaceUser(r, u, e, cs)
       \/ \E e \in Email :
            "email" \in open /\ ChangeUser(r, u, user[u].status, e)
  \/ \E r \in Request, m \in Manager, cs \in SUBSET Company :
       "assign" \in open /\ replaceManagerCompanyAssignments(r, m, cs)
  \/ \E u \in User : "logout" \in open /\ logout(u)
  \/ "invite" \in open /\ Invite
  \/ "bootstrap" \in open /\ \E u \in Owner : EnsureBootstrap(u)
  \/ "archive" \in open /\ \E c \in Company : ArchiveOrRestore(c)

Spec == Init /\ [][Next]_vars
=============================================================================
