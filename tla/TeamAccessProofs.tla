--------------------------- MODULE TeamAccessProofs ---------------------------
(***************************************************************************)
(* TeamAccess keeps what it promises for any team, any companies and any   *)
(* number of requests at the same time.  The invariant says, next to the   *)
(* promises, what the requests in flight know: the count of owners, the    *)
(* company that is being selected and the other profiles of a login stay   *)
(* true while a request holds the lock under which it has read them.  One  *)
(* part of the invariant is proved at a time, each from the types and, at  *)
(* most, the references.                                                   *)
(***************************************************************************)
EXTENDS TeamAccessProperties, FiniteSetTheorems, TLAPS

(* What a request is about, by the step that comes next.                   *)
Sound ==
  {x \in RequestRow :
     /\ x.pc # "idle" => x.by \in User
     /\ x.pc = "selecting" => x.on \in Context
     /\ x.pc = "counted" =>
          /\ x.on \in User /\ x.by \in Owner
          /\ x.task = "leave" => x.on = x.by
     /\ x.pc \in {"linking", "removing"} => x.on \in Profile
     /\ x.pc = "linking" => x.login \in Creator}

Typed ==
  /\ open \in Scopes /\ workspace \in {"ACTIVE", "DELETING"}
  /\ user \in [User -> UserRow] /\ session \in [User -> Session]
  /\ archived \in SUBSET Company
  /\ assigned \in [Manager -> SUBSET Company]
  /\ profile \in [Profile -> ProfileRow]
  /\ invitation \in [Invitation -> {"none", "sent", "accepted"}]
  /\ made \in [Invitation -> Nat]
  /\ request \in [Request -> Sound]


LEMMA LiveTyped ==
  ASSUME Typed, NEW u, NEW b \in BOOLEAN
  PROVE [session EXCEPT ![u].live = b] \in [User -> Session]
  BY DEF Typed, Session

LEMMA SelectedTyped ==
  ASSUME Typed, NEW u, NEW b \in BOOLEAN, NEW x \in Context \cup {Nobody}
  PROVE /\ [session EXCEPT ![u].context = x] \in [User -> Session]
        /\ [session EXCEPT ![u].live = b, ![u].context = x]
             \in [User -> Session]
  BY DEF Typed, Session

LEMMA IdleTyped == Idle \in Sound
  BY DEF Idle, RequestRow, Sound

LEMMA StepTyped ==
  ASSUME Typed, NEW r \in Request, NEW x \in Sound, Step(r, x)
  PROVE request' \in [Request -> Sound]
  BY DEF Typed, Step

LEMMA EndsTyped ==
  ASSUME Typed, NEW r \in Request, Ends(r)
  PROVE request' \in [Request -> Sound]
  BY IdleTyped, StepTyped DEF Ends

LEMMA CompaniesTyped ==
  ASSUME Typed, NEW u PROVE Companies(u) \in SUBSET Company
  BY AccessAssumption DEF Typed, Companies

LEMMA WithoutTyped ==
  ASSUME Typed, NEW who PROVE Without(session, who) \in [User -> Session]
  BY DEF Typed, Session, Without, NoSession

LEMMA UnlinkedTyped ==
  ASSUME Typed, NEW u PROVE Unlinked(u) \in [Profile -> ProfileRow]
  BY DEF Typed, ProfileRow, Unlinked

LEMMA NewUserTyped ==
  ASSUME Typed, NEW u \in User, NEW e \in Email, NewUser(u, e)
  PROVE user' \in [User -> UserRow]
  BY DEF Typed, UserRow, NewUser

LEMMA UserDeletedTyped ==
  ASSUME Typed, NEW u, UserDeleted(u)
  PROVE /\ user' \in [User -> UserRow] /\ session' \in [User -> Session]
        /\ assigned' \in [Manager -> SUBSET Company]
  BY WithoutTyped DEF Typed, UserRow, UserDeleted

LEMMA verifyPasswordTyped ==
  ASSUME Typed, NEW r \in Request, NEW u \in User, verifyPassword(r, u)
  PROVE Typed'
  <1>1. [Idle EXCEPT !.pc = "verified", !.by = u] \in Sound
    BY DEF Idle, RequestRow, Sound
  <1>2. request' \in [Request -> Sound]
    BY <1>1, StepTyped DEF verifyPassword
  <1>3. QED
    BY <1>2 DEF verifyPassword, Rights, Invitations, Typed

LEMMA loginTyped ==
  ASSUME Typed, NEW r \in Request, login(r) PROVE Typed'
  <1> DEFINE u == request[r].by
  <1>1. session' = [session EXCEPT ![u].live = Exists(u),
                                   ![u].context = Nobody]
    BY DEF login
  <1>2. Exists(u) \in BOOLEAN
    BY DEF Exists
  <1>3. session' \in [User -> Session]
    BY <1>1, <1>2, SelectedTyped
  <1>4. QED
    BY <1>3, EndsTyped DEF login, Rights, Invitations, Typed

LEMMA authTyped ==
  ASSUME Typed, NEW r \in Request, NEW u \in User, auth(r, u)
  PROVE Typed'
  <1>1. [Idle EXCEPT !.pc = "admitted", !.by = u,
                     !.context = session[u].context,
                     !.companies = Companies(u)] \in Sound
    BY CompaniesTyped DEF Idle, RequestRow, Sound, Typed, Session
  <1>2. request' \in [Request -> Sound]
    BY <1>1, StepTyped DEF auth, Typed
  <1>3. session' \in [User -> Session]
    BY LiveTyped DEF auth, Typed
  <1>4. QED
    BY <1>2, <1>3 DEF auth, Rights, Invitations, Typed

LEMMA logoutTyped ==
  ASSUME Typed, NEW u \in User, logout(u) PROVE Typed'
  BY LiveTyped DEF logout, Rights, Invitations, Typed

LEMMA SelectTyped ==
  ASSUME Typed, NEW r \in Request, NEW x \in Context, Select(r, x)
  PROVE Typed'
  <1>1. [request[r] EXCEPT !.pc = "selecting", !.on = x] \in Sound
    <2>1. request[r].by \in User /\ request[r] \in RequestRow
      BY DEF Typed, Sound, Select
    <2>2. QED
      BY <2>1 DEF RequestRow, Sound
  <1>2. request' \in [Request -> Sound]
    BY <1>1, StepTyped DEF Select
  <1>3. QED
    BY <1>2 DEF Select, Rights, Invitations, Typed

LEMMA setAuthContextTyped ==
  ASSUME Typed, NEW r \in Request, setAuthContext(r) PROVE Typed'
  <1>1. request[r].on \in Context
    BY DEF setAuthContext, Typed, Sound
  <1>2. session' \in [User -> Session]
    BY <1>1, SelectedTyped DEF setAuthContext, Typed
  <1>3. QED
    BY <1>2, EndsTyped DEF setAuthContext, Rights, Invitations, Typed

LEMMA CountOwnersTyped ==
  ASSUME Typed, NEW r \in Request, NEW u \in User,
         NEW task \in {"suspend", "delete", "leave"}, CountOwners(r, task, u)
  PROVE Typed'
  <1> DEFINE rest == CASE task = "leave" -> Cardinality(ActiveOwners) > 1
                       [] task = "delete" ->
                            u \in Owner => activeOwnerRemains(u)
                       [] task = "suspend" ->
                            u \in ActiveOwners => activeOwnerRemains(u)
             x == [request[r] EXCEPT !.pc = "counted", !.task = task,
                                     !.on = u, !.rest = rest]
  <1>1. rest \in BOOLEAN
    <2>1. CASE task = "leave"
      BY <2>1
    <2>2. CASE task = "delete"
      BY <2>2 DEF activeOwnerRemains
    <2>3. CASE task = "suspend"
      BY <2>3 DEF activeOwnerRemains
    <2>4. QED
      BY <2>1, <2>2, <2>3
  <1>2. x \in Sound
    <2> HIDE DEF rest
    <2>1. request[r].by \in Owner /\ request[r] \in RequestRow
      BY DEF Typed, Sound, CountOwners, Admitted
    <2>2. task = "leave" => u = request[r].by
      BY DEF CountOwners
    <2>3. QED
      BY <1>1, <2>1, <2>2 DEF RequestRow, Sound, User
  <1>3. request' \in [Request -> Sound]
    BY <1>2, StepTyped DEF CountOwners
  <1>4. QED
    BY <1>3 DEF CountOwners, Rights, Invitations, Typed

LEMMA updateWorkspaceUserTyped ==
  ASSUME Typed, NEW r \in Request, updateWorkspaceUser(r) PROVE Typed'
  <1>1. user' \in [User -> UserRow]
    BY DEF updateWorkspaceUser, Typed, UserRow
  <1>2. session' \in [User -> Session]
    BY WithoutTyped DEF updateWorkspaceUser, Typed
  <1>3. QED
    BY <1>1, <1>2, EndsTyped
    DEF updateWorkspaceUser, Rights, Invitations, Typed

LEMMA deleteWorkspaceUserTyped ==
  ASSUME Typed, NEW r \in Request, deleteWorkspaceUser(r) PROVE Typed'
  <1>1. /\ user' \in [User -> UserRow] /\ session' \in [User -> Session]
        /\ assigned' \in [Manager -> SUBSET Company]
    BY UserDeletedTyped DEF deleteWorkspaceUser, Typed
  <1>2. profile' \in [Profile -> ProfileRow]
    BY UnlinkedTyped DEF deleteWorkspaceUser, Typed
  <1>3. QED
    BY <1>1, <1>2, EndsTyped DEF deleteWorkspaceUser, Invitations, Typed

LEMMA selfDeleteTyped ==
  ASSUME Typed, NEW r \in Request, selfDelete(r) PROVE Typed'
  <1>1. /\ user' \in [User -> UserRow] /\ session' \in [User -> Session]
        /\ assigned' \in [Manager -> SUBSET Company]
    BY UserDeletedTyped, WithoutTyped DEF selfDelete, Typed
  <1>2. QED
    BY <1>1, EndsTyped DEF selfDelete, Invitations, Typed

LEMMA FindLoginTyped ==
  ASSUME Typed, NEW r \in Request, NEW p \in Profile, NEW u \in Creator,
         FindLogin(r, p, u)
  PROVE Typed'
  <1>1. [request[r] EXCEPT !.pc = "linking", !.on = p, !.login = u]
          \in Sound
    <2>1. request[r].by \in User /\ request[r] \in RequestRow
      BY DEF Typed, Sound, FindLogin, Manages, Admitted
    <2>2. QED
      BY <2>1 DEF RequestRow, Sound, Context
  <1>2. request' \in [Request -> Sound]
    BY <1>1, StepTyped DEF FindLogin
  <1>3. QED
    BY <1>2 DEF FindLogin, Rights, Invitations, Typed

LEMMA CreateLoginTyped ==
  ASSUME Typed, NEW r \in Request, NEW p \in Profile, NEW u \in Creator,
         NEW e \in Email, CreateLogin(r, p, u, e)
  PROVE Typed'
  <1>1. user' \in [User -> UserRow]
    BY NewUserTyped DEF CreateLogin, User
  <1>2. profile' \in [Profile -> ProfileRow]
    BY DEF CreateLogin, Typed, ProfileRow
  <1>3. QED
    BY <1>1, <1>2, EndsTyped DEF CreateLogin, Invitations, Typed

LEMMA FindProfilesTyped ==
  ASSUME Typed, NEW r \in Request, NEW p \in Profile, FindProfiles(r, p)
  PROVE Typed'
  <1>1. PICK b \in BOOLEAN :
          Step(r, [request[r] EXCEPT !.pc = "removing", !.on = p,
                                     !.login = profile[p].login, !.rest = b])
    BY DEF FindProfiles
  <1>2. [request[r] EXCEPT !.pc = "removing", !.on = p,
                           !.login = profile[p].login, !.rest = b] \in Sound
    <2>1. profile[p].login \in Creator \cup {Nobody}
      BY DEF Typed, ProfileRow
    <2>2. request[r].by \in User /\ request[r] \in RequestRow
      BY DEF Typed, Sound, FindProfiles, Manages, Admitted
    <2>3. QED
      BY <2>1, <2>2 DEF RequestRow, Sound, Context
  <1>3. request' \in [Request -> Sound]
    BY <1>1, <1>2, StepTyped
  <1>4. QED
    BY <1>3 DEF FindProfiles, Rights, Invitations, Typed

LEMMA archiveCreatorTyped ==
  ASSUME Typed, NEW r \in Request, NEW p \in Profile,
         archiveCreator(r, p) \/ restoreCreator(r, p)
  PROVE Typed'
  <1>1. profile' \in [Profile -> ProfileRow]
    <2>1. profile \in [Profile -> ProfileRow]
      BY DEF Typed
    <2>2. \A s \in {"ACTIVE", "ARCHIVED"} :
            [profile[p] EXCEPT !.state = s] \in ProfileRow
      BY <2>1 DEF ProfileRow
    <2>3. \E s \in {"ACTIVE", "ARCHIVED"} :
            profile' = [profile EXCEPT ![p].state = s]
      BY DEF archiveCreator, restoreCreator
    <2>4. QED
      BY <2>1, <2>2, <2>3
  <1>2. QED
    BY <1>1, EndsTyped DEF archiveCreator, restoreCreator, Invitations, Typed

LEMMA putCreatorLoginAccountTyped ==
  ASSUME Typed, NEW r \in Request, putCreatorLoginAccount(r) PROVE Typed'
  <1>1. profile' \in [Profile -> ProfileRow]
    BY DEF putCreatorLoginAccount, Typed, ProfileRow, Sound
  <1>2. session' \in [User -> Session]
    BY WithoutTyped DEF putCreatorLoginAccount, Typed
  <1>3. QED
    BY <1>1, <1>2, EndsTyped DEF putCreatorLoginAccount, Invitations, Typed

LEMMA deleteCreatorTyped ==
  ASSUME Typed, NEW r \in Request, deleteCreator(r) PROVE Typed'
  <1>1. /\ user' \in [User -> UserRow] /\ session' \in [User -> Session]
        /\ assigned' \in [Manager -> SUBSET Company]
    BY UserDeletedTyped DEF deleteCreator, Typed
  <1>2. [state |-> "GONE", login |-> Nobody] \in ProfileRow
    BY DEF ProfileRow
  <1>3. profile' \in [Profile -> ProfileRow]
    BY <1>2, UnlinkedTyped DEF deleteCreator, Typed
  <1>4. QED
    BY <1>1, <1>3, EndsTyped DEF deleteCreator, Invitations, Typed

LEMMA resetWorkspaceUserPasswordTyped ==
  ASSUME Typed, NEW r \in Request, NEW u \in User,
         resetWorkspaceUserPassword(r, u)
  PROVE Typed'
  BY EndsTyped, WithoutTyped
  DEF resetWorkspaceUserPassword, Rights, Invitations, Typed

LEMMA ChangeUserTyped ==
  ASSUME Typed, NEW r \in Request, NEW u \in User, NEW s,
         NEW e \in Email \cup {Nobody}, ChangeUser(r, u, s, e)
  PROVE Typed'
  <1>1. user' \in [User -> UserRow]
    BY DEF ChangeUser, Typed, UserRow
  <1>2. session' \in [User -> Session]
    BY WithoutTyped DEF ChangeUser
  <1>3. QED
    BY <1>1, <1>2, EndsTyped DEF ChangeUser, Rights, Invitations, Typed

LEMMA createWorkspaceUserTyped ==
  ASSUME Typed, NEW r \in Request, NEW u \in User, NEW e \in Email,
         NEW cs \in SUBSET Company, createWorkspaceUser(r, u, e, cs)
  PROVE Typed'
  <1>1. user' \in [User -> UserRow]
    BY NewUserTyped DEF createWorkspaceUser
  <1>2. assigned' \in [Manager -> SUBSET Company]
    BY DEF createWorkspaceUser, Typed
  <1>3. QED
    BY <1>1, <1>2, EndsTyped DEF createWorkspaceUser, Invitations, Typed

LEMMA replaceManagerCompanyAssignmentsTyped ==
  ASSUME Typed, NEW r \in Request, NEW m \in Manager,
         NEW cs \in SUBSET Company, replaceManagerCompanyAssignments(r, m, cs)
  PROVE Typed'
  <1>1. session' \in [User -> Session]
    BY WithoutTyped DEF replaceManagerCompanyAssignments, Typed
  <1>2. assigned' \in [Manager -> SUBSET Company]
    BY DEF replaceManagerCompanyAssignments, Typed
  <1>3. QED
    BY <1>1, <1>2, EndsTyped
    DEF replaceManagerCompanyAssignments, Invitations, Typed

LEMMA createInvitationTyped ==
  ASSUME Typed, NEW r \in Request, NEW i \in Invitation,
         createInvitation(r, i)
  PROVE Typed'
  BY EndsTyped DEF createInvitation, Rights, Typed

LEMMA acceptInvitationTyped ==
  ASSUME Typed, NEW i \in Invitation, NEW u \in User, acceptInvitation(i, u)
  PROVE Typed'
  <1>1. InvitedAs[i].email \in Email
    BY AccessAssumption
  <1>2. user' \in [User -> UserRow]
    BY <1>1, NewUserTyped DEF acceptInvitation
  <1>3. assigned' \in [Manager -> SUBSET Company]
    BY DEF acceptInvitation, Typed
  <1>4. QED
    BY <1>2, <1>3 DEF acceptInvitation, Typed

LEMMA EnsureBootstrapTyped ==
  ASSUME Typed, NEW u \in User, EnsureBootstrap(u) PROVE Typed'
  BY AccessAssumption, NewUserTyped
  DEF EnsureBootstrap, Rights, Invitations, Typed

LEMMA ArchiveOrRestoreTyped ==
  ASSUME Typed, NEW c \in Company, ArchiveOrRestore(c) PROVE Typed'
  BY DEF ArchiveOrRestore, Invitations, Typed

-----------------------------------------------------------------------------
(* A session, the assignments and the login of a profile belong to users   *)
(* who exist.                                                              *)
References ==
  /\ \A u \in User : session[u].live => Exists(u)
  /\ \A m \in Manager : assigned[m] # {} => Exists(m)
  /\ \A p \in Profile :
       profile[p].login # Nobody => Exists(profile[p].login)

(* Emails are unique, and a login has one profile in each company.         *)
Unique ==
  /\ \A u, v \in User :
       Exists(u) /\ Exists(v) /\ user[u].email = user[v].email => u = v
  /\ \A p, q \in Profile :
       /\ p # q /\ CompanyOf[p] = CompanyOf[q]
       /\ profile[p].login # Nobody
       => profile[p].login # profile[q].login

Counted(r) == request[r].pc = "counted"

(* An owner is taken out of the team only when another one is active: the  *)
(* count that a request holds is true until the request is done.           *)
OwnersInv ==
  /\ AnOwnerStays
  /\ \A r \in Request : Counted(r) =>
       /\ user[request[r].on].status # "NEW"
       /\ request[r].rest => request[r].on \notin ActiveOwners
                             \/ \E o \in ActiveOwners : o # request[r].on
  /\ \A r, s \in Request : Counted(r) /\ Counted(s) => r = s

(* The company that is being selected stays assigned until it is           *)
(* selected.                                                               *)
ContextInv ==
  /\ ContextIsAssigned
  /\ \A r \in Request : \A m \in Manager :
       request[r].pc = "selecting" /\ request[r].by = m =>
         /\ user[m].status # "NEW"
         /\ Exists(m) => request[r].on \in assigned[m]

(* An invitation makes an account when it is accepted, and once.           *)
SpentInv ==
  \A i \in Invitation :
    made[i] <= 1 /\ (invitation[i] # "accepted" => made[i] = 0)

Taken(r) == request[r].pc \in {"linking", "removing"}

(* What the deletion of a profile has found stays true until the deletion  *)
(* is done.                                                                *)
LoginInv ==
  /\ NoLoginIsLeftBehind
  /\ \A r, s \in Request :
       Taken(r) /\ Taken(s) /\ request[r].on = request[s].on => r = s
  /\ \A r, s \in Request :
       /\ request[r].pc = "removing" /\ request[s].pc = "removing"
       /\ request[r].login = request[s].login /\ request[r].login # Nobody
       => r = s
  /\ \A r \in Request :
       /\ Taken(r) =>
            profile[request[r].on].login \in {request[r].login, Nobody}
       /\ request[r].pc = "removing" /\ request[r].login # Nobody =>
            /\ user[request[r].login].status # "NEW"
            /\ request[r].rest /\ Exists(request[r].login) =>
                 \E q \in Profile \ {request[r].on} :
                   profile[q].login = request[r].login

(* The actions of a step.                                                  *)
LEMMA Steps ==
  ASSUME Typed, Next
  PROVE \/ \E r \in Request :
             \/ login(r) \/ setAuthContext(r) \/ updateWorkspaceUser(r)
             \/ deleteWorkspaceUser(r) \/ selfDelete(r)
             \/ putCreatorLoginAccount(r) \/ deleteCreator(r)
             \/ \E u \in User :
                  \/ verifyPassword(r, u) \/ auth(r, u)
                  \/ resetWorkspaceUserPassword(r, u)
                  \/ \E s : \E e \in Email \cup {Nobody} :
                       ChangeUser(r, u, s, e)
                  \/ \E task \in {"suspend", "delete", "leave"} :
                       CountOwners(r, task, u)
                  \/ \E e \in Email, cs \in SUBSET Company :
                       createWorkspaceUser(r, u, e, cs)
             \/ \E x \in Context : Select(r, x)
             \/ \E p \in Profile, u \in Creator :
                  \/ FindLogin(r, p, u)
                  \/ \E e \in Email : CreateLogin(r, p, u, e)
             \/ \E p \in Profile : \/ FindProfiles(r, p)
                                   \/ archiveCreator(r, p)
                                   \/ restoreCreator(r, p)
             \/ \E m \in Manager, cs \in SUBSET Company :
                  replaceManagerCompanyAssignments(r, m, cs)
             \/ \E i \in Invitation : createInvitation(r, i)
        \/ \E i \in Invitation, u \in User : acceptInvitation(i, u)
        \/ \E u \in User : logout(u) \/ EnsureBootstrap(u)
        \/ \E c \in Company : ArchiveOrRestore(c)
  <1>1. CASE \E r \in Request : SignIn(r)
    BY <1>1 DEF SignIn
  <1>2. CASE \E r \in Request : Contexts(r)
    BY <1>2 DEF Contexts
  <1>3. CASE \E r \in Request : Removal(r)
    BY <1>3 DEF Removal
  <1>4. CASE \E r \in Request : Logins(r)
    BY <1>4 DEF Logins
  <1>5. CASE Invite
    BY <1>5 DEF Invite
  <1>6. CASE \E r \in Request, u \in User : resetWorkspaceUserPassword(r, u)
    BY <1>6
  <1>7. CASE \E r \in Request, u \in User :
               ChangeUser(r, u, "ACTIVE", user[u].email)
    BY <1>7 DEF Typed, UserRow
  <1>8. CASE \E r \in Request, u \in User, e \in Email,
                cs \in SUBSET Company : createWorkspaceUser(r, u, e, cs)
    BY <1>8
  <1>9. CASE \E r \in Request, u \in User, e \in Email :
               ChangeUser(r, u, user[u].status, e)
    BY <1>9
  <1>10. CASE \E r \in Request, m \in Manager, cs \in SUBSET Company :
               replaceManagerCompanyAssignments(r, m, cs)
    BY <1>10
  <1>11. CASE \E u \in User : logout(u) \/ EnsureBootstrap(u)
    BY <1>11
  <1>12. CASE \E c \in Company : ArchiveOrRestore(c)
    BY <1>12
  <1>13. QED
    BY <1>1, <1>2, <1>3, <1>4, <1>5, <1>6, <1>7, <1>8, <1>9, <1>10, <1>11,
       <1>12
    DEF Next, User

LEMMA authEffect ==
  ASSUME Typed, NEW r \in Request, NEW u \in User, auth(r, u)
  PROVE /\ UNCHANGED <<open, user, workspace, archived, assigned, profile>>
        /\ UNCHANGED <<invitation, made>>
        /\ \A s \in Request : request'[s].pc = "admitted"
                              \/ request'[s] = request[s]
        /\ \/ session' = session
           \/ session' = [session EXCEPT ![u].live = FALSE]
  <1>1. CASE contextValid(u)
    <2> DEFINE admitted == [Idle EXCEPT !.pc = "admitted", !.by = u,
                                        !.context = session[u].context,
                                        !.companies = Companies(u)]
    <2>1. /\ UNCHANGED <<open, user, workspace, archived, assigned, profile>>
          /\ UNCHANGED <<invitation, made>> /\ session' = session
          /\ request' = [request EXCEPT ![r] = admitted]
      BY <1>1 DEF auth, Rights, Invitations, Step
    <2>2. admitted.pc = "admitted" /\ DOMAIN request = Request
      BY DEF Idle, Typed
    <2> HIDE DEF admitted
    <2>3. QED
      BY <2>1, <2>2
  <1>2. CASE ~contextValid(u)
    BY <1>2 DEF auth, Rights, Invitations
  <1>3. QED
    BY <1>1, <1>2

-----------------------------------------------------------------------------
LEMMA DeletedReferences ==
  ASSUME Typed, References, NEW u \in User, UserDeleted(u)
  PROVE /\ \A v \in User : v # u => user'[v] = user[v]
        /\ \A v \in User : session'[v].live => Exists(v)'
        /\ \A m \in Manager : assigned'[m] # {} => Exists(m)'
  <1>1. \A v \in User : v # u => user'[v] = user[v] /\ session'[v] = session[v]
    BY DEF UserDeleted, Without, Typed
  <1>2. ~session'[u].live
    BY DEF UserDeleted, Without, NoSession
  <1>3. \A m \in Manager : /\ m = u => assigned'[m] = {}
                           /\ m # u => assigned'[m] = assigned[m]
    BY DEF UserDeleted
  <1>4. \A m \in Manager : m \in User
    BY DEF User
  <1>5. QED
    BY <1>1, <1>2, <1>3, <1>4 DEF References, Exists

LEMMA ProfileLogin ==
  ASSUME Typed, NEW p \in Profile
  PROVE profile[p].login = Nobody \/ profile[p].login \in User
  BY DEF Typed, ProfileRow, User

LEMMA UnlinkedLogins ==
  ASSUME Typed, NEW u \in User, u # Nobody, NEW p \in Profile
  PROVE /\ Unlinked(u)[p].login # u
        /\ Unlinked(u)[p].login # Nobody =>
             Unlinked(u)[p].login = profile[p].login
  <1>1. CASE profile[p].login = u
    <2>1. Unlinked(u)[p].login = Nobody
      BY <1>1 DEF Unlinked, Typed, ProfileRow
    <2>2. QED
      BY <2>1
  <1>2. CASE profile[p].login # u
    <2>1. Unlinked(u)[p] = profile[p]
      BY <1>2 DEF Unlinked
    <2>2. QED
      BY <1>2, <2>1
  <1>3. QED
    BY <1>1, <1>2

LEMMA loginReferences ==
  ASSUME Typed, References, NEW r \in Request, login(r)
  PROVE References'
  <1> DEFINE u == request[r].by
  <1>1. session' = [session EXCEPT ![u].live = Exists(u),
                                   ![u].context = Nobody]
    BY DEF login
  <1>2. \A v \in User : session'[v].live => Exists(v)
    <2>1. \A v \in User : v # u => session'[v].live = session[v].live
      BY <1>1 DEF Typed, Session
    <2>2. u \in User => (session'[u].live => Exists(u))
      BY <1>1 DEF Typed, Session
    <2>3. QED
      BY <2>1, <2>2 DEF References
  <1>3. UNCHANGED <<user, assigned, profile>>
    BY DEF login, Rights
  <1>4. QED
    BY <1>2, <1>3 DEF References, Exists

LEMMA authReferences ==
  ASSUME Typed, References, NEW r \in Request, NEW u \in User, auth(r, u)
  PROVE References'
  <1>1. \A v \in User : session'[v].live => session[v].live
    <2>1. session \in [User -> Session]
      BY DEF Typed
    <2>2. CASE session' = [session EXCEPT ![u].live = FALSE]
      BY <2>1, <2>2 DEF Session
    <2>3. QED
      BY <2>2, authEffect
  <1>2. QED
    BY <1>1, authEffect DEF References, Exists

LEMMA updateWorkspaceUserReferences ==
  ASSUME Typed, References, NEW r \in Request, updateWorkspaceUser(r)
  PROVE References'
  <1>1. \A v \in User : session'[v].live => session[v].live
    BY DEF updateWorkspaceUser, Without, NoSession
  <1>2. \A v \in User : user'[v] = user[v] \/ user'[v].status = "SUSPENDED"
    BY DEF updateWorkspaceUser, Typed, UserRow
  <1>3. UNCHANGED <<assigned, profile>>
    BY DEF updateWorkspaceUser, Rights
  <1>4. \A m \in Manager : m \in User
    BY DEF User
  <1>5. QED
    BY <1>1, <1>2, <1>3, <1>4, ProfileLogin DEF References, Exists

LEMMA deleteWorkspaceUserReferences ==
  ASSUME Typed, References, NEW r \in Request, deleteWorkspaceUser(r)
  PROVE References'
  <1>1. CASE UNCHANGED <<user, session, assigned, profile>>
    BY <1>1 DEF References, Exists
  <1> DEFINE u == request[r].on
  <1>2. CASE UserDeleted(u) /\ profile' = Unlinked(u)
    <2>1. u \in User
      BY DEF deleteWorkspaceUser, Removing, Typed, Sound
    <2>2. u # Nobody
      BY <2>1, AccessAssumption
    <2>3. QED
      BY <1>2, <2>1, <2>2, DeletedReferences, UnlinkedLogins,
       ProfileLogin
      DEF References, Exists
  <1>3. QED
    BY <1>1, <1>2 DEF deleteWorkspaceUser

LEMMA selfDeleteReferences ==
  ASSUME Typed, References, NEW r \in Request, selfDelete(r)
  PROVE References'
  <1> DEFINE u == request[r].by
  <1>1. u \in Owner /\ u \in User /\ UNCHANGED profile
    BY DEF selfDelete, Removing, Typed, Sound, User
  <1>2. CASE UserDeleted(u)
    <2>1. \A p \in Profile :
            profile[p].login # Nobody => profile[p].login # u
      BY <1>1, AccessAssumption DEF Typed, ProfileRow
    <2>2. QED
      BY <1>1, <1>2, <2>1, DeletedReferences, ProfileLogin
      DEF References, Exists
  <1>3. CASE session' = Without(session, User) /\ UNCHANGED <<user, assigned>>
    BY <1>1, <1>3 DEF References, Exists, Without, NoSession
  <1>4. QED
    BY <1>2, <1>3 DEF selfDelete

LEMMA putCreatorLoginAccountReferences ==
  ASSUME Typed, References, NEW r \in Request, putCreatorLoginAccount(r)
  PROVE References'
  <1> DEFINE u == request[r].login
  <1>1. \A v \in User : session'[v].live => session[v].live
    BY DEF putCreatorLoginAccount, Without, NoSession
  <1>2. UNCHANGED <<user, assigned>>
    BY DEF putCreatorLoginAccount
  <1>3. \A p \in Profile :
          profile'[p] = profile[p] \/ (profile'[p].login = u /\ Exists(u))
    <2>1. CASE profile' = profile
      <3>1. \A p \in Profile : profile'[p] = profile[p]
        BY <2>1
      <3>2. QED
        BY <3>1
    <2>2. CASE /\ Exists(u)
               /\ profile' = [profile EXCEPT ![request[r].on].login = u]
      BY <2>2 DEF Typed, ProfileRow
    <2>3. QED
      BY <2>1, <2>2 DEF putCreatorLoginAccount
  <1>4. QED
    BY <1>1, <1>2, <1>3 DEF References, Exists

LEMMA deleteCreatorReferences ==
  ASSUME Typed, References, NEW r \in Request, deleteCreator(r)
  PROVE References'
  <1> DEFINE u == request[r].login
             p == request[r].on
             buried == [state |-> "GONE", login |-> Nobody]
  <1>1. CASE /\ profile' = [profile EXCEPT ![p] = buried]
             /\ UNCHANGED <<user, session, assigned>>
    <2>1. \A q \in Profile : profile'[q] = profile[q]
                             \/ profile'[q].login = Nobody
      BY <1>1 DEF Typed
    <2>2. QED
      BY <1>1, <2>1 DEF References, Exists
  <1>2. CASE /\ u # Nobody /\ UserDeleted(u)
             /\ profile' = [Unlinked(u) EXCEPT ![p] = buried]
    <2>1. u \in User
      BY <1>2 DEF Typed, Sound, RequestRow, User
    <2>2. \A q \in Profile : profile'[q] = Unlinked(u)[q]
                             \/ profile'[q].login = Nobody
      BY <1>2, UnlinkedTyped
    <2>3. QED
      BY <1>2, <2>1, <2>2, DeletedReferences, UnlinkedLogins,
       ProfileLogin
      DEF References, Exists
  <1>3. QED
    BY <1>1, <1>2 DEF deleteCreator

LEMMA ReferencesStep ==
  ASSUME Typed, References, Next
  PROVE References'
  <1>1. ASSUME NEW r \in Request, NEW u \in User, verifyPassword(r, u)
        PROVE References'
    BY <1>1
    DEF verifyPassword, Typed, Ends, Step, Idle, Rights, Invitations, Exists,
        References, User
  <1>2. ASSUME NEW r \in Request, login(r)
        PROVE References'
    BY <1>2, loginReferences
  <1>3. ASSUME NEW r \in Request, NEW u \in User, auth(r, u)
        PROVE References'
    BY <1>3, authReferences
  <1>4. ASSUME NEW u \in User, logout(u)
        PROVE References'
    BY <1>4
    DEF logout, Typed, Ends, Step, Idle, Rights, Invitations, Exists,
        References, User
  <1>5. ASSUME NEW r \in Request, NEW x \in Context, Select(r, x)
        PROVE References'
    BY <1>5
    DEF Select, Typed, Ends, Step, Idle, Rights, Invitations, Exists,
        References, User
  <1>6. ASSUME NEW r \in Request, setAuthContext(r)
        PROVE References'
    BY <1>6
    DEF setAuthContext, Typed, Ends, Step, Idle, Rights, Invitations, Exists,
        References, User
  <1>7. ASSUME NEW r \in Request, NEW u \in User,
               NEW task \in {"suspend", "delete", "leave"},
               CountOwners(r, task, u)
        PROVE References'
    BY <1>7
    DEF CountOwners, Typed, Ends, Step, Idle, Rights, Invitations, Exists,
        References, User
  <1>8. ASSUME NEW r \in Request, updateWorkspaceUser(r)
        PROVE References'
    BY <1>8, updateWorkspaceUserReferences
  <1>9. ASSUME NEW r \in Request, deleteWorkspaceUser(r)
        PROVE References'
    BY <1>9, deleteWorkspaceUserReferences
  <1>10. ASSUME NEW r \in Request, selfDelete(r)
         PROVE References'
    BY <1>10, selfDeleteReferences
  <1>11. ASSUME NEW r \in Request, NEW p \in Profile, NEW u \in Creator,
                FindLogin(r, p, u)
         PROVE References'
    BY <1>11
    DEF FindLogin, Typed, Ends, Step, Idle, Rights, Invitations, Exists,
        References, User
  <1>12. ASSUME NEW r \in Request, NEW p \in Profile, NEW u \in Creator,
                NEW e \in Email, CreateLogin(r, p, u, e)
         PROVE References'
    BY <1>12
    DEF CreateLogin, Typed, Ends, Step, Idle, Rights, Invitations, Exists,
        References, NewUser, User
  <1>13. ASSUME NEW r \in Request, NEW p \in Profile, FindProfiles(r, p)
         PROVE References'
    BY <1>13
    DEF FindProfiles, Typed, Ends, Step, Idle, Rights, Invitations, Exists,
        References, User
  <1>14. ASSUME NEW r \in Request, NEW p \in Profile, archiveCreator(r, p)
         PROVE References'
    BY <1>14
    DEF archiveCreator, Typed, Ends, Step, Idle, Rights, Invitations, Exists,
        References, User
  <1>15. ASSUME NEW r \in Request, NEW p \in Profile, restoreCreator(r, p)
         PROVE References'
    BY <1>15
    DEF restoreCreator, Typed, Ends, Step, Idle, Rights, Invitations, Exists,
        References, User
  <1>16. ASSUME NEW r \in Request, putCreatorLoginAccount(r)
         PROVE References'
    BY <1>16, putCreatorLoginAccountReferences
  <1>17. ASSUME NEW r \in Request, deleteCreator(r)
         PROVE References'
    BY <1>17, deleteCreatorReferences
  <1>18. ASSUME NEW r \in Request, NEW u \in User,
                resetWorkspaceUserPassword(r, u)
         PROVE References'
    BY <1>18
    DEF resetWorkspaceUserPassword, Typed, Ends, Step, Idle, Rights,
        Invitations, Exists, References, Without, NoSession, User
  <1>19. ASSUME NEW r \in Request, NEW u \in User, NEW s,
                NEW e \in Email \cup {Nobody}, ChangeUser(r, u, s, e)
         PROVE References'
    BY <1>19
    DEF ChangeUser, Typed, Ends, Step, Idle, Rights, Invitations, Exists,
        References, Without, NoSession, User
  <1>20. ASSUME NEW r \in Request, NEW u \in User, NEW e \in Email,
                NEW cs \in SUBSET Company, createWorkspaceUser(r, u, e, cs)
         PROVE References'
    BY <1>20
    DEF createWorkspaceUser, Typed, Ends, Step, Idle, Rights, Invitations,
        Exists, References, NewUser, User
  <1>21. ASSUME NEW r \in Request, NEW m \in Manager,
                NEW cs \in SUBSET Company,
                replaceManagerCompanyAssignments(r, m, cs)
         PROVE References'
    BY <1>21
    DEF replaceManagerCompanyAssignments, Typed, Ends, Step, Idle, Rights,
        Invitations, Exists, References, Without, NoSession, User
  <1>22. ASSUME NEW r \in Request, NEW i \in Invitation,
                createInvitation(r, i)
         PROVE References'
    BY <1>22
    DEF createInvitation, Typed, Ends, Step, Idle, Rights, Invitations,
        Exists, References, User
  <1>23. ASSUME NEW i \in Invitation, NEW u \in User, acceptInvitation(i, u)
         PROVE References'
    BY <1>23, AccessAssumption
    DEF acceptInvitation, Typed, Ends, Step, Idle, Rights, Invitations,
        Exists, Pending, References, NewUser, User
  <1>24. ASSUME NEW u \in User, EnsureBootstrap(u)
         PROVE References'
    BY <1>24, AccessAssumption
    DEF EnsureBootstrap, Typed, Ends, Step, Idle, Rights, Invitations,
        Exists, References, NewUser, User
  <1>25. ASSUME NEW c \in Company, ArchiveOrRestore(c)
         PROVE References'
    BY <1>25
    DEF ArchiveOrRestore, Typed, Ends, Step, Idle, Rights, Invitations,
        Exists, References, User
  <1>26. QED
    BY <1>1, <1>2, <1>3, <1>4, <1>5, <1>6, <1>7, <1>8, <1>9, <1>10, <1>11,
       <1>12, <1>13, <1>14, <1>15, <1>16, <1>17, <1>18, <1>19, <1>20, <1>21,
       <1>22, <1>23, <1>24, <1>25, Steps

-----------------------------------------------------------------------------
LEMMA DeletedUnique ==
  ASSUME Typed, Unique, NEW u \in User, UserDeleted(u),
         \A p \in Profile :
           profile'[p].login \in {profile[p].login, Nobody}
  PROVE Unique'
  <1>1. \A v \in User : Exists(v)' => Exists(v) /\ user'[v] = user[v]
    BY DEF UserDeleted, Typed, Exists
  <1>2. QED
    BY <1>1 DEF Unique

LEMMA updateWorkspaceUserUnique ==
  ASSUME Typed, References, Unique, NEW r \in Request, updateWorkspaceUser(r)
  PROVE Unique'
  <1>1. \A v \in User : /\ user'[v].email = user[v].email
                        /\ Exists(v)' => Exists(v)
    <2> SUFFICES ASSUME NEW v \in User
                 PROVE /\ user'[v].email = user[v].email
                       /\ Exists(v)' => Exists(v)
      OBVIOUS
    <2>1. CASE user' = user
      BY <2>1 DEF Exists
    <2>2. CASE /\ user[request[r].on].status = "ACTIVE"
               /\ user' = [user EXCEPT ![request[r].on].status = "SUSPENDED"]
      BY <2>2 DEF Exists, Typed, UserRow
    <2>3. QED
      BY <2>1, <2>2 DEF updateWorkspaceUser
  <1>2. profile' = profile
    BY DEF updateWorkspaceUser, Rights
  <1>3. QED
    BY <1>1, <1>2 DEF Unique

LEMMA deleteWorkspaceUserUnique ==
  ASSUME Typed, References, Unique, NEW r \in Request, deleteWorkspaceUser(r)
  PROVE Unique'
  <1> DEFINE u == request[r].on
  <1>1. CASE UNCHANGED <<user, session, assigned, profile>>
    BY <1>1 DEF Unique, Exists
  <1>2. CASE UserDeleted(u) /\ profile' = Unlinked(u)
    <2>1. u \in User /\ u # Nobody
      BY AccessAssumption DEF deleteWorkspaceUser, Removing, Typed, Sound
    <2>2. QED
      BY <1>2, <2>1, DeletedUnique, UnlinkedLogins
  <1>3. QED
    BY <1>1, <1>2 DEF deleteWorkspaceUser

LEMMA putCreatorLoginAccountUnique ==
  ASSUME Typed, References, Unique, NEW r \in Request,
         putCreatorLoginAccount(r)
  PROVE Unique'
  <1> DEFINE p == request[r].on
             u == request[r].login
  <1>1. user' = user
    BY DEF putCreatorLoginAccount
  <1>2. CASE profile' = profile
    BY <1>1, <1>2 DEF Unique, Exists
  <1>3. CASE /\ profile' = [profile EXCEPT ![p].login = u]
             /\ \A q \in Profile \ {p} :
                  CompanyOf[q] = CompanyOf[p] => profile[q].login # u
    <2>1. \A q \in Profile : /\ q # p => profile'[q] = profile[q]
                             /\ q = p => profile'[q].login = u
      BY <1>3 DEF Typed, ProfileRow
    <2>2. QED
      BY <1>1, <1>3, <2>1 DEF Unique, Exists
  <1>4. QED
    BY <1>2, <1>3 DEF putCreatorLoginAccount

LEMMA deleteCreatorUnique ==
  ASSUME Typed, References, Unique, NEW r \in Request, deleteCreator(r)
  PROVE Unique'
  <1> DEFINE u == request[r].login
             p == request[r].on
             buried == [state |-> "GONE", login |-> Nobody]
  <1>1. CASE /\ profile' = [profile EXCEPT ![p] = buried]
             /\ UNCHANGED <<user, session, assigned>>
    <2>1. \A q \in Profile : profile'[q] = profile[q]
                             \/ profile'[q].login = Nobody
      BY <1>1 DEF Typed
    <2>2. QED
      BY <1>1, <2>1 DEF Unique, Exists
  <1>2. CASE /\ u # Nobody /\ UserDeleted(u)
             /\ profile' = [Unlinked(u) EXCEPT ![p] = buried]
    <2>1. u \in User
      BY <1>2 DEF Typed, Sound, RequestRow, User
    <2>2. \A q \in Profile : profile'[q] = Unlinked(u)[q]
                             \/ profile'[q].login = Nobody
      BY <1>2, UnlinkedTyped
    <2>3. QED
      BY <1>2, <2>1, <2>2, DeletedUnique, UnlinkedLogins
  <1>3. QED
    BY <1>1, <1>2 DEF deleteCreator

LEMMA UniqueStep ==
  ASSUME Typed, References, Unique, Next
  PROVE Unique'
  <1>1. ASSUME NEW r \in Request, NEW u \in User, verifyPassword(r, u)
        PROVE Unique'
    BY <1>1
    DEF verifyPassword, Typed, Ends, Step, Idle, Rights, Invitations, Exists,
        Unique, User
  <1>2. ASSUME NEW r \in Request, login(r)
        PROVE Unique'
    BY <1>2
    DEF login, Typed, Ends, Step, Idle, Rights, Invitations, Exists, Unique,
        User
  <1>3. ASSUME NEW r \in Request, NEW u \in User, auth(r, u)
        PROVE Unique'
    BY <1>3, authEffect DEF Unique, Exists
  <1>4. ASSUME NEW u \in User, logout(u)
        PROVE Unique'
    BY <1>4
    DEF logout, Typed, Ends, Step, Idle, Rights, Invitations, Exists, Unique,
        User
  <1>5. ASSUME NEW r \in Request, NEW x \in Context, Select(r, x)
        PROVE Unique'
    BY <1>5
    DEF Select, Typed, Ends, Step, Idle, Rights, Invitations, Exists, Unique,
        User
  <1>6. ASSUME NEW r \in Request, setAuthContext(r)
        PROVE Unique'
    BY <1>6
    DEF setAuthContext, Typed, Ends, Step, Idle, Rights, Invitations, Exists,
        Unique, User
  <1>7. ASSUME NEW r \in Request, NEW u \in User,
               NEW task \in {"suspend", "delete", "leave"},
               CountOwners(r, task, u)
        PROVE Unique'
    BY <1>7
    DEF CountOwners, Typed, Ends, Step, Idle, Rights, Invitations, Exists,
        Unique, User
  <1>8. ASSUME NEW r \in Request, updateWorkspaceUser(r)
        PROVE Unique'
    BY <1>8, updateWorkspaceUserUnique
  <1>9. ASSUME NEW r \in Request, deleteWorkspaceUser(r)
        PROVE Unique'
    BY <1>9, deleteWorkspaceUserUnique
  <1>10. ASSUME NEW r \in Request, selfDelete(r)
         PROVE Unique'
    BY <1>10
    DEF selfDelete, Typed, Ends, Step, Idle, Rights, Invitations, Exists,
        Removing, Unique, Without, UserDeleted, User
  <1>11. ASSUME NEW r \in Request, NEW p \in Profile, NEW u \in Creator,
                FindLogin(r, p, u)
         PROVE Unique'
    BY <1>11
    DEF FindLogin, Typed, Ends, Step, Idle, Rights, Invitations, Exists,
        Unique, User
  <1>12. ASSUME NEW r \in Request, NEW p \in Profile, NEW u \in Creator,
                NEW e \in Email, CreateLogin(r, p, u, e)
         PROVE Unique'
    BY <1>12
    DEF CreateLogin, Typed, Ends, Step, Idle, Rights, Invitations, Exists,
        Unique, Without, Unlinked, UserDeleted, NewUser, Holders, References,
        User
  <1>13. ASSUME NEW r \in Request, NEW p \in Profile, FindProfiles(r, p)
         PROVE Unique'
    BY <1>13
    DEF FindProfiles, Typed, Ends, Step, Idle, Rights, Invitations, Exists,
        Unique, User
  <1>14. ASSUME NEW r \in Request, NEW p \in Profile, archiveCreator(r, p)
         PROVE Unique'
    BY <1>14
    DEF archiveCreator, Typed, Ends, Step, Idle, Rights, Invitations, Exists,
        Unique, User
  <1>15. ASSUME NEW r \in Request, NEW p \in Profile, restoreCreator(r, p)
         PROVE Unique'
    BY <1>15
    DEF restoreCreator, Typed, Ends, Step, Idle, Rights, Invitations, Exists,
        Unique, User
  <1>16. ASSUME NEW r \in Request, putCreatorLoginAccount(r)
         PROVE Unique'
    BY <1>16, putCreatorLoginAccountUnique
  <1>17. ASSUME NEW r \in Request, deleteCreator(r)
         PROVE Unique'
    BY <1>17, deleteCreatorUnique
  <1>18. ASSUME NEW r \in Request, NEW u \in User,
                resetWorkspaceUserPassword(r, u)
         PROVE Unique'
    BY <1>18
    DEF resetWorkspaceUserPassword, Typed, Ends, Step, Idle, Rights,
        Invitations, Exists, Unique, Without, User
  <1>19. ASSUME NEW r \in Request, NEW u \in User, NEW s,
                NEW e \in Email \cup {Nobody}, ChangeUser(r, u, s, e)
         PROVE Unique'
    BY <1>19
    DEF ChangeUser, Typed, Ends, Step, Idle, Rights, Invitations, Exists,
        Unique, Without, Holders, User
  <1>20. ASSUME NEW r \in Request, NEW u \in User, NEW e \in Email,
                NEW cs \in SUBSET Company, createWorkspaceUser(r, u, e, cs)
         PROVE Unique'
    BY <1>20
    DEF createWorkspaceUser, Typed, Ends, Step, Idle, Rights, Invitations,
        Exists, Unique, NewUser, Holders, User
  <1>21. ASSUME NEW r \in Request, NEW m \in Manager,
                NEW cs \in SUBSET Company,
                replaceManagerCompanyAssignments(r, m, cs)
         PROVE Unique'
    BY <1>21
    DEF replaceManagerCompanyAssignments, Typed, Ends, Step, Idle, Rights,
        Invitations, Exists, Unique, Without, User
  <1>22. ASSUME NEW r \in Request, NEW i \in Invitation,
                createInvitation(r, i)
         PROVE Unique'
    BY <1>22
    DEF createInvitation, Typed, Ends, Step, Idle, Rights, Invitations,
        Exists, Unique, User
  <1>23. ASSUME NEW i \in Invitation, NEW u \in User, acceptInvitation(i, u)
         PROVE Unique'
    BY <1>23, AccessAssumption
    DEF acceptInvitation, Typed, Ends, Step, Idle, Rights, Invitations,
        Exists, Pending, Unique, NewUser, Holders, User
  <1>24. ASSUME NEW u \in User, EnsureBootstrap(u)
         PROVE Unique'
    BY <1>24, AccessAssumption
    DEF EnsureBootstrap, Typed, Ends, Step, Idle, Rights, Invitations,
        Exists, Unique, NewUser, Holders, User
  <1>25. ASSUME NEW c \in Company, ArchiveOrRestore(c)
         PROVE Unique'
    BY <1>25
    DEF ArchiveOrRestore, Typed, Ends, Step, Idle, Rights, Invitations,
        Exists, Unique, User
  <1>26. QED
    BY <1>1, <1>2, <1>3, <1>4, <1>5, <1>6, <1>7, <1>8, <1>9, <1>10, <1>11,
       <1>12, <1>13, <1>14, <1>15, <1>16, <1>17, <1>18, <1>19, <1>20, <1>21,
       <1>22, <1>23, <1>24, <1>25, Steps

-----------------------------------------------------------------------------
LEMMA AnotherOwner ==
  ASSUME Cardinality(ActiveOwners) > 1, NEW u
  PROVE \E o \in ActiveOwners : o # u
  <1>1. SUFFICES ASSUME ActiveOwners \subseteq {u} PROVE FALSE
    OBVIOUS
  <1>2. ActiveOwners = {} \/ ActiveOwners = {u}
    BY <1>1
  <1>3. Cardinality({}) = 0 /\ Cardinality({u}) = 1
    BY FS_EmptySet, FS_Singleton
  <1>4. QED
    BY <1>2, <1>3

LEMMA CountOwnersOwnersInv ==
  ASSUME Typed, OwnersInv, NEW r \in Request, NEW u \in User,
         NEW task \in {"suspend", "delete", "leave"}, CountOwners(r, task, u)
  PROVE OwnersInv'
  <1>1. PICK b \in BOOLEAN :
          Step(r, [request[r] EXCEPT !.pc = "counted", !.task = task,
                                     !.on = u, !.rest = b])
          /\ (b => u \notin ActiveOwners \/ \E o \in ActiveOwners : o # u)
    <2>1. CASE task = "leave"
      <3> DEFINE more == Cardinality(ActiveOwners) > 1
      <3>1. more \in BOOLEAN
        OBVIOUS
      <3>2. Step(r, [request[r] EXCEPT !.pc = "counted", !.task = task,
                                       !.on = u, !.rest = more])
        BY <2>1 DEF CountOwners
      <3>3. more => \E o \in ActiveOwners : o # u
        BY AnotherOwner
      <3>4. QED
        <4> HIDE DEF more
        <4> QED
          BY <3>1, <3>2, <3>3
    <2>2. CASE task = "delete"
      BY <2>2 DEF CountOwners, activeOwnerRemains, ActiveOwners
    <2>3. CASE task = "suspend"
      BY <2>3 DEF CountOwners, activeOwnerRemains, ActiveOwners
    <2>4. QED
      BY <2>1, <2>2, <2>3
  <1>2. /\ request'[r].pc = "counted" /\ request'[r].on = u
        /\ request'[r].rest = b
    BY <1>1 DEF Step, Typed, Sound, RequestRow
  <1>3. \A s \in Request \ {r} : request'[s] = request[s]
    BY <1>1 DEF Step, Typed
  <1>4. UNCHANGED <<user, workspace>> /\ \A s \in Request : ~Counted(s)
    BY DEF CountOwners, Rights, WorkspaceIsFree, Counted
  <1>5. user[u].status # "NEW"
    BY DEF CountOwners, Exists
  <1>6. QED
    BY <1>1, <1>2, <1>3, <1>4, <1>5
    DEF OwnersInv, Counted, AnOwnerStays, ActiveOwners

LEMMA deleteCreatorOwnersInv ==
  ASSUME Typed, OwnersInv, NEW r \in Request, deleteCreator(r)
  PROVE OwnersInv'
  <1>1. \A s \in Request : request'[s] = request[s]
                           \/ request'[s].pc = "idle"
    BY DEF deleteCreator, Ends, Step, Idle, Typed
  <1>2. ActiveOwners' = ActiveOwners
    <2>1. request[r].login \in Creator \/ request[r].login = Nobody
      BY DEF Typed, Sound, RequestRow
    <2>2. \A o \in Owner : user'[o] = user[o]
      BY <2>1, AccessAssumption DEF deleteCreator, UserDeleted, Typed, User
    <2>3. QED
      BY <2>2 DEF ActiveOwners
  <1>3. \A u \in User : user[u].status # "NEW" => user'[u].status # "NEW"
    BY DEF deleteCreator, UserDeleted, Typed
  <1>4. \A s \in Request : Counted(s) => request[s].on \in User
    BY DEF Typed, Sound, Counted
  <1>5. workspace' = workspace
    BY DEF deleteCreator
  <1>6. QED
    BY <1>1, <1>2, <1>3, <1>4, <1>5 DEF OwnersInv, AnOwnerStays, Counted

LEMMA ChangeUserOwnersInv ==
  ASSUME Typed, OwnersInv, NEW r \in Request, NEW u \in User, NEW s,
         NEW e \in Email \cup {Nobody}, ChangeUser(r, u, s, e)
  PROVE OwnersInv'
  <1>1. \A q \in Request : ~Counted(q)'
    BY DEF ChangeUser, WorkspaceIsFree, Ends, Step, Idle, Typed, Counted
  <1>2. ActiveOwners \subseteq ActiveOwners'
    <2>1. SUFFICES ASSUME NEW o \in ActiveOwners PROVE o \in ActiveOwners'
      OBVIOUS
    <2>2. user' = [user EXCEPT ![u] = [status |-> s, email |-> e]]
      BY DEF ChangeUser
    <2>3. s = user[u].status \/ s = "ACTIVE"
      BY DEF ChangeUser
    <2>4. CASE o = u
      BY <2>2, <2>3, <2>4 DEF ActiveOwners, Typed
    <2>5. CASE o # u
      BY <2>2, <2>5 DEF ActiveOwners, Typed, User
    <2>6. QED
      BY <2>4, <2>5
  <1>3. workspace' = workspace
    BY DEF ChangeUser, Rights
  <1>4. QED
    BY <1>1, <1>2, <1>3 DEF OwnersInv, AnOwnerStays

LEMMA OwnersInvStep ==
  ASSUME Typed, OwnersInv, Next
  PROVE OwnersInv'
  <1>1. ASSUME NEW r \in Request, NEW u \in User, verifyPassword(r, u)
        PROVE OwnersInv'
    BY <1>1
    DEF verifyPassword, Typed, Ends, Step, Idle, Rights, Invitations, Exists,
        OwnersInv, Counted, AnOwnerStays, ActiveOwners, Sound, User
  <1>2. ASSUME NEW r \in Request, login(r)
        PROVE OwnersInv'
    BY <1>2
    DEF login, Typed, Ends, Step, Idle, Rights, Invitations, Exists,
        OwnersInv, Counted, AnOwnerStays, ActiveOwners, Sound, User
  <1>3. ASSUME NEW r \in Request, NEW u \in User, auth(r, u)
        PROVE OwnersInv'
    BY <1>3, authEffect
    DEF Typed, OwnersInv, Counted, AnOwnerStays, ActiveOwners
  <1>4. ASSUME NEW u \in User, logout(u)
        PROVE OwnersInv'
    BY <1>4
    DEF logout, Typed, Rights, Invitations, OwnersInv, Counted, AnOwnerStays,
        ActiveOwners, Sound, User
  <1>5. ASSUME NEW r \in Request, NEW x \in Context, Select(r, x)
        PROVE OwnersInv'
    BY <1>5
    DEF Select, Typed, Ends, Step, Idle, Rights, Invitations, Exists,
        OwnersInv, Counted, AnOwnerStays, ActiveOwners, Sound, User
  <1>6. ASSUME NEW r \in Request, setAuthContext(r)
        PROVE OwnersInv'
    BY <1>6
    DEF setAuthContext, Typed, Ends, Step, Idle, Rights, Invitations, Exists,
        OwnersInv, Counted, AnOwnerStays, ActiveOwners, Sound, User
  <1>7. ASSUME NEW r \in Request, NEW u \in User,
               NEW task \in {"suspend", "delete", "leave"},
               CountOwners(r, task, u)
        PROVE OwnersInv'
    BY <1>7, CountOwnersOwnersInv
  <1>8. ASSUME NEW r \in Request, updateWorkspaceUser(r)
        PROVE OwnersInv'
    BY <1>8
    DEF updateWorkspaceUser, Typed, Ends, Step, Idle, Rights, Invitations,
        Exists, Removing, OwnersInv, Counted, AnOwnerStays, ActiveOwners,
        Sound, User
  <1>9. ASSUME NEW r \in Request, deleteWorkspaceUser(r)
        PROVE OwnersInv'
    BY <1>9
    DEF deleteWorkspaceUser, Typed, Ends, Step, Idle, Rights, Invitations,
        Exists, Removing, OwnersInv, Counted, AnOwnerStays, ActiveOwners,
        UserDeleted, Sound, User
  <1>10. ASSUME NEW r \in Request, selfDelete(r)
         PROVE OwnersInv'
    BY <1>10
    DEF selfDelete, Typed, Ends, Step, Idle, Rights, Invitations, Exists,
        Removing, OwnersInv, Counted, AnOwnerStays, ActiveOwners,
        UserDeleted, Sound, User
  <1>11. ASSUME NEW r \in Request, NEW p \in Profile, NEW u \in Creator,
                FindLogin(r, p, u)
         PROVE OwnersInv'
    BY <1>11
    DEF FindLogin, Typed, Ends, Step, Idle, Rights, Invitations, Exists,
        OwnersInv, Counted, AnOwnerStays, ActiveOwners, Sound, User
  <1>12. ASSUME NEW r \in Request, NEW p \in Profile, NEW u \in Creator,
                NEW e \in Email, CreateLogin(r, p, u, e)
         PROVE OwnersInv'
    BY <1>12
    DEF CreateLogin, Typed, Ends, Step, Idle, Rights, Invitations, Exists,
        OwnersInv, Counted, AnOwnerStays, ActiveOwners, NewUser, Sound, User
  <1>13. ASSUME NEW r \in Request, NEW p \in Profile, FindProfiles(r, p)
         PROVE OwnersInv'
    BY <1>13
    DEF FindProfiles, Typed, Ends, Step, Idle, Rights, Invitations, Exists,
        OwnersInv, Counted, AnOwnerStays, ActiveOwners, Sound, User
  <1>14. ASSUME NEW r \in Request, NEW p \in Profile, archiveCreator(r, p)
         PROVE OwnersInv'
    BY <1>14
    DEF archiveCreator, Typed, Ends, Step, Idle, Rights, Invitations, Exists,
        OwnersInv, Counted, AnOwnerStays, ActiveOwners, Sound, User
  <1>15. ASSUME NEW r \in Request, NEW p \in Profile, restoreCreator(r, p)
         PROVE OwnersInv'
    BY <1>15
    DEF restoreCreator, Typed, Ends, Step, Idle, Rights, Invitations, Exists,
        OwnersInv, Counted, AnOwnerStays, ActiveOwners, Sound, User
  <1>16. ASSUME NEW r \in Request, putCreatorLoginAccount(r)
         PROVE OwnersInv'
    BY <1>16
    DEF putCreatorLoginAccount, Typed, Ends, Step, Idle, Rights, Invitations,
        Exists, OwnersInv, Counted, AnOwnerStays, ActiveOwners, Sound, User
  <1>17. ASSUME NEW r \in Request, deleteCreator(r)
         PROVE OwnersInv'
    BY <1>17, deleteCreatorOwnersInv
  <1>18. ASSUME NEW r \in Request, NEW u \in User,
                resetWorkspaceUserPassword(r, u)
         PROVE OwnersInv'
    BY <1>18
    DEF resetWorkspaceUserPassword, Typed, Ends, Step, Idle, Rights,
        Invitations, Exists, OwnersInv, Counted, AnOwnerStays, ActiveOwners,
        Sound, User
  <1>19. ASSUME NEW r \in Request, NEW u \in User, NEW s,
                NEW e \in Email \cup {Nobody}, ChangeUser(r, u, s, e)
         PROVE OwnersInv'
    BY <1>19, ChangeUserOwnersInv
  <1>20. ASSUME NEW r \in Request, NEW u \in User, NEW e \in Email,
                NEW cs \in SUBSET Company, createWorkspaceUser(r, u, e, cs)
         PROVE OwnersInv'
    BY <1>20
    DEF createWorkspaceUser, Typed, Ends, Step, Idle, Rights, Invitations,
        Exists, OwnersInv, Counted, AnOwnerStays, ActiveOwners, NewUser,
        Sound, User
  <1>21. ASSUME NEW r \in Request, NEW m \in Manager,
                NEW cs \in SUBSET Company,
                replaceManagerCompanyAssignments(r, m, cs)
         PROVE OwnersInv'
    BY <1>21
    DEF replaceManagerCompanyAssignments, Typed, Ends, Step, Idle, Rights,
        Invitations, Exists, OwnersInv, Counted, AnOwnerStays, ActiveOwners,
        Sound, User
  <1>22. ASSUME NEW r \in Request, NEW i \in Invitation,
                createInvitation(r, i)
         PROVE OwnersInv'
    BY <1>22
    DEF createInvitation, Typed, Ends, Step, Idle, Rights, Invitations,
        Exists, OwnersInv, Counted, AnOwnerStays, ActiveOwners, Sound, User
  <1>23. ASSUME NEW i \in Invitation, NEW u \in User, acceptInvitation(i, u)
         PROVE OwnersInv'
    BY <1>23, AccessAssumption
    DEF acceptInvitation, Typed, Exists, Pending, OwnersInv, Counted,
        AnOwnerStays, ActiveOwners, NewUser, Sound, User
  <1>24. ASSUME NEW u \in User, EnsureBootstrap(u)
         PROVE OwnersInv'
    BY <1>24, AccessAssumption
    DEF EnsureBootstrap, Typed, Rights, Invitations, Exists, OwnersInv,
        Counted, AnOwnerStays, ActiveOwners, NewUser, Sound, User
  <1>25. ASSUME NEW c \in Company, ArchiveOrRestore(c)
         PROVE OwnersInv'
    BY <1>25
    DEF ArchiveOrRestore, Typed, Invitations, OwnersInv, Counted,
        AnOwnerStays, ActiveOwners, Sound, User
  <1>26. QED
    BY <1>1, <1>2, <1>3, <1>4, <1>5, <1>6, <1>7, <1>8, <1>9, <1>10, <1>11,
       <1>12, <1>13, <1>14, <1>15, <1>16, <1>17, <1>18, <1>19, <1>20, <1>21,
       <1>22, <1>23, <1>24, <1>25, Steps

-----------------------------------------------------------------------------
LEMMA authContextInv ==
  ASSUME Typed, References, ContextInv, NEW r \in Request, NEW u \in User,
         auth(r, u)
  PROVE ContextInv'
  <1>1. \A v \in User : /\ session'[v].live => session[v].live
                        /\ session'[v].context = session[v].context
    <2>1. CASE session' = session
      BY <2>1
    <2>2. CASE session' = [session EXCEPT ![u].live = FALSE]
      BY <2>2 DEF Typed, Session
    <2>3. QED
      BY <2>1, <2>2, authEffect
  <1>2. \A s \in Request :
          request'[s].pc = "selecting" => request'[s] = request[s]
    BY authEffect
  <1>3. UNCHANGED <<user, assigned>>
    BY authEffect
  <1>4. \A m \in Manager : m \in User
    BY DEF User
  <1>5. QED
    BY <1>1, <1>2, <1>3, <1>4 DEF ContextInv, ContextIsAssigned, Exists

LEMMA SelectContextInv ==
  ASSUME Typed, References, ContextInv, NEW r \in Request, NEW x \in Context,
         Select(r, x)
  PROVE ContextInv'
  <1> DEFINE u == request[r].by
  <1>1. UNCHANGED <<user, session, assigned>>
    BY DEF Select, Rights
  <1>2. /\ \A s \in Request \ {r} : request'[s] = request[s]
        /\ request'[r].by = u /\ request'[r].on = x
    BY DEF Select, Step, Typed, Sound, RequestRow
  <1>3. u \in User /\ Exists(u)
    BY DEF Select, References, Typed, Sound
  <1>4. u \in Manager => x \in assigned[u]
    BY AccessAssumption DEF Select
  <1>5. QED
    BY <1>1, <1>2, <1>3, <1>4 DEF ContextInv, ContextIsAssigned, Exists

LEMMA updateWorkspaceUserContextInv ==
  ASSUME Typed, References, ContextInv, NEW r \in Request,
         updateWorkspaceUser(r)
  PROVE ContextInv'
  <1>1. \A v \in User : /\ session'[v].live => session'[v] = session[v]
                        /\ Exists(v)' => Exists(v)
                        /\ user[v].status # "NEW" => user'[v].status # "NEW"
    <2> SUFFICES ASSUME NEW v \in User
                 PROVE /\ session'[v].live => session'[v] = session[v]
                       /\ Exists(v)' => Exists(v)
                       /\ user[v].status # "NEW" => user'[v].status # "NEW"
      OBVIOUS
    <2>1. CASE UNCHANGED <<user, session>>
      BY <2>1 DEF Exists
    <2>2. CASE /\ user[request[r].on].status = "ACTIVE"
               /\ user' = [user EXCEPT ![request[r].on].status = "SUSPENDED"]
               /\ session' = Without(session, {request[r].on})
      BY <2>2 DEF Exists, Typed, UserRow, Without, NoSession
    <2>3. QED
      BY <2>1, <2>2 DEF updateWorkspaceUser
  <1>2. \A s \in Request :
          request'[s].pc = "selecting" => request'[s] = request[s]
    BY DEF updateWorkspaceUser, Ends, Step, Idle, Typed
  <1>3. assigned' = assigned
    BY DEF updateWorkspaceUser, Rights
  <1>4. \A m \in Manager : m \in User
    BY DEF User
  <1>5. QED
    BY <1>1, <1>2, <1>3, <1>4 DEF ContextInv, ContextIsAssigned

LEMMA ContextInvStep ==
  ASSUME Typed, References, ContextInv, Next
  PROVE ContextInv'
  <1>1. ASSUME NEW r \in Request, NEW u \in User, verifyPassword(r, u)
        PROVE ContextInv'
    BY <1>1
    DEF verifyPassword, Typed, Ends, Step, Idle, Rights, Invitations, Exists,
        ContextInv, ContextIsAssigned, MembershipIsFree, Sound, User
  <1>2. ASSUME NEW r \in Request, login(r)
        PROVE ContextInv'
    <2> DEFINE u == request[r].by
    <2>1. UNCHANGED <<user, assigned>>
      BY <1>2 DEF login, Rights
    <2>2. \A v \in User :
            IF v = u THEN session'[v].context = Nobody
            ELSE session'[v] = session[v]
      BY <1>2 DEF login, Typed, Session
    <2>3. \A s \in Request :
            request'[s].pc = "selecting" => request'[s] = request[s]
      BY <1>2 DEF login, Ends, Step, Idle, Typed
    <2>4. \A m \in Manager : m \in User
      BY DEF User
    <2>5. QED
      BY <2>1, <2>2, <2>3, <2>4 DEF ContextInv, ContextIsAssigned, Exists
  <1>3. ASSUME NEW r \in Request, NEW u \in User, auth(r, u)
        PROVE ContextInv'
    BY <1>3, authContextInv
  <1>4. ASSUME NEW u \in User, logout(u)
        PROVE ContextInv'
    BY <1>4
    DEF logout, Typed, Rights, Invitations, Exists, ContextInv,
        ContextIsAssigned, Sound, User
  <1>5. ASSUME NEW r \in Request, NEW x \in Context, Select(r, x)
        PROVE ContextInv'
    BY <1>5, SelectContextInv
  <1>6. ASSUME NEW r \in Request, setAuthContext(r)
        PROVE ContextInv'
    BY <1>6
    DEF setAuthContext, Typed, Ends, Step, Idle, Rights, Invitations, Exists,
        ContextInv, ContextIsAssigned, References, Without, NoSession,
        UserDeleted, NewUser, MembershipIsFree, Sound, User
  <1>7. ASSUME NEW r \in Request, NEW u \in User,
               NEW task \in {"suspend", "delete", "leave"},
               CountOwners(r, task, u)
        PROVE ContextInv'
    BY <1>7
    DEF CountOwners, Typed, Step, Rights, Invitations, Exists, ContextInv,
        ContextIsAssigned, Sound, User
  <1>8. ASSUME NEW r \in Request, updateWorkspaceUser(r)
        PROVE ContextInv'
    BY <1>8, updateWorkspaceUserContextInv
  <1>9. ASSUME NEW r \in Request, deleteWorkspaceUser(r)
        PROVE ContextInv'
    BY <1>9
    DEF deleteWorkspaceUser, Typed, Ends, Step, Idle, Rights, Invitations,
        Exists, Removing, ContextInv, ContextIsAssigned, Without, NoSession,
        UserDeleted, MembershipIsFree, Sound, User
  <1>10. ASSUME NEW r \in Request, selfDelete(r)
         PROVE ContextInv'
    BY <1>10
    DEF selfDelete, Typed, Ends, Step, Idle, Rights, Invitations, Exists,
        Removing, ContextInv, ContextIsAssigned, Without, NoSession,
        UserDeleted, MembershipIsFree, Sound, User
  <1>11. ASSUME NEW r \in Request, NEW p \in Profile, NEW u \in Creator,
                FindLogin(r, p, u)
         PROVE ContextInv'
    BY <1>11
    DEF FindLogin, Typed, Ends, Step, Idle, Rights, Invitations, Exists,
        ContextInv, ContextIsAssigned, MembershipIsFree, Sound, User
  <1>12. ASSUME NEW r \in Request, NEW p \in Profile, NEW u \in Creator,
                NEW e \in Email, CreateLogin(r, p, u, e)
         PROVE ContextInv'
    BY <1>12
    DEF CreateLogin, Typed, Ends, Step, Idle, Rights, Invitations, Exists,
        ContextInv, ContextIsAssigned, NewUser, MembershipIsFree, Sound, User
  <1>13. ASSUME NEW r \in Request, NEW p \in Profile, FindProfiles(r, p)
         PROVE ContextInv'
    BY <1>13
    DEF FindProfiles, Typed, Ends, Step, Idle, Rights, Invitations, Exists,
        ContextInv, ContextIsAssigned, MembershipIsFree, Sound, User
  <1>14. ASSUME NEW r \in Request, NEW p \in Profile, archiveCreator(r, p)
         PROVE ContextInv'
    BY <1>14
    DEF archiveCreator, Typed, Ends, Step, Idle, Rights, Invitations, Exists,
        ContextInv, ContextIsAssigned, MembershipIsFree, Sound, User
  <1>15. ASSUME NEW r \in Request, NEW p \in Profile, restoreCreator(r, p)
         PROVE ContextInv'
    BY <1>15
    DEF restoreCreator, Typed, Ends, Step, Idle, Rights, Invitations, Exists,
        ContextInv, ContextIsAssigned, MembershipIsFree, Sound, User
  <1>16. ASSUME NEW r \in Request, putCreatorLoginAccount(r)
         PROVE ContextInv'
    BY <1>16
    DEF putCreatorLoginAccount, Typed, Ends, Step, Idle, Rights, Invitations,
        Exists, ContextInv, ContextIsAssigned, Without, NoSession,
        MembershipIsFree, Sound, User
  <1>17. ASSUME NEW r \in Request, deleteCreator(r)
         PROVE ContextInv'
    BY <1>17
    DEF deleteCreator, Typed, Ends, Step, Idle, Rights, Invitations, Exists,
        ContextInv, ContextIsAssigned, Without, NoSession, UserDeleted,
        MembershipIsFree, Sound, User
  <1>18. ASSUME NEW r \in Request, NEW u \in User,
                resetWorkspaceUserPassword(r, u)
         PROVE ContextInv'
    BY <1>18
    DEF resetWorkspaceUserPassword, Typed, Ends, Step, Idle, Rights,
        Invitations, Exists, ContextInv, ContextIsAssigned, Without,
        NoSession, MembershipIsFree, Sound, User
  <1>19. ASSUME NEW r \in Request, NEW u \in User, NEW s,
                NEW e \in Email \cup {Nobody}, ChangeUser(r, u, s, e)
         PROVE ContextInv'
    BY <1>19
    DEF ChangeUser, Typed, Ends, Step, Idle, Rights, Invitations, Exists,
        ContextInv, ContextIsAssigned, Without, NoSession, MembershipIsFree,
        Sound, User
  <1>20. ASSUME NEW r \in Request, NEW u \in User, NEW e \in Email,
                NEW cs \in SUBSET Company, createWorkspaceUser(r, u, e, cs)
         PROVE ContextInv'
    BY <1>20
    DEF createWorkspaceUser, Typed, Ends, Step, Idle, Rights, Invitations,
        Exists, ContextInv, ContextIsAssigned, References, Without,
        NoSession, UserDeleted, NewUser, MembershipIsFree, Sound, User
  <1>21. ASSUME NEW r \in Request, NEW m \in Manager,
                NEW cs \in SUBSET Company,
                replaceManagerCompanyAssignments(r, m, cs)
         PROVE ContextInv'
    BY <1>21
    DEF replaceManagerCompanyAssignments, Typed, Ends, Step, Idle, Rights,
        Invitations, Exists, ContextInv, ContextIsAssigned, Without,
        NoSession, MembershipIsFree, Sound, User
  <1>22. ASSUME NEW r \in Request, NEW i \in Invitation,
                createInvitation(r, i)
         PROVE ContextInv'
    BY <1>22
    DEF createInvitation, Typed, Ends, Step, Idle, Rights, Invitations,
        Exists, ContextInv, ContextIsAssigned, MembershipIsFree, Sound, User
  <1>23. ASSUME NEW i \in Invitation, NEW u \in User, acceptInvitation(i, u)
         PROVE ContextInv'
    BY <1>23, AccessAssumption
    DEF acceptInvitation, Typed, Ends, Step, Idle, Rights, Invitations,
        Exists, Pending, ContextInv, ContextIsAssigned, References, Without,
        NoSession, UserDeleted, NewUser, MembershipIsFree, Sound, User
  <1>24. ASSUME NEW u \in User, EnsureBootstrap(u)
         PROVE ContextInv'
    BY <1>24, AccessAssumption
    DEF EnsureBootstrap, Typed, Rights, Invitations, Exists, ContextInv,
        ContextIsAssigned, NewUser, Sound, User
  <1>25. ASSUME NEW c \in Company, ArchiveOrRestore(c)
         PROVE ContextInv'
    BY <1>25
    DEF ArchiveOrRestore, Typed, Invitations, Exists, ContextInv,
        ContextIsAssigned, Sound, User
  <1>26. QED
    BY <1>1, <1>2, <1>3, <1>4, <1>5, <1>6, <1>7, <1>8, <1>9, <1>10, <1>11,
       <1>12, <1>13, <1>14, <1>15, <1>16, <1>17, <1>18, <1>19, <1>20, <1>21,
       <1>22, <1>23, <1>24, <1>25, Steps

-----------------------------------------------------------------------------
LEMMA SpentInvStep ==
  ASSUME Typed, SpentInv, Next
  PROVE SpentInv'
  <1>1. ASSUME NEW r \in Request, NEW u \in User, verifyPassword(r, u)
        PROVE SpentInv'
    BY <1>1
    DEF verifyPassword, Typed, Ends, Step, Idle, Rights, Invitations, Exists,
        SpentInv
  <1>2. ASSUME NEW r \in Request, login(r)
        PROVE SpentInv'
    BY <1>2
    DEF login, Typed, Ends, Step, Idle, Rights, Invitations, Exists, SpentInv
  <1>3. ASSUME NEW r \in Request, NEW u \in User, auth(r, u)
        PROVE SpentInv'
    BY <1>3, authEffect DEF SpentInv
  <1>4. ASSUME NEW u \in User, logout(u)
        PROVE SpentInv'
    BY <1>4 DEF logout, Typed, Rights, Invitations, SpentInv
  <1>5. ASSUME NEW r \in Request, NEW x \in Context, Select(r, x)
        PROVE SpentInv'
    BY <1>5
    DEF Select, Typed, Ends, Step, Idle, Rights, Invitations, Exists,
        SpentInv
  <1>6. ASSUME NEW r \in Request, setAuthContext(r)
        PROVE SpentInv'
    BY <1>6
    DEF setAuthContext, Typed, Ends, Step, Idle, Rights, Invitations, Exists,
        SpentInv
  <1>7. ASSUME NEW r \in Request, NEW u \in User,
               NEW task \in {"suspend", "delete", "leave"},
               CountOwners(r, task, u)
        PROVE SpentInv'
    BY <1>7
    DEF CountOwners, Typed, Step, Rights, Invitations, Exists, SpentInv
  <1>8. ASSUME NEW r \in Request, updateWorkspaceUser(r)
        PROVE SpentInv'
    BY <1>8
    DEF updateWorkspaceUser, Typed, Ends, Step, Idle, Rights, Invitations,
        Exists, Removing, SpentInv
  <1>9. ASSUME NEW r \in Request, deleteWorkspaceUser(r)
        PROVE SpentInv'
    BY <1>9
    DEF deleteWorkspaceUser, Typed, Ends, Step, Idle, Rights, Invitations,
        Exists, Removing, SpentInv
  <1>10. ASSUME NEW r \in Request, selfDelete(r)
         PROVE SpentInv'
    BY <1>10
    DEF selfDelete, Typed, Ends, Step, Idle, Rights, Invitations, Exists,
        Removing, SpentInv
  <1>11. ASSUME NEW r \in Request, NEW p \in Profile, NEW u \in Creator,
                FindLogin(r, p, u)
         PROVE SpentInv'
    BY <1>11
    DEF FindLogin, Typed, Ends, Step, Idle, Rights, Invitations, Exists,
        SpentInv
  <1>12. ASSUME NEW r \in Request, NEW p \in Profile, NEW u \in Creator,
                NEW e \in Email, CreateLogin(r, p, u, e)
         PROVE SpentInv'
    BY <1>12
    DEF CreateLogin, Typed, Ends, Step, Idle, Rights, Invitations, Exists,
        SpentInv
  <1>13. ASSUME NEW r \in Request, NEW p \in Profile, FindProfiles(r, p)
         PROVE SpentInv'
    BY <1>13
    DEF FindProfiles, Typed, Ends, Step, Idle, Rights, Invitations, Exists,
        SpentInv
  <1>14. ASSUME NEW r \in Request, NEW p \in Profile, archiveCreator(r, p)
         PROVE SpentInv'
    BY <1>14
    DEF archiveCreator, Typed, Ends, Step, Idle, Rights, Invitations, Exists,
        SpentInv
  <1>15. ASSUME NEW r \in Request, NEW p \in Profile, restoreCreator(r, p)
         PROVE SpentInv'
    BY <1>15
    DEF restoreCreator, Typed, Ends, Step, Idle, Rights, Invitations, Exists,
        SpentInv
  <1>16. ASSUME NEW r \in Request, putCreatorLoginAccount(r)
         PROVE SpentInv'
    BY <1>16
    DEF putCreatorLoginAccount, Typed, Ends, Step, Idle, Rights, Invitations,
        Exists, SpentInv
  <1>17. ASSUME NEW r \in Request, deleteCreator(r)
         PROVE SpentInv'
    BY <1>17
    DEF deleteCreator, Typed, Ends, Step, Idle, Rights, Invitations, Exists,
        SpentInv
  <1>18. ASSUME NEW r \in Request, NEW u \in User,
                resetWorkspaceUserPassword(r, u)
         PROVE SpentInv'
    BY <1>18
    DEF resetWorkspaceUserPassword, Typed, Ends, Step, Idle, Rights,
        Invitations, Exists, SpentInv
  <1>19. ASSUME NEW r \in Request, NEW u \in User, NEW s,
                NEW e \in Email \cup {Nobody}, ChangeUser(r, u, s, e)
         PROVE SpentInv'
    BY <1>19
    DEF ChangeUser, Typed, Ends, Step, Idle, Rights, Invitations, Exists,
        SpentInv
  <1>20. ASSUME NEW r \in Request, NEW u \in User, NEW e \in Email,
                NEW cs \in SUBSET Company, createWorkspaceUser(r, u, e, cs)
         PROVE SpentInv'
    BY <1>20
    DEF createWorkspaceUser, Typed, Ends, Step, Idle, Rights, Invitations,
        Exists, SpentInv
  <1>21. ASSUME NEW r \in Request, NEW m \in Manager,
                NEW cs \in SUBSET Company,
                replaceManagerCompanyAssignments(r, m, cs)
         PROVE SpentInv'
    BY <1>21
    DEF replaceManagerCompanyAssignments, Typed, Ends, Step, Idle, Rights,
        Invitations, Exists, SpentInv
  <1>22. ASSUME NEW r \in Request, NEW i \in Invitation,
                createInvitation(r, i)
         PROVE SpentInv'
    BY <1>22
    DEF createInvitation, Typed, Ends, Step, Idle, Rights, Invitations,
        Exists, SpentInv
  <1>23. ASSUME NEW i \in Invitation, NEW u \in User, acceptInvitation(i, u)
         PROVE SpentInv'
    BY <1>23, AccessAssumption
    DEF acceptInvitation, Typed, Exists, Pending, SpentInv
  <1>24. ASSUME NEW u \in User, EnsureBootstrap(u)
         PROVE SpentInv'
    BY <1>24, AccessAssumption
    DEF EnsureBootstrap, Typed, Rights, Invitations, Exists, SpentInv
  <1>25. ASSUME NEW c \in Company, ArchiveOrRestore(c)
         PROVE SpentInv'
    BY <1>25 DEF ArchiveOrRestore, Typed, Invitations, SpentInv
  <1>26. QED
    BY <1>1, <1>2, <1>3, <1>4, <1>5, <1>6, <1>7, <1>8, <1>9, <1>10, <1>11,
       <1>12, <1>13, <1>14, <1>15, <1>16, <1>17, <1>18, <1>19, <1>20, <1>21,
       <1>22, <1>23, <1>24, <1>25, Steps

-----------------------------------------------------------------------------
(* What a step may do to users, profiles and requests so that no login     *)
(* account is left behind.                                                 *)
UsersKept ==
  \A u \in User :
    /\ Exists(u)' => Exists(u) \/ user[u].status = "NEW"
    /\ u \in Creator /\ user[u].status = "NEW" /\ Exists(u)' =>
         \E p \in Profile : profile'[p].login = u
    /\ user[u].status # "NEW" => user'[u].status # "NEW"

RequestsKept == \A s \in Request : Taken(s)' => request'[s] = request[s]

LoginKept(p) ==
  LET u == profile[p].login
  IN  \/ profile'[p].login = u
      \/ /\ u \in User => ~(user'[u].status \in {"ACTIVE", "SUSPENDED"})
         /\ profile'[p].login = Nobody
      \/ /\ u = Nobody
         /\ \A s \in Request : Taken(s)' => request[s].on # p
      \/ /\ profile'[p].login = Nobody
         /\ \A s \in Request :
              request'[s].pc = "removing" => request[s].login # u
         /\ \E q \in Profile : profile'[q].login = u

LEMMA LoginsKept ==
  ASSUME Typed, LoginInv, UsersKept, RequestsKept,
         \A p \in Profile : LoginKept(p)
  PROVE LoginInv'
  <1>1. NoLoginIsLeftBehind'
    <2> SUFFICES ASSUME NEW u \in Creator, Exists(u)'
                 PROVE \E p \in Profile : profile'[p].login = u
      BY DEF NoLoginIsLeftBehind
    <2>1. u \in User /\ u # Nobody
      BY AccessAssumption DEF User
    <2>2. CASE Exists(u)
      <3>1. PICK p \in Profile : profile[p].login = u
        BY <2>2 DEF LoginInv, NoLoginIsLeftBehind
      <3>2. LoginKept(p)
        OBVIOUS
      <3>3. QED
        BY <2>1, <3>1, <3>2 DEF LoginKept, Exists
    <2>3. CASE user[u].status = "NEW"
      BY <2>1, <2>3 DEF UsersKept
    <2>4. QED
      BY <2>1, <2>2, <2>3 DEF UsersKept
  <1>2. \A s \in Request :
          (Taken(s)' => Taken(s)) /\ (Taken(s)' => request'[s] = request[s])
    BY DEF RequestsKept, Taken
  <1>3. \A r, s \in Request :
          Taken(r)' /\ Taken(s)' /\ request'[r].on = request'[s].on => r = s
    BY <1>2 DEF LoginInv
  <1>4. \A r, s \in Request :
          /\ request'[r].pc = "removing" /\ request'[s].pc = "removing"
          /\ request'[r].login = request'[s].login
          /\ request'[r].login # Nobody
          => r = s
    BY <1>2 DEF LoginInv, Taken
  <1>5. ASSUME NEW r \in Request, Taken(r)'
        PROVE profile'[request'[r].on].login \in {request'[r].login, Nobody}
    <2>1. request'[r] = request[r] /\ Taken(r)
      BY <1>2, <1>5
    <2>2. request[r].on \in Profile
      BY <2>1 DEF Taken, Typed, Sound
    <2>3. /\ LoginKept(request[r].on)
          /\ profile[request[r].on].login \in {request[r].login, Nobody}
      BY <2>1, <2>2 DEF LoginInv
    <2>4. QED
      BY <1>5, <2>1, <2>3 DEF LoginKept
  <1>6. ASSUME NEW r \in Request, request'[r].pc = "removing",
               request'[r].login # Nobody
        PROVE /\ user'[request'[r].login].status # "NEW"
              /\ request'[r].rest /\ user'[request'[r].login].status
                                       \in {"ACTIVE", "SUSPENDED"} =>
                   \E q \in Profile \ {request'[r].on} :
                     profile'[q].login = request'[r].login
    <2> DEFINE u == request[r].login
    <2>1. request'[r] = request[r] /\ Taken(r)'
      BY <1>2, <1>6 DEF Taken
    <2>2. u \in User /\ user[u].status # "NEW"
      BY <1>6, <2>1 DEF LoginInv, Typed, Sound, RequestRow, User
    <2>3. user'[u].status # "NEW"
      BY <2>2 DEF UsersKept
    <2>4. ASSUME request[r].rest, user'[u].status \in {"ACTIVE", "SUSPENDED"}
          PROVE \E q \in Profile \ {request[r].on} : profile'[q].login = u
      <3>1. Exists(u)
        BY <2>2, <2>4 DEF UsersKept, Exists
      <3>2. PICK q \in Profile \ {request[r].on} : profile[q].login = u
        BY <1>6, <2>1, <2>4, <3>1 DEF LoginInv
      <3>3. LoginKept(q)
        OBVIOUS
      <3>4. QED
        BY <1>6, <2>1, <2>2, <2>4, <3>2, <3>3 DEF LoginKept
    <2>5. QED
      BY <2>1, <2>3, <2>4
  <1>7. QED
    BY <1>1, <1>3, <1>4, <1>5, <1>6 DEF LoginInv, Exists, Taken

LEMMA EndsKept ==
  ASSUME Typed, NEW r \in Request, Ends(r)
  PROVE /\ RequestsKept /\ ~Taken(r)'
        /\ \A s \in Request : s # r => request'[s] = request[s]
  BY DEF Typed, Ends, Step, Idle, Taken, RequestsKept

LEMMA DeletedKept ==
  ASSUME Typed, NEW u \in User, UserDeleted(u) PROVE UsersKept
  BY DEF Typed, UserDeleted, UsersKept, Exists

LEMMA UnlinkedKept ==
  ASSUME Typed, NEW u \in User, UserDeleted(u), NEW p \in Profile,
         profile'[p] = Unlinked(u)[p]
  PROVE LoginKept(p)
  <1>1. CASE profile[p].login = u
    <2>1. profile'[p].login = Nobody
      BY <1>1 DEF Unlinked, Typed, ProfileRow
    <2>2. user'[u].status = "GONE"
      BY DEF UserDeleted, Typed
    <2>3. QED
      BY <1>1, <2>1, <2>2 DEF LoginKept
  <1>2. CASE profile[p].login # u
    BY <1>2 DEF Unlinked, LoginKept
  <1>3. QED
    BY <1>1, <1>2

LEMMA updateWorkspaceUserLoginInv ==
  ASSUME Typed, References, LoginInv, NEW r \in Request,
         updateWorkspaceUser(r)
  PROVE LoginInv'
  <1>1. UsersKept
    <2>1. CASE user' = user
      BY <2>1 DEF UsersKept, Exists
    <2>2. CASE /\ user[request[r].on].status = "ACTIVE"
               /\ user' = [user EXCEPT ![request[r].on].status = "SUSPENDED"]
      BY <2>2 DEF UsersKept, Exists, Typed, UserRow
    <2>3. QED
      BY <2>1, <2>2 DEF updateWorkspaceUser
  <1>2. RequestsKept /\ profile' = profile
    BY EndsKept DEF updateWorkspaceUser, Rights
  <1>3. QED
    BY <1>1, <1>2, LoginsKept DEF LoginKept

LEMMA deleteWorkspaceUserLoginInv ==
  ASSUME Typed, References, LoginInv, NEW r \in Request,
         deleteWorkspaceUser(r)
  PROVE LoginInv'
  <1> DEFINE u == request[r].on
  <1>1. RequestsKept
    BY EndsKept DEF deleteWorkspaceUser
  <1>2. CASE UNCHANGED <<user, session, assigned, profile>>
    BY <1>1, <1>2, LoginsKept DEF UsersKept, LoginKept, Exists
  <1>3. CASE UserDeleted(u) /\ profile' = Unlinked(u)
    <2>1. u \in User
      BY DEF deleteWorkspaceUser, Removing, Typed, Sound
    <2>2. QED
      BY <1>1, <1>3, <2>1, DeletedKept, UnlinkedKept, LoginsKept
  <1>4. QED
    BY <1>2, <1>3 DEF deleteWorkspaceUser

LEMMA selfDeleteLoginInv ==
  ASSUME Typed, References, LoginInv, NEW r \in Request, selfDelete(r)
  PROVE LoginInv'
  <1>1. RequestsKept /\ profile' = profile
    BY EndsKept DEF selfDelete
  <1>2. request[r].by \in User
    BY DEF selfDelete, Removing, Typed, Sound
  <1>3. UsersKept
    BY <1>2, DeletedKept DEF selfDelete, UsersKept, Exists
  <1>4. QED
    BY <1>1, <1>3, LoginsKept DEF LoginKept

LEMMA CreateLoginLoginInv ==
  ASSUME Typed, References, LoginInv, NEW r \in Request, NEW p \in Profile,
         NEW u \in Creator, NEW e \in Email, CreateLogin(r, p, u, e)
  PROVE LoginInv'
  <1>1. RequestsKept /\ ~Taken(r)'
    BY EndsKept DEF CreateLogin
  <1>2. /\ \A q \in Profile : q # p => profile'[q] = profile[q]
        /\ profile'[p].login = u /\ profile[p].login = Nobody
    BY DEF CreateLogin, Typed, ProfileRow
  <1>3. UsersKept
    BY <1>2 DEF CreateLogin, NewUser, UsersKept, Exists, Typed
  <1>4. \A s \in Request : Taken(s)' => request[s].on # p
    BY <1>1 DEF CreateLogin, ProfileIsFree, RequestsKept, Taken
  <1>5. QED
    BY <1>1, <1>2, <1>3, <1>4, LoginsKept DEF LoginKept

LEMMA putCreatorLoginAccountLoginInv ==
  ASSUME Typed, References, LoginInv, NEW r \in Request,
         putCreatorLoginAccount(r)
  PROVE LoginInv'
  <1> DEFINE p == request[r].on
             u == request[r].login
  <1>1. RequestsKept /\ ~Taken(r)'
    BY EndsKept DEF putCreatorLoginAccount
  <1>2. UsersKept
    BY DEF putCreatorLoginAccount, UsersKept, Exists
  <1>3. CASE profile' = profile
    BY <1>1, <1>2, <1>3, LoginsKept DEF LoginKept
  <1>4. CASE profile' = [profile EXCEPT ![p].login = u]
    <2>1. /\ \A q \in Profile : q # p => profile'[q] = profile[q]
          /\ p \in Profile => profile'[p].login = u
      BY <1>4 DEF Typed, ProfileRow
    <2>2. profile[p].login \in {u, Nobody} /\ Taken(r)
      BY DEF putCreatorLoginAccount, LoginInv, Taken
    <2>3. \A s \in Request : Taken(s)' => request[s].on # p
      BY <1>1, <2>2 DEF RequestsKept, LoginInv, Taken
    <2>4. \A q \in Profile : LoginKept(q)
      BY <2>1, <2>2, <2>3 DEF LoginKept
    <2>5. QED
      BY <1>1, <1>2, <2>4, LoginsKept
  <1>5. QED
    BY <1>3, <1>4 DEF putCreatorLoginAccount

LEMMA deleteCreatorLoginInv ==
  ASSUME Typed, References, LoginInv, NEW r \in Request, deleteCreator(r)
  PROVE LoginInv'
  <1> DEFINE u == request[r].login
             p == request[r].on
             buried == [state |-> "GONE", login |-> Nobody]
  <1>1. RequestsKept /\ ~Taken(r)'
    BY EndsKept DEF deleteCreator
  <1>2. /\ profile[p].login \in {u, Nobody} /\ Taken(r) /\ p \in Profile
        /\ u # Nobody => u \in User
    BY DEF deleteCreator, LoginInv, Taken, Typed, Sound, RequestRow, User
  <1>3. CASE /\ u = Nobody \/ request[r].rest
             /\ profile' = [profile EXCEPT ![p] = buried]
             /\ UNCHANGED <<user, session, assigned>>
    <2>1. /\ \A q \in Profile : q # p => profile'[q] = profile[q]
          /\ profile'[p].login = Nobody
      BY <1>2, <1>3 DEF Typed
    <2>2. LoginKept(p)
      <3>1. CASE profile[p].login = Nobody
        BY <2>1, <3>1 DEF LoginKept
      <3>2. CASE profile[p].login = u /\ u # Nobody
        <4>1. Exists(u)
          BY <1>2, <3>2 DEF References
        <4>2. PICK q \in Profile \ {p} : profile[q].login = u
          BY <1>3, <3>2, <4>1 DEF LoginInv, deleteCreator
        <4>3. \A s \in Request :
                request'[s].pc = "removing" => request[s].login # u
          BY <1>1, <3>2 DEF RequestsKept, LoginInv, Taken, deleteCreator
        <4>4. QED
          BY <2>1, <3>2, <4>2, <4>3 DEF LoginKept
      <3>3. QED
        BY <1>2, <3>1, <3>2
    <2>3. UsersKept
      BY <1>3 DEF UsersKept, Exists
    <2>4. \A q \in Profile : LoginKept(q)
      BY <2>1, <2>2 DEF LoginKept
    <2>5. QED
      BY <1>1, <2>3, <2>4, LoginsKept
  <1>4. CASE /\ u # Nobody /\ UserDeleted(u)
             /\ profile' = [Unlinked(u) EXCEPT ![p] = buried]
    <2>1. /\ \A q \in Profile : q # p => profile'[q] = Unlinked(u)[q]
          /\ profile'[p].login = Nobody
      BY <1>2, <1>4, UnlinkedTyped
    <2>2. user'[u].status = "GONE"
      BY <1>2, <1>4 DEF UserDeleted, Typed
    <2>3. LoginKept(p)
      BY <1>2, <2>1, <2>2 DEF LoginKept
    <2>4. \A q \in Profile : LoginKept(q)
      BY <1>2, <1>4, <2>1, <2>3, UnlinkedKept
    <2>5. QED
      BY <1>1, <1>2, <1>4, <2>4, DeletedKept, LoginsKept
  <1>5. QED
    BY <1>3, <1>4 DEF deleteCreator

LEMMA createWorkspaceUserLoginInv ==
  ASSUME Typed, References, LoginInv, NEW r \in Request, NEW u \in User,
         NEW e \in Email, NEW cs \in SUBSET Company,
         createWorkspaceUser(r, u, e, cs)
  PROVE LoginInv'
  <1>1. RequestsKept /\ profile' = profile
    BY EndsKept DEF createWorkspaceUser
  <1>2. UsersKept
    BY AccessAssumption
    DEF createWorkspaceUser, NewUser, UsersKept, Exists, Typed
  <1>3. QED
    BY <1>1, <1>2, LoginsKept DEF LoginKept

LEMMA LoginInvStep ==
  ASSUME Typed, References, LoginInv, Next
  PROVE LoginInv'
  <1>1. ASSUME NEW r \in Request, NEW u \in User, verifyPassword(r, u)
        PROVE LoginInv'
    BY <1>1
    DEF verifyPassword, Typed, Ends, Step, Idle, Rights, Invitations, Exists,
        LoginInv, NoLoginIsLeftBehind, Taken, Sound, User
  <1>2. ASSUME NEW r \in Request, login(r)
        PROVE LoginInv'
    BY <1>2
    DEF login, Typed, Ends, Step, Idle, Rights, Invitations, Exists,
        LoginInv, NoLoginIsLeftBehind, Taken, Sound, User
  <1>3. ASSUME NEW r \in Request, NEW u \in User, auth(r, u)
        PROVE LoginInv'
    BY <1>3, authEffect
    DEF Typed, LoginInv, NoLoginIsLeftBehind, Taken, Exists
  <1>4. ASSUME NEW u \in User, logout(u)
        PROVE LoginInv'
    BY <1>4
    DEF logout, Typed, Ends, Step, Idle, Rights, Invitations, Exists,
        LoginInv, NoLoginIsLeftBehind, Taken, Sound, User
  <1>5. ASSUME NEW r \in Request, NEW x \in Context, Select(r, x)
        PROVE LoginInv'
    BY <1>5
    DEF Select, Typed, Ends, Step, Idle, Rights, Invitations, Exists,
        LoginInv, NoLoginIsLeftBehind, Taken, Sound, User
  <1>6. ASSUME NEW r \in Request, setAuthContext(r)
        PROVE LoginInv'
    BY <1>6
    DEF setAuthContext, Typed, Ends, Step, Idle, Rights, Invitations, Exists,
        LoginInv, NoLoginIsLeftBehind, Taken, Sound, User
  <1>7. ASSUME NEW r \in Request, NEW u \in User,
               NEW task \in {"suspend", "delete", "leave"},
               CountOwners(r, task, u)
        PROVE LoginInv'
    BY <1>7
    DEF CountOwners, Typed, Ends, Step, Idle, Rights, Invitations, Exists,
        LoginInv, NoLoginIsLeftBehind, Taken, Sound, User
  <1>8. ASSUME NEW r \in Request, updateWorkspaceUser(r)
        PROVE LoginInv'
    BY <1>8, updateWorkspaceUserLoginInv
  <1>9. ASSUME NEW r \in Request, deleteWorkspaceUser(r)
        PROVE LoginInv'
    BY <1>9, deleteWorkspaceUserLoginInv
  <1>10. ASSUME NEW r \in Request, selfDelete(r)
         PROVE LoginInv'
    BY <1>10, selfDeleteLoginInv
  <1>11. ASSUME NEW r \in Request, NEW p \in Profile, NEW u \in Creator,
                FindLogin(r, p, u)
         PROVE LoginInv'
    BY <1>11
    DEF FindLogin, Typed, Ends, Step, Idle, Rights, Invitations, Exists,
        LoginInv, NoLoginIsLeftBehind, Taken, Sound, ProfileIsFree, User
  <1>12. ASSUME NEW r \in Request, NEW p \in Profile, NEW u \in Creator,
                NEW e \in Email, CreateLogin(r, p, u, e)
         PROVE LoginInv'
    BY <1>12, CreateLoginLoginInv
  <1>13. ASSUME NEW r \in Request, NEW p \in Profile, FindProfiles(r, p)
         PROVE LoginInv'
    BY <1>13
    DEF FindProfiles, Typed, Ends, Step, Idle, Rights, Invitations, Exists,
        LoginInv, NoLoginIsLeftBehind, Taken, Sound, UserDeleted, NewUser,
        ProfileIsFree, Unlinked, References, User, LoginIsFree
  <1>14. ASSUME NEW r \in Request, NEW p \in Profile, archiveCreator(r, p)
         PROVE LoginInv'
    BY <1>14
    DEF archiveCreator, Typed, Ends, Step, Idle, Rights, Invitations, Exists,
        LoginInv, NoLoginIsLeftBehind, Taken, Sound, ProfileIsFree, User
  <1>15. ASSUME NEW r \in Request, NEW p \in Profile, restoreCreator(r, p)
         PROVE LoginInv'
    BY <1>15
    DEF restoreCreator, Typed, Ends, Step, Idle, Rights, Invitations, Exists,
        LoginInv, NoLoginIsLeftBehind, Taken, Sound, ProfileIsFree, User
  <1>16. ASSUME NEW r \in Request, putCreatorLoginAccount(r)
         PROVE LoginInv'
    BY <1>16, putCreatorLoginAccountLoginInv
  <1>17. ASSUME NEW r \in Request, deleteCreator(r)
         PROVE LoginInv'
    BY <1>17, deleteCreatorLoginInv
  <1>18. ASSUME NEW r \in Request, NEW u \in User,
                resetWorkspaceUserPassword(r, u)
         PROVE LoginInv'
    BY <1>18
    DEF resetWorkspaceUserPassword, Typed, Ends, Step, Idle, Rights,
        Invitations, Exists, LoginInv, NoLoginIsLeftBehind, Taken, Sound,
        User
  <1>19. ASSUME NEW r \in Request, NEW u \in User, NEW s,
                NEW e \in Email \cup {Nobody}, ChangeUser(r, u, s, e)
         PROVE LoginInv'
    BY <1>19
    DEF ChangeUser, Typed, Ends, Step, Idle, Rights, Invitations, Exists,
        LoginInv, NoLoginIsLeftBehind, Taken, Sound, User
  <1>20. ASSUME NEW r \in Request, NEW u \in User, NEW e \in Email,
                NEW cs \in SUBSET Company, createWorkspaceUser(r, u, e, cs)
         PROVE LoginInv'
    BY <1>20, createWorkspaceUserLoginInv
  <1>21. ASSUME NEW r \in Request, NEW m \in Manager,
                NEW cs \in SUBSET Company,
                replaceManagerCompanyAssignments(r, m, cs)
         PROVE LoginInv'
    BY <1>21
    DEF replaceManagerCompanyAssignments, Typed, Ends, Step, Idle, Rights,
        Invitations, Exists, LoginInv, NoLoginIsLeftBehind, Taken, Sound,
        User
  <1>22. ASSUME NEW r \in Request, NEW i \in Invitation,
                createInvitation(r, i)
         PROVE LoginInv'
    BY <1>22
    DEF createInvitation, Typed, Ends, Step, Idle, Rights, Invitations,
        Exists, LoginInv, NoLoginIsLeftBehind, Taken, Sound, User
  <1>23. ASSUME NEW i \in Invitation, NEW u \in User, acceptInvitation(i, u)
         PROVE LoginInv'
    BY <1>23, AccessAssumption
    DEF acceptInvitation, Typed, Ends, Step, Idle, Rights, Invitations,
        Exists, Pending, LoginInv, NoLoginIsLeftBehind, Taken, Sound,
        NewUser, User
  <1>24. ASSUME NEW u \in User, EnsureBootstrap(u)
         PROVE LoginInv'
    BY <1>24, AccessAssumption
    DEF EnsureBootstrap, Typed, Ends, Step, Idle, Rights, Invitations,
        Exists, LoginInv, NoLoginIsLeftBehind, Taken, Sound, NewUser, User
  <1>25. ASSUME NEW c \in Company, ArchiveOrRestore(c)
         PROVE LoginInv'
    BY <1>25
    DEF ArchiveOrRestore, Typed, Ends, Step, Idle, Rights, Invitations,
        Exists, LoginInv, NoLoginIsLeftBehind, Taken, Sound, User
  <1>26. QED
    BY <1>1, <1>2, <1>3, <1>4, <1>5, <1>6, <1>7, <1>8, <1>9, <1>10, <1>11,
       <1>12, <1>13, <1>14, <1>15, <1>16, <1>17, <1>18, <1>19, <1>20, <1>21,
       <1>22, <1>23, <1>24, <1>25, Steps

-----------------------------------------------------------------------------
(* Every step keeps to the types.                                          *)
LEMMA TypedStep ==
  ASSUME Typed, Next PROVE Typed'
  <1>1. ASSUME NEW r \in Request, NEW u \in User, verifyPassword(r, u)
        PROVE Typed'
    BY <1>1, verifyPasswordTyped
  <1>2. ASSUME NEW r \in Request, login(r)
        PROVE Typed'
    BY <1>2, loginTyped
  <1>3. ASSUME NEW r \in Request, NEW u \in User, auth(r, u)
        PROVE Typed'
    BY <1>3, authTyped
  <1>4. ASSUME NEW u \in User, logout(u)
        PROVE Typed'
    BY <1>4, logoutTyped
  <1>5. ASSUME NEW r \in Request, NEW x \in Context, Select(r, x)
        PROVE Typed'
    BY <1>5, SelectTyped
  <1>6. ASSUME NEW r \in Request, setAuthContext(r)
        PROVE Typed'
    BY <1>6, setAuthContextTyped
  <1>7. ASSUME NEW r \in Request, NEW u \in User,
               NEW task \in {"suspend", "delete", "leave"},
               CountOwners(r, task, u)
        PROVE Typed'
    BY <1>7, CountOwnersTyped
  <1>8. ASSUME NEW r \in Request, updateWorkspaceUser(r)
        PROVE Typed'
    BY <1>8, updateWorkspaceUserTyped
  <1>9. ASSUME NEW r \in Request, deleteWorkspaceUser(r)
        PROVE Typed'
    BY <1>9, deleteWorkspaceUserTyped
  <1>10. ASSUME NEW r \in Request, selfDelete(r)
         PROVE Typed'
    BY <1>10, selfDeleteTyped
  <1>11. ASSUME NEW r \in Request, NEW p \in Profile, NEW u \in Creator,
                FindLogin(r, p, u)
         PROVE Typed'
    BY <1>11, FindLoginTyped
  <1>12. ASSUME NEW r \in Request, NEW p \in Profile, NEW u \in Creator,
                NEW e \in Email, CreateLogin(r, p, u, e)
         PROVE Typed'
    BY <1>12, CreateLoginTyped
  <1>13. ASSUME NEW r \in Request, NEW p \in Profile, FindProfiles(r, p)
         PROVE Typed'
    BY <1>13, FindProfilesTyped
  <1>14. ASSUME NEW r \in Request, NEW p \in Profile, archiveCreator(r, p)
         PROVE Typed'
    BY <1>14, archiveCreatorTyped
  <1>15. ASSUME NEW r \in Request, NEW p \in Profile, restoreCreator(r, p)
         PROVE Typed'
    BY <1>15, archiveCreatorTyped
  <1>16. ASSUME NEW r \in Request, putCreatorLoginAccount(r)
         PROVE Typed'
    BY <1>16, putCreatorLoginAccountTyped
  <1>17. ASSUME NEW r \in Request, deleteCreator(r)
         PROVE Typed'
    BY <1>17, deleteCreatorTyped
  <1>18. ASSUME NEW r \in Request, NEW u \in User,
                resetWorkspaceUserPassword(r, u)
         PROVE Typed'
    BY <1>18, resetWorkspaceUserPasswordTyped
  <1>19. ASSUME NEW r \in Request, NEW u \in User, NEW s,
                NEW e \in Email \cup {Nobody}, ChangeUser(r, u, s, e)
         PROVE Typed'
    BY <1>19, ChangeUserTyped
  <1>20. ASSUME NEW r \in Request, NEW u \in User, NEW e \in Email,
                NEW cs \in SUBSET Company, createWorkspaceUser(r, u, e, cs)
         PROVE Typed'
    BY <1>20, createWorkspaceUserTyped
  <1>21. ASSUME NEW r \in Request, NEW m \in Manager,
                NEW cs \in SUBSET Company,
                replaceManagerCompanyAssignments(r, m, cs)
         PROVE Typed'
    BY <1>21, replaceManagerCompanyAssignmentsTyped
  <1>22. ASSUME NEW r \in Request, NEW i \in Invitation,
                createInvitation(r, i)
         PROVE Typed'
    BY <1>22, createInvitationTyped
  <1>23. ASSUME NEW i \in Invitation, NEW u \in User, acceptInvitation(i, u)
         PROVE Typed'
    BY <1>23, acceptInvitationTyped
  <1>24. ASSUME NEW u \in User, EnsureBootstrap(u)
         PROVE Typed'
    BY <1>24, EnsureBootstrapTyped
  <1>25. ASSUME NEW c \in Company, ArchiveOrRestore(c)
         PROVE Typed'
    BY <1>25, ArchiveOrRestoreTyped
  <1>26. QED
    BY <1>1, <1>2, <1>3, <1>4, <1>5, <1>6, <1>7, <1>8, <1>9, <1>10, <1>11,
       <1>12, <1>13, <1>14, <1>15, <1>16, <1>17, <1>18, <1>19, <1>20, <1>21,
       <1>22, <1>23, <1>24, <1>25, Steps

-----------------------------------------------------------------------------
Inv ==
  /\ Typed /\ References /\ Unique
  /\ OwnersInv /\ ContextInv /\ SpentInv /\ LoginInv

LEMMA TypedInit == ASSUME Init PROVE Typed
  <1>1. user \in [User -> UserRow]
    BY AccessAssumption DEF Init, NoUser, UserRow
  <1>2. session \in [User -> Session]
    BY DEF Init, NoSession, Session
  <1>3. profile \in [Profile -> ProfileRow]
    BY DEF Init, ProfileRow
  <1>4. request \in [Request -> Sound]
    BY IdleTyped DEF Init
  <1>5. QED
    BY <1>1, <1>2, <1>3, <1>4 DEF Init, Typed

LEMMA InvInit == ASSUME Init PROVE Inv
  <1>1. \A r \in Request : request[r].pc = "idle"
    BY DEF Init, Idle
  <1>2. \A p \in Profile : profile[p].login = Nobody
    BY DEF Init
  <1>3. References
    BY <1>2 DEF Init, References, NoSession
  <1>4. Unique
    <2>1. \A u \in User : Exists(u) =>
            u \in DOMAIN EmailOf /\ user[u].email = EmailOf[u]
      BY DEF Init, Exists, NoUser
    <2>2. QED
      BY <1>2, <2>1, AccessAssumption DEF Unique
  <1>5. OwnersInv
    <2>1. PICK o : o \in Owner \cap DOMAIN EmailOf \cap open
      BY AccessAssumption DEF Init
    <2>2. o \in ActiveOwners
      BY <2>1 DEF Init, ActiveOwners, User
    <2>3. QED
      BY <1>1, <2>2 DEF OwnersInv, AnOwnerStays, Counted
  <1>6. ContextInv
    BY <1>1 DEF Init, ContextInv, ContextIsAssigned, NoSession, User
  <1>7. SpentInv
    BY DEF Init, SpentInv
  <1>8. LoginInv
    <2>1. \A u \in Creator : ~Exists(u)
      BY AccessAssumption DEF Init, Exists, NoUser, User
    <2>2. QED
      BY <1>1, <2>1 DEF LoginInv, NoLoginIsLeftBehind, Taken
  <1>9. QED
    BY <1>3, <1>4, <1>5, <1>6, <1>7, <1>8, TypedInit DEF Inv

LEMMA InvStep == ASSUME Inv, [Next]_vars PROVE Inv'
  <1>1. CASE Next
    BY <1>1, TypedStep, ReferencesStep, UniqueStep, OwnersInvStep,
       ContextInvStep, SpentInvStep, LoginInvStep DEF Inv
  <1>2. CASE UNCHANGED vars
    BY <1>2 DEF vars, Inv, Typed, Exists, References, Unique, OwnersInv,
                AnOwnerStays, ActiveOwners, Counted, ContextInv,
                ContextIsAssigned, SpentInv, LoginInv, NoLoginIsLeftBehind,
                Taken
  <1>3. QED
    BY <1>1, <1>2

(* The invariant that the others follow from.                              *)
THEOREM AccessInvariant == Spec => []Inv
  <1>1. Init => Inv
    BY InvInit
  <1>2. Inv /\ [Next]_vars => Inv'
    BY InvStep
  <1>3. QED
    BY <1>1, <1>2, PTL DEF Spec

LEMMA InvTypes == ASSUME Inv PROVE TypeOK
  <1>1. request \in [Request -> RequestRow]
    BY DEF Inv, Typed, Sound
  <1>2. made \in [Invitation -> 0 .. 2]
    BY DEF Inv, Typed, SpentInv
  <1>3. ASSUME NEW e \in Email PROVE Cardinality(Holders(e)) <= 1
    <2>1. CASE Holders(e) = {}
      BY <2>1, FS_EmptySet
    <2>2. CASE Holders(e) # {}
      <3>1. PICK u \in User : Exists(u) /\ user[u].email = e
        BY <2>2 DEF Holders
      <3>2. Holders(e) = {u}
        BY <3>1 DEF Holders, Inv, Unique
      <3>3. Cardinality({u}) = 1
        BY FS_Singleton
      <3>4. QED
        BY <3>2, <3>3
    <2>3. QED
      BY <2>1, <2>2
  <1>4. QED
    BY <1>1, <1>2, <1>3 DEF TypeOK, Inv, Typed, References, Unique

(* Types, unique emails, one profile of a login in each company, and       *)
(* references that end with their user: for every team, every company and  *)
(* any number of requests.                                                 *)
THEOREM AccessTypeCorrect == Spec => []TypeOK
  <1>1. Inv => TypeOK
    BY InvTypes
  <1>2. QED
    BY <1>1, AccessInvariant, PTL

(* A workspace in use always has an active owner.                          *)
THEOREM AnOwnerAlwaysStays == Spec => []AnOwnerStays
  <1>1. Inv => AnOwnerStays
    BY DEF Inv, OwnersInv
  <1>2. QED
    BY <1>1, AccessInvariant, PTL

(* A manager's selected company is always an assigned one.                 *)
THEOREM ContextsAreAssigned == Spec => []ContextIsAssigned
  <1>1. Inv => ContextIsAssigned
    BY DEF Inv, ContextInv
  <1>2. QED
    BY <1>1, AccessInvariant, PTL

(* A login account of a creator always has a profile.                      *)
THEOREM LoginsHaveProfiles == Spec => []NoLoginIsLeftBehind
  <1>1. Inv => NoLoginIsLeftBehind
    BY DEF Inv, LoginInv
  <1>2. QED
    BY <1>1, AccessInvariant, PTL

(* An invitation never makes a second account.                             *)
THEOREM InvitationsMakeOneAccount == Spec => []InvitationsAreSpent
  <1>1. Inv => InvitationsAreSpent
    BY DEF Inv, SpentInv, InvitationsAreSpent
  <1>2. QED
    BY <1>1, AccessInvariant, PTL
=====
