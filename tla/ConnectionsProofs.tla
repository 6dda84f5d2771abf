------------------------- MODULE ConnectionsProofs --------------------------
(***************************************************************************)
(* Connections keeps what it promises for any accounts, creators, flows    *)
(* and workers.  The invariant says what a flow and a worker may rely on   *)
(* between two of their transactions: a flow that was overtaken knows an   *)
(* older generation than the connection has; a refresh in flight is alone, *)
(* in an active company, with the token it read; a mark that was overtaken *)
(* finds a token that does not expire.                                     *)
(***************************************************************************)
EXTENDS ConnectionsProperties, TLAPS

Typed ==
  /\ company \in {"ACTIVE", "ARCHIVED"}
  /\ open \in Scopes
  /\ status \in [Account -> {"NONE", "ACTIVE", "PAUSED", "REAUTH_REQUIRED",
                             "DISCONNECTED"}]
  /\ owner \in [Account -> Owner \cup {Nobody}]
  /\ conn \in [Account -> Conn]
  /\ rows \in [Account -> Rows]
  /\ flow \in [Flow -> FlowState]
  /\ job \in [Worker -> JobState]
  /\ kept \in SUBSET Account

ConnInv ==
  \A a \in Account :
    /\ conn[a].suspended => company = "ARCHIVED" /\ conn[a].status = "PAUSED"
    /\ conn[a].expiring => conn[a].status # "NONE"

(* An account of a state is a known one, and a flow that is not bound to   *)
(* one is never overtaken.                                                 *)
FlowInv ==
  \A f \in Flow :
    /\ flow[f].acct = NoAccount => flow[f].newer = "no"
    /\ flow[f].acct # NoAccount =>
         /\ flow[f].newer = "no" => flow[f].gen <= conn[flow[f].acct].gen
         /\ flow[f].newer = "yes" => flow[f].gen < conn[flow[f].acct].gen

JobInv ==
  /\ \A w \in Worker : job[w].pc # "idle" => job[w].acct \in Account
  /\ \A w \in Worker : job[w].pc = "refresh" =>
       company = "ACTIVE" /\ ~job[w].stale
  /\ \A w, v \in Worker :
       job[w].pc = "refresh" /\ job[v].pc = "refresh" => w = v
  /\ \A w \in Worker : job[w].pc = "mark" /\ job[w].stale =>
       ~conn[job[w].acct].expiring

IInv == Typed /\ ConnInv /\ ArchivedHoldsNothing /\ FlowInv /\ JobInv

-----------------------------------------------------------------------------
(* Rows.                                                                   *)

LEMMA RowsTyped ==
  /\ NoConn \in Conn /\ NoRows \in Rows /\ NoFlow \in FlowState
  /\ NoJob \in JobState
  BY ConnectionsAssumption
  DEF NoConn, Conn, NoRows, Rows, NoFlow, FlowState, NoJob, JobState

(* A connection that is saved, or suspended by an archive.                 *)
LEMMA FreshConn ==
  ASSUME NEW c \in Conn
  PROVE  [c EXCEPT !.status = "ACTIVE", !.expiring = FALSE] \in Conn
  BY DEF Conn

LEMMA SuspendedConn ==
  ASSUME NEW c \in Conn
  PROVE  LET s == [c EXCEPT !.status = "PAUSED", !.suspended = TRUE]
         IN  /\ s \in Conn /\ s.status = "PAUSED"
             /\ s.gen = c.gen /\ s.expiring = c.expiring
  BY DEF Conn

(* A process that has read a token which is replaced.                      *)
LEMMA StaleJob ==
  ASSUME NEW j \in JobState
  PROVE  LET s == [j EXCEPT !.stale = TRUE]
         IN  s \in JobState /\ s.pc = j.pc /\ s.acct = j.acct
  BY DEF JobState

(* A transaction that writes only what a flow remembers.                   *)
LEMMA FlowStepInv ==
  ASSUME IInv, NEW f \in Flow, NEW new \in FlowState, FlowStep(f, new),
         \/ new = NoFlow
         \/ /\ new.acct = flow[f].acct /\ new.gen = flow[f].gen
            /\ new.newer = flow[f].newer,
         new.pc \in {"pending", "select"} => company = "ACTIVE"
  PROVE IInv'
  <1>1. \A g \in Flow : flow'[g] = IF g = f THEN new ELSE flow[g]
    BY DEF FlowStep, IInv, Typed
  <1>2. Typed'
    <2>1. flow' \in [Flow -> FlowState]
      BY DEF FlowStep, IInv, Typed
    <2>2. QED
      BY <2>1 DEF FlowStep, IInv, Typed
  <1>3. ConnInv' /\ JobInv'
    BY DEF FlowStep, IInv, ConnInv, JobInv
  <1>4. FlowInv'
    <2>1. NoFlow.acct = NoAccount /\ NoFlow.newer = "no"
      BY DEF NoFlow
    <2>2. conn' = conn
      BY DEF FlowStep
    <2>3. QED
      BY <1>1, <2>1, <2>2 DEF IInv, FlowInv
  <1>5. ArchivedHoldsNothing'
    <2>1. NoFlow.pc = "idle"
      BY DEF NoFlow
    <2>2. company' = company /\ conn' = conn /\ rows' = rows
      BY DEF FlowStep
    <2>3. QED
      BY <1>1, <2>1, <2>2 DEF IInv, ArchivedHoldsNothing
  <1>6. QED
    BY <1>2, <1>3, <1>4, <1>5 DEF IInv

(* A transaction that writes only what a worker remembers.                 *)
LEMMA JobStepInv ==
  ASSUME IInv, NEW w \in Worker, NEW new \in JobState, JobStep(w, new),
         new.pc # "idle" => new.acct \in Account,
         new.pc = "refresh" => company = "ACTIVE" /\ ~new.stale /\ Unlocked,
         new.pc = "mark" => ~new.stale
  PROVE IInv'
  <1>1. \A v \in Worker : job'[v] = IF v = w THEN new ELSE job[v]
    BY DEF JobStep, IInv, Typed
  <1>2. Typed'
    <2>1. job' \in [Worker -> JobState]
      BY DEF JobStep, IInv, Typed
    <2>2. QED
      BY <2>1 DEF JobStep, IInv, Typed
  <1>3. ConnInv' /\ FlowInv' /\ ArchivedHoldsNothing'
    BY DEF JobStep, IInv, ConnInv, FlowInv, ArchivedHoldsNothing
  <1>4. JobInv'
    <2>1. company' = company /\ conn' = conn
      BY DEF JobStep
    <2>2. QED
      BY <1>1, <2>1 DEF IInv, JobInv, Unlocked
  <1>5. QED
    BY <1>2, <1>3, <1>4 DEF IInv

(* A command that writes neither connections nor memories.                 *)
LEMMA CommandInv ==
  ASSUME IInv, CompanyHeld, UNCHANGED <<company, open, conn, flow, job, kept>>,
         status' \in [Account -> {"NONE", "ACTIVE", "PAUSED",
                                  "REAUTH_REQUIRED", "DISCONNECTED"}],
         owner' \in [Account -> Owner \cup {Nobody}],
         rows' \in [Account -> Rows]
  PROVE IInv'
  <1>1. Typed'
    BY DEF IInv, Typed
  <1>2. ConnInv' /\ FlowInv' /\ JobInv'
    BY DEF IInv, ConnInv, FlowInv, JobInv
  <1>3. ArchivedHoldsNothing'
    BY DEF CompanyHeld, ArchivedHoldsNothing
  <1>4. QED
    BY <1>1, <1>2, <1>3 DEF IInv

-----------------------------------------------------------------------------
(* Flows.                                                                  *)

LEMMA BeginInv ==
  ASSUME IInv, NEW f \in Flow, NEW o \in Owner, Begin(f, o) PROVE IInv'
  <1> DEFINE Started(acct, gen) ==
        [NoFlow EXCEPT !.pc = "pending", !.owner = o, !.acct = acct,
                       !.gen = gen]
  <1>0. company = "ACTIVE" /\ UNCHANGED <<company, open, status, owner, rows,
                                          job, kept>>
    BY DEF Begin, CompanyHeld
  <1>1. CASE flow' = Begun(f, o, NoAccount, 0) /\ UNCHANGED conn
    <2>1. Started(NoAccount, 0) \in FlowState
      <3>1. 0 \in 0 .. MaxGen
        BY ConnectionsAssumption
      <3>2. QED
        BY <3>1 DEF NoFlow, FlowState
    <2>2. flow' = [g \in Flow |-> IF g = f THEN Started(NoAccount, 0)
                                  ELSE flow[g]]
      BY <1>1 DEF Begun
    <2>3. flow' \in [Flow -> FlowState]
      BY <2>1, <2>2 DEF IInv, Typed
    <2>4. Typed' /\ ConnInv' /\ JobInv' /\ ArchivedHoldsNothing'
      BY <1>0, <1>1, <2>3
      DEF IInv, Typed, ConnInv, JobInv, ArchivedHoldsNothing
    <2>5. /\ Started(NoAccount, 0).acct = NoAccount
          /\ Started(NoAccount, 0).newer = "no"
      BY DEF NoFlow
    <2>6. FlowInv'
      BY <1>1, <2>2, <2>5 DEF IInv, FlowInv
    <2>7. QED
      BY <2>4, <2>6 DEF IInv
  <1>2. ASSUME NEW a \in Account, conn[a].gen < MaxGen,
               conn' = [conn EXCEPT ![a].gen = @ + 1],
               flow' = Begun(f, o, a, conn[a].gen + 1)
        PROVE IInv'
    <2> DEFINE n == conn[a].gen + 1
    <2>1. conn[a] \in Conn /\ n \in 0 .. MaxGen /\ conn[a].gen \in Nat
      BY <1>2, ConnectionsAssumption DEF IInv, Typed, Conn
    <2>2. [conn[a] EXCEPT !.gen = n] \in Conn
      BY <2>1 DEF Conn
    <2>3. conn' \in [Account -> Conn]
      BY <1>2, <2>2 DEF IInv, Typed
    <2>4. \A b \in Account :
            /\ conn'[b].status = conn[b].status
            /\ conn'[b].suspended = conn[b].suspended
            /\ conn'[b].expiring = conn[b].expiring
            /\ conn'[b].gen = IF b = a THEN n ELSE conn[b].gen
      BY <1>2 DEF IInv, Typed, Conn
    <2>5. Started(a, n) \in FlowState
      BY <2>1, ConnectionsAssumption DEF NoFlow, FlowState
    <2>6. \A g \in Flow :
            flow'[g] = IF g = f THEN Started(a, n)
                       ELSE IF flow[g].acct = a /\ flow[g].newer = "no"
                       THEN [flow[g] EXCEPT !.newer = "yes"] ELSE flow[g]
      BY <1>2, ConnectionsAssumption DEF Begun
    <2>7. \A g \in Flow : [flow[g] EXCEPT !.newer = "yes"] \in FlowState
      BY DEF IInv, Typed, FlowState
    <2>8. flow' \in [Flow -> FlowState]
      BY <1>2, <2>5, <2>6, <2>7 DEF Begun, IInv, Typed
    <2>9. Typed' /\ ConnInv' /\ JobInv' /\ ArchivedHoldsNothing'
      <3>1. Typed'
        BY <1>0, <2>3, <2>8 DEF IInv, Typed
      <3>2. ConnInv' /\ ArchivedHoldsNothing'
        BY <1>0, <2>4 DEF IInv, ConnInv, ArchivedHoldsNothing
      <3>3. JobInv'
        BY <1>0, <2>4 DEF IInv, JobInv
      <3>4. QED
        BY <3>1, <3>2, <3>3
    <2>10. FlowInv'
      <3> SUFFICES ASSUME NEW g \in Flow
                   PROVE /\ flow'[g].acct = NoAccount => flow'[g].newer = "no"
                         /\ flow'[g].acct # NoAccount =>
                              /\ flow'[g].newer = "no" =>
                                   flow'[g].gen <= conn'[flow'[g].acct].gen
                              /\ flow'[g].newer = "yes" =>
                                   flow'[g].gen < conn'[flow'[g].acct].gen
        BY DEF FlowInv
      <3>1. /\ flow[g] \in FlowState /\ flow[g].gen \in Nat
            /\ flow[g].acct \in Account \cup {NoAccount}
        BY ConnectionsAssumption DEF IInv, Typed, FlowState
      <3>2. /\ flow[g].acct = NoAccount => flow[g].newer = "no"
            /\ flow[g].acct # NoAccount =>
                 /\ flow[g].newer = "no" =>
                      flow[g].gen <= conn[flow[g].acct].gen
                 /\ flow[g].newer = "yes" =>
                      flow[g].gen < conn[flow[g].acct].gen
        BY DEF IInv, FlowInv
      <3>3. CASE g = f
        <4>1. /\ Started(a, n).acct = a /\ Started(a, n).gen = n
              /\ Started(a, n).newer = "no"
          BY DEF NoFlow
        <4>2. flow'[g] = Started(a, n) /\ conn'[a].gen = n
          BY <2>4, <2>6, <3>3
        <4>3. a # NoAccount
          BY ConnectionsAssumption
        <4> HIDE DEF Started
        <4>4. QED
          BY <2>1, <4>1, <4>2, <4>3
      <3>4. CASE g # f /\ flow[g].acct = a /\ flow[g].newer = "no"
        <4>1. flow'[g] = [flow[g] EXCEPT !.newer = "yes"]
          BY <2>6, <3>4
        <4>2. /\ flow'[g].acct = a /\ flow'[g].gen = flow[g].gen
              /\ flow'[g].newer = "yes"
          BY <3>1, <3>4, <4>1 DEF FlowState
        <4>3. conn'[a].gen = conn[a].gen + 1 /\ flow[g].gen <= conn[a].gen
          BY <2>4, <3>2, <3>4, ConnectionsAssumption
        <4>4. QED
          BY <2>1, <3>1, <4>2, <4>3, ConnectionsAssumption
      <3>5. CASE g # f /\ ~(flow[g].acct = a /\ flow[g].newer = "no")
        <4>1. flow'[g] = flow[g]
          BY <2>6, <3>5
        <4>2. flow[g].acct # NoAccount =>
                /\ conn[flow[g].acct].gen \in Nat
                /\ conn[flow[g].acct].gen <= conn'[flow[g].acct].gen
          <5>1. \A b \in Account : conn[b].gen \in 0 .. MaxGen
            BY DEF IInv, Typed, Conn
          <5>2. MaxGen \in Nat
            BY ConnectionsAssumption
          <5>3. QED
            BY <2>1, <2>4, <3>1, <5>1, <5>2
        <4>3. flow[g].acct # NoAccount => conn'[flow[g].acct].gen \in Nat
          BY <2>3, <3>1, ConnectionsAssumption DEF Conn
        <4>4. QED
          BY <3>1, <3>2, <4>1, <4>2, <4>3
      <3>6. QED
        BY <3>3, <3>4, <3>5
    <2>11. QED
      BY <2>9, <2>10 DEF IInv
  <1>3. QED
    BY <1>1, <1>2 DEF Begin

(* The accounts S are saved: their connections are fresh, and whoever has  *)
(* read a token of theirs has an old one.                                  *)
LEMMA SaveAllInv ==
  ASSUME IInv, NEW f \in Flow, NEW S \in SUBSET Account, NEW owners,
         owners \in [Account -> Owner \cup {Nobody}], SaveAll(f, S, owners)
  PROVE IInv'
  <1>0. /\ company = "ACTIVE" /\ company' = company /\ Unlocked
        /\ UNCHANGED <<open, kept>>
    BY DEF SaveAll, CompanyHeld
  <1>1. \A a \in Account :
          conn'[a] = IF a \in S THEN [conn[a] EXCEPT !.status = "ACTIVE",
                                                     !.expiring = FALSE]
                                ELSE conn[a]
    BY DEF SaveAll
  <1>2. \A a \in Account :
          /\ conn[a] \in Conn
          /\ [conn[a] EXCEPT !.status = "ACTIVE", !.expiring = FALSE] \in Conn
    <2>1. \A a \in Account : conn[a] \in Conn
      BY DEF IInv, Typed
    <2>2. QED
      BY <2>1, FreshConn
  <1>3. \A a \in Account :
          /\ conn'[a].gen = conn[a].gen
          /\ conn'[a].suspended = conn[a].suspended
          /\ conn'[a].expiring => conn[a].expiring /\ a \notin S
          /\ a \notin S => conn'[a] = conn[a]
    BY <1>1, <1>2 DEF Conn
  <1>4. \A w \in Worker :
          job'[w] = IF job[w].acct \in S THEN [job[w] EXCEPT !.stale = TRUE]
                                         ELSE job[w]
    BY DEF SaveAll, Outdated
  <1>5. \A w \in Worker :
          /\ job[w] \in JobState /\ [job[w] EXCEPT !.stale = TRUE] \in JobState
    <2>1. \A w \in Worker : job[w] \in JobState
      BY DEF IInv, Typed
    <2>2. QED
      BY <2>1, StaleJob
  <1>6. \A w \in Worker :
          /\ job'[w].pc = job[w].pc /\ job'[w].acct = job[w].acct
          /\ job'[w].stale => job[w].stale \/ job[w].acct \in S
    BY <1>4, <1>5, StaleJob
  <1>7. \A g \in Flow : flow'[g] = IF g = f THEN NoFlow ELSE flow[g]
    BY DEF SaveAll, IInv, Typed
  <1>8. Typed'
    <2>1. conn' \in [Account -> Conn]
      BY <1>1, <1>2 DEF SaveAll
    <2>2. job' \in [Worker -> JobState]
      BY <1>4, <1>5 DEF SaveAll, Outdated
    <2>3. flow' \in [Flow -> FlowState]
      BY RowsTyped DEF SaveAll, IInv, Typed
    <2>4. rows' \in [Account -> Rows]
      <3>1. \A a \in Account : [rows[a] EXCEPT !.current = "active"] \in Rows
        BY DEF IInv, Typed, Rows
      <3>2. QED
        BY <3>1 DEF SaveAll, IInv, Typed
    <2>5. status' \in [Account -> {"NONE", "ACTIVE", "PAUSED",
                                   "REAUTH_REQUIRED", "DISCONNECTED"}]
      BY DEF SaveAll, IInv, Typed
    <2>6. owner' = owners
      BY DEF SaveAll
    <2>7. QED
      BY <1>0, <2>1, <2>2, <2>3, <2>4, <2>5, <2>6 DEF IInv, Typed
  <1>9. ConnInv'
    BY <1>0, <1>3 DEF IInv, ConnInv
  <1>10. FlowInv'
    <2>1. NoFlow.acct = NoAccount /\ NoFlow.newer = "no"
      BY DEF NoFlow
    <2>2. \A g \in Flow : flow[g].acct \in Account \cup {NoAccount}
      BY DEF IInv, Typed, FlowState
    <2>3. QED
      BY <1>3, <1>7, <2>1, <2>2 DEF IInv, FlowInv
  <1>11. JobInv'
    BY <1>0, <1>3, <1>6 DEF IInv, JobInv, Unlocked
  <1>12. ArchivedHoldsNothing'
    BY <1>0 DEF ArchivedHoldsNothing
  <1>13. QED
    BY <1>8, <1>9, <1>10, <1>11, <1>12 DEF IInv

LEMMA AssignedTyped ==
  ASSUME Typed, NEW S, NEW o \in Owner
  PROVE Assigned(S, o) \in [Account -> Owner \cup {Nobody}]
  BY DEF Typed, Assigned

LEMMA FlowNextInv ==
  ASSUME IInv, NEW f \in Flow, FlowNext(f) PROVE IInv'
  <1>0. /\ flow[f] \in FlowState /\ flow[f].ids \in SUBSET Account /\ Typed
        /\ flow[f].owner \in Owner \cup {Nobody}
    BY DEF IInv, Typed, FlowState
  <1>1. CASE Authorize(f) \/ AuthorizeCompanyVK(f)
    BY <1>1, BeginInv DEF Authorize, AuthorizeCompanyVK, Owner
  <1>2. ASSUME NEW p \in {"exchange", "offer", "select"},
               NEW S \in SUBSET Account,
               p = "select" => company = "ACTIVE",
               FlowStep(f, [flow[f] EXCEPT !.pc = p, !.ids = S])
        PROVE IInv'
    <2>1. [flow[f] EXCEPT !.pc = p, !.ids = S] \in FlowState
      BY <1>0, <1>2 DEF FlowState
    <2>2. /\ [flow[f] EXCEPT !.pc = p, !.ids = S].pc = p
          /\ [flow[f] EXCEPT !.pc = p, !.ids = S].acct = flow[f].acct
          /\ [flow[f] EXCEPT !.pc = p, !.ids = S].gen = flow[f].gen
          /\ [flow[f] EXCEPT !.pc = p, !.ids = S].newer = flow[f].newer
      BY <1>0 DEF FlowState
    <2>3. QED
      BY <1>2, <2>1, <2>2, FlowStepInv
  <1>3. ASSUME NEW p \in {"exchange", "select"},
               p = "select" => company = "ACTIVE",
               FlowStep(f, [flow[f] EXCEPT !.pc = p])
        PROVE IInv'
    <2>1. [flow[f] EXCEPT !.pc = p] \in FlowState
      BY <1>0 DEF FlowState
    <2>2. /\ [flow[f] EXCEPT !.pc = p].pc = p
          /\ [flow[f] EXCEPT !.pc = p].acct = flow[f].acct
          /\ [flow[f] EXCEPT !.pc = p].gen = flow[f].gen
          /\ [flow[f] EXCEPT !.pc = p].newer = flow[f].newer
      BY <1>0 DEF FlowState
    <2>3. QED
      BY <1>3, <2>1, <2>2, FlowStepInv
  <1>4. ASSUME FlowStep(f, NoFlow) PROVE IInv'
    <2>1. NoFlow.pc = "idle"
      BY DEF NoFlow
    <2>2. QED
      BY <1>4, <2>1, RowsTyped, FlowStepInv
  <1>5. CASE Callback(f) \/ CallbackTikTok(f)
    BY <1>3, <1>4, <1>5 DEF Callback, CallbackTikTok
  <1>6. CASE Exchange(f)
    <2>1. PICK a \in Account :
            FlowStep(f, [flow[f] EXCEPT !.pc = "save", !.ids = {a}])
      BY <1>6 DEF Exchange
    <2> DEFINE new == [flow[f] EXCEPT !.pc = "save", !.ids = {a}]
    <2>2. new \in FlowState
      BY <1>0 DEF FlowState
    <2>3. /\ new.pc = "save" /\ new.acct = flow[f].acct
          /\ new.gen = flow[f].gen /\ new.newer = flow[f].newer
      BY <1>0 DEF FlowState
    <2>4. QED
      BY <2>1, <2>2, <2>3, FlowStepInv
  <1>7. CASE Discover(f)
    BY <1>2, <1>7 DEF Discover
  <1>8. CASE OfferSelection(f)
    BY <1>3, <1>8 DEF OfferSelection, CompanyHeld
  <1>9. CASE CallbackFails(f) \/ Lapse(f)
    BY <1>4, <1>9 DEF CallbackFails, Lapse
  <1>10. CASE CompleteSelection(f)
    <2>1. PICK S \in SUBSET flow[f].ids \ {{}} :
            SaveAll(f, S, Assigned(S, flow[f].owner))
      BY <1>10 DEF CompleteSelection
    <2>2. S \in SUBSET Account
      BY <1>0
    <2>3. Assigned(S, flow[f].owner) \in [Account -> Owner \cup {Nobody}]
      BY <1>0 DEF Typed, Assigned
    <2>4. QED
      BY <2>1, <2>2, <2>3, SaveAllInv
  <1>11. CASE Save(f)
    <2>1. flow[f].owner \in Owner
      BY <1>11 DEF Save, Owner
    <2>2. QED
      BY <1>0, <1>11, <2>1, AssignedTyped, SaveAllInv DEF Save
  <1>12. CASE SaveCompanyVK(f)
    <2> DEFINE owners ==
          [a \in Account |-> IF a \in flow[f].ids THEN TheCompany
                             ELSE IF owner[a] = TheCompany THEN Nobody
                             ELSE owner[a]]
    <2>1. owners \in [Account -> Owner \cup {Nobody}]
      BY <1>0 DEF Typed, Owner
    <2>2. SaveAll(f, flow[f].ids, owners)
      BY <1>12 DEF SaveCompanyVK
    <2>3. QED
      BY <1>0, <2>1, <2>2, SaveAllInv
  <1>13. QED
    BY <1>1, <1>5, <1>6, <1>7, <1>8, <1>9, <1>10, <1>11, <1>12 DEF FlowNext

-----------------------------------------------------------------------------
(* Accounts.                                                               *)

(* The account is disconnected or gone, and flows bound to it with it.     *)
LEMMA DisconnectedInv ==
  ASSUME IInv, NEW a \in Account, Disconnected(a) PROVE IInv'
  <1>0. /\ company' = company /\ job' = job /\ Unlocked
        /\ UNCHANGED <<open, owner, kept>>
    BY DEF Disconnected
  <1>1. \A b \in Account : conn'[b] = IF b = a THEN NoConn ELSE conn[b]
    BY DEF Disconnected, IInv, Typed
  <1>2. \A g \in Flow : flow'[g] = IF flow[g].acct = a
                                   THEN [flow[g] EXCEPT !.newer = "deleted"]
                                   ELSE flow[g]
    BY DEF Disconnected
  <1>3. \A g \in Flow :
          /\ flow[g] \in FlowState
          /\ [flow[g] EXCEPT !.newer = "deleted"] \in FlowState
    BY DEF IInv, Typed, FlowState
  <1>4. Stopped(a) \in Rows
    <2>1. /\ rows[a].current \in {"none", "active", "suspended"}
          /\ rows[a].paused \in 0 .. MaxPaused /\ rows[a] \in Rows
      BY DEF IInv, Typed, Rows
    <2>2. CASE rows[a].current = "active"
      <3>1. rows[a].paused + 1 \in 0 .. MaxPaused
        BY <2>1, <2>2, ConnectionsAssumption DEF Disconnected, RoomToPause
      <3>2. QED
        BY <2>1, <2>2, <3>1 DEF Stopped, Rows
    <2>3. CASE rows[a].current # "active"
      BY <2>1, <2>3 DEF Stopped
    <2>4. QED
      BY <2>2, <2>3
  <1>5. Typed'
    <2>1. conn' \in [Account -> Conn]
      BY RowsTyped DEF Disconnected, IInv, Typed
    <2>2. flow' \in [Flow -> FlowState]
      BY <1>2, <1>3 DEF Disconnected
    <2>3. rows' \in [Account -> Rows]
      BY <1>4 DEF Disconnected, IInv, Typed
    <2>4. status' \in [Account -> {"NONE", "ACTIVE", "PAUSED",
                                   "REAUTH_REQUIRED", "DISCONNECTED"}]
      BY DEF Disconnected, IInv, Typed
    <2>5. QED
      BY <1>0, <2>1, <2>2, <2>3, <2>4 DEF IInv, Typed
  <1>6. NoConn.status = "NONE" /\ ~NoConn.suspended /\ ~NoConn.expiring
    BY DEF NoConn
  <1>7. ConnInv'
    BY <1>0, <1>1, <1>6 DEF IInv, ConnInv
  <1>8. FlowInv'
    <2>1. \A g \in Flow : /\ flow'[g].acct = flow[g].acct
                          /\ flow[g].acct = a => flow'[g].newer = "deleted"
                          /\ flow[g].acct # a => flow'[g] = flow[g]
                          /\ flow[g].acct \in Account \cup {NoAccount}
      BY <1>2, <1>3 DEF FlowState
    <2>2. QED
      BY <1>1, <2>1, ConnectionsAssumption DEF IInv, FlowInv
  <1>9. JobInv'
    BY <1>0, <1>1, <1>6 DEF IInv, JobInv
  <1>10. ArchivedHoldsNothing'
    <2>1. \A g \in Flow : flow'[g].pc = flow[g].pc
      BY <1>2, <1>3 DEF FlowState
    <2>2. \A b \in Account :
            rows'[b].current = "active" => rows[b].current = "active"
      <3>1. \A b \in Account :
              rows'[b] = IF b = a THEN Stopped(a) ELSE rows[b]
        BY DEF Disconnected, IInv, Typed
      <3>2. Stopped(a).current # "active"
        BY <1>4 DEF Stopped, IInv, Typed, Rows
      <3>3. QED
        BY <3>1, <3>2
    <2>3. QED
      BY <1>0, <1>1, <1>6, <2>1, <2>2 DEF IInv, ArchivedHoldsNothing
  <1>11. QED
    BY <1>5, <1>7, <1>8, <1>9, <1>10 DEF IInv

LEMMA PurgedInv ==
  ASSUME IInv, NEW a \in Account, Purged(a) PROVE IInv'
  <1>0. /\ company' = company /\ job' = job /\ Unlocked
        /\ UNCHANGED <<open, kept>>
    BY DEF Purged
  <1>1. \A b \in Account : /\ conn'[b] = IF b = a THEN NoConn ELSE conn[b]
                           /\ rows'[b] = IF b = a THEN NoRows ELSE rows[b]
    BY DEF Purged, IInv, Typed
  <1>2. \A g \in Flow :
          flow'[g] = IF flow[g].acct = a THEN NoFlow ELSE flow[g]
    BY DEF Purged
  <1>3. Typed'
    <2>1. conn' \in [Account -> Conn] /\ rows' \in [Account -> Rows]
      BY RowsTyped DEF Purged, IInv, Typed
    <2>2. flow' \in [Flow -> FlowState]
      BY RowsTyped DEF Purged, IInv, Typed
    <2>3. /\ status' \in [Account -> {"NONE", "ACTIVE", "PAUSED",
                                      "REAUTH_REQUIRED", "DISCONNECTED"}]
          /\ owner' \in [Account -> Owner \cup {Nobody}]
      BY DEF Purged, IInv, Typed
    <2>4. QED
      BY <1>0, <2>1, <2>2, <2>3 DEF IInv, Typed
  <1>4. /\ NoConn.status = "NONE" /\ ~NoConn.suspended /\ ~NoConn.expiring
        /\ NoRows.current = "none"
        /\ NoFlow.acct = NoAccount /\ NoFlow.newer = "no"
        /\ NoFlow.pc = "idle"
    BY DEF NoConn, NoRows, NoFlow
  <1>5. ConnInv'
    BY <1>0, <1>1, <1>4 DEF IInv, ConnInv
  <1>6. FlowInv'
    <2>1. \A g \in Flow : flow[g].acct \in Account \cup {NoAccount}
      BY DEF IInv, Typed, FlowState
    <2>2. QED
      BY <1>1, <1>2, <1>4, <2>1 DEF IInv, FlowInv
  <1>7. JobInv'
    BY <1>0, <1>1, <1>4 DEF IInv, JobInv
  <1>8. ArchivedHoldsNothing'
    BY <1>0, <1>1, <1>2, <1>4 DEF IInv, ArchivedHoldsNothing
  <1>9. QED
    BY <1>3, <1>5, <1>6, <1>7, <1>8 DEF IInv

LEMMA ActivatedTyped ==
  ASSUME NEW a \in Account PROVE Activated(a) \in Rows
  BY ConnectionsAssumption DEF Activated, NoRows, Rows

LEMMA StoppedTyped ==
  ASSUME Typed, NEW a \in Account, RoomToPause(a) PROVE Stopped(a) \in Rows
  <1>1. /\ rows[a].current \in {"none", "active", "suspended"}
        /\ rows[a].paused \in 0 .. MaxPaused /\ rows[a] \in Rows
    BY DEF Typed, Rows
  <1>2. CASE rows[a].current = "active"
    <2>1. rows[a].paused + 1 \in 0 .. MaxPaused
      BY <1>1, <1>2, ConnectionsAssumption DEF RoomToPause
    <2>2. QED
      BY <1>1, <1>2, <2>1 DEF Stopped, Rows
  <1>3. CASE rows[a].current # "active"
    BY <1>1, <1>3 DEF Stopped
  <1>4. QED
    BY <1>2, <1>3

LEMMA TokenAgesInv ==
  ASSUME IInv, NEW a \in Account, TokenAges(a) PROVE IInv'
  <1>0. UNCHANGED <<company, open, status, owner, rows, flow, job, kept>>
    BY DEF TokenAges
  <1>1. conn[a] \in Conn /\ [conn[a] EXCEPT !.expiring = TRUE] \in Conn
    BY DEF IInv, Typed, Conn
  <1>2. conn' \in [Account -> Conn]
    BY <1>1 DEF TokenAges, IInv, Typed
  <1>3. \A b \in Account :
          /\ conn'[b].status = conn[b].status
          /\ conn'[b].suspended = conn[b].suspended
          /\ conn'[b].gen = conn[b].gen
          /\ conn'[b].expiring => conn[b].expiring \/ b = a
    BY <1>1 DEF TokenAges, IInv, Typed, Conn
  <1>4. Typed' /\ ArchivedHoldsNothing'
    BY <1>0, <1>2, <1>3 DEF IInv, Typed, ArchivedHoldsNothing
  <1>8. ConnInv'
    BY <1>0, <1>3 DEF IInv, ConnInv, TokenAges, Connected
  <1>5. FlowInv'
    <2>1. \A g \in Flow : flow[g].acct \in Account \cup {NoAccount}
      BY DEF IInv, Typed, FlowState
    <2>2. QED
      BY <1>0, <1>3, <2>1 DEF IInv, FlowInv
  <1>6. JobInv'
    BY <1>0, <1>3 DEF IInv, JobInv, TokenAges
  <1>7. QED
    BY <1>4, <1>5, <1>6, <1>8 DEF IInv

LEMMA AccountNextInv ==
  ASSUME IInv, NEW a \in Account, AccountNext(a) PROVE IInv'
  <1>0. Typed
    BY DEF IInv
  <1>1. ASSUME NEW c \in Creator, EnterByHand(a, c) PROVE IInv'
    <2>1. /\ status' \in [Account -> {"NONE", "ACTIVE", "PAUSED",
                                      "REAUTH_REQUIRED", "DISCONNECTED"}]
          /\ owner' \in [Account -> Owner \cup {Nobody}]
          /\ rows' \in [Account -> Rows]
      BY <1>0, <1>1 DEF EnterByHand, Typed, Owner
    <2>2. QED
      BY <1>1, <2>1, CommandInv DEF EnterByHand
  <1>2. CASE RequestSync(a)
    <2>1. rows' \in [Account -> Rows]
      BY <1>0, <1>2, ActivatedTyped DEF RequestSync, Typed
    <2>2. QED
      BY <1>0, <1>2, <2>1, CommandInv DEF RequestSync, Typed
  <1>3. CASE Pause(a) \/ ResumeAccount(a)
    <2>1. rows' \in [Account -> Rows]
      BY <1>0, <1>3, ActivatedTyped, StoppedTyped
      DEF Pause, ResumeAccount, Typed
    <2>2. /\ status' \in [Account -> {"NONE", "ACTIVE", "PAUSED",
                                      "REAUTH_REQUIRED", "DISCONNECTED"}]
          /\ owner' \in [Account -> Owner \cup {Nobody}]
      BY <1>0, <1>3 DEF Pause, ResumeAccount, Typed
    <2>3. QED
      BY <1>3, <2>1, <2>2, CommandInv DEF Pause, ResumeAccount
  <1>4. CASE Disconnect(a) \/ DisconnectTikTok(a)
    BY <1>4, DisconnectedInv DEF Disconnect, DisconnectTikTok
  <1>5. CASE Purge(a) \/ PurgeTikTok(a)
    BY <1>5, PurgedInv DEF Purge, PurgeTikTok
  <1>6. CASE TokenAges(a)
    BY <1>6, TokenAgesInv
  <1>7. QED
    BY <1>1, <1>2, <1>3, <1>4, <1>5, <1>6 DEF AccountNext

-----------------------------------------------------------------------------
(* The company.                                                            *)

LEMMA ArchiveInv ==
  ASSUME IInv, Archive PROVE IInv'
  <1>0. /\ company = "ACTIVE" /\ company' = "ARCHIVED" /\ Unlocked
        /\ UNCHANGED <<open, status, owner, job>>
    BY DEF Archive, CompanyHeld
  <1>1. \A a \in Account :
          conn'[a] = IF conn[a].status = "ACTIVE"
                     THEN [conn[a] EXCEPT !.status = "PAUSED",
                                          !.suspended = TRUE]
                     ELSE conn[a]
    BY DEF Archive
  <1>2. \A a \in Account :
          /\ conn[a] \in Conn
          /\ [conn[a] EXCEPT !.status = "PAUSED", !.suspended = TRUE] \in Conn
    <2>1. \A a \in Account : conn[a] \in Conn
      BY DEF IInv, Typed
    <2>2. QED
      BY <2>1, SuspendedConn
  <1>3. \A a \in Account :
          /\ conn'[a].gen = conn[a].gen
          /\ conn'[a].expiring = conn[a].expiring
          /\ conn'[a].status # "ACTIVE"
          /\ conn'[a].suspended =>
               conn'[a].status = "PAUSED" \/ conn[a].suspended
          /\ conn'[a].status = "NONE" => conn[a].status = "NONE"
    <2>1. ASSUME NEW a \in Account, conn[a].status = "ACTIVE"
          PROVE  /\ conn'[a].status = "PAUSED" /\ conn'[a].gen = conn[a].gen
                 /\ conn'[a].expiring = conn[a].expiring
      <3> DEFINE s == [conn[a] EXCEPT !.status = "PAUSED", !.suspended = TRUE]
      <3>1. conn'[a] = s
        BY <1>1, <2>1
      <3>2. /\ s.status = "PAUSED" /\ s.gen = conn[a].gen
            /\ s.expiring = conn[a].expiring
        BY <1>2, SuspendedConn
      <3>3. QED
        BY <3>1, <3>2
    <2>2. \A a \in Account : conn[a].status # "ACTIVE" => conn'[a] = conn[a]
      BY <1>1
    <2>3. QED
      BY <2>1, <2>2
  <1>4. \A a \in Account :
          rows'[a] = IF rows[a].current = "active"
                     THEN [rows[a] EXCEPT !.current = "suspended"]
                     ELSE rows[a]
    BY DEF Archive
  <1>5. \A a \in Account :
          /\ rows[a] \in Rows
          /\ [rows[a] EXCEPT !.current = "suspended"] \in Rows
    BY DEF IInv, Typed, Rows
  <1>6. \A g \in Flow :
          flow'[g] = IF flow[g].pc \in {"pending", "select"} THEN NoFlow
                     ELSE flow[g]
    BY DEF Archive
  <1>7. /\ NoFlow.acct = NoAccount /\ NoFlow.newer = "no"
        /\ NoFlow.pc = "idle"
    BY DEF NoFlow
  <1>8. Typed'
    <2>1. conn' \in [Account -> Conn] /\ rows' \in [Account -> Rows]
      BY <1>1, <1>2, <1>4, <1>5 DEF Archive
    <2>2. flow' \in [Flow -> FlowState]
      BY RowsTyped DEF Archive, IInv, Typed
    <2>3. kept' \in SUBSET Account
      BY DEF Archive
    <2>4. QED
      BY <1>0, <2>1, <2>2, <2>3 DEF IInv, Typed
  <1>9. ConnInv'
    BY <1>0, <1>3 DEF IInv, ConnInv
  <1>10. FlowInv'
    <2>1. \A g \in Flow : flow[g].acct \in Account \cup {NoAccount}
      BY DEF IInv, Typed, FlowState
    <2>2. QED
      BY <1>3, <1>6, <1>7, <2>1 DEF IInv, FlowInv
  <1>11. JobInv'
    BY <1>0, <1>3 DEF IInv, JobInv, Unlocked
  <1>12. ArchivedHoldsNothing'
    <2>1. \A a \in Account : rows'[a].current # "active"
      BY <1>4, <1>5 DEF Rows
    <2>2. \A g \in Flow : flow'[g].pc \notin {"pending", "select"}
      BY <1>6, <1>7
    <2>3. QED
      BY <1>3, <2>1, <2>2 DEF ArchivedHoldsNothing
  <1>13. QED
    BY <1>8, <1>9, <1>10, <1>11, <1>12 DEF IInv

LEMMA RestoreInv ==
  ASSUME IInv, Restore PROVE IInv'
  <1>0. /\ company' = "ACTIVE" /\ Unlocked
        /\ UNCHANGED <<open, status, owner, flow, job>>
    BY DEF Restore
  <1>1. \A a \in Account :
          conn'[a] = IF Suspended(a) THEN Restored(conn[a]) ELSE conn[a]
    BY DEF Restore
  <1>2. \A a \in Account : conn[a] \in Conn /\ Restored(conn[a]) \in Conn
    BY DEF IInv, Typed, Conn, Restored
  <1>3. \A a \in Account :
          /\ conn'[a].gen = conn[a].gen
          /\ conn'[a].expiring = conn[a].expiring
          /\ ~conn'[a].suspended
          /\ conn'[a].status = "NONE" => conn[a].status = "NONE"
    BY <1>1, <1>2 DEF Conn, Restored, Suspended
  <1>4. \A a \in Account : [rows[a] EXCEPT !.current = "active"] \in Rows
    BY DEF IInv, Typed, Rows
  <1>5. Typed'
    <2>1. conn' \in [Account -> Conn]
      BY <1>1, <1>2 DEF Restore
    <2>2. rows' \in [Account -> Rows]
      BY <1>4 DEF Restore, IInv, Typed
    <2>3. kept' \in SUBSET Account
      BY DEF Restore
    <2>4. QED
      BY <1>0, <2>1, <2>2, <2>3 DEF IInv, Typed
  <1>6. ConnInv' /\ ArchivedHoldsNothing'
    BY <1>0, <1>3 DEF IInv, ConnInv, ArchivedHoldsNothing
  <1>7. FlowInv'
    <2>1. \A g \in Flow : flow[g].acct \in Account \cup {NoAccount}
      BY DEF IInv, Typed, FlowState
    <2>2. QED
      BY <1>0, <1>3, <2>1 DEF IInv, FlowInv
  <1>8. JobInv'
    BY <1>0, <1>3 DEF IInv, JobInv, Unlocked
  <1>9. QED
    BY <1>5, <1>6, <1>7, <1>8 DEF IInv

-----------------------------------------------------------------------------
(* Workers.                                                                *)

(* The status of a connection changes; the worker is done.                 *)
LEMMA VerdictInv ==
  ASSUME IInv, NEW w \in Worker, NEW a \in Account, Unlocked,
         UNCHANGED <<company, open, owner, rows, flow, kept>>,
         status' \in [Account -> {"NONE", "ACTIVE", "PAUSED",
                                  "REAUTH_REQUIRED", "DISCONNECTED"}],
         job' = [job EXCEPT ![w] = NoJob],
         \/ conn' = conn
         \/ /\ conn[a].status = "ACTIVE" \/ company = "ACTIVE"
            /\ conn' = [conn EXCEPT ![a].status = "REAUTH_REQUIRED"]
  PROVE IInv'
  <1>1. /\ conn[a] \in Conn
        /\ [conn[a] EXCEPT !.status = "REAUTH_REQUIRED"] \in Conn
    BY DEF IInv, Typed, Conn
  <1>2. \A b \in Account :
          /\ conn'[b].gen = conn[b].gen
          /\ conn'[b].suspended = conn[b].suspended
          /\ conn'[b].expiring = conn[b].expiring
          /\ conn'[b].status # conn[b].status =>
               conn'[b].status = "REAUTH_REQUIRED" /\ ~conn[b].suspended
    BY <1>1 DEF IInv, Typed, Conn, ConnInv
  <1>3. \A v \in Worker : job'[v] = IF v = w THEN NoJob ELSE job[v]
    BY DEF IInv, Typed
  <1>4. Typed'
    <2>1. conn' \in [Account -> Conn]
      BY <1>1 DEF IInv, Typed
    <2>2. job' \in [Worker -> JobState]
      BY RowsTyped DEF IInv, Typed
    <2>3. QED
      BY <2>1, <2>2 DEF IInv, Typed
  <1>5. ConnInv' /\ ArchivedHoldsNothing'
    BY <1>2 DEF IInv, ConnInv, ArchivedHoldsNothing
  <1>6. FlowInv'
    <2>1. \A g \in Flow : flow[g].acct \in Account \cup {NoAccount}
      BY DEF IInv, Typed, FlowState
    <2>2. QED
      BY <1>2, <2>1 DEF IInv, FlowInv
  <1>7. JobInv'
    <2>1. NoJob.pc = "idle"
      BY DEF NoJob
    <2>2. QED
      BY <1>2, <1>3, <2>1 DEF IInv, JobInv
  <1>8. QED
    BY <1>4, <1>5, <1>6, <1>7 DEF IInv

(* A refusal ends the job, or is written down later.                       *)
LEMMA RefusedTyped ==
  ASSUME Typed, NEW w \in Worker, NEW auth \in BOOLEAN
  PROVE /\ Refused(w, auth) \in JobState
        /\ Refused(w, auth).acct \in {job[w].acct, NoAccount}
        /\ Refused(w, auth).pc # "idle" => Refused(w, auth).acct = job[w].acct
        /\ Refused(w, auth).pc \in {"finish", "mark", "idle"}
        /\ Refused(w, auth).pc # "idle" =>
             Refused(w, auth).stale = job[w].stale
  BY RowsTyped DEF Typed, JobState, Refused, NoJob

LEMMA RefreshedInv ==
  ASSUME IInv, NEW w \in Worker, Refreshed(w) PROVE IInv'
  <1> DEFINE a == job[w].acct
  <1>0. /\ job[w].pc = "refresh" /\ company = "ACTIVE" /\ a \in Account
        /\ UNCHANGED <<company, open, status, owner, rows, flow, kept>>
    BY DEF Refreshed, IInv, JobInv
  <1>1. /\ conn[a] \in Conn
        /\ [conn[a] EXCEPT !.status = "ACTIVE", !.expiring = FALSE] \in Conn
    <2>1. \A b \in Account :
            /\ conn[b] \in Conn
            /\ [conn[b] EXCEPT !.status = "ACTIVE",
                               !.expiring = FALSE] \in Conn
      BY DEF IInv, Typed, Conn
    <2>2. QED
      BY <1>0, <2>1
  <1>2. \A b \in Account :
          /\ conn'[b].gen = conn[b].gen
          /\ conn'[b].suspended = conn[b].suspended
          /\ b # a => conn'[b] = conn[b]
          /\ b = a /\ conn[a].status # "NONE" => ~conn'[b].expiring
          /\ conn'[b].expiring => conn[b].expiring
    BY <1>0, <1>1 DEF Refreshed, Connected, IInv, Typed, Conn
  <1> DEFINE new == IF job[w].task = "sync"
                    THEN [job[w] EXCEPT !.pc = "call"] ELSE NoJob
  <1>3. /\ new \in JobState /\ new.pc \in {"call", "idle"}
        /\ new.pc # "idle" => new.acct = a
    <2>1. job[w] \in JobState
      BY DEF IInv, Typed
    <2>2. [job[w] EXCEPT !.pc = "call"] \in JobState
      BY <2>1 DEF JobState
    <2>3. QED
      BY <2>1, <2>2, RowsTyped DEF JobState, NoJob
  <1> HIDE DEF new
  <1>4. \A v \in Worker :
          job'[v] = IF v = w THEN new
                    ELSE IF job[v].acct = a
                    THEN [job[v] EXCEPT !.stale = TRUE] ELSE job[v]
    BY DEF Refreshed, Outdated, new
  <1>5. \A v \in Worker :
          job[v] \in JobState /\ [job[v] EXCEPT !.stale = TRUE] \in JobState
    <2>1. \A v \in Worker : job[v] \in JobState
      BY DEF IInv, Typed
    <2>2. QED
      BY <2>1, StaleJob
  <1>6. Typed'
    <2>1. conn' \in [Account -> Conn]
      BY <1>1 DEF Refreshed, IInv, Typed
    <2>2. job' \in [Worker -> JobState]
      BY <1>3, <1>4, <1>5 DEF Refreshed, Outdated
    <2>3. QED
      BY <1>0, <2>1, <2>2 DEF IInv, Typed
  <1>7. ConnInv' /\ ArchivedHoldsNothing'
    BY <1>0, <1>2 DEF IInv, ConnInv, ArchivedHoldsNothing
  <1>8. FlowInv'
    <2>1. \A g \in Flow : flow[g].acct \in Account \cup {NoAccount}
      BY DEF IInv, Typed, FlowState
    <2>2. QED
      BY <1>0, <1>2, <2>1 DEF IInv, FlowInv
  <1>9. JobInv'
    <2>1. \A v \in Worker \ {w} :
            /\ job'[v].pc = job[v].pc /\ job'[v].acct = job[v].acct
            /\ job'[v].stale => job[v].stale \/ job[v].acct = a
            /\ job[v].pc # "refresh"
      <3>1. \A v \in Worker \ {w} : job[v].pc # "refresh"
        BY <1>0 DEF IInv, JobInv
      <3>2. QED
        BY <1>4, <1>5, <3>1, StaleJob
    <2>2. job'[w] = new
      BY <1>4
    <2>3. conn[a].status = "NONE" => ~conn[a].expiring
      BY <1>0 DEF IInv, ConnInv
    <2>4. ~conn'[a].expiring
      BY <1>0, <1>2, <2>3
    <2>5. QED
      BY <1>0, <1>2, <1>3, <2>1, <2>2, <2>4 DEF IInv, JobInv
  <1>10. QED
    BY <1>6, <1>7, <1>8, <1>9 DEF IInv

LEMMA WorkerNextInv ==
  ASSUME IInv, NEW w \in Worker, WorkerNext(w) PROVE IInv'
  <1>0. /\ Typed /\ job[w] \in JobState
        /\ job[w].pc # "idle" => job[w].acct \in Account
        /\ job[w].pc = "refresh" => ~job[w].stale
    BY DEF IInv, Typed, JobInv
  <1>1. ASSUME NEW a \in Account, NEW t \in {"sync", "refresh"},
               JobStep(w, [NoJob EXCEPT !.pc = "read", !.task = t,
                                        !.acct = a])
        PROVE IInv'
    <2> DEFINE new == [NoJob EXCEPT !.pc = "read", !.task = t, !.acct = a]
    <2>1. new \in JobState /\ new.pc = "read" /\ new.acct = a
      BY DEF NoJob, JobState
    <2>2. QED
      BY <1>1, <2>1, JobStepInv
  <1>2. ASSUME JobStep(w, NoJob) PROVE IInv'
    <2>1. NoJob.pc = "idle"
      BY DEF NoJob
    <2>2. QED
      BY <1>2, <2>1, RowsTyped, JobStepInv
  <1>3. ASSUME NEW a \in Account, ClaimSync(w, a) PROVE IInv'
    <2> DEFINE new == [NoJob EXCEPT !.pc = "read", !.acct = a]
    <2>1. new \in JobState /\ new.pc = "read" /\ new.acct = a
      BY DEF NoJob, JobState
    <2>2. JobStep(w, new)
      BY <1>3 DEF ClaimSync
    <2> HIDE DEF new
    <2>3. QED
      BY <2>1, <2>2, JobStepInv
  <1>4. ASSUME NEW a \in Account, SelectExpiring(w, a) PROVE IInv'
    BY <1>1, <1>4 DEF SelectExpiring
  <1>5. CASE ReadToken(w)
    <2> DEFINE read == [job[w] EXCEPT !.stale = FALSE]
    <2>0. job[w].pc = "read" /\ Unlocked /\ job[w].acct \in Account
      BY <1>0, <1>5 DEF ReadToken
    <2>1. ASSUME NEW p \in {"refresh", "call"}, company = "ACTIVE",
                 JobStep(w, [read EXCEPT !.pc = p])
          PROVE IInv'
      <3> DEFINE new == [read EXCEPT !.pc = p]
      <3>1. /\ new \in JobState /\ new.pc = p /\ new.acct = job[w].acct
            /\ ~new.stale
        BY <1>0 DEF JobState
      <3> HIDE DEF new
      <3>2. JobStep(w, new)
        BY <2>1 DEF new
      <3>3. QED
        BY <2>0, <2>1, <3>1, <3>2, JobStepInv
    <2>2. ASSUME JobStep(w, [Refused(w, TRUE) EXCEPT !.stale = FALSE])
          PROVE IInv'
      <3> DEFINE new == [Refused(w, TRUE) EXCEPT !.stale = FALSE]
      <3>1. /\ Refused(w, TRUE) \in JobState
            /\ Refused(w, TRUE).acct \in {job[w].acct, NoAccount}
            /\ Refused(w, TRUE).pc # "idle" =>
                 Refused(w, TRUE).acct = job[w].acct
            /\ Refused(w, TRUE).pc \in {"finish", "mark", "idle"}
        BY <1>0, RefusedTyped
      <3>2. /\ new \in JobState /\ new.pc \in {"finish", "mark", "idle"}
            /\ new.pc # "idle" => new.acct = job[w].acct
            /\ ~new.stale
        BY <3>1 DEF JobState
      <3> HIDE DEF new
      <3>3. JobStep(w, new)
        BY <2>2 DEF new
      <3>4. QED
        BY <2>0, <3>2, <3>3, JobStepInv
    <2>3. QED
      BY <1>2, <1>5, <2>1, <2>2 DEF ReadToken
  <1>6. CASE Refreshed(w)
    BY <1>6, RefreshedInv
  <1>7. CASE RefreshFails(w)
    <2>0. job[w].pc = "refresh" /\ job[w].acct \in Account /\ ~job[w].stale
      BY <1>0, <1>7 DEF RefreshFails
    <2>1. ASSUME NEW auth \in BOOLEAN, JobStep(w, Refused(w, auth))
          PROVE IInv'
      <3>1. /\ Refused(w, auth) \in JobState
            /\ Refused(w, auth).pc # "idle" =>
                 Refused(w, auth).acct = job[w].acct
            /\ Refused(w, auth).pc \in {"finish", "mark", "idle"}
            /\ Refused(w, auth).pc # "idle" =>
                 Refused(w, auth).stale = job[w].stale
        BY <1>0, RefusedTyped
      <3>2. QED
        BY <2>0, <2>1, <3>1, JobStepInv
    <2>2. ASSUME JobStep(w, [job[w] EXCEPT !.pc = "read"]) PROVE IInv'
      <3> DEFINE new == [job[w] EXCEPT !.pc = "read"]
      <3>1. new \in JobState /\ new.pc = "read" /\ new.acct = job[w].acct
        BY <1>0 DEF JobState
      <3> HIDE DEF new
      <3>2. JobStep(w, new)
        BY <2>2 DEF new
      <3>3. QED
        BY <2>0, <3>1, <3>2, JobStepInv
    <2>3. QED
      BY <1>7, <2>1, <2>2 DEF RefreshFails
  <1>8. CASE MarkReauth(w)
    <2> DEFINE a == job[w].acct
    <2>1. a \in Account /\ Unlocked
      BY <1>0, <1>8 DEF MarkReauth
    <2>2. status' \in [Account -> {"NONE", "ACTIVE", "PAUSED",
                                   "REAUTH_REQUIRED", "DISCONNECTED"}]
      BY <1>0, <1>8 DEF MarkReauth, Typed
    <2>3. \/ conn' = conn
          \/ /\ conn[a].status = "ACTIVE"
             /\ conn' = [conn EXCEPT ![a].status = "REAUTH_REQUIRED"]
      BY <1>8 DEF MarkReauth, StillExpiring
    <2>4. /\ UNCHANGED <<company, open, owner, rows, flow, kept>>
          /\ job' = [job EXCEPT ![w] = NoJob]
      BY <1>8 DEF MarkReauth
    <2> HIDE DEF a
    <2>5. QED
      BY <2>1, <2>2, <2>3, <2>4, VerdictInv
  <1>9. CASE Call(w)
    <2>1. PICK auth \in BOOLEAN :
            JobStep(w, [job[w] EXCEPT !.pc = "finish", !.refused = auth])
      BY <1>9 DEF Call
    <2> DEFINE new == [job[w] EXCEPT !.pc = "finish", !.refused = auth]
    <2>2. new \in JobState /\ new.pc = "finish" /\ new.acct = job[w].acct
      BY <1>0 DEF JobState
    <2>3. job[w].acct \in Account
      BY <1>0, <1>9 DEF Call
    <2> HIDE DEF new
    <2>4. JobStep(w, new)
      BY <2>1 DEF new
    <2>5. QED
      BY <2>2, <2>3, <2>4, JobStepInv
  <1>10. CASE Finish(w)
    <2> DEFINE a == job[w].acct
    <2>1. a \in Account /\ Unlocked
      BY <1>0, <1>10 DEF Finish
    <2>2. status' \in [Account -> {"NONE", "ACTIVE", "PAUSED",
                                   "REAUTH_REQUIRED", "DISCONNECTED"}]
      BY <1>0, <1>10 DEF Finish, Typed
    <2>3. \/ conn' = conn
          \/ /\ company = "ACTIVE" /\ Connected(a)
             /\ conn' = [conn EXCEPT ![a].status = "REAUTH_REQUIRED"]
      <3>1. CASE ~(StillWanted(a) /\ job[w].refused)
        BY <1>10, <3>1 DEF Finish
      <3>2. CASE StillWanted(a) /\ job[w].refused
        <4>1. conn' = [conn EXCEPT ![a].status =
                         IF Connected(a) THEN "REAUTH_REQUIRED" ELSE @]
          BY <1>10, <3>2 DEF Finish
        <4>2. CASE Connected(a)
          BY <3>2, <4>1, <4>2 DEF StillWanted
        <4>3. CASE ~Connected(a)
          <5>1. [conn[a] EXCEPT !.status = conn[a].status] = conn[a]
            BY <1>0, <2>1 DEF Typed, Conn
          <5>2. conn' = conn
            BY <1>0, <2>1, <4>1, <4>3, <5>1 DEF Typed
          <5>3. QED
            BY <5>2
        <4>4. QED
          BY <4>2, <4>3
      <3>3. QED
        BY <3>1, <3>2
    <2>4. /\ UNCHANGED <<company, open, owner, rows, flow, kept>>
          /\ job' = [job EXCEPT ![w] = NoJob]
      BY <1>10 DEF Finish
    <2> HIDE DEF a
    <2>5. QED
      BY <2>1, <2>2, <2>3, <2>4, VerdictInv
  <1>11. CASE CrashWorker(w)
    BY <1>2, <1>11 DEF CrashWorker
  <1>12. QED
    BY <1>3, <1>4, <1>5, <1>6, <1>7, <1>8, <1>9, <1>10, <1>11
    DEF WorkerNext, RefreshNext

-----------------------------------------------------------------------------
LEMMA InvInit == ASSUME Init PROVE IInv
  <1>1. Typed
    BY RowsTyped, ConnectionsAssumption DEF Init, Typed
  <1>2. ConnInv /\ ArchivedHoldsNothing
    BY DEF Init, ConnInv, ArchivedHoldsNothing, NoConn
  <1>3. FlowInv
    BY DEF Init, FlowInv, NoFlow
  <1>4. JobInv
    BY DEF Init, JobInv, NoJob
  <1>5. QED
    BY <1>1, <1>2, <1>3, <1>4 DEF IInv

LEMMA InvStep == ASSUME IInv, [Next]_vars PROVE IInv'
  <1>1. CASE UNCHANGED vars
    BY <1>1
    DEF vars, IInv, Typed, ConnInv, ArchivedHoldsNothing, FlowInv, JobInv
  <1>2. QED
    BY <1>1, FlowNextInv, AccountNextInv, WorkerNextInv, ArchiveInv,
       RestoreInv
    DEF Next

(* What a flow and a worker rely on between their transactions is true.    *)
THEOREM ConnectionsInvariant == Spec => []IInv
  <1>1. Init => IInv
    BY InvInit
  <1>2. IInv /\ [Next]_vars => IInv'
    BY InvStep
  <1>3. QED
    BY <1>1, <1>2, PTL DEF Spec

(* Every column keeps to its type, and a connection is suspended for an    *)
(* archive only while the company is archived, for any accounts, creators, *)
(* flows and workers.                                                      *)
THEOREM ConnectionsTypeCorrect == Spec => []TypeOK
  <1>1. IInv => TypeOK
    BY DEF IInv, Typed, ConnInv, TypeOK
  <1>2. QED
    BY <1>1, ConnectionsInvariant, PTL

(* An archived company holds no active connection, nothing due and no open *)
(* state, whatever was in flight when it was archived.                     *)
THEOREM ArchivedAlwaysHoldsNothing == Spec => []ArchivedHoldsNothing
  <1>1. IInv => ArchivedHoldsNothing
    BY DEF IInv
  <1>2. QED
    BY <1>1, ConnectionsInvariant, PTL

(* A flow that was overtaken by a later reconnect saves nothing.           *)
THEOREM SupersededNeverSaves == Spec => SupersededSavesNothing
  <1>1. ASSUME IInv, NEW f \in Flow, flow[f].newer = "yes"
        PROVE ~Save(f) /\ ~SaveCompanyVK(f) /\ ~CompleteSelection(f)
    <2>1. /\ flow[f].acct # NoAccount /\ flow[f].acct \in Account
          /\ flow[f].gen < conn[flow[f].acct].gen
      BY <1>1 DEF IInv, FlowInv, Typed, FlowState
    <2>2. /\ flow[f].gen \in Nat /\ conn[flow[f].acct].gen \in Nat
      <3>1. 0 .. MaxGen \subseteq Nat
        BY ConnectionsAssumption
      <3>2. flow[f] \in FlowState /\ \A a \in Account : conn[a] \in Conn
        BY <1>1 DEF IInv, Typed
      <3>3. QED
        BY <2>1, <3>1, <3>2 DEF FlowState, Conn
    <2>3. conn[flow[f].acct].gen # flow[f].gen
      BY <2>1, <2>2
    <2>4. \A S : ~Verified(f, S)
      BY <2>1, <2>3 DEF Verified
    <2>5. QED
      BY <2>4 DEF Save, SaveCompanyVK, CompleteSelection, SaveAll
  <1>2. IInv /\ [Next]_vars =>
          [\A f \in Flow : flow[f].newer = "yes" =>
             ~Save(f) /\ ~SaveCompanyVK(f) /\ ~CompleteSelection(f)]_vars
    BY <1>1
  <1>3. QED
    BY <1>2, ConnectionsInvariant, PTL DEF Spec, SupersededSavesNothing

(* A refresh and its failure touch only a connection that still holds the  *)
(* token the worker read.                                                  *)
THEOREM RefreshAlwaysSparesReconnect == Spec => RefreshSparesReconnect
  <1>1. ASSUME IInv, NEW w \in Worker, RefreshNext(w),
               NEW a \in Account, conn'[a] # conn[a]
        PROVE a = job[w].acct /\ ~job[w].stale
    <2>1. CASE ReadToken(w) \/ RefreshFails(w)
      BY <1>1, <2>1 DEF ReadToken, RefreshFails, JobStep
    <2>2. CASE Refreshed(w)
      BY <1>1, <2>2 DEF Refreshed, IInv, JobInv, Typed
    <2>3. CASE MarkReauth(w)
      BY <1>1, <2>3 DEF MarkReauth, StillExpiring, IInv, JobInv, Typed
    <2>4. QED
      BY <1>1, <2>1, <2>2, <2>3 DEF RefreshNext
  <1>2. IInv /\ [Next]_vars =>
          [\A w \in Worker : RefreshNext(w) =>
             \A a \in Account : conn'[a] # conn[a] =>
               a = job[w].acct /\ ~job[w].stale]_vars
    BY <1>1
  <1>3. QED
    BY <1>2, ConnectionsInvariant, PTL DEF Spec, RefreshSparesReconnect

(* A first connection never takes the place of an account that waits for a *)
(* reconnect.                                                              *)
THEOREM FirstConnectionNeverReplaces == Spec => FirstConnectionReplacesNobody
  <1>1. ASSUME Typed, NEW f \in Flow, NEW c \in Creator,
               flow[f].owner = c, flow[f].acct = NoAccount,
               Save(f) \/ CompleteSelection(f)
        PROVE ReauthOf(c)' = {}
    <2>1. PICK S : SaveAll(f, S, Assigned(S, c))
      BY <1>1 DEF Save, CompleteSelection
    <2>2. \A r \in ReauthOf(c) : r \in S
      BY <1>1, <2>1, ConnectionsAssumption DEF SaveAll, Verified
    <2>3. \A a \in Account :
            /\ a \in S => status'[a] = "ACTIVE"
            /\ a \notin S => /\ status'[a] = status[a]
                             /\ conn'[a] = conn[a] /\ owner'[a] = owner[a]
      BY <2>1 DEF SaveAll, Assigned
    <2>4. \A a \in Account : a \notin ReauthOf(c)'
      BY <2>2, <2>3 DEF ReauthOf, Owned, Reauth
    <2>5. QED
      BY <2>4 DEF ReauthOf, Owned
  <1>2. IInv /\ [Next]_vars =>
          [\A f \in Flow : \A c \in Creator :
             /\ flow[f].owner = c /\ flow[f].acct = NoAccount
             /\ Save(f) \/ CompleteSelection(f)
             => ReauthOf(c)' = {}]_vars
    BY <1>1 DEF IInv
  <1>3. QED
    BY <1>2, ConnectionsInvariant, PTL
    DEF Spec, FirstConnectionReplacesNobody
=============================================================================
