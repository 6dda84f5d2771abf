\* Two owners and a third account, a manager and two others, two creators with
\* a profile in each of two companies; two requests in flight.
CONSTANTS
  o1 = o1
  o2 = o2
  o3 = o3
  m1 = m1
  m2 = m2
  m3 = m3
  k1 = k1
  k2 = k2
  e1 = e1
  e2 = e2
  e3 = e3
  e4 = e4
  c1 = c1
  c2 = c2
  p1 = p1
  p2 = p2
  i1 = i1
  Owner = {o1, o2, o3}
  Manager = {m1, m2, m3}
  Creator = {k1, k2}
  EmailOf <- FirstTeam
  Company = {c1, c2}
  Profile = {p1, p2}
  CompanyOf <- Companies2
  Email = {e1, e2, e3, e4}
  Bootstrap = e1
  Invitation = {i1}
  InvitedAs <- AsManager
  Request = {r1, r2}
  Nobody = Nobody
  Scopes = {{"remove", "create", "bootstrap", o1, o2, o3},
            {"context", "assign", "archive", o1, m1},
            {"logins", "context", o1, k1},
            {"logins", "remove", o1, k1},
            {"logins", o1, k1, k2},
            {"invite", "remove", "email", o1, m2, m3},
            {"create", "reset", "logout", "context", o1, m2}}
SPECIFICATION Spec
CHECK_DEADLOCK FALSE
INVARIANTS
  TypeOK
  AnOwnerStays
  ContextIsAssigned
  NoLoginIsLeftBehind
  InvitationsAreSpent
