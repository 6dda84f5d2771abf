\* Two companies of two workspaces, one or two workers and requests, one
\* fault.
CONSTANTS
  x1 = x1
  x2 = x2
  Company = {1, 2}
  Workspace = {x1, x2}
  Home <- OneEach
  Worker = {w1, w2}
  Request = {r1, r2}
  Nobody = Nobody
  MaxFaults = 1
  Scopes = {{"end", "requests", "connect"},
            {"purge", "delete"},
            {"purge", "restore", "connect"},
            {"purge", "pair"},
            {"command", "delete", "pair"},
            {"notice", "publish", "end", "requests"},
            {"end", "purge"}}
SPECIFICATION LiveSpec
CHECK_DEADLOCK FALSE
INVARIANTS
  TypeOK
  GrantIsWithdrawn
  ReportedDeletionsAreDone
PROPERTIES
  DeletionsEnd
