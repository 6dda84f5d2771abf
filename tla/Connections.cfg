\* Two identities, one creator or the company, two flows, one worker.
CONSTANTS
  Account = {a1, a2}
  Creator = {c1}
  Flow = {f1, f2}
  Worker = {w1}
  MaxGen = 2
  MaxPaused = 1
  Scopes = {{"archive", "select", "refresh", "sync"},
            {"archive", "disconnect", "refresh"},
            {"hand", "select", "sync"},
            {"pause", "sync"},
            {"pause", "refresh"},
            {"VK", "disconnect", "sync", "crash"}}
SYMMETRY Symmetry
SPECIFICATION Spec
CHECK_DEADLOCK FALSE
INVARIANTS
  TypeOK
  ArchivedHoldsNothing
PROPERTIES
  FirstConnectionReplacesNobody
  SupersededSavesNothing
  RefreshSparesReconnect
