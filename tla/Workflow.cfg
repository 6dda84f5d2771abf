\* The creator, a manager, two keys each, two requests at a time.
CONSTANTS
  Manager = {m1}
  Key = {k1, k2}
  Handler = {h1, h2}
  MaxRev = 2
  Scopes = {{"create", "submit", "approve", "edit", "publish", "policy"},
            {"create", "submit", "reject", "edit"},
            {"create", "publish", "cancel", "edit", "queue"},
            {"create", "schedule", "retry", "queue"},
            {"create", "copy", "submit", "cancel"}}
SYMMETRY Symmetry
SPECIFICATION Spec
CHECK_DEADLOCK FALSE
INVARIANTS
  TypeOK
  PendingIsCurrent
  OnlyCurrentIsQueued
  CommandsAreIdempotent
PROPERTIES
  PolicyIsKept
