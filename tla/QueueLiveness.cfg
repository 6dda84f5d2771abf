\* One target, two workers, fair scheduling, fewer faults than retries.
CONSTANTS
  Target = {t1}
  Worker = {w1, w2}
  RetryBudget = 3
  MaxJobs = 1
  MaxExec = 3
  MaxFaults = 2
  Commands = {"publish", "schedule", "cancel", "loseAccount", "reconnect"}
SPECIFICATION FairSpec
CHECK_DEADLOCK FALSE
PROPERTIES
  ExecutionCloses
  QueuedTargetRuns
  ReauthSettles
