\* A retried target stays FAILED and is not selected.
CONSTANTS
  Target = {t1}
  Worker = {w1}
  RetryBudget = 5
  MaxJobs = 2
  MaxExec = 3
  MaxFaults = 0
  Commands = {"publish", "retry"}
SPECIFICATION FairSpec
CHECK_DEADLOCK FALSE
PROPERTY RetriedTargetRuns
