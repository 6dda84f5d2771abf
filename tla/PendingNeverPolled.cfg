\* A pending operation is never claimed again.
CONSTANTS
  Target = {t1}
  Worker = {w1}
  RetryBudget = 5
  MaxJobs = 1
  MaxExec = 3
  MaxFaults = 0
  Commands = {"publish"}
SPECIFICATION FairSpec
CHECK_DEADLOCK FALSE
PROPERTY ProcessingIsPolled
