\* Two workers race over one target; every command and fault is possible.
CONSTANTS
  Target = {t1}
  Worker = {w1, w2}
  RetryBudget = 2
  MaxJobs = 2
  MaxExec = 3
  MaxFaults = 2
  Commands = {"publish", "schedule", "retry", "cancel", "patch", "archive", "archiveCreator", "revoke", "loseAccount", "reconnect"}
SYMMETRY WorkerSymmetry
SPECIFICATION Spec
CHECK_DEADLOCK FALSE
INVARIANTS
  TypeOK
  AtMostOneObject
  SuccessIsReal
  MarkedTargetIsNotQueued
PROPERTIES
  StaleWorkerLeavesJob
  SuccessIsFinal
  ImplementsPublishOnce
