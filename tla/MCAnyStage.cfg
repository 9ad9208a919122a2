\* One run of one file in which a task may die.
CONSTANTS
  Files = {f1}
  UnknownId = unknown
  Runs = {r1}
  MaxFileIds = 1
  MaxTries = 1
  MaxActiveRuns = 1
  MaxChunks = 1
  PendingLimit = 1
  DeadQueueMayFail = FALSE
  TasksMayDie = TRUE
SPECIFICATION Spec
\* The system stops when every run the bound allows has ended.
CHECK_DEADLOCK FALSE
INVARIANT AnyStageIsDeadLettered

