\* Two runs of one file at once, nothing dies and the dead queue works.
CONSTANTS
  Files = {f1}
  UnknownId = unknown
  Runs = {r1, r2}
  MaxFileIds = 1
  MaxTries = 1
  MaxActiveRuns = 3
  MaxChunks = 1
  PendingLimit = 1
  DeadQueueMayFail = FALSE
  TasksMayDie = FALSE
SPECIFICATION Spec
\* The system stops when every run the bound allows has ended.
CHECK_DEADLOCK FALSE
INVARIANT FailedIsDeadLettered

