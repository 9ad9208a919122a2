\* Two runs that compete for one active run. No symmetry: it is unsound here.
CONSTANTS
  Files = {f1}
  UnknownId = unknown
  Runs = {r1, r2}
  MaxFileIds = 1
  MaxTries = 2
  MaxActiveRuns = 1
  MaxChunks = 1
  PendingLimit = 1
  DeadQueueMayFail = FALSE
  TasksMayDie = TRUE
SPECIFICATION FairSpec
\* The system stops when every run the bound allows has ended.
CHECK_DEADLOCK FALSE
INVARIANT FailedIsDeadLettered
INVARIANT LoadedIsNotDeadLettered
PROPERTY RunEnds
PROPERTY ProcessingSettles
