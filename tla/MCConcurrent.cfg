\* Two runs of one file at once, with dying tasks and a failing dead queue.
CONSTANTS
  Files = {f1}
  UnknownId = unknown
  Runs = {r1, r2}
  MaxFileIds = 1
  MaxTries = 2
  MaxActiveRuns = 2
  MaxChunks = 2
  PendingLimit = 1
  DeadQueueMayFail = TRUE
  TasksMayDie = TRUE
SPECIFICATION Spec
SYMMETRY Symmetry
\* The system stops when every run the bound allows has ended.
CHECK_DEADLOCK FALSE
INVARIANT TypeOK
INVARIANT LoadedBacked
INVARIANT CountIsOfOneRun
INVARIANT ProcessingHasOwner
INVARIANT RetryDoesNotDuplicate
PROPERTY LifecycleSpec
