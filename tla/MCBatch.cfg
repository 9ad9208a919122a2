\* One run over a batch of two files, or of one file twice; the dead queue works.
CONSTANTS
  Files = {f1, f2}
  UnknownId = unknown
  Runs = {r1}
  MaxFileIds = 2
  MaxTries = 2
  MaxActiveRuns = 1
  MaxChunks = 2
  PendingLimit = 2
  DeadQueueMayFail = FALSE
  TasksMayDie = TRUE
SPECIFICATION Spec
SYMMETRY Symmetry
\* The system stops when every run the bound allows has ended.
CHECK_DEADLOCK FALSE
INVARIANT LoadedBacked
INVARIANT CountIsOfOneRun
INVARIANT FailedIsDeadLettered
INVARIANT LoadedIsNotDeadLettered
PROPERTY RunsAdvance
