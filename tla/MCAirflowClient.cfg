\* Two requests that share a token, and a process that is restarted twice.
CONSTANTS
  Requests = {q1, q2}
  MaxPasswords = 3
  MaxRestarts = 2
SPECIFICATION FairSpec
\* The system stops when every request has ended.
CHECK_DEADLOCK FALSE
INVARIANT TypeOK
INVARIANT TriggeredHasRun
INVARIANT AtMostOneRun
PROPERTY EveryRequestEnds
PROPERTY ServiceSpec
