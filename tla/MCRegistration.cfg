\* Scans against a request that names up to two files, or one file twice.
CONSTANTS
  Names = {1, 2}
  Requests = {q1}
  MaxNames = 2
  MaxTries = 2
  MaxDeaths = 2
  MaxFaults = 1
SPECIFICATION FairSpec
INVARIANT TypeOK
INVARIANT ReportedByOne
INVARIANT ReportsAreTrue
INVARIANT ScanAccountsForAll
PROPERTY EventuallyRegistered
