SPECIFICATION FairSpec
CONSTANTS
  w1 = w1
  w2 = w2
  NoWorker = NoWorker
  Jobs <- MCJobs
  DiagnosisJobs <- MCJobs
  Workers <- MCOneWorker
  BatchSize = 1
  Concurrency = 2
  MaxAttempts = 2
  MaxGeneration = 1
  MaxClaims = 4
  MaxFaults = 2
INVARIANTS
  AttemptsBounded
PROPERTIES
  ChargedOncePerClaim
  JobSettles
  StopCompletes
CHECK_DEADLOCK FALSE
