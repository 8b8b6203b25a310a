SPECIFICATION Spec
CONSTANTS
  w1 = w1
  w2 = w2
  NoWorker = NoWorker
  Jobs <- MCPair
  DiagnosisJobs <- MCJobs
  Workers <- MCOneWorker
  BatchSize = 2
  Concurrency = 2
  MaxAttempts = 2
  MaxGeneration = 2
  MaxClaims = 2
  MaxFaults = 1
INVARIANTS
  JobBusinessAgreement
  OnlyLatestClaimOwns
  FinalizerCanCommit
  CancellationWins
  ReaperNeverPoisoned
PROPERTIES
  RefinesLifecycle
CHECK_DEADLOCK FALSE
