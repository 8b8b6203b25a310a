SPECIFICATION ExecSpec
CONSTANTS
  w1 = w1
  NoWorker = NoWorker
  Jobs <- MCJobs
  DiagnosisJobs <- MCJobs
  Workers <- MCWorkers
  BatchSize = 1
  Concurrency = 1
  MaxAttempts = 2
  MaxGeneration = 1
  MaxClaims = 2
  MaxFaults = 1
  MaxOutages = 2
INVARIANT
  NoAutomaticReplay
CHECK_DEADLOCK FALSE
