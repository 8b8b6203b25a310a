SPECIFICATION Spec
CONSTANTS
  w1 = w1
  w2 = w2
  NoWorker = NoWorker
  Jobs <- MCJobs
  DiagnosisJobs <- MCJobs
  Workers <- MCWorkers
  BatchSize = 1
  Concurrency = 1
  MaxAttempts = 2
  MaxGeneration = 2
  MaxClaims = 3
  MaxFaults = 2
INVARIANT WaitingDiagnosisCancellable
CHECK_DEADLOCK FALSE
