SPECIFICATION ExecSpec
CONSTANTS
  w1 = w1
  NoWorker = NoWorker
  Jobs <- MCJobs
  DiagnosisJobs <- MCJobs
  Workers <- MCWorkers
  BatchSize = 1
  Concurrency = 2
  MaxAttempts = 2
  MaxGeneration = 2
  MaxClaims = 2
  MaxFaults = 1
  MaxOutages = 1
INVARIANTS
  FinalAttemptAgrees
  WorkIsMarked
  ReplayNeedsLostCheckpoint
  SuccessCheckpointed
PROPERTIES
  ClosedAttemptsStay
  KeepsHandlerContract
CHECK_DEADLOCK FALSE
