SPECIFICATION FairSpec
CONSTANTS
  a = a
  b = b
  k = k
  p1 = p1
  p2 = p2
  None = None
  Requests = {1, 2, 3, 4}
  Workloads <- MCWorkloads
  Identities = {a, b}
  EnvIdentities = {b, None}
  PoolSize = 3
  MaxFaults = 1
INVARIANTS
  RunsKeepProvider
  IdempotentCreation
PROPERTIES
  EveryRequestEnds
CHECK_DEADLOCK FALSE
