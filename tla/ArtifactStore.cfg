SPECIFICATION FairSpec
CONSTANTS
  resource = resource
  c1 = c1
  c2 = c2
  None = None
  Executions <- MCExecutions
  Resources = {resource}
  Of <- MCOf
  Cleaners <- MCCleaners
  TTL = 1
  MaxStall = 1
  MaxPass = 1
  MaxActors = 3
  MaxFaults = 1
INVARIANTS
  ReadyIsWhole
  LiveUndisturbed
PROPERTIES
  OrphansRemoved
CHECK_DEADLOCK FALSE
