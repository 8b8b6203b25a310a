SPECIFICATION FairSpec
CONSTANTS
  Processes = {api, worker}
  Program <- MCProgram
  Ends <- MCEnds
  At <- MCAt
  Objects <- MCObjects
  Tables = {"attempts", "builds", "snapshots", "jobs"}
  Absent = "absent"
  Unknown = "unknown"
  MaxDrift = 1
  MaxFaults = 2
  None = None
INVARIANTS
  ServingIsCurrent
  NoSelfConflict
  FreshUntouched
  IdentityGuarded
PROPERTIES
  SchemaCompleted
CHECK_DEADLOCK FALSE
