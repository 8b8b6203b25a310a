SPECIFICATION Spec
CONSTANTS
  Inputs <- MCInputs
  Diagnosed <- MCDiagnosed
  BodyLimit = 2
  PacketLimit = 3
  Span = 2
  Slots = {1, 2}
  Groupings <- MCGroupings
  MaxAttempts = 3
  MaxCalls = 1
  MaxFaults = 1
  None = None
  Unknown = Unknown
INVARIANTS
  BodiesAgree
  NothingForged
  CitationsSurvive
CHECK_DEADLOCK FALSE
