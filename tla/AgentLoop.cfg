SPECIFICATION FairSpec
CONSTANTS
  search = search
  readA = readA
  readB = readB
  NoCall = NoCall
  Calls <- MCCalls
  SearchCalls <- MCSearchCalls
  MaxSteps = 4
  MaxToolCalls = 7
  MaxSearchCalls = 2
  MaxRepeatCalls = 2
  MaxRetry = 2
  MaxBatch = 2
INVARIANTS
  RequestsAnswered
  WithinBudgets
  NoRepeatedWork
PROPERTIES
  LoopEnds
CHECK_DEADLOCK FALSE
