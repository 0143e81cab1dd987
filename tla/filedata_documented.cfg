SPECIFICATION Spec
CONSTANTS
  Values <- MCValues
  Params <- TwoParams
  MaxRequests = 3
INVARIANTS
  DataAsDocumented
CHECK_DEADLOCK FALSE
