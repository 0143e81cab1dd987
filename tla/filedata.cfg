SPECIFICATION FairSpec
CONSTANTS
  Values <- MCValues
  Params <- OneParam
  MaxRequests = 3
INVARIANTS
  TypeOK
  NoRace
  SmoothingAscending
  SmoothingComplete
PROPERTIES
  NobodyWaits
CHECK_DEADLOCK FALSE
