SPECIFICATION Spec
CONSTANTS
  FileData <- MCFileData
  MaxFiles = 3
  MaxBoundary = 3
  Cofs = {1, 3}
  CofUnit = 2
  MaxDataCount = 2
INVARIANTS
  TypeOK
  ViewsMatchRange
  SampleIsGathered
  SampleIsDense
  LineAscending
  LineIsNewest
CHECK_DEADLOCK FALSE
