SPECIFICATION Spec
CONSTANTS
  Paths = {"a", "b", "c"}
  Tags = {"loss", "norm"}
  Workers = {w1, w2}
  Content <- MCContent
  RecordSize = 30
  SizeAtImport <- MCSizeAtImport
  ImportLists <- AppendLists
  CanReplace = FALSE
  CanVanish = TRUE
  MaxTagCount = 2
  MaxDataCount = 1
  MaxIncremental = 1
  IntHalf = 64
  MaxImports = 2
INVARIANTS
  TypeOK
  TaskIsInOnePlace
  FinishedMeansLoaded
  DataAscending
  DataOnce
  GraphsAnnounced
  DataReachable
PROPERTIES
  PercentNeverFalls
