SPECIFICATION FairSpec
CONSTANTS
  Paths = {"d", "e"}
  Tags = {"loss", "norm"}
  Workers = {w1, w2}
  Content <- MCContent
  RecordSize = 1
  SizeAtImport <- MCSizeAtImport
  ImportLists <- LiveLists
  CanReplace = TRUE
  CanVanish = FALSE
  MaxTagCount = 2
  MaxDataCount = 1
  MaxIncremental = 1
  IntHalf = 64
  MaxImports = 2
INVARIANTS
  FinishedMeansLoaded
PROPERTIES
  TasksEnd
  ProjectsFinish
