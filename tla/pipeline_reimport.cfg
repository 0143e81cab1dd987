SPECIFICATION Spec
CONSTANTS
  Paths = {"b", "c"}
  Tags = {"loss"}
  Workers = {w1, w2}
  Content <- MCContent
  RecordSize = 1
  SizeAtImport <- MCSizeAtImport
  ImportLists <- ReplaceLists
  CanReplace = TRUE
  CanVanish = FALSE
  MaxTagCount = 2
  MaxDataCount = 1
  MaxIncremental = 1
  IntHalf = 64
  MaxImports = 2
INVARIANTS
  DataAscending
