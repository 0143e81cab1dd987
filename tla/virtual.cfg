SPECIFICATION Spec
CONSTANTS
  Paths = {"a", "b"}
  Names = {"", "b"}
  NoName = ""
  Tags = {"loss", "norm"}
  TagsOf <- MCTagsOf
  TextLogs = {"a"}
  BatchOf <- MCBatchOf
  TokenLists <- MCTokenLists
INVARIANTS
  FilesListed
  StrayNames
  
