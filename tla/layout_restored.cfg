SPECIFICATION Spec
CONSTANTS
  a = a
  b = b
  c = c
  d = d
  Root = Root
  NoNode = NoNode
  Nodes <- MCNodes
  Keys <- MCKeys
  Graphs <- SmallGraphs
INVARIANTS
  LayoutAsDocumented
CHECK_DEADLOCK FALSE
