SPECIFICATION FairSpec
CONSTANTS
  a = a
  b = b
  c = c
  d = d
  Root = Root
  NoNode = NoNode
  Nodes <- MCNodes
  Keys <- MCKeys
  Graphs <- MCGraphs
INVARIANTS
  RanksFeasible
  TreeIsTight
  PanicMeansCycle
  LayersExact
  EdgesDrawn
  NodesComeBack
PROPERTIES
  LayoutEnds
CHECK_DEADLOCK FALSE
