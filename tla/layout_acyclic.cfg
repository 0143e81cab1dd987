SPECIFICATION Spec
CONSTANTS
  a = a
  b = b
  c = c
  d = d
  Root = Root
  NoNode = NoNode
  Nodes <- MCNodes
  Keys <- MCKeys
  Graphs <- AcyclicGraphs
INVARIANTS
  MakesAcyclic
CHECK_DEADLOCK FALSE
