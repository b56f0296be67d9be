SPECIFICATION Spec
CONSTANTS
  a = a
  b = b
  c = c
  d = d
  e = e
  Node <- MCNode
  Road <- MCRoad
  Root <- ThreeRoots
  Hysteresis = 0
  Refining = FALSE
  MaxTour = 4
  MaxUpdates = 1
  None = None
INVARIANTS
  CostIsEdgeSum
