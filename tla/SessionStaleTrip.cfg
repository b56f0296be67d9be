SPECIFICATION Spec
CONSTANTS
  Node <- MCNode
  Graph <- FailGraphs
  NodesOf <- MCGraphNodes
  OptCost <- MCOptCost
  MaxCost = 3
  Eps = 1
  ExactMax = 1
  Requests <- FailRequests
  Positions <- FailPositions
  MaxRevision = 2
  MaxThreads = 3
  None = None
INVARIANTS
  NoPlanOfOtherTrip
