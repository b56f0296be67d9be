SPECIFICATION Spec
CONSTANTS
  Node <- MCNode
  Graph <- RaceGraphs
  NodesOf <- MCGraphNodes
  OptCost <- MCOptCost
  MaxCost = 3
  Eps = 1
  ExactMax = 1
  Requests <- RaceRequests
  Positions <- RacePositions
  MaxRevision = 2
  MaxThreads = 3
  None = None
INVARIANTS
  NoStalePlanShown
