SPECIFICATION Spec
CONSTANTS
  Node <- MCNode
  Graph <- RaceGraphs
  NodesOf <- MCGraphNodes
  OptCost <- MCOptCost
  MaxCost = 5
  Eps = 1
  ExactMax = 1
  Requests <- RaceRequests
  Positions <- RacePositions
  MaxRevision = 2
  MaxThreads = 4
  None = None
INVARIANTS
  GateTracksBest
  NoDrift
  AdmittedIsCurrent
  ExactLaneSettles
