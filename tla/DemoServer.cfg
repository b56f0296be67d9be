SPECIFICATION Spec
CONSTANTS
  c1 = c1
  c2 = c2
  Client <- MCClient
  Map = {"city", "trap"}
  Switches = {"trap"}
  FirstMap = "city"
  Node <- MCNode
  NodesOf <- MCNodesOf
  Spread <- MCSpread
  Requests <- MCRequests
  Positions <- MCPositions
  BulkFails = TRUE
  MaxEdits = 2
  MaxDemos = 2
  None = None
SYMMETRY ClientSymmetry
INVARIANTS
  TypeOK
  EditsAreAnnounced
  CopiesAgree
  RouteIsOnMap
