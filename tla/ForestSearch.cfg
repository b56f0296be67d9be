SPECIFICATION FairSpec
CONSTANTS
  a = a
  b = b
  c = c
  d = d
  e = e
  Node <- MCNode
  Road <- MCRoad
  Root <- ThreeRoots
  Hysteresis = 1
  Refining = TRUE
  MaxTour = 4
  MaxUpdates = 1
  None = None
INVARIANTS
  TypeOK
  TreesSound
  FrontierExact
  ClassesAreComponents
  LinksAreWays
  RouteIsWalk
PROPERTIES
  RouteWithinOrder
  ImplementsAnytime
  RouteFound
