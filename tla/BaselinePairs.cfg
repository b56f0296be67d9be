SPECIFICATION Spec
CONSTANTS
  Map <- Along
  Stop <- FourStops
  Refining = TRUE
  MaxTour = 6
  None = None
INVARIANT RouteIsWalk
CHECK_DEADLOCK FALSE
