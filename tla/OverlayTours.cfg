SPECIFICATION Spec
CONSTANTS
  None = None
  Base <- MCBase
  Trip <- MCTrip
  MaxOrders = 2
  MaxZone = 2
  ExactMaxObjectives = 2
INVARIANTS
  OverlayTypeOK
  LevelsAreLastOrders
  SnapshotIsPriced
  LanesAnswerWalks
  ExactIsOptimum
CHECK_DEADLOCK FALSE
