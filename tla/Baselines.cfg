SPECIFICATION Spec
CONSTANTS
  Map <- MCMap
  Stop <- MCStop
  Refining = TRUE
  MaxTour = 4
  None = None
INVARIANTS TypeOK AskedWhenLinked EntriesAreWalks RouteIsWalk AnswersIffConnected ExhaustedIsShortest
PROPERTY RouteWithinTour
CHECK_DEADLOCK FALSE
