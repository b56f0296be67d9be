SPECIFICATION Spec
CONSTANTS
  Problem <- MCProblem
  MutationIter = 3
  Population = 2
  Generation = 2
INVARIANTS
  TourComplete
  InsertionCostIsLength
  CostIsPossible
  AnswerWithinTenth
  AnswerMoves
  BruteForceIsOptimum
CHECK_DEADLOCK FALSE
