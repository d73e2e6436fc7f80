SPECIFICATION FairSpec
CONSTANTS
  WordBits = 4
  WordSize = 16
  CellSize = 4
  WordCells = 2
  IndexSize = 8
  MemoryCells = 5
  Registers = 3
  BitAnd <- MCAnd
  BitOr <- MCOr
  BitXor <- MCXor
  GoalHolds <- MCGoalHolds
  Problems <- MCProblems
INVARIANTS
  ShortestIsFound
  ImagesAreStates
PROPERTY
  SearchReturns
CHECK_DEADLOCK FALSE
