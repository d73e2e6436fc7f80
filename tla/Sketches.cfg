SPECIFICATION FairSpec
CONSTANTS
  WordBits = 4
  WordSize = 16
  CellSize = 4
  WordCells = 2
  IndexSize = 8
  MemoryCells = 5
  Registers = 3
  BitAnd <- MCAnd
  BitOr <- MCOr
  BitXor <- MCXor
  GoalHolds <- MCGoalHolds
  SketchProblems <- MCSketchProblems
  MaxRounds = 3
  Probes = 3
  Cases = 3
INVARIANTS
  ShortestFillIsFound
  EveryFillOnce
  CounterexamplesAreNew
  VerifiedIsCorrect
PROPERTY
  LoopReturns
CHECK_DEADLOCK FALSE
