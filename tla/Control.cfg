SPECIFICATION FairSpec
CONSTANTS
  WordBits = 4
  WordSize = 16
  CellSize = 4
  WordCells = 2
  IndexSize = 8
  MemoryCells = 5
  Registers = 3
  BitAnd <- MCAnd
  BitOr <- MCOr
  BitXor <- MCXor
  Programs <- ControlPrograms
  Starts <- ControlStarts
  Budgets <- ControlBudgets
  Directs <- ControlDirects
  Pokes = {0, 9}
  MaxCalls = 3
INVARIANTS
  StackInBounds
PROPERTIES
  HaltingIsAtomic
  StackIsAStack
  EveryRunReturns
CHECK_DEADLOCK FALSE
