SPECIFICATION Spec
CONSTANTS
  WordBits = 4
  WordSize = 16
  CellSize = 4
  WordCells = 2
  IndexSize = 8
  MemoryCells = 5
  Registers = 3
  BitAnd <- MCAnd
  BitOr <- MCOr
  BitXor <- MCXor
  Draws <- MCDraws
  Forgeries <- MCForgeries
  Programs <- MCPrograms
  MaxTrace = 5
INVARIANTS
  ForgeryIsDetected
  TracesAreRuns
  ArithmeticIsExact
CHECK_DEADLOCK FALSE
