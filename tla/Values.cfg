SPECIFICATION Spec
CONSTANTS
  MaxSize = 50
  Definitions <- Definitions_
  Expressions <- Expressions_
  Allocations <- Allocations_
  Contents <- Contents_
  Placements = {0, 1}
  MaxViews = 3
  MaxWrites = 2
  Operands <- Operands_
  Mantissa = 3
INVARIANTS
  LayoutsAreExact
  OperatorsAreExact
PROPERTY
  WritesStayInTheirView
CHECK_DEADLOCK FALSE
