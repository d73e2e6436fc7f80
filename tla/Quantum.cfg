SPECIFICATION Spec
CONSTANTS
  MaxLength = 3
  Programs <- Programs_
  Corrections <- Corrections_
  Tests <- Tests_
  Syntheses <- Syntheses_
INVARIANTS
  RunsAreBranches
  CircuitsAreUnitary
  CorrectionTeleports
  ShortestCircuitIsFound
CHECK_DEADLOCK FALSE
