SPECIFICATION Spec
CONSTANTS
  N = 3
  Problems <- SaturatedProblems
  Calls <- SaturatedCalls
  MaxCalls = 2
  SampleCap = 64
  Holds <- CheckHolds
  Feasible <- CheckFeasible
INVARIANT OnlyDeadSubtreesPruned
CHECK_DEADLOCK FALSE
