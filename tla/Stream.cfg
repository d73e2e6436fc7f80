SPECIFICATION FairSpec
CONSTANTS
  N = 3
  Problems <- StreamProblems
  Calls <- StreamCalls
  MaxCalls = 2
  SampleCap = 64
  Holds <- CheckHolds
  Feasible <- CheckFeasible
PROPERTIES
  IsStream
  EveryCallReturns
CHECK_DEADLOCK FALSE
