SPECIFICATION Spec
CONSTANTS
  N = 3
  Problems <- SearchProblems
  Calls <- SearchCalls
  MaxCalls = 2
  SampleCap = 2
  Holds <- CheckHolds
  Feasible <- CheckFeasible
INVARIANTS
  NothingIsLost
  EachSolutionOnce
  CountIsExact
  CallsEndClean
  NearestIsOptimal
  RepairIsSolution
PROPERTY
  RepairNeverWorsens
CHECK_DEADLOCK FALSE
