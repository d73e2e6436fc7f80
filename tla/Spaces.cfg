SPECIFICATION ClientSpec
CONSTANTS
  Kinds <- MCKinds
  Lowest <- MCLowest
  Highest <- MCHighest
  Names <- MCNames
  Base <- MCBase
  Graphs <- MCGraphs
  Values <- Point
  Limits = {0, 2, 4, 99}
INVARIANTS
  SpacesAgree
  ResultsAreMembers
  ProjectionIsNearest
  ReachableIsClosure
  ComponentsAreExact
CHECK_DEADLOCK FALSE
