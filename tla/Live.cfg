CONSTANTS
  Nodes = {n1, n2}
  Priorities = {4}
  Delays = {0}
  HasYield = FALSE
  ShimKeys = TRUE
  SliceLength = 1
  MaxRuns = 2
  MaxDepth = 1
  MaxCancels = 1
  AcceptedDelay = 17
SPECIFICATION LiveSpec
PROPERTIES
  EveryTaskIsServed
  EveryUpdateIsShown
  RootsSettle
CHECK_DEADLOCK FALSE
