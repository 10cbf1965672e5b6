SPECIFICATION Spec
CONSTANTS
  Containers = {c1}
  Shapes = {"text"}
  Values = {1, 2}
  Faults = {}
  MaxRoots = 1
  MaxRequests = 5
INVARIANTS UnmountAlwaysReturns
CHECK_DEADLOCK FALSE
