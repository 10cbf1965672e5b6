CONSTANTS
  Timeout <- SmallTimeouts
  Node <- SmallNodes
  Priorities = {1, 3}
  Delays = {0, 1}
  FrameInterval = 1
  MaxTasks = 3
  MaxTime = 2
  MaxContinuations = 1
  MaxNesting = 1
  Steps = {1}
  Counts = {0, 1}
  MayReset = TRUE
  CallbackMayAdvance = TRUE
  MaxMockTasks = 2
  MaxLog = 1
  PostNodes = {"callback"}
  PostPriorities = {4, 5}
  PostDelays = {0, 17}
  HasYield = TRUE
  ShimKeys = TRUE
  SliceLength = 1
  MaxRuns = 3
  MaxDepth = 2
  MaxCancels = 2
  AcceptedDelay = 17
SPECIFICATION SchedulersSpec
INVARIANTS
  NothingLeaksFromCalls
  LoopIsArmed
  LogIsTrue
PROPERTIES
  HeapIsPriorityQueue
  UrgentWorkIsNotDelayed
  DrainedMeansNothingDue
  CancelledNeverRuns
CHECK_DEADLOCK FALSE
