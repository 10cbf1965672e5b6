\* An update between a render and its commit, on a lane the render skipped.
CONSTANTS
  Lane = {1, 5, 30}
  DefaultTransitionIndicator = FALSE
  RetryLaneExpiration = FALSE
  SyncExpirationMs = 1
  TransitionExpirationMs = 1
  RetryExpirationMs = 1
  UpdateInputs = {1, 5}
  StageInputs = {}
  CallbackIds = {1, 3, 4}
  MaxUpdates = 3
  MaxRenders = 1
SPECIFICATION Spec
INVARIANTS
  QueueHoldsEveryUpdate
CHECK_DEADLOCK FALSE
