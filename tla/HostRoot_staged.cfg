\* A render and a commit between staging an update and draining it.
CONSTANTS
  Lane = {1, 5, 30}
  DefaultTransitionIndicator = FALSE
  RetryLaneExpiration = FALSE
  SyncExpirationMs = 1
  TransitionExpirationMs = 1
  RetryExpirationMs = 1
  UpdateInputs = {5}
  StageInputs = {1}
  CallbackIds = {1, 3, 4}
  MaxUpdates = 2
  MaxRenders = 1
SPECIFICATION Spec
INVARIANTS
  StagedUpdatesDrain
CHECK_DEADLOCK FALSE
