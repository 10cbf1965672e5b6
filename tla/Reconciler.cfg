\* One HostRoot with a sync lane, the default lane and two transitions of
\* different groups; three roots for the scheduler; a state hook.
CONSTANTS
  Lane = {1, 5, 8, 18, 30}
  DefaultTransitionIndicator = FALSE
  RetryLaneExpiration = FALSE
  SyncExpirationMs = 1
  TransitionExpirationMs = 1
  RetryExpirationMs = 1
  UpdateInputs = {1, 5, 8, 18}
  StageInputs = {1}
  CallbackIds = {1, 3, 4}
  MaxUpdates = 4
  MaxRenders = 4
  ScheduledInputs = {1, 5, 8}
  MaxScheduled = 3
  Root = {"r1", "r2", "r3"}
  NoRoot = "none"
SPECIFICATION ReconcilerSpec
INVARIANTS
  PendingLanesAreQueued
  CallbacksMatchShownState
  QueuedTransitionsEntangled
  CommitsAreCurrent
  PendingRootsAreListed
  SyncWorkIsFlagged
  RootsAreServed
  HookShowsWhatWasReached
PROPERTIES
  ShownIsNeverUndone
  ListIsFifo
CHECK_DEADLOCK FALSE
