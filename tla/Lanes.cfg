CONSTANTS
  Lane = {1, 8, 9, 10, 22, 28, 30}
  DefaultTransitionIndicator = FALSE
  RetryLaneExpiration = TRUE
  SyncExpirationMs = 1
  TransitionExpirationMs = 2
  RetryExpirationMs = 2
  UpdateInputs = {1, 8, 22}
  EntangleInputs = {}
  SpawnInputs = {}
  AuxInputs = {}
  MaxTime = 3
  MaxHidden = 0
SPECIFICATION LanesSpec
INVARIANTS
  TypeOK
  StarvationClock
  EntangledRenderTogether
  FlagsArePending
  SelectionIsSound
