CONSTANTS
  Environments = {e1, e2}
  Ids = {1, 2}
  MaxSlots = 2
  MaxIssued = 4
  MaxGeneration = 2
  BridgeEnvironments = {1, 2}
  Containers = {container}
  MaxRoots = 2
  MaxRequests = 6
  MaxBatch = 4
SYMMETRY EnvironmentSymmetry
SPECIFICATION NativeSpec
INVARIANTS
  ResolvesToItsRecord
  AcceptsExactlyLifecycles
PROPERTY
  ImplementsRegistry
