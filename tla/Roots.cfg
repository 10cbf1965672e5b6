CONSTANTS
  Containers = {c}
  Shapes = {"text", "nested"}
  Values = {1, 2}
  Faults = {"listen", "show", "update", "unmount", "revert"}
  MaxRoots = 2
  MaxRequests = 6
  MaxHandles = 2
  MaxShellRequests = 5
  MaxEffects = 3
  MaxAdmissions = 3
  MaxOutputs = 2
  ListenerContainers = {"root", "portal", "document"}
  PortalContainers = {"portal"}
  Document = "document"
  RootKeys <- ClickKeys
  Inspectable = FALSE
  MaxRegistrations = 3
  Nested = TRUE
  Rows = 1
  HostValues = {1, 2}
  MaxUpdates = 3
  MaxDepth = 3
SPECIFICATION RootsSpec
INVARIANTS
  PublicRootsAgree
  BridgeMatchesDom
  ListenersAreCurrent
PROPERTIES
  OutputNeverGoesBack
  FailedCallsRestore
CHECK_DEADLOCK FALSE
