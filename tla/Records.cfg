CONSTANTS
  d1 = d1
  g1 = g1
  g2 = g2
  k1 = k1
  k2 = k2
  x1 = x1
  x2 = x2
  r1 = r1
  r2 = r2
  DispatchGates = {d1}
  ResetGates = {g1, g2}
  Prefix <- DefaultPrefixes
  Roots = {x1, x2}
  BlockerKinds <- ActionSubmits
  MaxOf <- FormBounds
  Gates = {k1, k2}
  Nodes = {"input", "textarea"}
  Kind <- TwoControls
  MaxProps = 3
  MaxEvents = 1
  MaxEdits = 1
  RestoreMaxOf <- RestoreBounds
  MaxRestoreRecords = 8
  MaxIntents = 1
  TestRoots = {r1, r2}
  MaxRequests = 4
  MaxExecutions = 4
  MaxAnswers = 4
SYMMETRY RecordsSymmetry
SPECIFICATION RecordsSpec
INVARIANTS
  EvidenceIsTrue
PROPERTIES
  TakenIsCurrent
  RestoresOneEdit
CHECK_DEADLOCK FALSE
