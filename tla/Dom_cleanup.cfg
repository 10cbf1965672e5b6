CONSTANTS
  PropNames <- SomeProps
  Attributes = {"class", "hidden"}
  kind <- SomeKinds
  attribute <- SomeAttribute
  StyleNames = {"width", "cursor"}
  SupportedStyles = {"width"}
  PlainStyles = {}
  Values <- SomeValues
  Texts <- SomeTexts
SPECIFICATION DomSpec
INVARIANT
  CleanupRunsOnce
CHECK_DEADLOCK FALSE
