CONSTANTS
  PropNames <- SomeProps
  Attributes = {"class", "hidden"}
  kind <- SomeKinds
  attribute <- SomeAttribute
  StyleNames = {"width", "cursor"}
  SupportedStyles = {"width"}
  PlainStyles = {}
  Values <- SomeValues
  Texts <- SomeTexts
SPECIFICATION DomSpec
INVARIANTS
  DomShowsProps
  ListenersHaveTheirTurn
  FlattensWithUniqueKeys
PROPERTY
  RefsAreKept
CHECK_DEADLOCK FALSE
