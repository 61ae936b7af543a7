SPECIFICATION Spec
CONSTANTS
  MaxId = 3
  MaxTime = 1
  Bodies = {a,b}
  MaxVersion = 3
  Since = 0
  Until = 3
  Selected = {a}
  IncludeRemoved = FALSE
  PageRows = 1
  a = a
  b = b
INVARIANTS TypeOK NoneSkipped NoneRepeated
PROPERTIES ChangesAreVersioned PinnedNeverLoses
CHECK_DEADLOCK FALSE
