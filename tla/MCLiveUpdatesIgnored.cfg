SPECIFICATION SafeSpec
CONSTANTS
  MaxVersion = 2
  MaxUpsets = 0
  Sliding = FALSE
  MaxGestures = 1
PROPERTY IgnoredIsShown
CHECK_DEADLOCK FALSE
