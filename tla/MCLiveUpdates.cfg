SPECIFICATION Spec
CONSTANTS
  MaxVersion = 2
  MaxUpsets = 1
  Sliding = TRUE
  MaxGestures = 2
INVARIANTS TypeOK QuietMeansCurrent
PROPERTIES PausedStandsStill EventuallyCurrent
CHECK_DEADLOCK FALSE
