SPECIFICATION Spec
CONSTANTS
  timer = timer
  byHand = byHand
  Takers = {timer, byHand}
  Keep = 2
  Torn = Torn
  Absent = Absent
  MaxCommits = 1
  MaxStamp = 5
  MaxFailures = 2
SYMMETRY TakerSymmetry
INVARIANTS WholeCopies NewestSurvive
PROPERTY AloneCleansUp
CHECK_DEADLOCK FALSE
