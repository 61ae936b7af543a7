SPECIFICATION SafeSpec
CONSTANTS
  Services = {s1, s2}
  s1 = s1
  s2 = s2
  MaxId = 1
  MaxPages = 1
  MaxMoves = 1
  MaxUpsets = 0
INVARIANT ResetMeansReplaced
