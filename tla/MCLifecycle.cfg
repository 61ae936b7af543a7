SPECIFICATION MCSpec
CONSTANTS
  Services = {s1, s2}
  s1 = s1
  s2 = s2
  MaxId = 1
  MaxPages = 1
  MaxMoves = 2
  MaxUpsets = 2
INVARIANTS TypeOK LiveIsClean
PROPERTIES RetiredUntouched BlockedCollectsNothing EventuallyLive
