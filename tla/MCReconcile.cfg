SPECIFICATION Spec
CONSTANTS
  MaxId = 2
  MaxTime = 2
  Second = 2
  PageSize = 1
  MaxChanges = 2
  MaxUpsets = 1
INVARIANT TypeOK
PROPERTIES RemovalJustified Converges
