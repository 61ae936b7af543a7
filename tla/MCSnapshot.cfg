SPECIFICATION Spec
CONSTANTS
  Since = 1
  Until = 3
  Selected = {}
  IncludeRemoved = FALSE
  TypeLimit = 1
  MapLimit = 1
  Requests = {r1, r2}
  r1 = r1
  r2 = r2
  Tables <- MCTables
  None = None
  PoolSize = 1
  MaxCommits = 1
  MaxUpsets = 1
INVARIANTS TypeOK AnswersAgree NothingHeld
PROPERTIES ReadsOneState RequestsEnd
CHECK_DEADLOCK FALSE
