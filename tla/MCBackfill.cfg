SPECIFICATION Spec
CONSTANTS
  MaxId = 3
  PageSize = 1
  PagesPerRange = 2
  Concurrency = 2
  MaxUpsets = 2
INVARIANTS TypeOK NoGap HistoryHonest
PROPERTIES CollectsFaithfully EventuallyCollected StopEndsTheProcess
