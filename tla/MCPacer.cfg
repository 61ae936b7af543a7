SPECIFICATION Spec
CONSTANTS
  Requesters = {r1, r2, r3}
  r1 = r1
  r2 = r2
  r3 = r3
  Attempts = 2
  Fastest = 1
  Slowest = 3
  LiveGap = 2
  InitialBackoff = 1
  MaxBackoff = 3
  RetryAfters = {0, 5}
INVARIANTS TypeOK LiveCooldownKept OneEarlyAtMost
PROPERTIES Spaced RequestsEnd
