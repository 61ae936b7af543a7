SPECIFICATION SafeSpec
CONSTANTS
  Requesters = {r1, r2}
  r1 = r1
  r2 = r2
  Attempts = 2
  Fastest = 1
  Slowest = 3
  LiveGap = 2
  InitialBackoff = 1
  MaxBackoff = 3
  RetryAfters = {0, 5}
INVARIANT CooldownKept
