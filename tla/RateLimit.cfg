\* One address, a burst of one token and a half, three quarters a tick.
CONSTANTS
  Rate = 3
  Burst = 6
  One = 4
  Unscaled = 1
  Scales = {1}
  IPs = {i1}
  Calls = {c1, c2}
  Handlers = {h1}
  Kinds = {"memory", "redis"}
  IdleTTL = 3
  MaxLag = 1
  MaxClock = 4
  MaxLives = 2
  MaxCalls = 3
SPECIFICATION Spec
INVARIANTS MemoryBound
PROPERTIES RetryAfterNearlyHonoured
CHECK_DEADLOCK FALSE
