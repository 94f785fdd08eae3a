\* Two settings changes at a time, and restarts; time and requests do not
\* matter here.
CONSTANTS
  Rate = 2
  Burst = 3
  One = 3
  Unscaled = 1
  Scales = {0}
  IPs = {i1}
  Calls = {c1}
  Handlers = {h1, h2}
  Kinds = {"memory", "off"}
  IdleTTL = 3
  MaxLag = 1
  MaxClock = 0
  MaxLives = 3
  MaxCalls = 0
SPECIFICATION FairSpec
PROPERTIES LastWordIsTheActiveOnes
CHECK_DEADLOCK FALSE
