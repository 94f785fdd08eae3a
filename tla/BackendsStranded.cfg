\* One change, from a service with a health path to one without.
CONSTANTS
  u1 = u1
  u2 = u2
  URLs = {u1, u2}
  Fragile = {u1}
  Requests = {r1}
  Configs <- Settings
  MaxSaves = 1
  MaxFlips = 1
SPECIFICATION Spec
INVARIANTS NoneOutWithoutCheck
CHECK_DEADLOCK FALSE
