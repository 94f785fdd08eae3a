\* One node, one address, two rule changes, two bans, a crash and two faults.
CONSTANTS
  n1 = n1
  a1 = a1
  b1 = b1
  b2 = b2
  s1 = s1
  ip1 = ip1
  Nodes = {n1}
  Clustered = {}
  Handlers = {a1, b1, b2}
  Home <- OneNode
  IPs = {ip1}
  MaxRev = 3
  MaxRestarts = 1
  Lossy = FALSE
  ReadsMayFail = TRUE
  Node = n1
  Admins = {a1}
  Bans = {b1, b2}
  Savers = {s1}
  Settings <- ShortOrOff
  Default <- LongWindow
  Classes = {"critical", "waf", "ip_blocked"}
  Private = {}
  QueueCap = 1
  MaxWindow = 2
  MarkerLife = 1
  MaxFaults = 1
  MaxSaves = 1
SPECIFICATION FairSpecBan
INVARIANTS OneBanAtATime NoOffenceCountsTwice
PROPERTIES PersistentOffenderIsRuled StandingBlockIsEnforced
CHECK_DEADLOCK FALSE
