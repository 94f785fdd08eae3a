\* Two backends, one of which may die or come back once, one request, and two
\* changes of the service, whose reloads may overlap.
CONSTANTS
  u1 = u1
  u2 = u2
  URLs = {u1, u2}
  Fragile = {u1}
  Requests = {r1}
  Configs <- Settings
  MaxSaves = 2
  MaxFlips = 1
SPECIFICATION FairSpec
INVARIANTS SentAtMostTwice InstalledTogether
PROPERTIES BadGatewayOnlyAfterRetry RecoveredBackendReturns
CHECK_DEADLOCK FALSE
