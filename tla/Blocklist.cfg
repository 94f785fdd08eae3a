\* Two nodes, two rule changes, lossy Redis, failing reads, one restart.
CONSTANTS
  n1 = n1
  n2 = n2
  h1 = h1
  h2 = h2
  h3 = h3
  Nodes = {n1, n2}
  Clustered = {n1, n2}
  Handlers = {h1, h2, h3}
  Home <- Cluster
  IPs = {ip1}
  MaxRev = 2
  MaxRestarts = 1
  Lossy = TRUE
  ReadsMayFail = TRUE
SPECIFICATION FairSpec
INVARIANTS StaleOnlyByAccident
PROPERTY Settles
CHECK_DEADLOCK FALSE
