\* One row before the move, one run of it, and nothing fails.
CONSTANTS
  Secrets = {c1, c2}
  KeyFiles = {1}
  MaxId = 2
  MaxEdits = 1
  MaxRuns = 1
  MaxStarts = 1
  MaxMoveFaults = 0
SPECIFICATION SpecMigration
PROPERTY KeysKeepTheirScope
CHECK_DEADLOCK FALSE
