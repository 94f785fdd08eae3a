\* Four requests, two at a time; queues of one row; three log files of one line
\* each; one fault of the log, any number of the database and the warehouse.
CONSTANTS
  MaxRows = 4
  MaxInFlight = 2
  QueueCap = 1
  HookCap = 1
  DBMayFail = TRUE
  MaxBackups = 2
  FileCap = 1
  LogFaults = {"rename", "reopen", "write"}
  MaxLogFaults = 1
  SinkCap = 1
  BatchSize = 2
  InsertsMayFail = TRUE
SPECIFICATION FairPipeline
INVARIANTS SinksFollowTheDatabase LogKeepsNewest AcceptedRowsAreWritten
PROPERTIES MirrorsTheTable ShutdownCompletes
CHECK_DEADLOCK FALSE
