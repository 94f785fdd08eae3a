----------------------------- MODULE AccessLog -----------------------------
(***************************************************************************)
(* The flat access.log with its size-based rotation                        *)
(* (internal/notify/accesslog).  A line is the number of its row and takes *)
(* one unit of room.  The files are logs[0], the current one, and the      *)
(* backups logs[1] (youngest) .. logs[MaxBackups]; <<>> is a missing file. *)
(***************************************************************************)
EXTENDS Integers, Sequences, FiniteSets

CONSTANTS
  MaxBackups,    \* backups kept
  FileCap,       \* lines that fit in a file (maxSizeBytes)
  LogFaults,     \* what may go wrong: "rename", "reopen" or "write"
  MaxLogFaults   \* bound on the faults

ASSUME AccessLogAssumption ==
  /\ MaxBackups \in Nat
  /\ FileCap \in Nat \ {0}
  /\ LogFaults \subseteq {"rename", "reopen", "write"}
  /\ MaxLogFaults \in Nat

VARIABLES
  logs,       \* 0..MaxBackups -> the lines of that file
  size,       \* Writer.size
  handle,     \* what Writer.f is: "open", or "dead" after a failed reopen
  logClosed,  \* Writer.closed
  logFaults,  \* the faults so far
  pushed      \* rows Push was called with before Close, oldest first (history)

logVars == <<logs, size, handle, logClosed, logFaults, pushed>>

Files == 0..MaxBackups

TypeOKLog ==
  /\ DOMAIN logs = Files
  /\ size \in 0..FileCap
  /\ handle \in {"open", "dead"}
  /\ logClosed \in BOOLEAN
  /\ Len(logFaults) <= MaxLogFaults
  /\ \A i \in DOMAIN logFaults : logFaults[i] \in LogFaults

InitLog ==
  /\ logs = [i \in Files |-> <<>>]
  /\ size = 0
  /\ handle = "open"
  /\ logClosed = FALSE
  /\ logFaults = <<>>
  /\ pushed = <<>>

LogFault(kind) ==
  /\ kind \in LogFaults
  /\ Len(logFaults) < MaxLogFaults
  /\ logFaults' = Append(logFaults, kind)

\* Mutant: the renames go from the youngest backup to the oldest.
RotatedYoungestFirst(ok) ==
  [i \in Files |-> IF i = MaxBackups THEN logs[0] ELSE <<>>]

\* rotateLocked's renames, oldest first: file i-1 becomes file i, replacing it;
\* file 0 moves last, the oldest backup is removed first.  The steps outside ok
\* fail, are logged, and the others go ahead.
Rotated(ok) ==
  [i \in Files |->
     IF i > 0 /\ i-1 \in ok /\ logs[i-1] # <<>> THEN logs[i-1]
     ELSE IF i \in ok THEN <<>>
     ELSE logs[i]]

Write(files, row) == [files EXCEPT ![0] = Append(@, row)]

\* WriteString.
Append1(files, used, row) ==
  \/ /\ logs' = Write(files, row)
     /\ size' = used + 1
     /\ UNCHANGED logFaults
  \/ /\ LogFault("write")
     /\ logs' = files
     /\ size' = used

\* Push of a row that fits.
LogAppend(row) ==
  /\ handle = "open"
  /\ size < FileCap
  /\ Append1(logs, size, row)
  /\ UNCHANGED handle

\* Push of a row that does not fit: rotate, then write to the new file.
LogRotate(row) ==
  /\ handle = "open"
  /\ size = FileCap
  /\ \/ Append1(Rotated(Files), 0, row)
     \/ \E ok \in (SUBSET Files) \ {Files} :
          /\ LogFault("rename")
          /\ logs' = Write(Rotated(ok), row)
          /\ size' = 1
  /\ UNCHANGED handle

\* OpenFile fails after the old file was closed and moved away: Push falls
\* through to a write on the closed handle, which fails too.
LogReopenFails(row) ==
  /\ handle = "open"
  /\ size = FileCap
  /\ LogFault("reopen")
  /\ logs' = Rotated(Files)
  /\ handle' = "dead"
  /\ UNCHANGED size

\* From then on every rotation fails at closing the handle, and every write.
LogDead(row) ==
  /\ handle = "dead"
  /\ UNCHANGED <<logs, size, handle, logFaults>>

LogPush(row) ==
  IF logClosed
    THEN UNCHANGED logVars
    ELSE /\ \/ LogAppend(row)
            \/ LogRotate(row)
            \/ LogReopenFails(row)
            \/ LogDead(row)
         /\ pushed' = Append(pushed, row)
         /\ UNCHANGED logClosed

LogClose ==
  /\ logClosed' = TRUE
  /\ UNCHANGED <<logs, size, handle, logFaults, pushed>>

----------------------------------------------------------------------------
\* All the lines there are, oldest first.
Chain ==
  LET from[i \in Files] == IF i = 0 THEN logs[0] ELSE logs[i] \o from[i-1]
  IN  from[MaxBackups]

SuffixOf(s, n) == SubSeq(s, Len(s) - n + 1, Len(s))

\* The files, read from the oldest backup to the current one, are the newest
\* rows in their order, without a gap, and rotation throws away no more than
\* it must: while nothing failed, all the backups' worth of rows is kept.
LogKeepsNewest ==
  logFaults = <<>> =>
    /\ Len(Chain) <= Len(pushed)
    /\ Chain = SuffixOf(pushed, Len(Chain))
    /\ Len(Chain) > MaxBackups * FileCap \/ Chain = pushed
=============================================================================
