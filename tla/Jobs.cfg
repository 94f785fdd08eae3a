\* One judged provider under two keys; two sources and a handler that may sync
\* beside the worker; two rows of each table and two secrets moved up to twice;
\* three days with one change of the mail settings.  Each may meet one fault.
CONSTANTS
  Asns = {65001}
  Judges = {j1, j2}
  Keys = {1, 2}
  Forms = {f1, f2}
  MaxKeySaves = 2
  MaxKeyFaults = 1
  Sources = {s1, s2}
  Callers = {w, h1}
  Worker = w
  MaxVersions = 2
  MaxIntelChanges = 3
  MaxDue = 1
  MaxIntelFaults = 1
  Secrets = {c1, c2}
  KeyFiles = {1}
  MaxId = 2
  MaxEdits = 2
  MaxRuns = 2
  MaxStarts = 1
  MaxMoveFaults = 1
  MaxDay = 3
  MaxMailSaves = 1
  MaxMailFaults = 1
  MaxMailStarts = 2
SPECIFICATION Spec
INVARIANTS ScoreFollowsKey
PROPERTIES BlankKeepsKey IntelIsCurrent MovesWhole SecretsStayReadable ReportedOnce WorkEnds
CHECK_DEADLOCK FALSE
