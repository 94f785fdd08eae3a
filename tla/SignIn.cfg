\* Two requests at a time, three in all, and one failing database call; the
\* window of the limiter is one time step of the authenticator.
CONSTANTS
  Handlers = {h1, h2}
  Devices = {d1, d2}
  MaxFailures = 2
  Window = 1
  Lockout = 1
  Skew = 1
  BackupCount = 1
  Settings = {"totp", "password", "passkey", "devices"}
  MaxClock = 2
  MaxRequests = 3
  MaxFaults = 1
SYMMETRY Symmetry
SPECIFICATION Spec
INVARIANTS TypeOK OneLiveSession FactorsHold CodesWorkOnce OldPasswordEnds
PROPERTY FailuresCount
CHECK_DEADLOCK FALSE
