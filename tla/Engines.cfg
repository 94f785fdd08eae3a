\* The nonce's window, its sweep and the cookie end within the two ticks; two
\* admins save at a time, two copies of a solution race.
CONSTANTS
  Nonces = {k1, k2}
  Posts = {c1, c2}
  Savers = {s1, s2}
  BotForms <- BotFormsDef
  Lifetime = 1
  SweepAt = 1
  MaxTime = 2
  MaxBotChanges = 2
  MaxBotWork = 3
  MaxBotFaults = 1
  Crs = {941100}
  RowNos = {1, 2}
  RuleIds = {1000000, 1000001}
  Changers = {c1, c2}
  MaxRuleChanges = 3
  MaxRuleFaults = 1
  MaxRuleStarts = 2
  Checks = {c1, c2}
  Prints = {k1, k2}
  Rest = {s1, s2}
  VerdictTTL = 1
  Capacity = 1
  MaxVTime = 2
  MaxEngines = 2
  MaxChecks = 3
  Scopes = {"app", "all"}
  Global <- EveryService
  GeoCalls = {c1, c2}
  MaxGeoChanges = 3
  MaxGeoFaults = 1
  Hostnames = {k1, k2}
  NoName = ""
  Editors = {c1, c2}
  MaxServices = 2
  MaxHostChanges = 2
  MaxHostFaults = 1
  Conns = {c1, c2}
  BlockedRows = {1, 3}
  ChanCap = 2
  MaxRows = 3
  MaxBreaks = 1
  MaxMarks = 1
  MaxLiveFaults = 1
SYMMETRY Symmetry
SPECIFICATION Spec
INVARIANTS NamesAreSound StreamsTell OncePerWindow SettingsInForce OnlyRacesRepeatIds VerdictsAreSound
PROPERTIES SolvedStaysAdmitted
CHECK_DEADLOCK FALSE
