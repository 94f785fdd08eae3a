\* Two backends, two reloads and two requests at a time; three changes.
CONSTANTS
  Backends = {b1, b2}
  NoBackend = none
  Handlers = {h1, h2}
  Requests = {r1, r2}
  MaxChanges = 3
  MaxRequests = 3
SYMMETRY Symmetry
SPECIFICATION Spec
INVARIANTS CacheFollowsRegistry AnsweredByItsService
CHECK_DEADLOCK FALSE
