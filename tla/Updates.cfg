SPECIFICATION Spec
CONSTANTS
  Values = {v1, v2}
  Errors = {e1}
  None = None
  Conns = {c1}
  Updaters = {u1}
  MaxUpdates = 2
INVARIANTS
  NothingMissed
  ClientsFollow
PROPERTIES
  Completed
CHECK_DEADLOCK FALSE
