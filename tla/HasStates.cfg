SPECIFICATION Spec
CONSTANTS
  StateFuncs = {s1}
  WithStatus = {s1}
  None = None
  MaxLoops = 1
  MaxRequests = 3
  MaxStarts = 2
  AllStatusChanges = TRUE
  Callers = {c1}
  Poller = Poller
INVARIANTS
  AnnouncedStatusCatchesUp
PROPERTIES
  CallsReturn
