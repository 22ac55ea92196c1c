SPECIFICATION Spec
CONSTANTS
  StateFuncs = {s1, s2}
  None = None
  MaxLoops = 2
  MaxRequests = 3
INVARIANTS
  NoRequestLost
  CleanupOncePerRun
  InterruptedRunIsCleaned
PROPERTIES
  CleanupNotInterrupted
  KeepsPromise
  RequestsServed
