SPECIFICATION Spec
CONSTANTS
  Poller = Poller
  Users = {u1}
  None = None
  Late = Late
  Ops = {"communicate"}
  HasIdent = FALSE
  RetryFirstIdn = TRUE
  MaxFaults = 1
  MaxCalls = 1
  MaxAttempts = 0
PROPERTIES
  HealsByPolling
CHECK_DEADLOCK FALSE
