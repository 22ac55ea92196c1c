SPECIFICATION Spec
CONSTANTS
  Poller = Poller
  Users = {u1}
  None = None
  Late = Late
  Ops = {"communicate", "connect", "disconnect"}
  HasIdent = TRUE
  RetryFirstIdn = FALSE
  MaxFaults = 2
  MaxCalls = 2
  MaxAttempts = 0
INVARIANTS
  ConnectionKnown
PROPERTIES
  CallsEnd
  HealsWhenAlone
CHECK_DEADLOCK FALSE
