SPECIFICATION SafetySpec
CONSTANTS
  Poller = Poller
  Users = {u1}
  None = None
  Late = Late
  Ops = {"communicate", "multicomm", "connect", "disconnect", "reconnect"}
  HasIdent = TRUE
  RetryFirstIdn = TRUE
  MaxFaults = 2
  MaxCalls = 2
  MaxAttempts = 1
INVARIANTS
  AnswersMatch
CHECK_DEADLOCK FALSE
