SPECIFICATION Spec
CONSTANTS
  Callers = {c1, c2}
  Keys = {k1}
  NoKey = NoKey
  PingKey = PingKey
  QueueSize = 1
  MaxRequests = 2
  MaxTimeouts = 1
  MaxEvents = 1
INVARIANTS
  NothingLost
  OwnReply

  
CHECK_DEADLOCK FALSE
