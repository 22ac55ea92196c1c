SPECIFICATION LifetimesSpec
CONSTANTS
  Clients = {u1}
  MaxLinks = 2
  MaxRequests = 1
  MaxBreaks = 1
  MayClose = TRUE
  TryAgain = FALSE
  Slow = TRUE
  MayBlock = FALSE
  ModuleCount = 3
  MaxAttached = 2
  MaxNodeStarts = 2
  MaxDepth = 5
  Params = {"target"}
  Writable = {"target"}
  Fallible = {"target"}
  RemoteValues = {"a", "b"}
  Connectors = {c1, c2}
  Handler = h
  NoThread = no_thread
  MaxChanges = 1
  MaxLosses = 1
  MaxFails = 1
  MaxAsked = 1
INVARIANTS
  ClientHasOne
  RunningIsServed
  NodeComplete
  UsersFirst
  ProxyTrue
  TypesAgree
PROPERTIES
  DoesWhatIsAsked
CHECK_DEADLOCK FALSE
