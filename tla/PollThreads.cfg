SPECIFICATION FairSpec
CONSTANTS
  Settings <- SeveralOrSingle
  Threads = {u1}
INVARIANTS
  WakesInTime
  StartupInOrder
PROPERTIES
  PolledAgain
CHECK_DEADLOCK FALSE
