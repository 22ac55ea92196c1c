SPECIFICATION Spec
CONSTANTS
  ModuleCount = 2
  MaxAttached = 1
  MaxStarts = 2
  MaxDepth = 3
INVARIANT StartsAgain
CHECK_DEADLOCK FALSE
