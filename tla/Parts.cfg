CONSTANTS
  Inputs = {a, b, c}
  Self = self
  Requests = {r1, r2}
  Serial = TRUE
  Ifaces = {i1, i2}
  Callers = {c1, sig}
  Signal = sig
  MaxTarget = 2
  MaxStarts = 3
  MaxField = 2
  Limit = 1
  Tries = 1
  Members = {x, y}
  Values = {0, 1}
  MaxAssigns = 1
  MaxGen = 2
  MaxCalls = 2
  MaxRestarts = 1
SPECIFICATION PartsSpec
INVARIANTS
  OneController
  ServerInOrder
  
  
  StructAgrees
PROPERTIES
  CarriedOut
  
  ComesToRest
CHECK_DEADLOCK FALSE
