SPECIFICATION Spec
CONSTANTS
  Item = {1, 2}
  Routed = {1}
  Gates <- TwoGates
  GateTimeout = 1
  ThreadTimeout = 2
  MaxRecords = 1
  MaxTime = 4
  MaxFaults = 2
INVARIANTS
  TypeOK
  NothingForgotten
  ProductPaidOnce
  PassIsEarned
PROPERTIES
  StartsInTime
  RolesEnd
