SPECIFICATION Spec
CONSTANTS
  a = a
  Item = {a}
  CommandId = {c1, c2, c3, c4, c5, c6, c7, c8, c9, c10, c11, c12, c13}
  Clients <- MCClients
  Menu <- GatesMenu
  MaxVersion <- GatesVersion
  MaxSkew = 1
  MaxPending = 1
INVARIANTS
  ChainOK
  FoldAgrees
  HumanGates
PROPERTIES
  ImplementsWorkItems
CHECK_DEADLOCK FALSE
