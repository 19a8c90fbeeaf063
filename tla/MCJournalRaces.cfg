SPECIFICATION Spec
CONSTANTS
  a = a
  Item = {a}
  CommandId = {c1, c2, c3, c4, c5, c6}
  Clients <- MCClients
  Menu <- RacesMenu
  MaxVersion <- RacesVersion
  MaxSkew = 0
  MaxPending = 2
INVARIANTS
  TypeOK
  OncePerCommand
PROPERTIES
  CommittedWhereDecided
  HistoryOnlyGrows
  RetryGetsSameAnswer
CHECK_DEADLOCK FALSE
