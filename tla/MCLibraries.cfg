SPECIFICATION Spec
CONSTANTS
  a = a
  b = b
  none = none
  Holder = {a, b}
  Nobody = none
  Ttl = 4
  MaxSkew = 1
  MaxTime = 7
  Caller = {a, b}
  MaxAttempts = 3
  Percentage = {290, 300, 100000}
  Place = {0, 28, 29, 9999}
  Board <- MCBoard
  MaxHistory = 9
  Author = {a, b}
  Blank = none
  MaxVersions = 4
CHECK_DEADLOCK FALSE
INVARIANTS
  LibTypeOK
  Backed
  OneEffectPerCall
  OkMeansDone
  IntakeFits
PROPERTIES
  ImplementsLock
  NeverSwitchedOff
  NoLostUpdate
