SPECIFICATION Spec
CONSTANTS
  Addresses = {2, 3, 4, 6, 8, 10, 12}
  Sizes = {1, 5}
  NULL = NULL
  Junk = Junk
  ALIGNMENT = 2
  HeapLo = 2
  HeapHi = 11
  MAXFILL = 1
  DebugModes = {"DBG_CHEAP", "DBG_EXPENSIVE"}
  K = 3
  MAXSAMPLES = 5
  EPSILON = 1
  Times = {0, 100, 101, 200, 300}
CHECK_DEADLOCK FALSE
INVARIANT BlocksDisjoint
