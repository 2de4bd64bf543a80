SPECIFICATION Spec
CONSTANTS
  a1 = a1 a2 = a2 k1 = k1 k2 = k2 k3 = k3
  None = None
  Apps <- MCApps
  Keys <- MCKeys
  KeysOf <- MCKeysOf
  Quantities = {1, 2}
  BatchSize = 2
  PageSizes = {1, 2}
  MaxInserts = 3
PROPERTIES DrawingEnds
INVARIANTS TypeOK NothingMissed LoadedOnce PageNotEmpty
CHECK_DEADLOCK FALSE
