SPECIFICATION Spec
CONSTANTS
  a1 = a1
  a2 = a2
  l1 = l1
  l2 = l2
  v1 = v1
  Apps = {a1}
  Licenses = {l1}
  Devices = {d1}
  Builds = {}
  Versions = {v1}
  Links = {}
  Activations = {r1}
  Checks = {c1}
  AppOf <- AllOfA1
  AppVersion <- OneVersion
  Duration <- Lifetime
  SessionTTL = 1
  LinkTTL = 1
  MaxTime = 0
  None = None
SYMMETRY Symmetry
INVARIANT ConsumedMeansReturned
CHECK_DEADLOCK FALSE
