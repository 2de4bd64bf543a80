SPECIFICATION Spec
CONSTANTS
  a1 = a1
  a2 = a2
  l1 = l1
  l2 = l2
  v1 = v1
  Apps = {a1}
  Licenses = {l1}
  Devices = {d1, d2}
  Builds = {}
  Versions = {v1}
  Links = {k1}
  Activations = {r1, r2}
  Checks = {}
  AppOf <- AllOfA1
  AppVersion <- OneVersion
  Duration <- Timed
  SessionTTL = 2
  LinkTTL = 1
  MaxTime = 2
  None = None
SYMMETRY Symmetry
INVARIANT OneExpiryPerLicense
CHECK_DEADLOCK FALSE
