SPECIFICATION Spec
CONSTANTS
  a1 = a1
  a2 = a2
  l1 = l1
  l2 = l2
  v1 = v1
  Apps = {a1}
  Licenses = {l1}
  Devices = {d1, d2, d3}
  Builds = {}
  Versions = {}
  Links = {k1}
  Activations = {r1, r2, r3}
  Checks = {}
  AppOf <- AllOfA1
  AppVersion <- NoVersion
  Duration <- Lifetime
  SessionTTL = 2
  LinkTTL = 1
  MaxTime = 0
  None = None
SYMMETRY Symmetry
INVARIANT DevicesBoundedByResets
PROPERTY ImplementsDeviceBinding
CHECK_DEADLOCK FALSE
