SPECIFICATION Spec
CONSTANTS
  a1 = a1
  a2 = a2
  l1 = l1
  l2 = l2
  v1 = v1
  Apps = {a1, a2}
  Licenses = {l1, l2}
  Devices = {d1}
  Builds = {b1}
  Versions = {v1}
  Links = {k1}
  Activations = {r1}
  Checks = {c1}
  AppOf <- OneEach
  AppVersion <- OneVersion
  Duration <- Lifetime
  SessionTTL = 2
  LinkTTL = 1
  MaxTime = 0
  None = None
SYMMETRY Symmetry
INVARIANTS SessionIsolation NoOrphans
CHECK_DEADLOCK FALSE
