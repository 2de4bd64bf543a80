SPECIFICATION Spec
CONSTANTS
  a1 = a1
  a2 = a2
  l1 = l1
  l2 = l2
  v1 = v1
  Apps = {a1}
  Licenses = {l1}
  Devices = {d1}
  Builds = {}
  Versions = {v1, v2}
  Links = {}
  Activations = {r1}
  Checks = {c1, c2, c3}
  AppOf <- AllOfA1
  AppVersion <- OneVersion
  Duration <- Lifetime
  SessionTTL = 1
  LinkTTL = 1
  MaxTime = 1
  None = None
SYMMETRY Symmetry
INVARIANTS ChallengeConsumedOnce AlarmsHaveCause
PROPERTY RevokedNeverRotates
CHECK_DEADLOCK FALSE
