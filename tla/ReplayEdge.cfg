SPECIFICATION Spec
CONSTANTS
  Nonces = {n1}
  Deliveries = {d1, d2}
  Second = 2
  Window = 4
  MinTTL = 3
  ClientLead = 4
  Skew = 0
  MaxDelay = 0
  MaxTime = 18
  None = None
SYMMETRY Symmetry
INVARIANT NonceAcceptedOnce
CHECK_DEADLOCK FALSE
