SPECIFICATION Spec
CONSTANTS
  Nonces = {n1, n2}
  Deliveries = {d1, d2}
  Second = 2
  Window = 6
  MinTTL = 3
  ClientLead = 1
  Skew = 1
  MaxDelay = 1
  MaxTime = 18
  None = None
SYMMETRY Symmetry
INVARIANTS NonceAcceptedOnce ReplayOnlyOfAccepted PromptNeverStale
CHECK_DEADLOCK FALSE
