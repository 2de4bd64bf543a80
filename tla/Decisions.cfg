SPECIFICATION Spec
CONSTANTS
  NRequests = 2
  Limit = 1
  MaxCalls = 3
  MaxBusy = 1
  MaxRefreshes = 2
INVARIANTS TypeOK StaleOnlyIfBehind
PROPERTIES PendingIsDecided DecidedIsWithdrawn
