SPECIFICATION FairSpec
CONSTANTS
  Calls = {c1, c2, c3, c4}
  MaxAbandoned = 1
  MaxLate = 1
  None = None
INVARIANTS TypeOK InSync
PROPERTIES VerdictIsFresh Revalidates
