SPECIFICATION FairSpec
CONSTANTS
  c1 = c1
  c2 = c2
  Contents <- OneContent
  MaxChanges = 2
  MaxLosses = 2
  MaxRestarts = 1
  MaxWakes = 0
  LateRequests = TRUE
  ServerForgets = TRUE
INVARIANTS
  RepeatPossible
PROPERTIES
  Converges
