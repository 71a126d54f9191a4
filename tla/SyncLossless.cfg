SPECIFICATION Spec
CONSTANTS
  c1 = c1
  c2 = c2
  Contents <- TwoContents
  MaxChanges = 2
  MaxLosses = 2
  MaxRestarts = 1
  MaxWakes = 1
  LateRequests = FALSE
  ServerForgets = FALSE
SYMMETRY ContentSymmetry
INVARIANTS
  TypeOK
  Lossless
  ResourcesKnown
