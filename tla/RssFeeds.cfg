SPECIFICATION Spec
CONSTANTS
  MaxItems = 3
  Window = 2
  Limits = {1, 2}
  Highest = 2
  NoGuid <- Bare
  Slots = {f1, f2}
  MaxAdds = 2
  Changes <- Automatic
  MaxUpdates = 1
  MaxCrashes = 1
SYMMETRY Either
INVARIANTS
  TypeOK
  AutoOnce
  OnlyNew
  RowsAgree
  StoredShown
CHECK_DEADLOCK FALSE
