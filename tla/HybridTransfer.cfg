SPECIFICATION Spec
CONSTANTS
  g1 = g1
  g2 = g2
  w1 = w1
  w2 = w2
  c1 = c1
  Gids <- OneGid
  Workers <- TwoWorkers
  Callers <- OneCaller
  Ops <- PauseDelete
  MaxOps = 2
  MaxRestarts = 1
  LocksHold = FALSE
  RpcFails = TRUE
\* an idle manager with no command left to issue really stops
CHECK_DEADLOCK FALSE
INVARIANTS
  TypeOK
  SingleWriter
  AriaOwnsPath
  DurableOwner
  CompleteShellGone
PROPERTIES
  VerifiedCompletion
