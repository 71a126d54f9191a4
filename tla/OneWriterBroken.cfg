SPECIFICATION Spec
CONSTANTS
  g1 = g1
  g2 = g2
  w1 = w1
  w2 = w2
  c1 = c1
  Gids <- OneGid
  Workers <- TwoWorkers
  Callers <- OneCaller
  Ops <- ResumeOnly
  MaxOps = 1
  MaxRestarts = 0
  LocksHold = TRUE
  RpcFails = FALSE
\* an idle manager with no command left to issue really stops
CHECK_DEADLOCK FALSE
INVARIANTS
  SingleWriter
