SPECIFICATION FairSpec
CONSTANTS
  g1 = g1
  g2 = g2
  w1 = w1
  w2 = w2
  c1 = c1
  Gids <- OneGid
  Workers <- OneWorker
  Callers <- OneCaller
  Ops <- PauseDelete
  MaxOps = 1
  MaxRestarts = 2
  LocksHold = TRUE
  RpcFails = FALSE
\* an idle manager with no command left to issue really stops
CHECK_DEADLOCK FALSE
PROPERTIES
  ProbeResolved
  DeletedStops
  Promoted
  Catalogued
