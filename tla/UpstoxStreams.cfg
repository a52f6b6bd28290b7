SPECIFICATION Spec
CONSTANTS
  c1 = c1
  c2 = c2
  k1 = k1
  ltpc = ltpc
  full = full
  d30 = d30
  Consumers = {c1, c2}
  Threads = {c2}
  Keys = {k1}
  Modes = {ltpc, full, d30}
  Calls <- MCCalls
  None = none
  Cap <- MCCap
  CombinedCap <- MCCap
  MaxSockets = 2
  MaxRetries = 1
  MaxDrops = 1
  OpenMayFail = TRUE
INVARIANTS TypeOK ConsumersAsked StreamMatches
PROPERTIES FirstTicks
CHECK_DEADLOCK FALSE
