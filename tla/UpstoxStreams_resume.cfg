SPECIFICATION Spec
CONSTANTS
  c1 = c1
  c2 = c2
  k1 = k1
  ltpc = ltpc
  full = full
  d30 = d30
  Consumers = {c1, c2}
  Threads = {}
  Keys = {k1}
  Modes = {ltpc, full, d30}
  Calls <- MCOneCall
  None = none
  Cap <- MCCap
  CombinedCap <- MCCap
  MaxSockets = 2
  MaxRetries = 3
  MaxDrops = 1
  OpenMayFail = FALSE
PROPERTIES TicksResume
CHECK_DEADLOCK FALSE
