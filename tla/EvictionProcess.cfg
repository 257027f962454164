SPECIFICATION EvictionSpec
CONSTANTS
  r1 = r1
  r2 = r2
  p1 = p1
  p2 = p2
  e1 = e1
  Requests = {r1, r2}
  BootRequests = {}
  Procs = {p1}
  Evictors = {e1}
  NoProc = NoProc
  QueueDepth = 1
  MaxIdle = 3
  MaxFails = 1
  MayHang = {}
  LlamaCpp = FALSE
  SlowStart = TRUE
CHECK_DEADLOCK FALSE
INVARIANTS ProcessMatchesState
