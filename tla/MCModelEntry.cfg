SPECIFICATION Spec
CONSTANTS
  r1 = r1
  r2 = r2
  p1 = p1
  p2 = p2
  Requests = {r1, r2}
  BootRequests = {}
  Procs = {p1, p2}
  NoProc = NoProc
  QueueDepth = 2
  MaxIdle = 3
  MaxFails = 2
  MayHang = {}
  LlamaCpp = FALSE
  SlowStart = TRUE
SYMMETRY Symmetry
CHECK_DEADLOCK FALSE
INVARIANTS
  TypeOK
  OneLoader
  ProcessMatchesState
  NeverPanics
  QueuedOnceAndOpen
PROPERTIES
  UnloadedOnlyWhenDown
  FollowsLifecycle
  AnsweredOnce
