SPECIFICATION FairSpec
CONSTANTS
  a1 = a1
  a2 = a2
  b = b
  l1 = l1
  l2 = l2
  None = None
  Entries = {a1, a2, b}
  LlamaCpp = {b}
  Loads = {l1, l2}
  MayHang = {a1}
  NumGroups = 2
  ReclaimRobbed = FALSE
  ModelOf <- ReplicasModelOf
  Total <- ReplicasTotal
  Full <- ReplicasFull
  Weights <- ReplicasWeights
  Allocation <- ReplicasAllocation
  Pin <- ReplicasPin
CHECK_DEADLOCK FALSE
INVARIANTS
  SchedulerTypeOK
  ReplicasApart
  LoadingHasLoad
  AssignMuHeldToAssign
PROPERTIES
  SiblingsSpared
  LoadsEnd
