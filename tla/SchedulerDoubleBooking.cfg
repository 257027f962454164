SPECIFICATION Spec
CONSTANTS
  a1 = a1
  a2 = a2
  b = b
  l1 = l1
  l2 = l2
  None = None
  Entries = {a1, b}
  LlamaCpp = {}
  Loads = {l1, l2}
  MayHang = {}
  NumGroups = 2
  ReclaimRobbed = TRUE
  ModelOf <- ApartModelOf
  Total <- ApartTotal
  Full <- ReplicasFull
  Weights <- ReplicasWeights
  Allocation <- ApartAllocation
  Pin <- ApartPin
CHECK_DEADLOCK FALSE
INVARIANTS
  NoDoubleBooking
