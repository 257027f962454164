SPECIFICATION Spec
CONSTANTS
  a1 = a1
  a2 = a2
  b = b
  l1 = l1
  l2 = l2
  None = None
  Entries = {a1, a2, b}
  LlamaCpp = {}
  Loads = {l1}
  MayHang = {}
  NumGroups = 2
  ReclaimRobbed = FALSE
  ModelOf <- ReplicasModelOf
  Total <- ReplicasTotal
  Full <- ReplicasFull
  Weights <- ReplicasWeights
  Allocation <- ReplicasAllocation
  Pin <- ApartPin
CHECK_DEADLOCK FALSE
PROPERTIES
  ActiveSiblingsSpared
