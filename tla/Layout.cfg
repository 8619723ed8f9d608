SPECIFICATION Spec
CONSTANTS
  Shards = {0, 1}
  Ordinals = {0, 1, 2}
  GivenLayouts <- FirstOnes
  MaxShards = 2
  MaxReplicas = 3
  MaxSlots = 2
INVARIANTS TypeOK LayoutIsLowestOrdinals SlotDeletesItsReplica ScaleOutKeepsReplicas ListedReplicasCount
  ClaimedReplicasAreKept
PROPERTIES NormalizationEnds
