SPECIFICATION Spec
CONSTANTS
  Shards = {1, 10}
  Ordinals = {0, 1}
  GivenLayouts <- OneAndTen
  MaxShards = 2
  MaxReplicas = 3
  MaxSlots = 1
INVARIANTS SlotDeletesItsReplica
