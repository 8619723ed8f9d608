SPECIFICATION FairSpec
CONSTANTS
  r1 = r1
  r2 = r2
  r3 = r3
  None = None
  Replicas = {r1, r2, r3}
  Shards <- TwoShards
  Layouts <- TwoShardLayouts
  Templates = {t1}
  InitialTemplate = t1
  ReclaimDelete = TRUE
  CacheLag = FALSE
  PatientUser = TRUE
  MaxEdits = 2
  MaxFaults = 0
INVARIANTS ExtraReplicasAreDeleted DeletedReplicasAreCleanedUp
PROPERTIES DeletionLeavesNothing EventuallySettled DeletionCompletes
