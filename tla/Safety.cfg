SPECIFICATION Spec
CONSTANTS
  r1 = r1
  r2 = r2
  r3 = r3
  None = None
  Replicas = {r1, r2}
  Shards <- OneShard
  Layouts <- SlotLayouts
  Templates = {t1, t2}
  InitialTemplate = t1
  ReclaimDelete = TRUE
  CacheLag = FALSE
  PatientUser = FALSE
  MaxEdits = 2
  MaxFaults = 1
INVARIANTS TypeOK CompletedIsEarned StoredReadyIsSynced SettledIsCarriedOut
PROPERTIES StatusWritesAreCurrent SyncFollowsTables WantedReplicasSurvive WantedGoBeforeFinalizer
