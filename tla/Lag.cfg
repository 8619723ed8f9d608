SPECIFICATION Spec
CONSTANTS
  r1 = r1
  r2 = r2
  r3 = r3
  None = None
  Replicas = {r1, r2}
  Shards <- OneShard
  Layouts <- ScaleLayouts
  Templates = {t1}
  InitialTemplate = t1
  ReclaimDelete = TRUE
  CacheLag = TRUE
  PatientUser = FALSE
  MaxEdits = 2
  MaxFaults = 0
INVARIANTS CompletedIsEarned SettledIsCarriedOut
PROPERTIES StatusWritesAreCurrent WantedReplicasSurvive
