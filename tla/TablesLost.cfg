SPECIFICATION Spec
CONSTANTS
  r1 = r1
  r2 = r2
  r3 = r3
  None = None
  Replicas = {r1, r2}
  Shards <- OneShard
  Layouts <- ScaleLayouts
  Templates = {t1}
  InitialTemplate = t1
  ReclaimDelete = TRUE
  CacheLag = FALSE
  PatientUser = TRUE
  MaxEdits = 1
  MaxFaults = 0
PROPERTIES ScaleOutIsSynced
