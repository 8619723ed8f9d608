SPECIFICATION Spec
CONSTANTS
  Documents <- AllDocuments
  FirstDocuments <- CreatedDocuments
  Bodies <- TwoVersions
  FirstTemplates <- FirstOwnAndForeign
  Namespaces = {"own", "other"}
  OwnNamespace = "own"
  TemplateNames = {"storage"}
  Replicas = {0, 1}
  AllSurroundings <- ThreeSurroundings
  FirstSurroundings <- AtFirst
  FirstVolumes <- NoneOrLarge
  Orders = {0, 1}
  MaxEdits = 1
  MaxFaults = 1
CHECK_DEADLOCK FALSE
INVARIANTS TypeOK ConfigMapsComeFirst UsersAreSecured OwnDataIsMounted ShardSettingsCount
  NamespacesAreKept ConfigMapsAreOfOneSpec VolumesAreBigEnough
PROPERTIES TemplatesStayTheSame VolumesAreSafe EventuallyProvisioned
