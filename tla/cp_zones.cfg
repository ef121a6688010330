\* Two clients change the replicas and the zones at the same time, and everything that may fail does.
SPECIFICATION Spec
CONSTANTS
  Client = {c1, c2}
  ValidAZs = {1, 2, 3}
  IgnoreAZUnique = FALSE
  HAReleases = {TRUE}
  MasterAZs = {None}
  CPName = cp
  NoLabel = NoLabel
  None = None
  MaxRetries = 1
  UserReplicas = {1, 3}
  UserAZs <- UpdateZones
  UserLabels = {cp}
  UserOps <- ZoneOps
  DryRuns = {FALSE}
  InitialStores <- SingleOrHA
  Faults = {"skipMutator", "listError", "crash", "skipValidator"}
SYMMETRY ClientSymmetry
INVARIANTS
  StoredAdmissible
  ScaleUpAdmissible
PROPERTIES
  MastersStay
  HandlerOnlyScalesUp
