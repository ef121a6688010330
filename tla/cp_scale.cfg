\* Two clients change the replicas while calls time out, answers are lost and processes exit.
SPECIFICATION FairSpec
CONSTANTS
  Client = {c1, c2}
  ValidAZs = {1, 2}
  IgnoreAZUnique = FALSE
  HAReleases = {TRUE}
  MasterAZs = {None}
  CPName = cp
  NoLabel = NoLabel
  None = None
  MaxRetries = 3
  UserReplicas = {0, 1, 3}
  UserAZs <- NoZones
  UserLabels = {cp}
  UserOps <- ScaleOps
  DryRuns = {FALSE}
  InitialStores <- SingleMaster
  Faults = {"skipMutator", "lostReply", "crash"}
INVARIANTS
  MastersNeverExceedZones
PROPERTIES
  HandlersEnd
  RequestsEnd
