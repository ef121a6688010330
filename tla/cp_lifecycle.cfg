\* One client at a time creates, scales and deletes the two CRs, in old releases and new ones.
SPECIFICATION Spec
CONSTANTS
  Client = {c1}
  ValidAZs = {1, 2, 3}
  IgnoreAZUnique = FALSE
  HAReleases = {TRUE, FALSE}
  MasterAZs = {None, 1, 2}
  CPName = cp
  NoLabel = NoLabel
  None = None
  MaxRetries = 1
  UserReplicas = {0, 1, 2, 3}
  UserAZs <- SomeZones
  UserLabels = {NoLabel, cp, other}
  UserOps <- Lifecycle
  DryRuns = {FALSE, TRUE}
  InitialStores <- EmptyStore
  Faults = {}
INVARIANTS
  TypeOK
  PairConsistent
  DryRunHasNoSideEffects
