\* Upgrades to Cilium are scheduled and carried out, with any AWSCluster or none, while time passes and mutating calls are skipped.
SPECIFICATION Spec
CONSTANTS
  Client = {c1}
  Namespace = {"ns1"}
  Org <- OrgOf
  Release = {180, 190, 200}
  TestReleases = {}
  FirstCilium = 190
  FirstCAPI = 250
  FirstOrgRelease = 160
  Clash <- Clashes
  InvalidCIDRs = {"bad"}
  DefaultCidr = "default"
  DefaultPods = "pods"
  IPAM = "ipam"
  Empty = Empty
  None = None
  Soonest = 1
  Latest = 2
  MaxNow = 2
  UserClusters <- CNIAndScheduleEdits
  UserOps = {"update", "delete"}
  DryRuns = {TRUE, FALSE}
  Restricted = {FALSE}
  InitialStores <- OneOf18
  AWSClusters <- AnyAWSOf18
  Kustomization = "running"
  Withdrawn = {}
  Faults = {"skipMutator"}
\* Once the only Cluster is gone, there is nothing left to update.
CHECK_DEADLOCK FALSE
INVARIANTS
  ScheduleAhead
  NoOpAdmitted
PROPERTIES
  CiliumHasPodNetwork
