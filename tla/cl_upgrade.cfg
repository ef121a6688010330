\* Two restricted clients upgrade a cluster, while operators report progress and validating calls are skipped.
SPECIFICATION Spec
CONSTANTS
  Client = {c1, c2}
  Namespace = {"ns1"}
  Org <- OrgOf
  Release = {180, 190, 200}
  TestReleases = {}
  FirstCilium = 190
  FirstCAPI = 250
  FirstOrgRelease = 160
  Clash <- Clashes
  InvalidCIDRs = {"bad"}
  DefaultCidr = "default"
  DefaultPods = "pods"
  IPAM = "ipam"
  Empty = Empty
  None = None
  Soonest = 1
  Latest = 2
  MaxNow = 0
  UserClusters <- UpgradeEdits
  UserOps = {"update"}
  DryRuns = {FALSE}
  Restricted = {TRUE}
  InitialStores <- OneOf18
  AWSClusters <- AWSOf18
  Kustomization = "suspended"
  Withdrawn = {}
  Faults = {"skipValidator"}
INVARIANTS
  OperatorMatchesRelease
PROPERTIES
  MajorByMajor
  ModeFixed
  KubeProxyKept
