\* The upgrade to Cilium of a Cluster without an AWSCluster.
SPECIFICATION Spec
CONSTANTS
  Client = {c1}
  Namespace = {"ns1"}
  Org <- OrgOf
  Release = {180, 190}
  TestReleases = {}
  FirstCilium = 190
  FirstCAPI = 250
  FirstOrgRelease = 160
  Clash <- Clashes
  InvalidCIDRs = {"bad"}
  DefaultCidr = "default"
  DefaultPods = "pods"
  IPAM = "ipam"
  Empty = Empty
  None = None
  Soonest = 1
  Latest = 2
  MaxNow = 0
  UserClusters <- CNIEdits
  UserOps = {"update"}
  DryRuns = {FALSE}
  Restricted = {FALSE}
  InitialStores <- OneOf18
  AWSClusters <- NoAWS
  Kustomization = "missing"
  Withdrawn = {}
  Faults = {}
PROPERTIES
  KubeProxyKept
