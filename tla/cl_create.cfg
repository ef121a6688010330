\* Two clients create, change and delete Clusters in two namespaces.
SPECIFICATION Spec
CONSTANTS
  Client = {c1, c2}
  Namespace = {"ns1", "ns2"}
  Org <- OrgOf
  Release = {150, 160, 191, 250}
  TestReleases = {191}
  FirstCilium = 190
  FirstCAPI = 250
  FirstOrgRelease = 160
  Clash <- Clashes
  InvalidCIDRs = {"bad"}
  DefaultCidr = "default"
  DefaultPods = "pods"
  IPAM = "ipam"
  Empty = Empty
  None = None
  Soonest = 1
  Latest = 2
  MaxNow = 0
  UserClusters <- CreateEdits
  UserOps = {"create", "update", "delete"}
  DryRuns = {FALSE}
  Restricted = {TRUE}
  InitialStores <- NoClusters
  AWSClusters <- NoAWS
  Kustomization = "missing"
  Withdrawn = {160}
  Faults = {}
SYMMETRY ClientSymmetry
INVARIANTS
  NameUnique
PROPERTIES
  OrganizationKept
