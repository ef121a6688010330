\* The CRs of a tenant cluster in any order, while the Cluster is upgraded and deleted and mutating calls are skipped.
SPECIFICATION FairSpec
CONSTANTS
  Release = {190, 200}
  Newest = 200
  FirstCAPI = 250
  Id = {"a", "b"}
  Plans <- AllPlans
  None = None
INVARIANTS
  LabelsAgree
  LabelsFromOneCopy
  NeverAheadOfCluster
  ReleaseKnown
PROPERTIES
  NoLateNodePools
  AllCreated
\* Once every CR is stored, its client has nothing left to do.
CHECK_DEADLOCK FALSE
