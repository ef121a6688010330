\* The CRs of a cluster are changed, its organization goes away, and they are deleted.
SPECIFICATION FairSpec
CONSTANTS
  Zone = {1, 2}
  Release = {110, 150}
  Newest = 150
  FirstHA = 114
  FirstStable = 150
  Id = {"a", "b"}
  Plans <- Families
  None = None
INVARIANTS
  NeverBothApart
  MasterZonesAgree
  ChoiceKept
PROPERTIES
  FilledInOnce
  DeletionEnds
  WorkersGo
\* In the end every CR is gone, and clients have nothing left to do.
CHECK_DEADLOCK FALSE
