\* Two clients create, change and delete pools while lists fail and calls are skipped.
SPECIFICATION Spec
CONSTANTS
  Client = {c1, c2}
  Name = {n1, n2, n3}
  CIDR <- AllBlocks
  UserCIDRs <- SomeCIDRs
  Reserved <- Networks
  Malformed = Malformed
  None = None
  Faults = {"listError", "skipValidator"}
SYMMETRY ClientSymmetry
INVARIANTS
  ReservedUntouched
  PoolsDisjoint
  OwnRangeAllowed
PROPERTIES
  KeepsAddressPlan
