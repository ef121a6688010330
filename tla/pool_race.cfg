\* Two goroutines choose default zones at the same time.
SPECIFICATION Spec
CONSTANTS
  Caller = {c1, c2}
  Zones = {1, 2, 3}
  Counts = {1, 3}
  FirstAZs = {}
  NoZone = NoZone
INVARIANTS
  PoolHasZones
