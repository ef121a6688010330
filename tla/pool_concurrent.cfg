\* Two goroutines call the functions in an installation with two zones.
SPECIFICATION Spec
CONSTANTS
  Caller = {c1, c2}
  Zones = {1, 2}
  Counts = {1, 2, 3}
  FirstAZs = {1, 2}
  NoZone = NoZone
INVARIANTS
  PoolKeepsZones
PROPERTIES
  AnswersAsPromised
