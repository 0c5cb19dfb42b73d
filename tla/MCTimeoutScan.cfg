SPECIFICATION Spec
CONSTANTS
  s1 = s1
  NoOne = NoOne
  Ids <- MCIds
  Scanners <- MCScanners
  BatchSize = 2
  Mixtures <- MCMixtures
  MaxAside = 1
PROPERTIES
  ScanLeavesNothing
  EveryOverdueSwept
CHECK_DEADLOCK FALSE
