SPECIFICATION Spec
CONSTANTS
  m1 = m1
  h1 = h1
  s1 = s1
  s2 = s2
  NoOne = NoOne
  Members <- MCOne
  Handlers <- MCHandlers
  Scanners <- MCScanners
  Target = 1
  MaxRetry = 2
  BatchSize = 1
INVARIANTS
  IInv
  NotGivenUpEarly
PROPERTIES
  FinalStays
  EveryTaskEnds
