SPECIFICATION FairSpec
CONSTANTS
  i1 = i1
  i2 = i2
  c1 = c1
  c2 = c2
  c3 = c3
  on = on
  off = off
  Wrong = Wrong
  NoRow = NoRow
  NoValue = NoValue
  Instances <- MCInstances
  Calls <- MCCalls
  Values <- MCValues
  Default = on
INVARIANTS
  AgreeWhenSettled
  IInv
PROPERTIES
  Converges
CHECK_DEADLOCK FALSE
