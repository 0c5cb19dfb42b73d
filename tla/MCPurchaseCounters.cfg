SPECIFICATION Spec
CONSTANTS
  o1 = o1
  o2 = o2
  o3 = o3
  c1 = c1
  c2 = c2
  NoKey = NoKey
  Orders <- MCOrders
  Settlers <- MCSettlers
  Limit = 1
  MaxResent = 2
SYMMETRY MCSymmetry
CONSTRAINT TwoOrdersWhenDisturbed
INVARIANTS
  IInv
  PaidWithinLimit
  PaidOnTheWay
  ActiveNotUndercounted
  ActiveNotOvercounted
  TakeNotUndercounted
CHECK_DEADLOCK FALSE
