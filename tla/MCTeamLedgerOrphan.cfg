SPECIFICATION Spec
CONSTANTS
  o1 = o1
  o2 = o2
  o3 = o3
  o4 = o4
  t1 = t1
  c1 = c1
  c2 = c2
  NoTeam = NoTeam
  Orders <- MCOrders
  Teams <- MCTeams
  Callers <- MCCallers
  Targets <- MCTargets
SYMMETRY MCSymmetry
INVARIANTS
  OrdersHaveTeam
CHECK_DEADLOCK FALSE
