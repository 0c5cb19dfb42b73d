SPECIFICATION Spec
CONSTANTS
  o1 = o1
  h1 = h1
  h2 = h2
  sweeper = sweeper
  Orders <- MCOrders
  Handlers <- MCHandlers
  Sweeper <- sweeper
  Flags <- BothGateways
CONSTRAINT SecondConfirms
INVARIANTS
  IInv
  RefundReturnsMoney
  RowMatchesTrade
  PaidNotReturned
  ClosedMeansRefunded
PROPERTIES
  OverdueLeaves
CHECK_DEADLOCK FALSE
