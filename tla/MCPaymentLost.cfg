SPECIFICATION Spec
CONSTANTS
  o1 = o1
  h1 = h1
  h2 = h2
  sweeper = sweeper
  Orders <- MCOrders
  Handlers <- MCHandlers
  Sweeper <- sweeper
  Flags <- RealGateway
PROPERTIES
  MoneySettles
CHECK_DEADLOCK FALSE
