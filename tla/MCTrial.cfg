SPECIFICATION FairSpec
CONSTANTS
  a1 = a1
  a2 = a2
  d1 = d1
  d2 = d2
  t1 = t1
  NoRow = NoRow
  NoTables = NoTables
  Activities <- MCActivities
  ActivityRows <- MCActivityRows
  Discounts <- MCDiscounts
  Rules <- MCRules
  Prices <- MCPrices
  Requests <- MCRequests
  FirstTables <- MCFirstTables
  MaxVersions = 2
  MaxTime = 1
INVARIANTS
  IInv
  AnswerWithinWindow
  AmountsAddUp
PROPERTIES
  CacheCatchesUp
CHECK_DEADLOCK FALSE
