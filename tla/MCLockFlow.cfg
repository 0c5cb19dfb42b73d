SPECIFICATION Spec
CONSTANTS
  opener = opener
  join = join
  resent = resent
  other = other
  stranger = stranger
  t1 = t1
  c1 = c1
  xA = xA
  xB = xB
  xC = xC
  u1 = u1
  u2 = u2
  u3 = u3
  NoTeam = NoTeam
  NoReq = NoReq
  Requests <- Meeting
  Trades <- TwoTrades
  Users <- ThreeUsers
  TradeOf <- MCTradeOf
  UserOf <- MCUserOf
  Opens <- MCOpens
  Directs <- Directly
  Faulty <- MCFaulty
  Teams <- MCTeams
  Fading <- MCTeams
  Callers <- MCCallers
  Targets <- MCTargets
CONSTRAINT OneHazardAtATime
INVARIANTS
  IInv
  PermitBacked
  SeatHeld
  CachedIsLive
PROPERTIES
  LedgerImplemented
CHECK_DEADLOCK FALSE
