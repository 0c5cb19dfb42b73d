SPECIFICATION Spec
CONSTANTS
  opener = opener
  join = join
  resent = resent
  other = other
  stranger = stranger
  t1 = t1
  c1 = c1
  xA = xA
  xB = xB
  xC = xC
  u1 = u1
  u2 = u2
  u3 = u3
  NoTeam = NoTeam
  NoReq = NoReq
  Requests <- Contending
  Trades <- MCTrades
  Users <- MCUsers
  TradeOf <- MCTradeOf
  UserOf <- MCUserOf
  Opens <- MCOpens
  Directs <- NoDirects
  Faulty <- MCFaulty
  Teams <- MCTeams
  Fading <- Nobody
  Callers <- MCCallers
  Targets <- MCTargets
INVARIANTS
  OneSeatPerUser
CHECK_DEADLOCK FALSE
