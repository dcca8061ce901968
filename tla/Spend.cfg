CONSTANTS
  p1 = p1  p2 = p2  t1 = t1  t2 = t2  t3 = t3
  TradeID = {t1, t2, t3}
  Proc = {p1, p2}
  NoProc = none
  Prices <- MCPrices
  Policy <- MCPolicy
  Asks <- MCAsks
  MaxTime = 3
  MaxChecks = 3
  MaxRaises = 3
  USDScale = 1
  MaxIntegerDigits = 1
  MaxFractionDigits = 1
  MaxUint = 99
SPECIFICATION MCSpec
INVARIANTS
  ReservationsWithinCap
  CapsInForce
SYMMETRY Symmetric
CHECK_DEADLOCK FALSE
