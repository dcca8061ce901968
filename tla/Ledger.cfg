SPECIFICATION LedgerSpec
CONSTANTS
  r1 = r1
  r2 = r2
  r3 = r3
  t1 = t1
  t2 = t2
  t3 = t3
  k1 = k1
  k2 = k2
  k3 = k3
  Trades = {t1, t2, t3}
  Recorders = {r1, r2, r3}
  Keys = {k1, k2, k3}
  NoTrade = NoTrade
  appendAttempts = 3
  MaxRestarts = 1
  MaxAborts = 1
INVARIANTS ChainIntact OneTesseraPerTrade TesserasVerify RetryMeansProgress
PROPERTIES LedgerAppendOnly
SYMMETRY Symmetry
CHECK_DEADLOCK FALSE
