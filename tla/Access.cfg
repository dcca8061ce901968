CONSTANTS
  p1 = p1  p2 = p2  a1 = a1  a2 = a2  x1 = x1  x2 = x2  c1 = c1
  Agent = {a1, a2}
  Addr = {x1, x2}
  Operator <- MCOperator
  Proc = {p1, p2}
  ChallengeID = {c1}
  Requested <- MCRequested
  Limits <- MCLimits
  ChallengeTTL = 1
  SessionTTL = 2
  MaxDelay = 1
  MaxTime = 3
  MaxRequests = 4
  MaxRestarts = 1
SPECIFICATION AccessSpec
INVARIANTS
  OneSessionPerChallenge CallsAreAttributable RateHolds
SYMMETRY Symmetric
CHECK_DEADLOCK FALSE
