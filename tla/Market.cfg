CONSTANTS
  a1 = a1  a2 = a2  k1 = k1  k2 = k2  p1 = p1  p2 = p2  o1 = o1  o2 = o2  t1 = t1  t2 = t2
  Agent = {a1, a2}
  OfferID = {o1, o2}
  TradeID = {t1, t2}
  Key = {"key"}
  NoKey = "nokey"
  MarketKey = {k1, k2}
  FirstKey = k1
  Cards <- MCCards
  Terms <- MCTerms
  ProbeAnswers <- MCProbeAnswers
  Decimals <- MCDecimals
  Priced <- MCPriced
  OfferTTL = 1
  SweepLimit = 1
  Budgets <- MCBudgets
  Proc = {p1, p2}
  MaxIntegerDigits = 2
  MaxFractionDigits = 1
  MaxUint = 999
  MaxResponseBytes = 1
  MaxDetail = 2
SPECIFICATION MCSpec
SYMMETRY Symmetric
INVARIANTS
  AttestationsVerify OffersVerify RetiredHasRecord TradeMatchesOffer OnePerKey
CHECK_DEADLOCK FALSE
