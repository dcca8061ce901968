SPECIFICATION AcceptedFairSpec
CONSTANTS
  Buyer = buyer
  Seller = seller
  Sigs = {s1}
  ForeignSigs = {}
  NoSig = NoSig
  Clusters = {"devnet"}
  Fees = {low}
  NoFee = NoFee
  p1 = p1
  p2 = p2
  worker = worker
  Procs = {p1, worker}
  Ops <- BuyerOps
  AcceptTTL = 1
  OpenTTL = 1
  BlockhashTTL = 1
  MaxRequests = 2
  MaxNow = 3
  MaxAborts = 0
  MaxRestarts = 0
PROPERTIES VerdictWithoutHuman
CHECK_DEADLOCK FALSE
