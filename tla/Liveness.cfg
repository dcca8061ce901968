SPECIFICATION FairSpec
CONSTANTS
  Buyer = buyer
  Seller = seller
  Sigs = {s1}
  ForeignSigs = {}
  NoSig = NoSig
  Clusters = {"devnet"}
  Fees = {low}
  NoFee = NoFee
  p1 = p1
  p2 = p2
  worker = worker
  Procs = {p1, worker}
  Ops <- AnyOps
  AcceptTTL = 1
  OpenTTL = 1
  BlockhashTTL = 1
  MaxRequests = 1
  MaxNow = 3
  MaxAborts = 1
  MaxRestarts = 0
PROPERTIES DeadlineEndsTrade AbandonedBuildEnds
CHECK_DEADLOCK FALSE
