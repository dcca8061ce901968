SPECIFICATION HomeSpec
CONSTANTS
  Buyer = buyer
  Seller = seller
  Sigs = {s1, bad}
  ForeignSigs = {bad}
  NoSig = NoSig
  Clusters = {"devnet", "localnet"}
  Fees = {low, high}
  NoFee = NoFee
  p1 = p1
  p2 = p2
  worker = worker
  Procs = {p1, worker}
  Ops <- BuyerOps
  AcceptTTL = 1
  OpenTTL = 1
  BlockhashTTL = 1
  MaxRequests = 2
  MaxNow = 3
  MaxAborts = 0
  MaxRestarts = 1
INVARIANTS TesseraNamesPayment
PROPERTIES NoFalseDispute
CHECK_DEADLOCK FALSE
