SPECIFICATION AcceptedSpec
CONSTANTS
  Buyer = buyer
  Seller = seller
  Sigs = {s1, bad}
  ForeignSigs = {bad}
  NoSig = NoSig
  Clusters = {"devnet"}
  Fees = {low}
  NoFee = NoFee
  p1 = p1
  p2 = p2
  worker = worker
  Procs = {p1, p2, worker}
  Ops <- RaceOps
  AcceptTTL = 1
  OpenTTL = 1
  BlockhashTTL = 1
  MaxRequests = 2
  MaxNow = 3
  MaxAborts = 0
  MaxRestarts = 0
INVARIANTS SettledWasPaid PendingHasRequest
PROPERTIES AuditTrailKept KeepsContract
CHECK_DEADLOCK FALSE
