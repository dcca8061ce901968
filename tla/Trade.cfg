SPECIFICATION TradeSpec
CONSTANTS
  Buyer = buyer
  Seller = seller
  Sigs = {}
  NoSig = NoSig
  Clusters = {}
  Fees = {}
  p1 = p1
  p2 = p2
  sweeper = sweeper
  Procs = {p1, p2, sweeper}
  Ops <- AllOps
  AcceptTTL = 1
  OpenTTL = 1
  MaxNow = 3
  MaxAborts = 1
INVARIANTS
  BothAgreed EntryMatchesOutcome TesseraAnchored
PROPERTIES
  CommitmentHolds ImplementsContract
SYMMETRY Symmetry
CHECK_DEADLOCK FALSE
