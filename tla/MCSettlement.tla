---------------------------- MODULE MCSettlement ----------------------------
(* On-chain trades: the two parties' requests beside the background worker.   *)
EXTENDS Settlement

CONSTANTS p1, p2, worker

\* The trade as both parties' acceptance leaves it: module MCTrade explores how
\* it got there.
AcceptedInit ==
  /\ now = 1
  /\ trade = [ state |-> "accepted", updatedAt |-> 1 ]
  /\ acceptances = [ a \in Party |-> 1 ]
  /\ events = << [ type |-> "proposed", from |-> "", to |-> "proposed" ],
                 [ type |-> "negotiating", from |-> "proposed", to |-> "negotiating" ],
                 [ type |-> "accepted", from |-> "negotiating", to |-> "accepted" ] >>
  /\ requests = << >> /\ entries = << >> /\ receipts = << >>
  /\ offer = "open"
  /\ proc = [ p \in Procs |-> Idle ]
  /\ aborts = 0
  /\ cluster \in Clusters /\ fee \in Fees
  /\ \E c \in Clusters : chain = [ sig \in Sigs |-> IF sig \in ForeignSigs THEN Foreign(c) ELSE NoTx ]
  /\ restarts = 0

AcceptedSpec == AcceptedInit /\ [][Next]_vars

AcceptedFairSpec == AcceptedSpec /\ Fairness

\* The clusters are alike, and so are the fees: the process starts with one of each.
HomeInit ==
  /\ AcceptedInit
  /\ cluster = CHOOSE c \in Clusters : TRUE
  /\ fee = CHOOSE f \in Fees : TRUE

HomeSpec == HomeInit /\ [][Next]_vars

\* Two requests race each other and the worker, over an honest and a foreign
\* signature.
RaceOps ==
  [ p \in Procs |->
      CASE p = worker -> { "reconcile", "sweep" }
        [] p = p1     -> { "build", "confirm" }
        [] OTHER      -> { "cancel", "dispute", "record", "confirm" } ]

\* The buyer alone beside the worker: what only the service can get wrong.
BuyerOps ==
  [ p \in Procs |->
      IF p = worker THEN { "reconcile", "sweep" } ELSE { "build", "confirm" } ]

\* Any request, one at a time, beside the worker.
AnyOps ==
  [ p \in Procs |->
      IF p = worker THEN { "reconcile", "sweep" }
      ELSE { "negotiate", "accept", "cancel", "dispute", "resolve", "record", "build", "confirm" } ]

=============================================================================
