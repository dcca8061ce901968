------------------------------ MODULE Settlement ------------------------------
(***************************************************************************)
(* On-chain settlement of one trade: BuildSettlement, ConfirmSettlement    *)
(* and the background reconciler (internal/trade/settlement.go and         *)
(* reconcile.go), beside every handler of module Trade.                    *)
(*                                                                         *)
(* The chains are external, one per cluster.  A signature names a          *)
(* transaction; the buyer can submit the transaction of a request until    *)
(* its blockhash lapses, and it becomes visible on the request's cluster   *)
(* some time after it was submitted, as executed or as failed.  It pays    *)
(* the fee the request was compiled with, and is verified under the fee of *)
(* the running process.  ForeignSigs are landed transactions that are not  *)
(* this trade's.  An RPC failure only makes a handler return early.        *)
(***************************************************************************)
EXTENDS Trade

CONSTANTS
  ForeignSigs,    \* signatures of landed transactions that settle no request
  NoFee,          \* what such a transaction pays the service
  BlockhashTTL,   \* life of a request's blockhash
  MaxRequests,    \* bound on settlement requests
  MaxRestarts     \* bound on restarts of the process

ASSUME SettlementAssumption ==
  /\ ForeignSigs \subseteq Sigs
  /\ BlockhashTTL \in Nat \ {0}
  /\ MaxRequests \in Nat
  /\ MaxRestarts \in Nat
  /\ Clusters # {}
  /\ Fees # {} /\ NoFee \notin Fees

VARIABLES
  chain,      \* what the chains hold for a signature
  cluster,    \* the cluster the running process is configured for ...
  fee,        \* ... and its fee policy
  restarts    \* restarts so far

chainVars == << chain, cluster, fee, restarts >>
vars == << tradeVars, chainVars >>

-----------------------------------------------------------------------------
(* The chain *)

Tx == [ status : { "absent", "submitted", "executed", "failed" },
        cluster : Clusters \cup { "" },
        fee : Fees \cup { NoFee } ]

NoTx == [ status |-> "absent", cluster |-> "", fee |-> NoFee ]
Foreign(c) == [ status |-> "executed", cluster |-> c, fee |-> NoFee ]

\* The transaction compiled for a request goes to that request's cluster.
Submit(sig) ==
  /\ chain[sig] = NoTx
  /\ \E i \in DOMAIN requests :
       /\ now < requests[i].expiresAt
       /\ chain' = [ chain EXCEPT ![sig] =
            [ status |-> "submitted", cluster |-> requests[i].cluster, fee |-> requests[i].fee ] ]
  /\ UNCHANGED << tradeVars, cluster, fee, restarts >>

Land(sig, status) ==
  /\ chain[sig].status = "submitted"
  /\ chain' = [ chain EXCEPT ![sig].status = status ]
  /\ UNCHANGED << tradeVars, cluster, fee, restarts >>

-----------------------------------------------------------------------------
(* BuildSettlement *)

BuildSettlement(p) ==
  /\ trade.state \in { "accepted", "settlement_pending" }
  /\ Len(requests) < MaxRequests
  /\ Begin(p, Handler("build", "create"))
  /\ UNCHANGED << now, db, aborts, chainVars >>

\* BuildSettlement that moves the trade and leaves the request for later.
buildCreate_Late(p) ==
  /\ At(p, "create")
  /\ IF proc[p].seen = "accepted"
     THEN /\ Continue(p, Applying(proc[p], "settlement_pending", "settlement_pending"))
          /\ UNCHANGED requests
     ELSE Return(p) /\ CreateSettlementRequest(now + BlockhashTTL, cluster, fee)
  /\ UNCHANGED << now, trade, acceptances, events, entries, receipts, offer,
                  aborts, chainVars >>

\* The request is stored before the trade becomes settlement_pending, and the
\* move is skipped when the row read was pending already.
buildCreate(p) ==
  /\ At(p, "create")
  /\ CreateSettlementRequest(now + BlockhashTTL, cluster, fee)
  /\ IF proc[p].seen = "accepted"
     THEN Continue(p, Applying(proc[p], "settlement_pending", "settlement_pending"))
     ELSE Return(p)
  /\ UNCHANGED << now, trade, acceptances, events, entries, receipts, offer,
                  aborts, chainVars >>

-----------------------------------------------------------------------------
(* ConfirmSettlement *)

ConfirmSettlement(p, sig) ==
  /\ trade.state = "settlement_pending"
  /\ Begin(p, [ Handler("confirm", "list") EXCEPT !.signature = sig ])
  /\ UNCHANGED << now, db, aborts, chainVars >>

confirmList(p) ==
  /\ At(p, "list")
  /\ Continue(p, [ proc[p] EXCEPT !.pc = "sign", !.listed = Len(requests) ])
  /\ UNCHANGED << now, db, aborts, chainVars >>

\* A request of any cluster will do.
checkRequestCluster_Any(listed, i) == TRUE

\* checkRequestCluster looks only at the requests the handler listed.
checkRequestCluster(listed, i) == i <= listed => requests[i].cluster = cluster

\* The signature is recorded on the current request before the chain is asked,
\* so that the reconciler can poll it; a request that is not open for it ends
\* the call.
confirmSign(p) ==
  /\ At(p, "sign")
  /\ LET i == GetSettlementRequest
         sig == proc[p].signature
     IN  \/ /\ checkRequestCluster(proc[p].listed, i)
            /\ SetSettlementSignature(i, sig)
            /\ Continue(p, [ proc[p] EXCEPT !.pc = "fetch", !.current = i ])
         \/ /\ ~ checkRequestCluster(proc[p].listed, i)
               \/ requests[i].status # "issued"
               \/ requests[i].signature \notin { NoSig, sig }
            /\ Return(p)
            /\ UNCHANGED requests
  /\ UNCHANGED << now, trade, acceptances, events, entries, receipts, offer,
                  aborts, chainVars >>

-----------------------------------------------------------------------------
(* The verdict, shared by confirm and the reconciler *)

\* The process asks the chain of its own cluster.
Visible(tx) == tx.status \in { "executed", "failed" } /\ tx.cluster = cluster

\* What Verify compares is module Transaction's subject; here an agreed transaction
\* is one that was compiled for the trade and pays the fee of the policy the process
\* runs under, which NewTerms takes from the configuration and not from the request.
Verify(tx) == tx.fee = fee

NotFound(p) == IF At(p, "last_fetch") THEN Goto(p, "lapse") ELSE Return(p)

Disputing(p) == Continue(p, Applying(proc[p], "disputed", "disputed"))

\* settleFetched that does not look at the execution error.
fetch_NoExecErr(p) ==
  /\ proc[p].pc \in { "fetch", "last_fetch" }
  /\ LET tx == chain[proc[p].signature]
     IN  \/ Visible(tx) /\ ~ Verify(tx) /\ Disputing(p)
         \/ Visible(tx) /\ Verify(tx) /\ Goto(p, "confirm")
         \/ ~ Visible(tx) /\ NotFound(p)
  /\ UNCHANGED << now, db, aborts, chainVars >>

\* A transaction that is not visible yet is not a verdict: /confirm reports it
\* pending, and the reconciler gives up only on a request that had lapsed.
fetch(p) ==
  /\ proc[p].pc \in { "fetch", "last_fetch" }
  /\ LET tx == chain[proc[p].signature]
     IN  \/ Visible(tx) /\ tx.status = "failed" /\ Goto(p, "withdraw")
         \/ Visible(tx) /\ tx.status = "executed" /\ ~ Verify(tx) /\ Disputing(p)
         \/ Visible(tx) /\ tx.status = "executed" /\ Verify(tx) /\ Goto(p, "confirm")
         \/ ~ Visible(tx) /\ NotFound(p)
  /\ UNCHANGED << now, db, aborts, chainVars >>

\* A failed execution, or a request of another cluster, withdraws every issued
\* request and leaves the trade pending.
withdraw(p) ==
  /\ At(p, "withdraw")
  /\ ExpireSettlementRequests
  /\ Return(p)
  /\ UNCHANGED << now, trade, acceptances, events, entries, receipts, offer,
                  aborts, chainVars >>

\* confirmRequests: a request that is no longer issued ends the handler.
confirmRequest(p) ==
  /\ At(p, "confirm")
  /\ LET h == proc[p]
     IN  \/ /\ ConfirmSettlementRequest(h.current, h.signature)
            /\ IF h.current <= h.listed /\ h.listed > 1
               THEN Goto(p, "supersede")
               ELSE Continue(p, Applying(h, "settled", "settled"))
         \/ /\ requests[h.current].status # "issued"
            /\ Return(p)
            /\ UNCHANGED requests
  /\ UNCHANGED << now, trade, acceptances, events, entries, receipts, offer,
                  aborts, chainVars >>

confirmSupersede(p) ==
  /\ At(p, "supersede")
  /\ ExpireSettlementRequests
  /\ Continue(p, Applying(proc[p], "settled", "settled"))
  /\ UNCHANGED << now, trade, acceptances, events, entries, receipts, offer,
                  aborts, chainVars >>

\* A settlement's tessera names the signature and the cluster.
settleReceipt(p) ==
  /\ At(p, "receipt")
  /\ proc[p].op # "record"
  /\ SaveReceipt(proc[p].seen, proc[p].signature, cluster)
  /\ Goto(p, "close")
  /\ UNCHANGED << now, trade, acceptances, events, requests, entries, offer,
                  aborts, chainVars >>

-----------------------------------------------------------------------------
(* The reconciler *)

ReconcileOutstanding(p) ==
  /\ trade.state = "settlement_pending"
  /\ Begin(p, Handler("reconcile", "reconcile"))
  /\ UNCHANGED << now, db, aborts, chainVars >>

signedRequests == { i \in DOMAIN requests : requests[i].signature # NoSig }

latestSignedRequest ==
  CHOOSE i \in signedRequests : \A j \in signedRequests : j <= i

Lapsed(i) == requests[i].status = "issued" /\ now >= requests[i].expiresAt

\* reconcileTrade that leaves an unsigned request to the buyer for good.
reconcileTrade_NoLapse(p) ==
  /\ At(p, "reconcile")
  /\ LET i == latestSignedRequest
         last == Len(requests)
     IN  IF signedRequests = {} THEN Return(p)
         ELSE IF ~ checkRequestCluster(last, i) THEN Goto(p, "withdraw")
         ELSE Continue(p, [ proc[p] EXCEPT !.listed = last, !.current = i,
                              !.signature = requests[i].signature,
                              !.pc = IF Lapsed(i) THEN "last_fetch" ELSE "fetch" ])
  /\ UNCHANGED << now, db, aborts, chainVars >>

\* reconcileTrade, up to its call to the chain: an unsigned request that lapsed
\* cancels the trade, a request of another cluster is withdrawn, and a signed
\* one is polled.
reconcileTrade(p) ==
  /\ At(p, "reconcile")
  /\ LET i == latestSignedRequest
         last == Len(requests)
     IN  IF signedRequests = {}
         THEN IF last > 0 /\ Lapsed(last) THEN Goto(p, "lapse") ELSE Return(p)
         ELSE IF ~ checkRequestCluster(last, i) THEN Goto(p, "withdraw")
         ELSE Continue(p, [ proc[p] EXCEPT !.listed = last, !.current = i,
                              !.signature = requests[i].signature,
                              !.pc = IF Lapsed(i) THEN "last_fetch" ELSE "fetch" ])
  /\ UNCHANGED << now, db, aborts, chainVars >>

\* reconcileLapsed withdraws the requests first and cancels the trade second.
reconcileLapsed(p) ==
  /\ At(p, "lapse")
  /\ ExpireSettlementRequests
  /\ Continue(p, Applying(proc[p], "cancelled", "expired"))
  /\ UNCHANGED << now, trade, acceptances, events, entries, receipts, offer,
                  aborts, chainVars >>

\* The process restarts, perhaps configured for another cluster or another fee.
Restart(c, f) ==
  /\ restarts < MaxRestarts
  /\ restarts' = restarts + 1
  /\ cluster' = c /\ fee' = f
  /\ proc' = [ p \in Procs |-> Idle ]
  /\ UNCHANGED << now, db, aborts, chain >>

-----------------------------------------------------------------------------
Init ==
  /\ TradeInit
  /\ cluster \in Clusters /\ fee \in Fees
  /\ \E c \in Clusters : chain = [ sig \in Sigs |-> IF sig \in ForeignSigs THEN Foreign(c) ELSE NoTx ]
  /\ restarts = 0

SettlementStep(p) ==
  \/ buildCreate(p)
  \/ confirmList(p) \/ confirmSign(p)
  \/ fetch(p) \/ withdraw(p)
  \/ confirmRequest(p) \/ confirmSupersede(p) \/ settleReceipt(p)
  \/ reconcileTrade(p) \/ reconcileLapsed(p)

Step(p) == SettlementStep(p) \/ (TradeStep(p) /\ UNCHANGED chainVars)

Call(p) ==
  \/ TradeCall(p) /\ UNCHANGED chainVars
  \/ BuildSettlement(p)
  \/ \E sig \in Sigs : ConfirmSettlement(p, sig)

Background(p) == ReconcileOutstanding(p) \/ (Sweep(p) /\ UNCHANGED chainVars)

Chain == \E sig \in Sigs : Submit(sig) \/ \E v \in { "executed", "failed" } : Land(sig, v)

Next ==
  \/ Tick /\ UNCHANGED chainVars
  \/ Chain
  \/ \E p \in Procs :
       \/ Call(p) \/ Background(p) \/ Step(p)
       \/ Abort(p) /\ UNCHANGED chainVars
  \/ \E c \in Clusters, f \in Fees : Restart(c, f)

Spec == Init /\ [][Next]_vars

\* The process runs its loops, a handler that is not aborted finishes, time
\* passes and a submitted transaction lands.  Nothing makes an agent call.
Fairness ==
  /\ WF_vars(Tick /\ UNCHANGED chainVars)
  /\ \A sig \in Sigs : WF_vars(\E v \in { "executed", "failed" } : Land(sig, v))
  /\ \A p \in Procs : WF_vars(Step(p)) /\ WF_vars(Background(p))

FairSpec == Spec /\ Fairness

-----------------------------------------------------------------------------
(* Properties *)

TypeOK ==
  /\ TradeTypeOK
  /\ chain \in [ Sigs -> Tx ]
  /\ cluster \in Clusters /\ fee \in Fees
  /\ restarts \in Nat

\* The transaction of this trade that a request names was executed where the
\* request is for.
Executed(i) ==
  LET tx == chain[requests[i].signature]
  IN  tx.status = "executed" /\ tx.cluster = requests[i].cluster /\ tx.fee \in Fees

\* A trade is settled only by a payment: the transaction a confirmed request names
\* was compiled for this trade and executed on the cluster of that request, whatever
\* was reported, rebuilt, polled and restarted meanwhile.
SettledWasPaid ==
  trade.state = "settled" =>
    \E i \in DOMAIN requests :
      requests[i].status = "confirmed" /\ requests[i].signature \in Sigs /\ Executed(i)

\* The service itself disputes a trade only over a recorded signature whose
\* transaction was executed on the cluster it runs on and either settles no request
\* or pays another fee than the policy it runs under: a signature that is not
\* visible, an execution that failed, a lapsed blockhash or a restart on another
\* cluster never disputes (settleFetched).
NoFalseDispute ==
  [][ \A p \in Procs :
        proc[p].op # "dispute" /\ proc'[p] # proc[p]
          /\ trade.state # "disputed" /\ trade'.state = "disputed" =>
        \E i \in signedRequests :
          LET tx == chain[requests[i].signature]
          IN  requests[i].cluster = cluster /\ Visible(tx) /\ tx.status = "executed" /\ ~ Verify(tx)
    ]_vars

\* The audit trail of a trade's requests is append-only: a recorded signature is
\* never replaced, and a confirmed or expired request stays what it is.
AuditTrailKept ==
  [][ /\ Len(requests) <= Len(requests')
      /\ \A i \in DOMAIN requests :
           /\ requests[i].signature # NoSig => requests'[i].signature = requests[i].signature
           /\ requests[i].status # "issued" => requests'[i].status = requests[i].status
    ]_requests

\* A tessera that names a payment names the one that settled the trade and the
\* cluster it was made on, across races and restarts.
TesseraNamesPayment ==
  receipts # << >> /\ receipts[1].signature # NoSig =>
    /\ trade.state = "settled"
    /\ \E i \in DOMAIN requests :
         /\ requests[i].status = "confirmed"
         /\ requests[i].signature = receipts[1].signature
         /\ requests[i].cluster = receipts[1].cluster
         /\ Executed(i)

\* What is left to end a pending trade: a request to confirm or to lapse (an issued
\* one), a signature to poll, or a reconciler that withdrew the requests and is about
\* to cancel the trade.
CanEnd ==
  \/ \E i \in DOMAIN requests : requests[i].status = "issued"
  \/ signedRequests # {}
  \/ \E p \in Procs :
       At(p, "set_state") /\ proc[p].seen = trade.state /\ proc[p].to = "cancelled"

\* A pending trade was built, and while no handler was stopped half way something is
\* left to end it: builds, failed executions, lapses and withdrawals, in any order,
\* never leave it with nothing.
PendingHasRequest ==
  trade.state = "settlement_pending" =>
    /\ requests # << >>
    /\ aborts = 0 /\ restarts = 0 => CanEnd

\* What a handler that settles can rely on: the request it works on names the
\* signature it was given, and was compiled for the cluster the process runs on.
Named(p) ==
  /\ proc[p].current \in DOMAIN requests
  /\ proc[p].signature \in Sigs
  /\ requests[proc[p].current].signature = proc[p].signature
  /\ requests[proc[p].current].cluster = cluster

\* ... and its transaction was visible there, as agreed or as a reason to dispute.
Settles(p) ==
  LET tx == chain[proc[p].signature]
  IN  Named(p) /\ Visible(tx) /\ tx.status = "executed" /\ Verify(tx)

Mismatches(p) ==
  LET tx == chain[proc[p].signature]
  IN  Named(p) /\ Visible(tx) /\ tx.status = "executed" /\ ~ Verify(tx)

\* ... and its request is confirmed.
Paid(p) == Settles(p) /\ requests[proc[p].current].status = "confirmed"

\* The statements of a confirmation and of the reconciler.
SettlePc == { "list", "sign", "fetch", "last_fetch", "withdraw", "confirm", "supersede",
              "reconcile", "lapse" }

\* The states of a trade that was built and is not to be recorded any more.
OnChain == { "settlement_pending", "settled", "disputed", "resolved", "cancelled" }

\* What holds of a handler between two of its statements.
SettleInv(p) ==
  LET h == proc[p]
  IN  /\ h.pc = "create" => h.seen \in { "accepted", "settlement_pending" }
      /\ h.pc \in SettlePc => /\ h.seen = "settlement_pending" /\ h.to = h.seen
                            /\ requests # << >>
      /\ h.pc \in SettlePc \/ h.to = "settled" => trade.state \in OnChain /\ h.op # "record"
      /\ h.pc \in { "list", "sign" } => h.signature \in Sigs
      /\ h.pc = "sign" =>
           \A i \in DOMAIN requests : i > h.listed => requests[i].cluster = cluster
      /\ h.pc \in { "fetch", "last_fetch", "confirm", "supersede" } => Named(p)
      /\ h.pc = "confirm" => Settles(p)
      /\ h.pc = "withdraw" => signedRequests # {}
      /\ h.pc = "set_state" /\ h.to = "disputed" /\ h.op # "dispute" => Mismatches(p)
      /\ h.pc = "supersede" \/ h.to = "settled" => Paid(p)
      /\ h.pc \in { "append", "receipt" } => Books(h)
      /\ h.to = "recorded" => h.op = "record"
      /\ h.pc = "set_state" /\ h.to = "settlement_pending" => requests # << >>

\* At most the newest request is issued (the partial unique index).
IssuedIsLast ==
  \A i \in DOMAIN requests : requests[i].status = "issued" => i = Len(requests)

\* Until the trade is built, the newest request waits for its buyer.
NewestIsIssued ==
  trade.state \notin OnChain /\ requests # << >> => requests[Len(requests)].status = "issued"

\* The inductive invariant behind SettledWasPaid, TesseraNamesPayment and
\* PendingHasRequest.
SettlementInv ==
  /\ TradeInv /\ TypeOK /\ IssuedIsLast /\ NewestIsIssued
  /\ SettledWasPaid /\ PendingHasRequest /\ TesseraNamesPayment
  /\ \A p \in Procs : SettleInv(p)

\* A build that was never signed does not reserve the buyer's budget for good:
\* once its blockhash has lapsed the trade leaves settlement_pending, unless a
\* signature is recorded, the request is replaced, or the worker is stopped half way.
Abandoned(n) ==
  /\ trade.state = "settlement_pending"
  /\ signedRequests = {}
  /\ Len(requests) = n
  /\ requests[n].expiresAt <= MaxNow

AbandonedBuildEnds ==
  \A n \in 1..MaxRequests :
    LET abandoned == Abandoned(n) /\ aborts = 0 /\ restarts = 0 IN abandoned ~> ~ abandoned

-----------------------------------------------------------------------------
(* A statement of the repository that the code does not keep *)

\* reconcile.go:14-17: "a signature that was invisible then, or a service that
\* restarted mid-confirmation, still reaches a verdict without a human".
VerdictWithoutHuman ==
  LET paid == /\ trade.state = "settlement_pending"
              /\ \E i \in signedRequests : Executed(i)
  IN  paid ~> trade.state # "settlement_pending"

=============================================================================
