----------------------------- MODULE TradeStore -----------------------------
(***************************************************************************)
(* The rows the SQLite store keeps for one trade, and the statements the   *)
(* trade service runs on them (internal/store/trades.go, settlement.go,    *)
(* ledger.go).  Store.write serialises every write transaction on one      *)
(* mutex, so each statement below is one atomic step; nothing spans two of *)
(* them, which is what the modules that extend this one are about.         *)
(*                                                                         *)
(* Time is a natural number that starts at 1; 0 stands for "no row yet".   *)
(* Requests are kept in the order of their insertion, which is the order   *)
(* of created_at, and are named by their position.                         *)
(***************************************************************************)
EXTENDS Integers, Sequences, TradeRules

CONSTANTS
  Buyer, Seller,     \* the two parties
  Sigs,              \* transaction signatures a caller can report
  NoSig,             \* a request's signature column when NULL
  Clusters,          \* the clusters a request can have been compiled for
  Fees               \* the fee policies it can have been compiled under

ASSUME StoreAssumption ==
  /\ Buyer # Seller
  /\ NoSig \notin Sigs

VARIABLES
  now,          \* the clock every handler reads
  trade,        \* the trades row: state and updated_at
  acceptances,  \* trade_acceptances: party -> created_at, 0 when absent
  events,       \* trade_events of the trade, in seq order
  requests,     \* settlement_requests of the trade, oldest first
  entries,      \* ledger_entries of the trade
  receipts,     \* receipts of the trade
  offer         \* the status of the offer the trade was opened on

db == << trade, acceptances, events, requests, entries, receipts, offer >>

Party == { Buyer, Seller }

Request == [ status : { "issued", "confirmed", "expired" },
             signature : Sigs \cup { NoSig },
             expiresAt : Nat,
             cluster : Clusters,
             fee : Fees ]

Receipt == [ state : TradeState,
             signature : Sigs \cup { NoSig },
             cluster : Clusters \cup { "" } ]

\* trades, trade_acceptances and trade_events as Create leaves them.
StoreInit ==
  /\ now = 1
  /\ trade = [ state |-> "proposed", updatedAt |-> 1 ]
  /\ acceptances = [ a \in Party |-> 0 ]
  /\ events = << [ type |-> "proposed", from |-> "", to |-> "proposed" ] >>
  /\ requests = << >>
  /\ entries = << >>
  /\ receipts = << >>
  /\ offer = "open"

StoreType ==
  /\ now \in Nat \ {0}
  /\ trade \in [ state : TradeState, updatedAt : Nat ]
  /\ acceptances \in [ Party -> Nat ]
  /\ events \in Seq([ type : EventType, from : TradeState \cup { "" },
                      to : TradeState ])
  /\ requests \in Seq(Request)
  /\ entries \in Seq([ state : TradeState ])
  /\ receipts \in Seq(Receipt)
  /\ offer \in { "open", "closed" }

-----------------------------------------------------------------------------
(* trades.go *)

\* SetTradeState without the state in its WHERE clause.
SetTradeState_Blind(from, to) == trade' = [ state |-> to, updatedAt |-> now ]

\* UPDATE trades SET state, updated_at WHERE id = ? AND state = from
SetTradeState(from, to) ==
  /\ trade.state = from
  /\ trade' = [ state |-> to, updatedAt |-> now ]

AppendTradeEvent(type, from, to) ==
  events' = Append(events, [ type |-> type, from |-> from, to |-> to ])

\* INSERT OR IGNORE: the first acceptance of a party keeps its time.
AddTradeAcceptance(agent) ==
  /\ acceptances[agent] = 0
  /\ acceptances' = [ acceptances EXCEPT ![agent] = now ]

tradeAcceptances == { a \in Party : acceptances[a] # 0 }

\* SELECT MIN(created_at) FROM trade_acceptances
TradeAcceptance ==
  CHOOSE t \in { acceptances[a] : a \in tradeAcceptances } :
    \A a \in tradeAcceptances : t <= acceptances[a]

-----------------------------------------------------------------------------
(* settlement.go *)

Expire(rs) ==
  [ i \in DOMAIN rs |->
      IF rs[i].status = "issued" THEN [ rs[i] EXCEPT !.status = "expired" ]
                                 ELSE rs[i] ]

ExpireSettlementRequests == requests' = Expire(requests)

\* Supersedes the issued request and inserts its replacement in one transaction,
\* so the partial unique index on issued rows never refuses the insert.
CreateSettlementRequest(expiresAt, cluster, fee) ==
  requests' = Append(Expire(requests),
                     [ status |-> "issued", signature |-> NoSig,
                       expiresAt |-> expiresAt, cluster |-> cluster, fee |-> fee ])

LiveSettlementRequest ==
  { i \in DOMAIN requests :
      requests[i].status = "issued" /\ requests[i].expiresAt > now }

\* ORDER BY (status = issued) DESC, created_at DESC LIMIT 1
GetSettlementRequest ==
  LET issued(i) == requests[i].status = "issued"
  IN  CHOOSE i \in DOMAIN requests :
        \A j \in DOMAIN requests :
          /\ issued(j) => issued(i)
          /\ (issued(i) <=> issued(j)) => j <= i

\* SetSettlementSignature that overwrites a signature already recorded.
SetSettlementSignature_Overwrites(i, sig) ==
  /\ requests[i].status = "issued"
  /\ requests' = [ requests EXCEPT ![i].signature = sig ]

SetSettlementSignature(i, sig) ==
  /\ requests[i].status = "issued"
  /\ requests[i].signature \in { NoSig, sig }
  /\ requests' = [ requests EXCEPT ![i].signature = sig ]

ConfirmSettlementRequest(i, sig) ==
  /\ requests[i].status = "issued"
  /\ requests' = [ requests EXCEPT ![i].status = "confirmed",
                                   ![i].signature = sig ]

-----------------------------------------------------------------------------
(* ledger.go *)

\* UNIQUE (trade_id) on ledger_entries.  The hash chain the row is linked into
\* is the subject of module Ledger.
AppendLedgerEntry(state) ==
  /\ entries = << >>
  /\ entries' = Append(entries, [ state |-> state ])

\* UNIQUE (trade_id) on receipts.
SaveReceipt(state, sig, cluster) ==
  /\ receipts = << >>
  /\ receipts' = Append(receipts, [ state |-> state, signature |-> sig,
                                    cluster |-> cluster ])
=============================================================================
