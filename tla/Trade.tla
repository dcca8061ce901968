-------------------------------- MODULE Trade --------------------------------
(***************************************************************************)
(* The trade service of internal/trade/trade.go, for one trade: its        *)
(* handlers, run by concurrent requests, and the expiry sweeper.           *)
(*                                                                         *)
(* A handler is a process that takes one step per statement it runs on the *)
(* store: it reads the row, decides on that copy, and writes later, so     *)
(* other handlers move the trade in between.  A call refused by the row it *)
(* first reads changes nothing and is not a step.  Reads that follow one   *)
(* another and can only lead to the same refusal are one step.             *)
(*                                                                         *)
(* Abort ends a handler between any two of its statements.  Every          *)
(* statement takes the request's context, which the server's 30s timeout   *)
(* or a disconnecting client cancels, and the process can stop.            *)
(***************************************************************************)
EXTENDS TradeStore

CONSTANTS
  Procs,        \* handlers that can be in flight at once
  Ops,          \* Ops[p] : the operations process p runs
  AcceptTTL,    \* how long an acceptance commits the parties
  OpenTTL,      \* how long an unanswered trade stays open
  MaxNow,       \* bound on the clock
  MaxAborts     \* bound on aborted handlers

\* The operations, and the statements a handler can be about to run; the
\* settlement's among them belong to module Settlement.
Op == { "none", "negotiate", "accept", "cancel", "dispute", "resolve", "record",
        "sweep", "build", "confirm", "reconcile" }

Pc == { "idle", "set_state", "event", "reread", "accept", "count", "live", "deadline",
        "append", "receipt", "close",
        "create", "list", "sign", "fetch", "last_fetch", "withdraw", "confirm",
        "supersede", "reconcile", "lapse" }

ASSUME TradeAssumption ==
  /\ AcceptTTL \in Nat \ {0}
  /\ OpenTTL \in Nat \ {0}
  /\ MaxNow \in Nat
  /\ MaxAborts \in Nat
  /\ \A p \in Procs : Ops[p] \subseteq Op

VARIABLES
  proc,      \* the handler each process is running
  aborts     \* handlers aborted so far

tradeVars == << now, db, proc, aborts >>

\* A handler in flight: its operation and next step; the caller, which only
\* Accept goes on to use; the state of the row it read; the transition it is
\* about to apply and the event that logs it; and, for a settlement, how many
\* requests it listed, the one it works on and the reported signature.
Handler(op, pc) ==
  [ op |-> op, pc |-> pc, agent |-> Buyer, seen |-> trade.state,
    to |-> trade.state, event |-> trade.state,
    listed |-> 0, current |-> 0, signature |-> NoSig ]

Idle ==
  [ op |-> "none", pc |-> "idle", agent |-> Buyer, seen |-> "proposed",
    to |-> "proposed", event |-> "proposed",
    listed |-> 0, current |-> 0, signature |-> NoSig ]

\* A handler about to run applyAs on the row it read.
Applying(h, to, event) ==
  [ h EXCEPT !.pc = "set_state", !.to = to, !.event = event ]

Begin(p, h) ==
  /\ proc[p] = Idle
  /\ h.op \in Ops[p]
  /\ proc' = [ proc EXCEPT ![p] = h ]

At(p, pc) == proc[p].pc = pc

Goto(p, pc) == proc' = [ proc EXCEPT ![p].pc = pc ]

Continue(p, h) == proc' = [ proc EXCEPT ![p] = h ]

Return(p) == proc' = [ proc EXCEPT ![p] = Idle ]

-----------------------------------------------------------------------------
(* Transitions *)

\* applyAs: the write is conditional on the state the handler read.  A handler
\* that loses the race returns no error; it carries on with the row as it is.
applyAs(p) ==
  /\ At(p, "set_state")
  /\ \/ SetTradeState(proc[p].seen, proc[p].to) /\ Goto(p, "event")
     \/ trade.state # proc[p].seen /\ Goto(p, "reread") /\ UNCHANGED trade
  /\ UNCHANGED << now, acceptances, events, requests, entries, receipts, offer, aborts >>

\* The operations that go on to the ledger once the transition is applied.
Books(h) == h.to \in { "recorded", "settled" }

\* applyAs logs the transition in a transaction of its own.
appendEvent(p) ==
  /\ At(p, "event")
  /\ AppendTradeEvent(proc[p].event, proc[p].seen, proc[p].to)
  /\ Goto(p, "reread")
  /\ UNCHANGED << now, trade, acceptances, requests, entries, receipts, offer, aborts >>

\* ledger.Record without its check of the state.
reread_AnyState(p) ==
  /\ At(p, "reread")
  /\ IF Books(proc[p]) /\ receipts = << >>
     THEN Continue(p, [ proc[p] EXCEPT !.pc = "append", !.seen = trade.state ])
     ELSE Return(p)
  /\ UNCHANGED << now, db, aborts >>

\* applyAs returns the row as it is now.  For Record and a settlement that row
\* is what ledger.Record is given: a state that is not settled, or a tessera
\* already issued, ends the handler there.
reread(p) ==
  /\ At(p, "reread")
  /\ IF Books(proc[p]) /\ trade.state \in { "recorded", "settled" } /\ receipts = << >>
     THEN Continue(p, [ proc[p] EXCEPT !.pc = "append", !.seen = trade.state ])
     ELSE Return(p)
  /\ UNCHANGED << now, db, aborts >>

\* ledger.Record that takes a refused entry for its own.
ledgerAppend_Shared(p) ==
  /\ At(p, "append")
  /\ \/ AppendLedgerEntry(proc[p].seen)
     \/ entries # << >> /\ UNCHANGED entries
  /\ Goto(p, "receipt")
  /\ UNCHANGED << now, trade, acceptances, events, requests, receipts, offer, aborts >>

\* ledger.Record: a second entry for the trade is refused by the unique index.
ledgerAppend(p) ==
  /\ At(p, "append")
  /\ \/ AppendLedgerEntry(proc[p].seen) /\ Goto(p, "receipt")
     \/ entries # << >> /\ Return(p) /\ UNCHANGED entries
  /\ UNCHANGED << now, trade, acceptances, events, requests, receipts, offer, aborts >>

-----------------------------------------------------------------------------
(* Handlers *)

BeginNegotiation(p) ==
  /\ trade.state = "proposed"
  /\ Begin(p, Applying(Handler("negotiate", "set_state"), "negotiating", "negotiating"))
  /\ UNCHANGED << now, db, aborts >>

Accept(p, agent) ==
  /\ trade.state = "negotiating"
  /\ Begin(p, [ Handler("accept", "accept") EXCEPT !.agent = agent ])
  /\ UNCHANGED << now, db, aborts >>

\* A party that already accepted gets the trade back and nothing else happens.
acceptInsert(p) ==
  /\ At(p, "accept")
  /\ \/ AddTradeAcceptance(proc[p].agent) /\ Goto(p, "count")
     \/ acceptances[proc[p].agent] # 0 /\ Return(p) /\ UNCHANGED acceptances
  /\ UNCHANGED << now, trade, events, requests, entries, receipts, offer, aborts >>

\* Accept that is content with one acceptance.
acceptCount_First(p) ==
  /\ At(p, "count")
  /\ IF canTransition(trade.state, "accepted")
     THEN Continue(p, Applying([ proc[p] EXCEPT !.seen = trade.state ],
                               "accepted", "accepted"))
     ELSE Return(p)
  /\ UNCHANGED << now, db, aborts >>

\* The second acceptance moves the row as it is by then.
acceptCount(p) ==
  /\ At(p, "count")
  /\ IF tradeAcceptances = Party /\ canTransition(trade.state, "accepted")
     THEN Continue(p, Applying([ proc[p] EXCEPT !.seen = trade.state ],
                               "accepted", "accepted"))
     ELSE Return(p)
  /\ UNCHANGED << now, db, aborts >>

\* acceptanceDeadline is anchored on the earliest acceptance row.
acceptanceDeadline == TradeAcceptance + AcceptTTL

pastDeadline == tradeAcceptances # {} /\ now >= acceptanceDeadline

Cancel(p) ==
  /\ canTransition(trade.state, "cancelled")
  /\ Begin(p, Handler("cancel", "live"))
  /\ UNCHANGED << now, db, aborts >>

\* Cancel without the acceptance deadline.
cancelLive_NoDeadline(p) ==
  /\ At(p, "live")
  /\ IF LiveSettlementRequest # {} THEN Return(p)
     ELSE Continue(p, Applying(proc[p], "cancelled", "cancelled"))
  /\ UNCHANGED << now, db, aborts >>

\* A live settlement request refuses the cancellation.
cancelLive(p) ==
  /\ At(p, "live")
  /\ IF LiveSettlementRequest # {} THEN Return(p)
     ELSE IF proc[p].seen = "accepted" THEN Goto(p, "deadline")
     ELSE Continue(p, Applying(proc[p], "cancelled", "cancelled"))
  /\ UNCHANGED << now, db, aborts >>

\* An accepted trade is a commitment until its deadline.
cancelDeadline(p) ==
  /\ At(p, "deadline")
  /\ IF pastDeadline THEN Continue(p, Applying(proc[p], "cancelled", "cancelled"))
                     ELSE Return(p)
  /\ UNCHANGED << now, db, aborts >>

Dispute(p) ==
  /\ canTransition(trade.state, "disputed")
  /\ Begin(p, Applying(Handler("dispute", "set_state"), "disputed", "disputed"))
  /\ UNCHANGED << now, db, aborts >>

\* The operator's verdict; neither party can give it.
Resolve(p) ==
  /\ trade.state = "disputed"
  /\ Begin(p, Applying(Handler("resolve", "set_state"), "resolved", "resolved"))
  /\ UNCHANGED << now, db, aborts >>

\* Record does not look at the settlement mode.
Record(p) ==
  /\ canTransition(trade.state, "recorded")
  /\ Begin(p, Applying(Handler("record", "set_state"), "recorded", "recorded"))
  /\ UNCHANGED << now, db, aborts >>

\* An off-chain commit signs a tessera that names no signature and no cluster.
\* The unique index on receipts never refuses it: only the handler that appended
\* the one entry of the trade gets here (TesseraAnchored).
recordReceipt(p) ==
  /\ At(p, "receipt")
  /\ proc[p].op = "record"
  /\ SaveReceipt(proc[p].seen, NoSig, "")
  /\ Goto(p, "close")
  /\ UNCHANGED << now, trade, acceptances, events, requests, entries, offer, aborts >>

closeOffer(p) ==
  /\ At(p, "close")
  /\ offer' = "closed"
  /\ Return(p)
  /\ UNCHANGED << now, trade, acceptances, events, requests, entries, receipts, aborts >>

-----------------------------------------------------------------------------
(* The sweeper *)

\* The sweep re-checks the deadline on the copy of its batch.  It does not ask
\* for a live settlement request.
ExpireAccepted(p) ==
  /\ trade.state = "accepted"
  /\ pastDeadline
  /\ Begin(p, Applying(Handler("sweep", "set_state"), "cancelled", "expired"))
  /\ UNCHANGED << now, db, aborts >>

\* ExpireOpen that looks only for proposed trades.
ExpireOpen_ProposedOnly(p) ==
  /\ trade.state = "proposed"
  /\ trade.updatedAt + OpenTTL <= now
  /\ Begin(p, Applying(Handler("sweep", "set_state"), "cancelled", "expired"))
  /\ UNCHANGED << now, db, aborts >>

\* A trade nobody moved for OpenTTL.
ExpireOpen(p) ==
  /\ trade.state \in { "proposed", "negotiating" }
  /\ trade.updatedAt + OpenTTL <= now
  /\ Begin(p, Applying(Handler("sweep", "set_state"), "cancelled", "expired"))
  /\ UNCHANGED << now, db, aborts >>

-----------------------------------------------------------------------------
Abort(p) ==
  /\ proc[p] # Idle
  /\ aborts < MaxAborts
  /\ aborts' = aborts + 1
  /\ Return(p)
  /\ UNCHANGED << now, db >>

Tick ==
  /\ now < MaxNow
  /\ now' = now + 1
  /\ UNCHANGED << db, proc, aborts >>

TradeInit ==
  /\ StoreInit
  /\ proc = [ p \in Procs |-> Idle ]
  /\ aborts = 0

\* What a process does once its handler is under way.
TradeStep(p) ==
  \/ applyAs(p) \/ appendEvent(p) \/ reread(p)
  \/ acceptInsert(p) \/ acceptCount(p)
  \/ cancelLive(p) \/ cancelDeadline(p)
  \/ ledgerAppend(p) \/ recordReceipt(p) \/ closeOffer(p)

Sweep(p) == ExpireAccepted(p) \/ ExpireOpen(p)

TradeCall(p) ==
  \/ BeginNegotiation(p) \/ Cancel(p) \/ Dispute(p) \/ Resolve(p) \/ Record(p)
  \/ \E agent \in Party : Accept(p, agent)

TradeNext ==
  \/ Tick
  \/ \E p \in Procs : TradeCall(p) \/ Sweep(p) \/ TradeStep(p) \/ Abort(p)

TradeSpec == TradeInit /\ [][TradeNext]_tradeVars

-----------------------------------------------------------------------------
(* Properties *)

\* Every row and every handler in flight has its type.
TradeTypeOK ==
  /\ StoreType
  /\ aborts \in Nat
  /\ proc \in [ Procs ->
       [ op : Op, pc : Pc, agent : Party, seen : TradeState,
         to : TradeState, event : EventType, listed : Nat, current : Nat,
         signature : Sigs \cup { NoSig } ] ]

\* A trade that was accepted, and went on from there to delivery or to a
\* dispute, was accepted by both parties, however their two Accept calls and
\* the sweeper interleaved.
BothAgreed ==
  trade.state \in { "accepted", "settlement_pending", "recorded", "settled",
                    "disputed", "resolved" } => tradeAcceptances = Party

\* The ledger anchors only a trade that was delivered, in the state it was
\* delivered in; a handler that lost its race to a cancellation or a dispute
\* writes no entry.
EntryMatchesOutcome ==
  entries # << >> => /\ trade.state \in { "recorded", "settled" }
                     /\ entries[1].state = trade.state

\* A tessera is signed only over an entry that is in the ledger, the offer is
\* closed only once its tessera exists, and no two handlers are ever signing a
\* tessera for the trade, wherever handlers race or are aborted.
TesseraAnchored ==
  /\ receipts # << >> => entries # << >>
  /\ offer = "closed" => receipts # << >>
  /\ \A p \in Procs : At(p, "receipt") => entries # << >> /\ receipts = << >>

\* The event log never shows the trade leaving the same state twice: of two
\* handlers that read the same state only the one whose write took effect logs.
EachStateLeftOnce ==
  \A i, j \in DOMAIN events : i # j => events[i].from # events[j].from

\* What a handler between two of its statements can rely on: the transition it is
\* about to try is in the table for the state it read, and both parties agreed if
\* it is acceptance; the state it books is final; and one handler signs.
HandlerInv ==
  \A p \in Procs :
    /\ At(p, "set_state") => /\ canTransition(proc[p].seen, proc[p].to)
                             /\ proc[p].to = "accepted" => tradeAcceptances = Party
    /\ proc[p].pc \in { "live", "deadline" } => canTransition(proc[p].seen, "cancelled")
    /\ At(p, "append") => /\ trade.state = proc[p].seen
                          /\ proc[p].seen \in { "recorded", "settled" }
    /\ At(p, "receipt") => \A q \in Procs : At(q, "receipt") => q = p
    /\ At(p, "close") => receipts # << >>

\* The inductive invariant behind BothAgreed, EntryMatchesOutcome and
\* TesseraAnchored.
TradeInv ==
  TradeTypeOK /\ BothAgreed /\ EntryMatchesOutcome /\ TesseraAnchored /\ HandlerInv

\* Acceptance holds until the deadline counted from the first acceptance:
\* neither a party nor the sweeper cancels an accepted trade before it.
CommitmentHolds ==
  [][ trade.state = "accepted" /\ trade'.state = "cancelled"
      => \E a \in Party : acceptances[a] # 0 /\ now >= acceptances[a] + AcceptTTL ]_tradeVars

\* A trade nobody answers does not hold its buyer's reservation: past its
\* deadline a proposed, negotiating or accepted trade leaves that state.
DeadlineEndsTrade ==
  /\ \A s \in { "proposed", "negotiating" } :
       (trade.state = s /\ trade.updatedAt + OpenTTL <= MaxNow) ~> trade.state # s
  /\ (trade.state = "accepted" /\ acceptanceDeadline <= MaxNow) ~> trade.state # "accepted"

\* How far the trade's tessera is, as the ledger and the receipts show it.
tesseraStage ==
  CASE entries = << >>                     -> "none"
    [] entries # << >> /\ receipts = << >> -> "anchored"
    [] entries # << >> /\ receipts # << >> -> "signed"

\* What the parties can rely on (module TradeContract), as the store's rows
\* show it.
Contract == INSTANCE TradeContract WITH
  state <- trade.state, agreed <- tradeAcceptances, tessera <- tesseraStage

\* The service implements the contract: every step of every handler, with its
\* stale reads and its aborts, is a step the contract allows or changes nothing
\* the parties see.
ImplementsContract == Contract!ContractSpec

\* The same for the steps alone, where a run does not start from a fresh trade.
KeepsContract == [][Contract!ContractNext]_(Contract!contractVars)

=============================================================================
