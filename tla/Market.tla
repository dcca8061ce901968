-------------------------------- MODULE Market --------------------------------
(***************************************************************************)
(* The registry and the first step of a trade: internal/registry,           *)
(* Service.Create of internal/trade, and the statements of internal/store   *)
(* they run.  A statement is atomic, a handler is not: it reads rows, keeps *)
(* what it saw in proc[p], and writes later, while operators retire agents, *)
(* other handlers write and the offer sweeper closes listings.  A call that *)
(* its first reads refuse changes nothing and is not a step.                *)
(***************************************************************************)
EXTENDS Attest, Probe, Money, TradeRules

CONSTANTS
  Agent, OfferID, TradeID,
  Key, NoKey,             \* idempotency keys a caller may send, or none
  MarketKey, FirstKey,    \* the marketplace's signing keys over its life
  Cards,                  \* cards agents publish
  Terms,                  \* terms sellers publish
  ProbeAnswers,           \* what a probe may get back
  Decimals,               \* scale of each governed mint
  Priced,                 \* mints with a USD rate
  OfferTTL, SweepLimit,
  Budgets,                \* bounds for TLC: how often each operation may begin
  Proc

Operation == {"register", "retire", "restore", "publish", "close", "sweep", "create",
              "trade", "probe", "rotate", "abort", "tick"}

ASSUME MarketAssumption ==
  /\ FirstKey \in MarketKey
  /\ NoKey \notin Key
  /\ OfferTTL \in Nat \ {0}
  /\ "" \notin Agent
  /\ Budgets \subseteq [Operation -> Nat]

VARIABLES
  agents,        \* table agents: status and card
  attestations,  \* table agent_attestations: the agent's and the market's signature
  retirements,   \* table agent_retirements: "none", "retired" or "restored"
  offers,        \* table offers
  offerSigs,     \* table offer_attestations
  trades,        \* table trades, as far as the registry reads it
  probes,        \* table capability_probes
  marketKeys,    \* the running process's key and the retired ones it trusts
  now,
  budget,        \* how often each operation may still begin
  proc           \* the handler each process runs

tables == << agents, attestations, retirements, offers, offerSigs, trades, probes >>
marketVars == << tables, marketKeys, now, budget, proc >>

Idle == [pc |-> "idle"]
Goto(p, handler) == proc' = [proc EXCEPT ![p] = handler]
Return(p) == Goto(p, Idle)

Count(op) == budget[op] > 0 /\ budget' = [budget EXCEPT ![op] = @ - 1]

\* Process p takes a call.
Begin(p, op) == proc[p] = Idle /\ Count(op)

Registered(a) == agents[a].status # "none"
Stored(o) == offers[o].status # "none"
Exists(t) == trades[t].state # "none"

-----------------------------------------------------------------------------
(* Projections onto the signed subset                                       *)

attestCard(a, card) ==
  [agentID |-> a, text |-> card.text, capabilities |-> card.capabilities,
   probeTarget |-> card.probeTarget, currencies |-> card.currencies]

\* A mint that is not governed has no scale, and no figure in base units; a price
\* its mint cannot express has a scale and no figure.
NoFigure == -1
attestOffer(o, seller, terms) ==
  LET known == terms.mint \in DOMAIN Decimals
      units == BaseUnits(terms.amount, Decimals[terms.mint])
  IN  [id |-> o, seller |-> seller, text |-> terms.text,
       direction |-> terms.direction, capabilities |-> terms.capabilities,
       mint |-> terms.mint, unitAmount |-> terms.amount,
       scale |-> IF known THEN Decimals[terms.mint] ELSE NoFigure,
       amountBaseUnits |-> IF known /\ units >= 0 THEN units ELSE NoFigure,
       settlementModes |-> terms.settlementModes]

MarketplaceKeyIDs == {marketKeys.current} \cup marketKeys.retired

\* The signatures a caller can send with a card or an offer: none, its own, one
\* over other content, or another agent's over the right content.
CardSigs(a, card) ==
  {{}} \cup {{SignCard(k, attestCard(a, c), now)} : k \in Agent, c \in Cards}
OfferSigs(o, a, terms) ==
  {{}} \cup {{SignOffer(k, attestOffer(o, a, t), now)} : k \in Agent, t \in Terms}

-----------------------------------------------------------------------------
(* Agents                                                                   *)

\* Register verifies, has the marketplace sign, and reads the row.  The status it
\* read is what it will write.
Register(p) ==
  /\ Begin(p, "register")
  /\ \E a \in Agent, card \in Cards : \E sig \in CardSigs(a, card) :
      /\ \A s \in sig : VerifyCard(attestCard(a, card), s)
      /\ Goto(p, [pc |-> "saveCard", agent |-> a, card |-> card, sig |-> sig,
                  marketSig |-> AttestCard(marketKeys.current, attestCard(a, card), now),
                  status |-> IF Registered(a) THEN agents[a].status ELSE "active"])
  /\ UNCHANGED << tables, marketKeys, now >>

SaveAgentCard_KeepsSig(p) ==
  /\ proc[p].pc = "saveCard"
  /\ agents' = [agents EXCEPT ![proc[p].agent] =
                  [status |-> proc[p].status, card |-> proc[p].card]]
  /\ attestations' = [attestations EXCEPT ![proc[p].agent] =
                        [agent |-> IF proc[p].sig = {} THEN @.agent ELSE proc[p].sig,
                         market |-> {proc[p].marketSig}]]
  /\ Return(p)
  /\ UNCHANGED << retirements, offers, offerSigs, trades, probes, marketKeys, now, budget >>

\* SaveAgentCard: the card, the status and both signatures in one transaction.
SaveAgentCard(p) ==
  /\ proc[p].pc = "saveCard"
  /\ agents' = [agents EXCEPT ![proc[p].agent] =
                  [status |-> proc[p].status, card |-> proc[p].card]]
  /\ attestations' = [attestations EXCEPT ![proc[p].agent] =
                        [agent |-> proc[p].sig, market |-> {proc[p].marketSig}]]
  /\ Return(p)
  /\ UNCHANGED << retirements, offers, offerSigs, trades, probes, marketKeys, now, budget >>

\* Not Terminal(): a resolved trade is not among the finished ones here.
liveTradeIDs(a) ==
  {t \in TradeID : /\ Exists(t)
                   /\ a \in {trades[t].buyer, trades[t].seller}
                   /\ trades[t].state \notin {"recorded", "settled", "disputed", "cancelled"}}

\* Retire and RetireAgent: one transaction, live trades checked inside it.
RetireAgent(a) ==
  /\ Count("retire")
  /\ Registered(a)
  /\ liveTradeIDs(a) = {}
  /\ agents' = [agents EXCEPT ![a].status = "retired"]
  /\ offers' = [o \in OfferID |-> IF offers[o].agent = a /\ offers[o].status = "open"
                                  THEN [offers[o] EXCEPT !.status = "closed"] ELSE offers[o]]
  /\ retirements' = [retirements EXCEPT ![a] = "retired"]
  /\ UNCHANGED << attestations, offerSigs, trades, probes, marketKeys, now, proc >>

RestoreAgent_Deletes(a) ==
  /\ Count("restore")
  /\ Registered(a)
  /\ agents' = [agents EXCEPT ![a].status = "active"]
  /\ retirements' = [retirements EXCEPT ![a] = "none"]
  /\ UNCHANGED << attestations, offers, offerSigs, trades, probes, marketKeys, now, proc >>

\* Restore and RestoreAgent: the offers the retirement closed stay closed, and the
\* record stays, marked restored.
RestoreAgent(a) ==
  /\ Count("restore")
  /\ Registered(a)
  /\ agents' = [agents EXCEPT ![a].status = "active"]
  /\ retirements' = [retirements EXCEPT ![a] = IF @ = "retired" THEN "restored" ELSE @]
  /\ UNCHANGED << attestations, offers, offerSigs, trades, probes, marketKeys, now, proc >>

-----------------------------------------------------------------------------
(* Offers                                                                   *)

GetOfferByIdempotencyKey(key) == {o \in OfferID : key # NoKey /\ offers[o].key = key}

checkCurrencyAccepted(card, mint) == card.currencies = {} \/ mint \in card.currencies

checkSettleable(terms) ==
  terms.mint \in DOMAIN Decimals => BaseUnits(terms.amount, Decimals[terms.mint]) >= 0

AcceptsMode(terms, mode) == mode \in Range(terms.settlementModes)

\* PublishOffer up to its first read: the key names no offer yet.  A signature
\* covers the offer's id, so only a seller that names the id can sign.
PublishOffer(p) ==
  /\ Begin(p, "publish")
  /\ \E a \in Agent, o \in OfferID, terms \in Terms, key \in Key \cup {NoKey} :
     \E sig \in OfferSigs(o, a, terms) :
      /\ GetOfferByIdempotencyKey(key) = {}
      /\ ~IsZero(terms.amount)
      /\ AcceptsMode(terms, "onchain") => checkSettleable(terms)
      /\ terms.mint \in Priced
      /\ \A s \in sig : VerifyOffer(attestOffer(o, a, terms), s)
      /\ Goto(p, [pc |-> "publishAgent", agent |-> a, offer |-> o, terms |-> terms,
                  key |-> key, sig |-> sig])
  /\ UNCHANGED << tables, marketKeys, now >>

\* The second read: the seller must be active and take the currency.
publishAgent(p) ==
  /\ proc[p].pc = "publishAgent"
  /\ LET row == agents[proc[p].agent] IN
     IF row.status = "active" /\ checkCurrencyAccepted(row.card, proc[p].terms.mint)
     THEN Goto(p, [pc |-> "createOffer", agent |-> proc[p].agent, offer |-> proc[p].offer,
                   terms |-> proc[p].terms, key |-> proc[p].key, sig |-> proc[p].sig,
                   expires |-> now + OfferTTL])
     ELSE Return(p)
  /\ UNCHANGED << tables, marketKeys, now, budget >>

CreateOffer_SigAfter(p) ==
  /\ proc[p].pc = "createOffer"
  /\ LET h == proc[p] IN
       /\ offerSigs' = [offerSigs EXCEPT ![h.offer] = h.sig]
       /\ offers' = IF Stored(h.offer) \/ GetOfferByIdempotencyKey(h.key) # {} THEN offers
                    ELSE [offers EXCEPT ![h.offer] =
                            [status |-> "open", agent |-> h.agent, terms |-> h.terms,
                             key |-> h.key, expires |-> h.expires]]
  /\ Return(p)
  /\ UNCHANGED << agents, attestations, retirements, trades, probes, marketKeys, now, budget >>

\* A taken id is answered with the same listing or a conflict, and two inserts
\* that both missed it are decided by the primary key and the unique index:
\* either way a stored offer is left alone.
CreateOffer(p) ==
  /\ proc[p].pc = "createOffer"
  /\ LET h == proc[p] IN
     IF Stored(h.offer) \/ GetOfferByIdempotencyKey(h.key) # {}
     THEN UNCHANGED << offers, offerSigs >>
     ELSE /\ offers' = [offers EXCEPT ![h.offer] =
                          [status |-> "open", agent |-> h.agent, terms |-> h.terms,
                           key |-> h.key, expires |-> h.expires]]
          /\ offerSigs' = [offerSigs EXCEPT ![h.offer] = h.sig]
  /\ Return(p)
  /\ UNCHANGED << agents, attestations, retirements, trades, probes, marketKeys, now, budget >>

\* CloseOffer reads an open offer of the caller's own ...
CloseOffer(p) ==
  /\ Begin(p, "close")
  /\ \E o \in OfferID :
      /\ offers[o].status = "open"
      /\ Goto(p, [pc |-> "closeOffer", offer |-> o])
  /\ UNCHANGED << tables, marketKeys, now >>

\* ... and SetOfferStatus closes it, whatever happened since.
SetOfferClosed(p) ==
  /\ proc[p].pc = "closeOffer"
  /\ offers' = [offers EXCEPT ![proc[p].offer].status = "closed"]
  /\ Return(p)
  /\ UNCHANGED << agents, attestations, retirements, offerSigs, trades, probes, marketKeys, now, budget >>

\* OpenOffersBefore: the oldest SweepLimit open offers whose deadline has passed.
OpenOffersBefore(cutoff) ==
  LET due == {o \in OfferID : offers[o].status = "open" /\ offers[o].expires <= cutoff}
      Older(o) == {q \in due : offers[q].expires < offers[o].expires}
  IN  {batch \in SUBSET due :
         /\ Cardinality(batch) = IF Cardinality(due) < SweepLimit THEN Cardinality(due) ELSE SweepLimit
         /\ \A o \in batch : Older(o) \subseteq batch}

ExpireOffers(p) ==
  /\ Begin(p, "sweep")
  /\ \E batch \in OpenOffersBefore(now) \ {{}} :
       Goto(p, [pc |-> "sweep", batch |-> batch, cutoff |-> now])
  /\ UNCHANGED << tables, marketKeys, now >>

\* Each offer of the batch is read again, and skipped unless it is still due.
sweepReread(p) ==
  /\ proc[p].pc = "sweep"
  /\ \E o \in proc[p].batch :
       LET rest == proc[p].batch \ {o}
           due == offers[o].status = "open" /\ offers[o].expires <= proc[p].cutoff
       IN  Goto(p, IF due THEN [pc |-> "sweepClose", offer |-> o, batch |-> rest,
                                cutoff |-> proc[p].cutoff]
                   ELSE IF rest = {} THEN Idle
                   ELSE [pc |-> "sweep", batch |-> rest, cutoff |-> proc[p].cutoff])
  /\ UNCHANGED << tables, marketKeys, now, budget >>

sweepClose(p) ==
  /\ proc[p].pc = "sweepClose"
  /\ offers' = [offers EXCEPT ![proc[p].offer].status = "closed"]
  /\ Goto(p, IF proc[p].batch = {} THEN Idle
             ELSE [pc |-> "sweep", batch |-> proc[p].batch, cutoff |-> proc[p].cutoff])
  /\ UNCHANGED << agents, attestations, retirements, offerSigs, trades, probes, marketKeys, now, budget >>

-----------------------------------------------------------------------------
(* Trades                                                                   *)

GetTradeByIdempotencyKey(key) == {t \in TradeID : key # NoKey /\ trades[t].key = key}

Buyer(offer, actor) == IF offer.terms.direction = "bid" THEN offer.agent ELSE actor
Seller(offer, actor) == IF offer.terms.direction = "bid" THEN actor ELSE offer.agent

\* Create up to the offer it reads: the key names no trade, the offer is open,
\* takes the mode and is somebody else's.
Create(p) ==
  /\ Begin(p, "create")
  /\ \E actor \in Agent, o \in OfferID, mode \in {"offchain", "onchain"}, key \in Key \cup {NoKey} :
      /\ GetTradeByIdempotencyKey(key) = {}
      /\ offers[o].status = "open"
      /\ AcceptsMode(offers[o].terms, mode)
      /\ offers[o].agent # actor
      /\ Goto(p, [pc |-> "createAgents", offer |-> o, mode |-> mode, key |-> key,
                  buyer |-> Buyer(offers[o], actor), seller |-> Seller(offers[o], actor),
                  terms |-> offers[o].terms, rest |-> {offers[o].agent, actor}])
  /\ UNCHANGED << tables, marketKeys, now >>

\* checkSettleable of the trade service: an on-chain trade needs a governed mint.
settles(mode, mint) == mode = "onchain" => mint \in DOMAIN Decimals

\* Each party is read in turn and must be active.  The spend cap that follows is
\* module Spend.
createAgents(p) ==
  /\ proc[p].pc = "createAgents"
  /\ LET h == proc[p]
         a == IF h.buyer \in h.rest THEN h.buyer ELSE h.seller
     IN  Goto(p, IF agents[a].status # "active" THEN Idle
                 ELSE IF a = h.seller
                 THEN IF settles(h.mode, h.terms.mint) THEN [h EXCEPT !.pc = "createTrade"] ELSE Idle
                 ELSE [h EXCEPT !.rest = {h.seller}])
  /\ UNCHANGED << tables, marketKeys, now, budget >>

CreateTrade_ActorBuys(p) ==
  /\ proc[p].pc = "createTrade"
  /\ LET h == proc[p] IN
     IF GetTradeByIdempotencyKey(h.key) # {} THEN trades' = trades
     ELSE \E t \in {x \in TradeID : ~Exists(x)} :
            trades' = [trades EXCEPT ![t] =
              [state |-> "proposed", offer |-> h.offer,
               buyer |-> IF h.buyer = offers[h.offer].agent THEN h.seller ELSE h.buyer,
               seller |-> offers[h.offer].agent, terms |-> h.terms, mode |-> h.mode,
               key |-> h.key]]
  /\ Return(p)
  /\ UNCHANGED << agents, attestations, retirements, offers, offerSigs, probes, marketKeys, now, budget >>

CreateTrade_NoIndex(p) ==
  /\ proc[p].pc = "createTrade"
  /\ \E t \in {x \in TradeID : ~Exists(x)} :
       trades' = [trades EXCEPT ![t] =
         [state |-> "proposed", offer |-> proc[p].offer, buyer |-> proc[p].buyer,
          seller |-> proc[p].seller, terms |-> proc[p].terms, mode |-> proc[p].mode,
          key |-> proc[p].key]]
  /\ Return(p)
  /\ UNCHANGED << agents, attestations, retirements, offers, offerSigs, probes, marketKeys, now, budget >>

\* The insert; of two with one key the second fails on the unique index.
CreateTrade(p) ==
  /\ proc[p].pc = "createTrade"
  /\ LET h == proc[p] IN
     IF GetTradeByIdempotencyKey(h.key) # {} THEN trades' = trades
     ELSE \E t \in {x \in TradeID : ~Exists(x)} :
            trades' = [trades EXCEPT ![t] =
              [state |-> "proposed", offer |-> h.offer, buyer |-> h.buyer,
               seller |-> h.seller, terms |-> h.terms, mode |-> h.mode, key |-> h.key]]
  /\ Return(p)
  /\ UNCHANGED << agents, attestations, retirements, offers, offerSigs, probes, marketKeys, now, budget >>

\* The rest of a trade's life, which modules Trade and Settlement model: it moves
\* along its table, and a completed trade closes its offer.
TradeMoves(t) ==
  /\ Count("trade")
  /\ Exists(t)
  /\ \E to \in TradeState : /\ canTransition(trades[t].state, to)
                            /\ trades' = [trades EXCEPT ![t].state = to]
  /\ UNCHANGED << agents, attestations, retirements, offers, offerSigs, probes, marketKeys, now, proc >>

TradeClosesOffer(t) ==
  /\ trades[t].state \in {"recorded", "settled"}
  /\ offers' = [offers EXCEPT ![trades[t].offer].status = "closed"]
  /\ UNCHANGED << agents, attestations, retirements, offerSigs, trades, probes, marketKeys, now, budget, proc >>

-----------------------------------------------------------------------------
(* Probes                                                                   *)

\* ProbeCapabilities reads the card; the challenge is the handler's own name, as
\* fresh as the 16 random bytes.
ProbeCapabilities(p) ==
  /\ Begin(p, "probe")
  /\ \E a \in Agent :
      /\ agents[a].status = "active"
      /\ agents[a].card.probeTarget # {}
      /\ Goto(p, [pc |-> "probe", agent |-> a, card |-> agents[a].card, checkedAt |-> now])
  /\ UNCHANGED << tables, marketKeys, now >>

Statement(a, card, results, checkedAt) ==
  [agentID |-> a, target |-> card.probeTarget, results |-> results, checkedAt |-> checkedAt]

\* json.Marshal writes UTF-8 only: U+FFFD stands for what is not.
marshal(results) ==
  LET Written(d) == IF d.utf8 = "broken" THEN [d EXCEPT !.utf8 = "replaced"] ELSE d
  IN  [i \in DOMAIN results |->
         Result(results[i].capability, results[i].status, Written(results[i].detail))]

\* The agent answers, and a result is kept whether or not it passed: signed as it
\* was reported, stored as json.Marshal writes it.
SaveProbe(p) ==
  /\ proc[p].pc = "probe"
  /\ \E answer \in ProbeAnswers, target \in proc[p].card.probeTarget :
     LET outcome == Run(target, answer, proc[p].agent, proc[p].card.capabilities, p)
     IN  \/ outcome = {} /\ UNCHANGED probes
         \/ \E results \in outcome :
              LET Report(r) == Statement(proc[p].agent, proc[p].card, r, proc[p].checkedAt) IN
              probes' = [probes EXCEPT ![proc[p].agent] =
                           {[statement |-> Report(marshal(results)), passed |-> Passed(results),
                             sig |-> SignProbe(marketKeys.current, Report(results), now)]}]
  /\ Return(p)
  /\ UNCHANGED << agents, attestations, retirements, offers, offerSigs, trades, marketKeys, now, budget >>

-----------------------------------------------------------------------------
RotateAndRestart ==
  /\ Count("rotate")
  /\ \E k \in MarketKey \ MarketplaceKeyIDs :
       marketKeys' = [current |-> k, retired |-> MarketplaceKeyIDs]
  /\ proc' = [p \in Proc |-> Idle]
  /\ UNCHANGED << tables, now >>

\* A handler stops between two statements when its request is cancelled.
Abort(p) ==
  /\ Count("abort")
  /\ proc[p] # Idle
  /\ Return(p)
  /\ UNCHANGED << tables, marketKeys, now >>

Tick ==
  /\ Count("tick")
  /\ now' = now + 1
  /\ UNCHANGED << tables, marketKeys, proc >>

NoAgent == [status |-> "none"]
NoOffer == [status |-> "none", agent |-> "", key |-> NoKey]
NoTrade == [state |-> "none", key |-> NoKey]

MarketInit ==
  /\ agents = [a \in Agent |-> NoAgent]
  /\ attestations = [a \in Agent |-> [agent |-> {}, market |-> {}]]
  /\ retirements = [a \in Agent |-> "none"]
  /\ offers = [o \in OfferID |-> NoOffer]
  /\ offerSigs = [o \in OfferID |-> {}]
  /\ trades = [t \in TradeID |-> NoTrade]
  /\ probes = [a \in Agent |-> {}]
  /\ marketKeys = [current |-> FirstKey, retired |-> {}]
  /\ now = 1
  /\ budget \in Budgets
  /\ proc = [p \in Proc |-> Idle]

Handler(p) ==
  \/ Register(p) \/ SaveAgentCard(p)
  \/ PublishOffer(p) \/ publishAgent(p) \/ CreateOffer(p)
  \/ CloseOffer(p) \/ SetOfferClosed(p)
  \/ ExpireOffers(p) \/ sweepReread(p) \/ sweepClose(p)
  \/ Create(p) \/ createAgents(p) \/ CreateTrade(p)
  \/ ProbeCapabilities(p) \/ SaveProbe(p)
  \/ Abort(p)

MarketNext ==
  \/ \E p \in Proc : Handler(p)
  \/ \E a \in Agent : RetireAgent(a) \/ RestoreAgent(a)
  \/ \E t \in TradeID : TradeMoves(t) \/ TradeClosesOffer(t)
  \/ RotateAndRestart
  \/ Tick

MarketSpec == MarketInit /\ [][MarketNext]_marketVars

-----------------------------------------------------------------------------
(* Properties                                                               *)

\* A reader can always check a published card: the stored marketplace signature
\* covers the stored card and verifies under a key the running process publishes,
\* and a stored agent signature is the agent's own over that same card.  Two
\* Registers of one agent, an unsigned update over a signed card and a rotation of
\* the marketplace key must not leave a card beside another card's signature
\* (SaveAgentCard, MarketplaceKeyIDs).
CardsVerify ==
  \A a \in Agent : Registered(a) =>
    /\ attestations[a].market # {}
    /\ \A s \in attestations[a].market :
         VerifyCardAttestedByAny(attestCard(a, agents[a].card), s, MarketplaceKeyIDs)
    /\ \A s \in attestations[a].agent : VerifyCard(attestCard(a, agents[a].card), s)

\* The details a signature over a probe covers are all UTF-8.
SignedAsText(sig) == \A r \in DOMAIN sig.over.results : r.detail.utf8 # "broken"

\* The last probe on file is the marketplace's statement about that agent and
\* records a pass exactly when its own results support one, which Store.Probe
\* refuses a row over; and what is stored verifies under the marketplace's keys
\* whatever was answered, cut and rotated, unless a detail that was signed is not
\* UTF-8 and therefore stored as something else (Run, normalise, SaveProbe).
ProbesVerify ==
  \A a \in Agent : \A row \in probes[a] :
    /\ row.sig.keyID \in MarketplaceKeyIDs /\ row.sig.over.agent = a
    /\ SignedAsText(row.sig) => VerifyProbeAttestedByAny(row.statement, row.sig, MarketplaceKeyIDs)
    /\ row.statement.agentID = a
    /\ row.passed = Passed(row.statement.results)

\* Whatever the marketplace publishes under its own signature a reader can check:
\* every card, and every probe result on file whose details were text when signed.
AttestationsVerify == CardsVerify /\ ProbesVerify

\* A stored offer signature is its seller's own, over the terms that are stored: two
\* sellers racing for one id, or one seller racing itself with other terms, never
\* leave an offer beside a signature over something else
\* (CreateOfferWithAttestation, VerifyOfferAttestation).
OffersVerify ==
  \A o \in OfferID : \A s \in offerSigs[o] :
    Stored(o) /\ VerifyOffer(attestOffer(o, offers[o].agent, offers[o].terms), s)

\* "A retired agent always has one" (store/agents.go, Retirement): an operator can
\* always tell a withdrawal from its record, although Register writes back a status
\* it read long before.
RetiredHasRecord ==
  \A a \in Agent : agents[a].status = "retired" => retirements[a] # "none"

\* A trade is the trade its offer proposed: the publisher is on the side its
\* direction says, the other party is somebody else, and amount, mint and mode are
\* the offer's, also when the offer was closed or its seller retired while Create
\* was between its reads and its insert.
TradeMatchesOffer ==
  \A t \in TradeID : Exists(t) =>
    LET tr == trades[t]
        offer == offers[tr.offer]
    IN  /\ Stored(tr.offer)
        /\ tr.terms = offer.terms
        /\ AcceptsMode(offer.terms, tr.mode)
        /\ settles(tr.mode, offer.terms.mint)
        /\ tr.buyer # tr.seller
        /\ offer.agent = IF offer.terms.direction = "bid" THEN tr.buyer ELSE tr.seller

\* Retries are safe: however many calls with one idempotency key overlap, they
\* leave at most one offer and at most one trade.
OnePerKey ==
  \A key \in Key : /\ Cardinality(GetOfferByIdempotencyKey(key)) <= 1
                   /\ Cardinality(GetTradeByIdempotencyKey(key)) <= 1

=============================================================================
