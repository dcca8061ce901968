----------------------------- MODULE MarketProof -----------------------------
(***************************************************************************)
(* What module Market promises, for any agents, offers, keys, cards, terms  *)
(* and handlers: attested rows verify, a trade is the one its offer         *)
(* proposed, a retirement has its record, an idempotency key names one row. *)
(***************************************************************************)
EXTENDS Market, TLAPS, FiniteSetTheorems

-----------------------------------------------------------------------------
(* The inductive invariant                                                  *)

AgentRow == {NoAgent} \cup [status : {"active", "retired"}, card : Cards]

OfferRow ==
  {NoOffer} \cup [status : {"open", "closed"}, agent : Agent, terms : Terms,
                  key : Key \cup {NoKey}, expires : Nat]

Mode == {"offchain", "onchain"}

TradeRow ==
  {NoTrade} \cup [state : TradeState, offer : OfferID, buyer : Agent, seller : Agent,
                  terms : Terms, mode : Mode, key : Key \cup {NoKey}]

\* A handler of Create between its read of the offer and its insert.
CreateCall ==
  [pc : {"createAgents", "createTrade"}, offer : OfferID, mode : Mode,
   key : Key \cup {NoKey}, buyer : Agent, seller : Agent, terms : Terms,
   rest : SUBSET Agent]

\* The rows of the tables the registry and Create write.
MarketTypeOK ==
  /\ agents \in [Agent -> AgentRow]
  /\ attestations = [a \in Agent |-> attestations[a]]
  /\ retirements \in [Agent -> {"none", "retired", "restored"}]
  /\ offers \in [OfferID -> OfferRow]
  /\ offerSigs = [o \in OfferID |-> offerSigs[o]]
  /\ trades \in [TradeID -> TradeRow]
  /\ probes = [a \in Agent |-> probes[a]]
  /\ marketKeys \in [current : MarketKey, retired : SUBSET MarketKey]
  /\ now \in Nat
  /\ proc = [p \in Proc |-> proc[p]]

\* The card, the status and the signatures Register is about to write: the status
\* is one some Register of the agent may write, however old its read is.
CardPending(h) ==
  /\ h.agent \in Agent /\ h.card \in Cards
  /\ h.status \in {"active", "retired"}
  /\ h.status = "retired" => retirements[h.agent] # "none"
  /\ VerifyCardAttestedByAny(attestCard(h.agent, h.card), h.marketSig, MarketplaceKeyIDs)
  /\ \A s \in h.sig : VerifyCard(attestCard(h.agent, h.card), s)

\* The offer PublishOffer is about to write.
OfferPending(h) ==
  /\ h.agent \in Agent /\ h.offer \in OfferID /\ h.terms \in Terms
  /\ h.key \in Key \cup {NoKey}
  /\ \A s \in h.sig : VerifyOffer(attestOffer(h.offer, h.agent, h.terms), s)

StoredOffer(o) == o \in OfferID /\ Stored(o)

\* A trade, or the trade Create is about to write, is what a stored offer proposes.
Proposes(t) ==
  /\ StoredOffer(t.offer)
  /\ t.terms = offers[t.offer].terms
  /\ AcceptsMode(t.terms, t.mode)
  /\ t.buyer # t.seller
  /\ offers[t.offer].agent = IF t.terms.direction = "bid" THEN t.buyer ELSE t.seller

HandlerInv(p) ==
  LET h == proc[p] IN
  /\ h.pc = "saveCard" => CardPending(h)
  /\ h.pc \in {"publishAgent", "createOffer"} => OfferPending(h)
  /\ h.pc = "createOffer" => h.expires \in Nat
  /\ h.pc \in {"closeOffer", "sweepClose"} => StoredOffer(h.offer)
  /\ h.pc \in {"sweep", "sweepClose"} => \A o \in h.batch : StoredOffer(o)
  /\ h.pc \in {"createAgents", "createTrade"} => h \in CreateCall /\ Proposes(h)
  /\ h.pc = "createTrade" => settles(h.mode, h.terms.mint)
  /\ h.pc = "probe" => h.agent \in Agent

\* The unique indexes on the idempotency keys.
OfferKeysUnique ==
  \A o, q \in OfferID : offers[o].key \in Key /\ offers[o].key = offers[q].key => o = q
TradeKeysUnique ==
  \A t, u \in TradeID : trades[t].key \in Key /\ trades[t].key = trades[u].key => t = u

TradesPropose ==
  \A t \in TradeID : Exists(t) => Proposes(trades[t]) /\ settles(trades[t].mode, trades[t].terms.mint)

MarketInv ==
  /\ MarketTypeOK
  /\ \A p \in Proc : HandlerInv(p)
  /\ RetiredHasRecord
  /\ CardsVerify
  /\ ProbesVerify
  /\ OffersVerify
  /\ TradesPropose
  /\ OfferKeysUnique
  /\ TradeKeysUnique

-----------------------------------------------------------------------------
(* Signatures                                                               *)

\* The marketplace's own signature over a card verifies under its current key
\* (attest.AttestCard, VerifyCardAttestedByAny).
LEMMA OwnCardVerifies ==
  ASSUME NEW k, NEW keys, k \in keys, NEW card, NEW at
  PROVE  VerifyCardAttestedByAny(card, AttestCard(k, card, at), keys)
  BY DEF VerifyCardAttestedByAny, VerifyAny, Verify, AttestCard, Sign

\* So does its signature over a probe (attest.SignProbe).
LEMMA OwnProbeVerifies ==
  ASSUME NEW k, NEW keys, k \in keys, NEW st, NEW at
  PROVE  VerifyProbeAttestedByAny(st, SignProbe(k, st, at), keys)
  BY DEF VerifyProbeAttestedByAny, VerifyAny, Verify, SignProbe, Sign

\* The results of a probe are a list of results, whatever the agent answered (Run).
LEMMA RunResults ==
  ASSUME NEW target, NEW answer, NEW agentID, NEW claimed, NEW challenge,
         NEW results \in Run(target, answer, agentID, claimed, challenge)
  PROVE  /\ results = [i \in DOMAIN results |-> results[i]]
         /\ \A i \in DOMAIN results :
              results[i] = Result(results[i].capability, results[i].status, results[i].detail)
<1>1. \/ results = normalise(answer.results, claimed)
      \/ \E d : results = EndpointFailed(d)
  BY DEF Run
<1>2. CASE results = normalise(answer.results, claimed)
  BY <1>2 DEF normalise, Result
<1>3. CASE \E d : results = EndpointFailed(d)
  BY <1>3 DEF EndpointFailed, Result
<1> QED
  BY <1>1, <1>2, <1>3

\* Writing results down keeps how many there are and which passed, and changes
\* none whose detail is text (json.Marshal).
LEMMA Marshalled ==
  ASSUME NEW results, results = [i \in DOMAIN results |-> results[i]],
         \A i \in DOMAIN results :
           results[i] = Result(results[i].capability, results[i].status, results[i].detail)
  PROVE  /\ Passed(marshal(results)) = Passed(results)
         /\ (\A i \in DOMAIN results : results[i].detail.utf8 # "broken") => marshal(results) = results
<1>1. DOMAIN marshal(results) = DOMAIN results
  BY DEF marshal
<1>2. \A i \in DOMAIN results : marshal(results)[i].status = results[i].status
  BY DEF marshal, Result
<1>3. marshal(results) = << >> <=> results = << >>
  BY <1>1 DEF marshal
<1>4. Passed(marshal(results)) = Passed(results)
  BY <1>1, <1>2, <1>3 DEF Passed
<1>5. ASSUME \A i \in DOMAIN results : results[i].detail.utf8 # "broken"
      PROVE  marshal(results) = results
  BY <1>5 DEF marshal
<1> QED
  BY <1>4, <1>5

\* What a signature over a probe says of its details is said of its results
\* (probeResults).
LEMMA SignedDetails ==
  ASSUME NEW k, NEW st, NEW at, SignedAsText(SignProbe(k, st, at))
  PROVE  \A i \in DOMAIN st.results : st.results[i].detail.utf8 # "broken"
<1>1. SignProbe(k, st, at).over.results = sortedResults(st.results)
  BY DEF SignProbe, Sign, ProbeBytes
<1>2. DOMAIN sortedResults(st.results) = Range(st.results)
  BY DEF sortedResults
<1> QED
  BY <1>1, <1>2 DEF SignedAsText, Range

\* What verifies keeps verifying as long as no trusted key is dropped.
LEMMA MoreKeys ==
  ASSUME NEW keys, NEW more, keys \subseteq more, NEW payload, NEW sig
  PROVE  /\ VerifyCardAttestedByAny(payload, sig, keys) => VerifyCardAttestedByAny(payload, sig, more)
         /\ VerifyProbeAttestedByAny(payload, sig, keys) => VerifyProbeAttestedByAny(payload, sig, more)
  BY DEF VerifyCardAttestedByAny, VerifyProbeAttestedByAny, VerifyAny

-----------------------------------------------------------------------------
(* What every step keeps                                                    *)

\* No step deletes an offer, rewrites what was published, deletes the record of a
\* retirement or forgets a key.
Grows ==
  /\ \A o \in OfferID : Stored(o) => /\ Stored(o)'
                                     /\ offers'[o].agent = offers[o].agent
                                     /\ offers'[o].terms = offers[o].terms
  /\ \A a \in Agent : retirements[a] # "none" => retirements'[a] # "none"
  /\ MarketplaceKeyIDs \subseteq MarketplaceKeyIDs'

\* The offers after a step that only closes listings (SetOfferStatus, RetireAgent).
Closes ==
  /\ offers' = [o \in OfferID |-> offers'[o]]
  /\ \A o \in OfferID : \/ offers'[o] = offers[o]
                        \/ Stored(o) /\ offers'[o] = [offers[o] EXCEPT !.status = "closed"]

\* A row is absent or has all its columns.
LEMMA AgentRows ==
  ASSUME MarketTypeOK, NEW a \in Agent
  PROVE  \/ agents[a] = NoAgent /\ agents[a].status = "none"
         \/ agents[a] \in [status : {"active", "retired"}, card : Cards]
<1>1. agents[a] \in AgentRow
  BY DEF MarketTypeOK
<1> QED
  BY <1>1 DEF AgentRow, NoAgent

\* The same of an offer.
LEMMA OfferRows ==
  ASSUME MarketTypeOK, NEW o \in OfferID
  PROVE  \/ offers[o] = NoOffer /\ offers[o].status = "none"
         \/ offers[o] \in [status : {"open", "closed"}, agent : Agent, terms : Terms,
                           key : Key \cup {NoKey}, expires : Nat]
<1>1. offers[o] \in OfferRow
  BY DEF MarketTypeOK
<1>2. NoOffer.status = "none"
  BY DEF NoOffer
<1> QED
  BY <1>1, <1>2 DEF OfferRow

\* The same of a trade.
LEMMA TradeRows ==
  ASSUME MarketTypeOK, NEW t \in TradeID
  PROVE  \/ trades[t] = NoTrade /\ trades[t].state = "none"
         \/ trades[t] \in [state : TradeState, offer : OfferID, buyer : Agent, seller : Agent,
                           terms : Terms, mode : Mode, key : Key \cup {NoKey}]
<1>1. trades[t] \in TradeRow
  BY DEF MarketTypeOK
<1> QED
  BY <1>1 DEF TradeRow, NoTrade

\* What a trade agreed on stays what its offer proposes.
LEMMA StillProposes ==
  ASSUME Grows, NEW t, Proposes(t)
  PROVE  Proposes(t)'
  BY DEF Grows, Proposes, StoredOffer, AcceptsMode

\* What a handler holds stays good while others write.
LEMMA HandlerKept ==
  ASSUME Grows, NEW q \in Proc, proc'[q] = proc[q], HandlerInv(q)
  PROVE  HandlerInv(q)'
<1> PICK h : h = proc[q]
  OBVIOUS
<1>1. h.pc = "saveCard" => CardPending(h)'
  <2> HAVE h.pc = "saveCard"
  <2>1. CardPending(h)
    BY DEF HandlerInv
  <2>2. VerifyCardAttestedByAny(attestCard(h.agent, h.card), h.marketSig, MarketplaceKeyIDs')
    BY <2>1, MoreKeys DEF CardPending, Grows
  <2> QED
    BY <2>1, <2>2 DEF CardPending, Grows
<1>2. ASSUME NEW o, StoredOffer(o) PROVE StoredOffer(o)'
  BY <1>2 DEF StoredOffer, Grows
<1>3. h.pc \in {"createAgents", "createTrade"} => h \in CreateCall /\ Proposes(h)'
  BY StillProposes DEF HandlerInv
<1>4. h.pc \in {"publishAgent", "createOffer"} => OfferPending(h)'
  BY DEF HandlerInv, OfferPending
<1> QED
  BY <1>1, <1>2, <1>3, <1>4
  DEF HandlerInv, CardPending, OfferPending, Proposes, StoredOffer, CreateCall, settles

\* The handlers after one of them moved on.
LEMMA HandlersKept ==
  ASSUME MarketInv, Grows, NEW p \in Proc, NEW g, Goto(p, g),
         proc'[p] = g => HandlerInv(p)'
  PROVE  /\ (\A q \in Proc : HandlerInv(q))'
         /\ proc' = [q \in Proc |-> proc'[q]]
<1>1. proc = [q \in Proc |-> proc[q]] /\ \A q \in Proc : HandlerInv(q)
  BY DEF MarketInv, MarketTypeOK
<1>2. /\ proc'[p] = g /\ \A q \in Proc \ {p} : proc'[q] = proc[q]
      /\ proc' = [q \in Proc |-> proc'[q]]
  BY <1>1 DEF Goto
<1>3. ASSUME NEW q \in Proc PROVE HandlerInv(q)'
  <2>1. CASE q = p
    BY <1>2, <2>1
  <2>2. CASE q # p
    BY <1>1, <1>2, <2>2, HandlerKept
  <2> QED
    BY <2>1, <2>2
<1> QED
  BY <1>2, <1>3

\* A step that writes no table.
Reads == UNCHANGED << tables, marketKeys, now >>

\* A handler that only reads and moves on keeps the invariant if what it read is
\* good.
LEMMA ReadsInv ==
  ASSUME MarketInv, NEW p \in Proc, NEW g, Goto(p, g), Reads,
         proc'[p] = g => HandlerInv(p)'
  PROVE  MarketInv'
<1>1. Grows
  BY DEF Reads, tables, Grows, Stored, MarketplaceKeyIDs
<1>2. (\A q \in Proc : HandlerInv(q))' /\ proc' = [q \in Proc |-> proc'[q]]
  BY <1>1, HandlersKept
<1>3. MarketTypeOK'
  BY <1>2 DEF MarketInv, MarketTypeOK, Reads, tables
<1>4. (RetiredHasRecord /\ CardsVerify /\ ProbesVerify /\ OffersVerify)'
  BY DEF MarketInv, RetiredHasRecord, CardsVerify, ProbesVerify, OffersVerify, Reads, tables,
         Registered, Stored, MarketplaceKeyIDs
<1>5. (TradesPropose /\ OfferKeysUnique /\ TradeKeysUnique)'
  BY DEF MarketInv, TradesPropose, Proposes, StoredOffer, Stored, Exists, OfferKeysUnique,
         TradeKeysUnique, Reads, tables
<1> QED
  BY <1>2, <1>3, <1>4, <1>5 DEF MarketInv

\* A handler that answers, or whose request is cancelled, holds nothing.
LEMMA IdleInv ==
  ASSUME NEW p, proc[p] = Idle
  PROVE  HandlerInv(p)
  BY DEF HandlerInv, Idle

\* The same after a step.
LEMMA IdleInvNext ==
  ASSUME NEW p, proc'[p] = Idle
  PROVE  HandlerInv(p)'
  BY DEF HandlerInv, Idle

\* Register: what it verified, what the marketplace signed, and the status it read.
LEMMA RegisterInv ==
  ASSUME MarketInv, NEW p \in Proc, Register(p)
  PROVE  MarketInv'
<1> PICK a \in Agent, card \in Cards : \E sig \in CardSigs(a, card) :
      /\ \A s \in sig : VerifyCard(attestCard(a, card), s)
      /\ Goto(p, [pc |-> "saveCard", agent |-> a, card |-> card, sig |-> sig,
                  marketSig |-> AttestCard(marketKeys.current, attestCard(a, card), now),
                  status |-> IF Registered(a) THEN agents[a].status ELSE "active"])
  BY DEF Register
<1> PICK sig :
      /\ \A s \in sig : VerifyCard(attestCard(a, card), s)
      /\ Goto(p, [pc |-> "saveCard", agent |-> a, card |-> card, sig |-> sig,
                  marketSig |-> AttestCard(marketKeys.current, attestCard(a, card), now),
                  status |-> IF Registered(a) THEN agents[a].status ELSE "active"])
  OBVIOUS
<1> PICK status : status = IF Registered(a) THEN agents[a].status ELSE "active"
  OBVIOUS
<1> PICK market : market = AttestCard(marketKeys.current, attestCard(a, card), now)
  OBVIOUS
<1> DEFINE g == [pc |-> "saveCard", agent |-> a, card |-> card, sig |-> sig,
                 marketSig |-> market, status |-> status]
<1>1. Goto(p, g)
  OBVIOUS
<1>2. Reads
  BY DEF Register, Reads
<1>3. status \in {"active", "retired"} /\ (status = "retired" => retirements[a] # "none")
  BY AgentRows DEF MarketInv, Registered, RetiredHasRecord
<1>4. VerifyCardAttestedByAny(attestCard(a, card), market, MarketplaceKeyIDs)
  BY OwnCardVerifies DEF MarketplaceKeyIDs
<1>5. /\ MarketplaceKeyIDs' = MarketplaceKeyIDs
      /\ retirements' = retirements
  BY <1>2 DEF Reads, tables, MarketplaceKeyIDs
<1>6. ASSUME proc'[p] = g PROVE HandlerInv(p)'
  BY <1>3, <1>4, <1>5, <1>6 DEF HandlerInv, CardPending
<1> HIDE DEF g
<1> QED
  BY <1>1, <1>2, <1>6, ReadsInv

\* PublishOffer: a signature it was given covers the very offer it will store.
LEMMA PublishOfferInv ==
  ASSUME MarketInv, NEW p \in Proc, PublishOffer(p)
  PROVE  MarketInv'
<1> PICK a \in Agent, o \in OfferID, terms \in Terms, key \in Key \cup {NoKey} :
     \E sig \in OfferSigs(o, a, terms) :
      /\ \A s \in sig : VerifyOffer(attestOffer(o, a, terms), s)
      /\ Goto(p, [pc |-> "publishAgent", agent |-> a, offer |-> o, terms |-> terms,
                  key |-> key, sig |-> sig])
  BY DEF PublishOffer
<1> PICK sig :
      /\ \A s \in sig : VerifyOffer(attestOffer(o, a, terms), s)
      /\ Goto(p, [pc |-> "publishAgent", agent |-> a, offer |-> o, terms |-> terms,
                  key |-> key, sig |-> sig])
  OBVIOUS
<1> DEFINE g == [pc |-> "publishAgent", agent |-> a, offer |-> o, terms |-> terms,
                 key |-> key, sig |-> sig]
<1>1. Reads
  BY DEF PublishOffer, Reads
<1>2. ASSUME proc'[p] = g PROVE HandlerInv(p)'
  BY <1>2 DEF HandlerInv, OfferPending
<1> HIDE DEF g
<1> QED
  BY <1>1, <1>2, ReadsInv DEF g

\* The second read of PublishOffer carries the offer on unchanged, or refuses it.
LEMMA publishAgentInv ==
  ASSUME MarketInv, NEW p \in Proc, publishAgent(p)
  PROVE  MarketInv'
<1> PICK h : h = proc[p]
  OBVIOUS
<1> PICK at : at = now
  OBVIOUS
<1> DEFINE g == [pc |-> "createOffer", agent |-> h.agent, offer |-> h.offer,
                 terms |-> h.terms, key |-> h.key, sig |-> h.sig, expires |-> at + OfferTTL]
<1>1. Reads
  BY DEF publishAgent, Reads
<1>2. OfferPending(h) /\ at + OfferTTL \in Nat
  <2>1. h.pc = "publishAgent"
    BY DEF publishAgent
  <2>2. at \in Nat
    BY DEF MarketInv, MarketTypeOK
  <2>3. OfferPending(h)
    BY <2>1 DEF MarketInv, HandlerInv
  <2>4. OfferTTL \in Nat
    BY MarketAssumption
  <2>5. at + OfferTTL \in Nat
    BY <2>2, <2>4
  <2> QED
    BY <2>3, <2>5
<1>3. ASSUME proc'[p] = g PROVE HandlerInv(p)'
  BY <1>2, <1>3 DEF HandlerInv, OfferPending
<1>4. Goto(p, g) \/ Goto(p, Idle)
  BY DEF publishAgent, Return
<1> HIDE DEF g
<1> QED
  BY <1>1, <1>3, <1>4, ReadsInv, IdleInvNext

\* CloseOffer and ExpireOffers read stored offers, and an offer stays stored.
LEMMA CloseOfferInv ==
  ASSUME MarketInv, NEW p \in Proc, CloseOffer(p)
  PROVE  MarketInv'
<1> PICK o \in OfferID : offers[o].status = "open" /\ Goto(p, [pc |-> "closeOffer", offer |-> o])
  BY DEF CloseOffer
<1> DEFINE g == [pc |-> "closeOffer", offer |-> o]
<1>1. Reads
  BY DEF CloseOffer, Reads
<1>2. ASSUME proc'[p] = g PROVE HandlerInv(p)'
  BY <1>1, <1>2 DEF HandlerInv, StoredOffer, Stored, Reads, tables
<1> HIDE DEF g
<1> QED
  BY <1>1, <1>2, ReadsInv DEF g

\* The sweeper lists offers that are open, so they are stored (OpenOffersBefore).
LEMMA ExpireOffersInv ==
  ASSUME MarketInv, NEW p \in Proc, ExpireOffers(p)
  PROVE  MarketInv'
<1> PICK batch \in OpenOffersBefore(now) : Goto(p, [pc |-> "sweep", batch |-> batch, cutoff |-> now])
  BY DEF ExpireOffers
<1> PICK at : at = now
  OBVIOUS
<1> DEFINE g == [pc |-> "sweep", batch |-> batch, cutoff |-> at]
<1>1. Reads
  BY DEF ExpireOffers, Reads
<1>2. \A o \in batch : o \in OfferID /\ offers[o].status = "open"
  BY DEF OpenOffersBefore
<1>3. ASSUME proc'[p] = g PROVE HandlerInv(p)'
  BY <1>1, <1>2, <1>3 DEF HandlerInv, StoredOffer, Stored, Reads, tables
<1> HIDE DEF g
<1> QED
  BY <1>1, <1>3, ReadsInv DEF g

\* The sweeper goes on with stored offers, one fewer at a time.
LEMMA sweepRereadInv ==
  ASSUME MarketInv, NEW p \in Proc, sweepReread(p)
  PROVE  MarketInv'
<1> PICK h : h = proc[p]
  OBVIOUS
<1> PICK o \in h.batch :
      LET rest == h.batch \ {o}
          due == offers[o].status = "open" /\ offers[o].expires <= h.cutoff
      IN  Goto(p, IF due THEN [pc |-> "sweepClose", offer |-> o, batch |-> rest, cutoff |-> h.cutoff]
                  ELSE IF rest = {} THEN Idle
                  ELSE [pc |-> "sweep", batch |-> rest, cutoff |-> h.cutoff])
  BY DEF sweepReread
<1> DEFINE rest == h.batch \ {o}
           c == [pc |-> "sweepClose", offer |-> o, batch |-> rest, cutoff |-> h.cutoff]
           n == [pc |-> "sweep", batch |-> rest, cutoff |-> h.cutoff]
<1>1. Reads
  BY DEF sweepReread, Reads
<1>2. \A q \in h.batch : StoredOffer(q)
  BY DEF MarketInv, HandlerInv, sweepReread
<1>3. \A q \in h.batch : StoredOffer(q)'
  BY <1>1, <1>2 DEF StoredOffer, Stored, Reads, tables
<1>4. ASSUME proc'[p] = c PROVE HandlerInv(p)'
  BY <1>3, <1>4 DEF HandlerInv
<1>5. ASSUME proc'[p] = n PROVE HandlerInv(p)'
  BY <1>3, <1>5 DEF HandlerInv
<1>6. Goto(p, c) \/ Goto(p, n) \/ Goto(p, Idle)
  OBVIOUS
<1> HIDE DEF c, n
<1> QED
  BY <1>1, <1>4, <1>5, <1>6, ReadsInv, IdleInvNext

\* Create: the handler holds what the open offer proposes, and the direction
\* decides who buys.
LEMMA CreateInv ==
  ASSUME MarketInv, NEW p \in Proc, Create(p)
  PROVE  MarketInv'
<1> PICK actor \in Agent, o \in OfferID, mode \in Mode, key \in Key \cup {NoKey} :
      /\ offers[o].status = "open"
      /\ AcceptsMode(offers[o].terms, mode)
      /\ offers[o].agent # actor
      /\ Goto(p, [pc |-> "createAgents", offer |-> o, mode |-> mode, key |-> key,
                  buyer |-> Buyer(offers[o], actor), seller |-> Seller(offers[o], actor),
                  terms |-> offers[o].terms, rest |-> {offers[o].agent, actor}])
  BY DEF Create, Mode
<1> PICK offer : offer = offers[o]
  OBVIOUS
<1> PICK buyer : buyer = Buyer(offer, actor)
  OBVIOUS
<1> PICK seller : seller = Seller(offer, actor)
  OBVIOUS
<1> DEFINE g == [pc |-> "createAgents", offer |-> o, mode |-> mode, key |-> key,
                 buyer |-> buyer, seller |-> seller,
                 terms |-> offer.terms, rest |-> {offer.agent, actor}]
<1>1. Reads
  BY DEF Create, Reads
<1>2. offer.agent \in Agent /\ offer.terms \in Terms
  BY OfferRows DEF MarketInv
<1>3. /\ buyer \in Agent /\ seller \in Agent /\ buyer # seller
      /\ offer.agent = IF offer.terms.direction = "bid" THEN buyer ELSE seller
  BY <1>2 DEF Buyer, Seller
<1>4. g \in CreateCall
  BY <1>2, <1>3 DEF CreateCall
<1>5. Proposes(g)'
  BY <1>1, <1>3 DEF Proposes, StoredOffer, Stored, Reads, tables
<1>6. ASSUME proc'[p] = g PROVE HandlerInv(p)'
  BY <1>4, <1>5, <1>6 DEF HandlerInv, Proposes, StoredOffer
<1>7. Goto(p, g)
  OBVIOUS
<1> HIDE DEF g
<1> QED
  BY <1>1, <1>6, <1>7, ReadsInv

\* The reads of the parties change neither them nor the terms.
LEMMA createAgentsInv ==
  ASSUME MarketInv, NEW p \in Proc, createAgents(p)
  PROVE  MarketInv'
<1> PICK h : h = proc[p]
  OBVIOUS
<1> DEFINE n == [h EXCEPT !.rest = {h.seller}]
           c == [h EXCEPT !.pc = "createTrade"]
<1>1. Reads
  BY DEF createAgents, Reads
<1>2. h \in CreateCall /\ Proposes(h) /\ h.pc = "createAgents"
  BY DEF MarketInv, HandlerInv, createAgents
<1>3. Proposes(h)'
  BY <1>1, <1>2 DEF Proposes, StoredOffer, Stored, Reads, tables
<1>4. ASSUME proc'[p] = n PROVE HandlerInv(p)'
  <2>1. n \in CreateCall /\ n.pc = "createAgents" /\ n.offer = h.offer /\ n.terms = h.terms
        /\ n.mode = h.mode /\ n.buyer = h.buyer /\ n.seller = h.seller
    BY <1>2 DEF CreateCall
  <2> HIDE DEF n
  <2> QED
    BY <1>3, <1>4, <2>1 DEF HandlerInv, Proposes
<1>5. ASSUME proc'[p] = c, settles(h.mode, h.terms.mint) PROVE HandlerInv(p)'
  <2>1. c \in CreateCall /\ c.pc = "createTrade" /\ c.offer = h.offer /\ c.terms = h.terms
        /\ c.mode = h.mode /\ c.buyer = h.buyer /\ c.seller = h.seller
    BY <1>2 DEF CreateCall
  <2> HIDE DEF c
  <2> QED
    BY <1>3, <1>5, <2>1 DEF HandlerInv, Proposes
<1>6. Goto(p, n) \/ (Goto(p, c) /\ settles(h.mode, h.terms.mint)) \/ Goto(p, Idle)
  BY DEF createAgents
<1> HIDE DEF n, c
<1> QED
  BY <1>1, <1>4, <1>5, <1>6, ReadsInv, IdleInvNext

\* A probe is of a registered agent (ProbeCapabilities).
LEMMA ProbeCapabilitiesInv ==
  ASSUME MarketInv, NEW p \in Proc, ProbeCapabilities(p)
  PROVE  MarketInv'
<1> PICK a \in Agent :
      Goto(p, [pc |-> "probe", agent |-> a, card |-> agents[a].card, checkedAt |-> now])
  BY DEF ProbeCapabilities
<1> PICK card : card = agents[a].card
  OBVIOUS
<1> PICK at : at = now
  OBVIOUS
<1> DEFINE g == [pc |-> "probe", agent |-> a, card |-> card, checkedAt |-> at]
<1>1. Reads
  BY DEF ProbeCapabilities, Reads
<1>2. ASSUME proc'[p] = g PROVE HandlerInv(p)'
  BY <1>2 DEF HandlerInv
<1>3. Goto(p, g)
  OBVIOUS
<1> HIDE DEF g
<1> QED
  BY <1>1, <1>2, <1>3, ReadsInv

\* A cancelled request leaves the tables as they are.
LEMMA AbortInv ==
  ASSUME MarketInv, NEW p \in Proc, Abort(p)
  PROVE  MarketInv'
<1>1. Reads /\ Goto(p, Idle)
  BY DEF Abort, Reads, Return
<1> QED
  BY <1>1, ReadsInv, IdleInvNext

-----------------------------------------------------------------------------
(* The statements that write                                                *)

\* A listing that is closed keeps its seller, its terms and its key.
LEMMA ClosedOffers ==
  ASSUME MarketTypeOK, Closes
  PROVE  /\ offers' \in [OfferID -> OfferRow]
         /\ \A o \in OfferID : /\ offers'[o].agent = offers[o].agent
                               /\ offers'[o].key = offers[o].key
                               /\ Stored(o)' <=> Stored(o)
                               /\ Stored(o) => offers'[o].terms = offers[o].terms
<1>1. ASSUME NEW o \in OfferID
      PROVE  /\ offers'[o] \in OfferRow
             /\ offers'[o].agent = offers[o].agent
             /\ offers'[o].key = offers[o].key
             /\ Stored(o)' <=> Stored(o)
             /\ Stored(o) => offers'[o].terms = offers[o].terms
  <2>1. offers[o] \in OfferRow
    BY DEF MarketTypeOK
  <2>2. CASE offers'[o] = offers[o]
    BY <2>1, <2>2 DEF Stored
  <2>3. CASE Stored(o) /\ offers'[o] = [offers[o] EXCEPT !.status = "closed"]
    <3>1. offers[o] \in [status : {"open", "closed"}, agent : Agent, terms : Terms,
                         key : Key \cup {NoKey}, expires : Nat]
      BY <2>3, OfferRows DEF Stored
    <3> QED
      BY <2>3, <3>1 DEF Stored, OfferRow
  <2> QED
    BY <2>2, <2>3 DEF Closes
<1>2. offers' = [o \in OfferID |-> offers'[o]]
  BY DEF Closes
<1> QED
  BY <1>1, <1>2

\* Closing listings leaves every attested offer and every trade with what it was
\* made from.
LEMMA ClosesKeeps ==
  ASSUME MarketInv, Closes, UNCHANGED << offerSigs, trades >>
  PROVE  (OffersVerify /\ TradesPropose /\ OfferKeysUnique)'
<1>1. /\ MarketTypeOK /\ OffersVerify /\ TradesPropose /\ OfferKeysUnique
      /\ offerSigs' = offerSigs /\ trades' = trades
  BY DEF MarketInv
<1>2. \A o \in OfferID : /\ offers'[o].agent = offers[o].agent
                         /\ offers'[o].key = offers[o].key
                         /\ Stored(o)' <=> Stored(o)
                         /\ Stored(o) => offers'[o].terms = offers[o].terms
  BY <1>1, ClosedOffers
<1>3. OffersVerify'
  BY <1>1, <1>2 DEF OffersVerify
<1>4. TradesPropose'
  BY <1>1, <1>2 DEF TradesPropose, Proposes, StoredOffer, Exists
<1>5. OfferKeysUnique'
  BY <1>1, <1>2 DEF OfferKeysUnique
<1> QED
  BY <1>3, <1>4, <1>5

\* Closing listings is a step that keeps what handlers hold.
LEMMA ClosesGrows ==
  ASSUME MarketTypeOK, Closes,
         \A a \in Agent : retirements[a] # "none" => retirements'[a] # "none",
         marketKeys' = marketKeys
  PROVE  Grows
  BY ClosedOffers DEF Grows, MarketplaceKeyIDs

\* SetOfferStatus on one stored offer.
LEMMA CloseOne ==
  ASSUME MarketTypeOK, NEW o, StoredOffer(o),
         offers' = [offers EXCEPT ![o].status = "closed"]
  PROVE  Closes
  BY DEF MarketTypeOK, StoredOffer, Closes

\* The cards, the retirements and the probes do not depend on offers.
LEMMA AgentPartsKept ==
  ASSUME MarketInv, UNCHANGED << agents, attestations, retirements, probes, marketKeys >>
  PROVE  (RetiredHasRecord /\ CardsVerify /\ ProbesVerify)'
  BY DEF MarketInv, RetiredHasRecord, CardsVerify, ProbesVerify, Registered, MarketplaceKeyIDs

\* A statement that closes one offer.
LEMMA ClosingInv ==
  ASSUME MarketInv, NEW o, StoredOffer(o),
         offers' = [offers EXCEPT ![o].status = "closed"],
         UNCHANGED << agents, attestations, retirements, offerSigs, trades, probes, marketKeys, now >>,
         Grows => (\A q \in Proc : HandlerInv(q))' /\ proc' = [q \in Proc |-> proc'[q]]
  PROVE  MarketInv'
<1>1. MarketTypeOK
  BY DEF MarketInv
<1>2. Closes
  BY <1>1, CloseOne
<1>3. Grows
  BY <1>1, <1>2, ClosesGrows
<1>4. offers' \in [OfferID -> OfferRow]
  BY <1>1, <1>2, ClosedOffers
<1>5. MarketTypeOK'
  BY <1>1, <1>3, <1>4 DEF MarketTypeOK
<1>6. (OffersVerify /\ TradesPropose /\ OfferKeysUnique)'
  BY <1>2, ClosesKeeps
<1>7. (RetiredHasRecord /\ CardsVerify /\ ProbesVerify)'
  BY AgentPartsKept
<1>8. TradeKeysUnique'
  BY DEF MarketInv, TradeKeysUnique
<1> QED
  BY <1>3, <1>5, <1>6, <1>7, <1>8 DEF MarketInv

\* CloseOffer's statement, on the offer it read.
LEMMA SetOfferClosedInv ==
  ASSUME MarketInv, NEW p \in Proc, SetOfferClosed(p)
  PROVE  MarketInv'
<1> PICK h : h = proc[p]
  OBVIOUS
<1>1. StoredOffer(h.offer)
  BY DEF MarketInv, HandlerInv, SetOfferClosed
<1>2. Goto(p, Idle)
  BY DEF SetOfferClosed, Return
<1>3. Grows => (\A q \in Proc : HandlerInv(q))' /\ proc' = [q \in Proc |-> proc'[q]]
  BY <1>2, HandlersKept, IdleInvNext
<1>4. /\ offers' = [offers EXCEPT ![h.offer].status = "closed"]
      /\ UNCHANGED << agents, attestations, retirements, offerSigs, trades, probes, marketKeys, now >>
  BY DEF SetOfferClosed
<1> QED
  BY <1>1, <1>3, <1>4, ClosingInv

\* The sweeper's statement; the rest of the batch stays stored.
LEMMA sweepCloseInv ==
  ASSUME MarketInv, NEW p \in Proc, sweepClose(p)
  PROVE  MarketInv'
<1> PICK h : h = proc[p]
  OBVIOUS
<1> DEFINE n == [pc |-> "sweep", batch |-> h.batch, cutoff |-> h.cutoff]
<1>1. StoredOffer(h.offer) /\ \A q \in h.batch : StoredOffer(q)
  BY DEF MarketInv, HandlerInv, sweepClose
<1>2. Goto(p, n) \/ Goto(p, Idle)
  BY DEF sweepClose
<1>3. ASSUME Grows, proc'[p] = n PROVE HandlerInv(p)'
  <2>1. \A q \in h.batch : StoredOffer(q)'
    BY <1>1, <1>3 DEF Grows, StoredOffer
  <2> QED
    BY <1>3, <2>1 DEF HandlerInv
<1>4. /\ offers' = [offers EXCEPT ![h.offer].status = "closed"]
      /\ UNCHANGED << agents, attestations, retirements, offerSigs, trades, probes, marketKeys, now >>
  BY DEF sweepClose
<1> HIDE DEF n
<1>5. Grows => (\A q \in Proc : HandlerInv(q))' /\ proc' = [q \in Proc |-> proc'[q]]
  BY <1>2, <1>3, HandlersKept, IdleInvNext
<1> QED
  BY <1>1, <1>4, <1>5, ClosingInv

\* The handlers when none of them moves.
LEMMA HandlersStay ==
  ASSUME MarketInv, Grows, proc' = proc
  PROVE  (\A q \in Proc : HandlerInv(q))' /\ proc' = [q \in Proc |-> proc'[q]]
<1>1. proc = [q \in Proc |-> proc[q]] /\ \A q \in Proc : HandlerInv(q)
  BY DEF MarketInv, MarketTypeOK
<1>2. ASSUME NEW q \in Proc PROVE HandlerInv(q)'
  BY <1>1, HandlerKept
<1> QED
  BY <1>1, <1>2

\* A completed trade closes its offer, which is stored.
LEMMA TradeClosesOfferInv ==
  ASSUME MarketInv, NEW t \in TradeID, TradeClosesOffer(t)
  PROVE  MarketInv'
<1> PICK o : o = trades[t].offer
  OBVIOUS
<1>1. trades[t].state \in {"recorded", "settled"}
  BY DEF TradeClosesOffer
<1>2. StoredOffer(o)
  BY <1>1 DEF MarketInv, TradesPropose, Exists, Proposes
<1>3. /\ offers' = [offers EXCEPT ![o].status = "closed"]
      /\ UNCHANGED << agents, attestations, retirements, offerSigs, trades, probes, marketKeys, now >>
      /\ proc' = proc
  BY DEF TradeClosesOffer
<1>4. Grows => (\A q \in Proc : HandlerInv(q))' /\ proc' = [q \in Proc |-> proc'[q]]
  BY <1>3, HandlersStay
<1> QED
  BY <1>2, <1>3, <1>4, ClosingInv

\* A trade's later life changes its state only.
LEMMA TradeMovesInv ==
  ASSUME MarketInv, NEW t \in TradeID, TradeMoves(t)
  PROVE  MarketInv'
<1>0. MarketTypeOK /\ TradesPropose /\ TradeKeysUnique
  BY DEF MarketInv
<1>1. PICK to \in TradeState : trades' = [trades EXCEPT ![t].state = to]
  BY DEF TradeMoves
<1>2. trades[t] \in [state : TradeState, offer : OfferID, buyer : Agent, seller : Agent,
                     terms : Terms, mode : Mode, key : Key \cup {NoKey}]
  BY <1>0, TradeRows DEF TradeMoves, Exists
<1>3. trades' = [u \in TradeID |-> trades'[u]] /\ \A u \in TradeID \ {t} : trades'[u] = trades[u]
  BY <1>0, <1>1 DEF MarketTypeOK
<1>4. trades'[t] = [trades[t] EXCEPT !.state = to]
  BY <1>0, <1>1 DEF MarketTypeOK
<1>5. /\ trades'[t] \in TradeRow /\ trades'[t].state # "none"
      /\ trades'[t].offer = trades[t].offer /\ trades'[t].buyer = trades[t].buyer
      /\ trades'[t].seller = trades[t].seller /\ trades'[t].terms = trades[t].terms
      /\ trades'[t].mode = trades[t].mode /\ trades'[t].key = trades[t].key
  BY <1>2, <1>4 DEF TradeRow, TradeState
<1>6. trades' \in [TradeID -> TradeRow]
  BY <1>0, <1>3, <1>5 DEF MarketTypeOK
<1>7. /\ UNCHANGED << agents, attestations, retirements, probes, marketKeys >>
      /\ offers' = offers /\ offerSigs' = offerSigs /\ now' = now /\ proc' = proc
  BY DEF TradeMoves
<1>8. Grows
  BY <1>7 DEF Grows, Stored, MarketplaceKeyIDs
<1>9. MarketTypeOK'
  BY <1>0, <1>6, <1>7 DEF MarketTypeOK
<1>10. TradesPropose'
  <2>1. Exists(t)
    BY DEF TradeMoves
  <2> QED
    BY <1>0, <1>3, <1>5, <1>7, <2>1 DEF TradesPropose, Proposes, StoredOffer, Stored, Exists
<1>11. TradeKeysUnique'
  BY <1>0, <1>3, <1>5 DEF TradeKeysUnique
<1>12. (OffersVerify /\ OfferKeysUnique)'
  BY <1>7 DEF MarketInv, OffersVerify, Stored, OfferKeysUnique
<1>13. (RetiredHasRecord /\ CardsVerify /\ ProbesVerify)'
  BY <1>7, AgentPartsKept
<1>14. (\A q \in Proc : HandlerInv(q))'
  BY <1>7, <1>8, HandlersStay
<1> QED
  BY <1>9, <1>10, <1>11, <1>12, <1>13, <1>14 DEF MarketInv

\* The offers and the trades do not depend on agents.
LEMMA OfferPartsKept ==
  ASSUME MarketInv, UNCHANGED << offers, offerSigs, trades >>
  PROVE  (OffersVerify /\ TradesPropose /\ OfferKeysUnique /\ TradeKeysUnique)'
  BY DEF MarketInv, OffersVerify, TradesPropose, Proposes, StoredOffer, Stored, Exists,
         OfferKeysUnique, TradeKeysUnique

\* SaveAgentCard writes the card together with the signatures over it, and a
\* retired status only where the record of the retirement is.
LEMMA SaveAgentCardInv ==
  ASSUME MarketInv, NEW p \in Proc, SaveAgentCard(p)
  PROVE  MarketInv'
<1> PICK h : h = proc[p]
  OBVIOUS
<1>1. CardPending(h)
  BY DEF MarketInv, HandlerInv, SaveAgentCard
<1>2. /\ agents' = [agents EXCEPT ![h.agent] = [status |-> h.status, card |-> h.card]]
      /\ attestations' = [attestations EXCEPT ![h.agent] =
                            [agent |-> h.sig, market |-> {h.marketSig}]]
      /\ retirements' = retirements /\ probes' = probes /\ marketKeys' = marketKeys
      /\ offers' = offers /\ offerSigs' = offerSigs /\ trades' = trades /\ now' = now
      /\ Goto(p, Idle)
  BY DEF SaveAgentCard, Return
<1>3. MarketTypeOK /\ RetiredHasRecord /\ CardsVerify /\ ProbesVerify
  BY DEF MarketInv
<1>4. h.agent \in Agent /\ h.card \in Cards /\ h.status \in {"active", "retired"}
  BY <1>1 DEF CardPending
<1>5. /\ agents' = [a \in Agent |-> agents'[a]]
      /\ agents'[h.agent] = [status |-> h.status, card |-> h.card]
      /\ \A a \in Agent \ {h.agent} : agents'[a] = agents[a]
  BY <1>2, <1>3, <1>4 DEF MarketTypeOK
<1>6. /\ attestations' = [a \in Agent |-> attestations'[a]]
      /\ attestations'[h.agent] = [agent |-> h.sig, market |-> {h.marketSig}]
      /\ \A a \in Agent \ {h.agent} : attestations'[a] = attestations[a]
  BY <1>2, <1>3, <1>4 DEF MarketTypeOK
<1>7. Grows
  BY <1>2 DEF Grows, Stored, MarketplaceKeyIDs
<1>8. (\A q \in Proc : HandlerInv(q))' /\ proc' = [q \in Proc |-> proc'[q]]
  BY <1>2, <1>7, HandlersKept, IdleInvNext
<1>9. agents' \in [Agent -> AgentRow]
  <2>1. [status |-> h.status, card |-> h.card] \in AgentRow
    BY <1>4 DEF AgentRow
  <2>2. \A a \in Agent : agents[a] \in AgentRow
    BY <1>3 DEF MarketTypeOK
  <2> QED
    BY <1>5, <2>1, <2>2
<1>10. MarketTypeOK'
  BY <1>2, <1>3, <1>6, <1>8, <1>9 DEF MarketTypeOK
<1>11. RetiredHasRecord'
  BY <1>1, <1>2, <1>3, <1>5 DEF RetiredHasRecord, CardPending
<1>12. CardsVerify'
  <2> SUFFICES ASSUME NEW a \in Agent, Registered(a)'
               PROVE  /\ attestations'[a].market # {}
                      /\ \A s \in attestations'[a].market :
                           VerifyCardAttestedByAny(attestCard(a, agents'[a].card), s, MarketplaceKeyIDs')
                      /\ \A s \in attestations'[a].agent :
                           VerifyCard(attestCard(a, agents'[a].card), s)
    BY DEF CardsVerify
  <2>1. MarketplaceKeyIDs' = MarketplaceKeyIDs
    BY <1>2 DEF MarketplaceKeyIDs
  <2>2. CASE a = h.agent
    BY <1>1, <1>5, <1>6, <2>1, <2>2 DEF CardPending
  <2>3. CASE a # h.agent
    BY <1>3, <1>5, <1>6, <2>1, <2>3 DEF CardsVerify, Registered
  <2> QED
    BY <2>2, <2>3
<1>13. ProbesVerify'
  BY <1>2, <1>3 DEF ProbesVerify, MarketplaceKeyIDs
<1>14. (OffersVerify /\ TradesPropose /\ OfferKeysUnique /\ TradeKeysUnique)'
  BY <1>2, OfferPartsKept
<1> QED
  BY <1>8, <1>10, <1>11, <1>12, <1>13, <1>14 DEF MarketInv

\* What an operator's statement does to an agent's row: a status, the same card.
LEMMA StatusWritten ==
  ASSUME MarketInv, NEW a \in Agent, Registered(a), NEW status \in {"active", "retired"},
         agents' = [agents EXCEPT ![a].status = status],
         retirements' \in [Agent -> {"none", "retired", "restored"}],
         \A b \in Agent : retirements[b] # "none" => retirements'[b] # "none",
         status = "retired" => retirements'[a] # "none",
         attestations' = attestations, probes' = probes, marketKeys' = marketKeys
  PROVE  /\ agents' \in [Agent -> AgentRow]
         /\ (RetiredHasRecord /\ CardsVerify /\ ProbesVerify)'
<1>1. MarketTypeOK /\ RetiredHasRecord /\ CardsVerify /\ ProbesVerify
  BY DEF MarketInv
<1>2. agents[a] \in [status : {"active", "retired"}, card : Cards]
  BY <1>1, AgentRows DEF Registered
<1>3. /\ agents' = [b \in Agent |-> agents'[b]]
      /\ agents'[a] = [agents[a] EXCEPT !.status = status]
      /\ \A b \in Agent \ {a} : agents'[b] = agents[b]
  BY <1>1 DEF MarketTypeOK
<1>4. /\ agents'[a] \in AgentRow
      /\ agents'[a].status = status /\ agents'[a].card = agents[a].card
  BY <1>2, <1>3 DEF AgentRow
<1>5. agents' \in [Agent -> AgentRow]
  BY <1>1, <1>3, <1>4 DEF MarketTypeOK
<1>6. RetiredHasRecord'
  BY <1>1, <1>3, <1>4 DEF RetiredHasRecord
<1>7. CardsVerify'
  BY <1>1, <1>3, <1>4 DEF CardsVerify, Registered, MarketplaceKeyIDs
<1>8. ProbesVerify'
  BY <1>1 DEF ProbesVerify, MarketplaceKeyIDs
<1> QED
  BY <1>5, <1>6, <1>7, <1>8

\* RetireAgent writes the status, closes the listings and keeps the record in one
\* transaction.
LEMMA RetireAgentInv ==
  ASSUME MarketInv, NEW a \in Agent, RetireAgent(a)
  PROVE  MarketInv'
<1>0. MarketTypeOK
  BY DEF MarketInv
<1>1. /\ agents' = [agents EXCEPT ![a].status = "retired"]
      /\ offers' = [o \in OfferID |-> IF offers[o].agent = a /\ offers[o].status = "open"
                                      THEN [offers[o] EXCEPT !.status = "closed"] ELSE offers[o]]
      /\ retirements' = [retirements EXCEPT ![a] = "retired"]
      /\ attestations' = attestations /\ offerSigs' = offerSigs /\ trades' = trades
      /\ probes' = probes /\ marketKeys' = marketKeys /\ now' = now /\ proc' = proc
      /\ Registered(a)
  BY DEF RetireAgent
<1>2. /\ retirements' \in [Agent -> {"none", "retired", "restored"}]
      /\ \A b \in Agent : retirements[b] # "none" => retirements'[b] # "none"
      /\ retirements'[a] # "none"
  BY <1>0, <1>1 DEF MarketTypeOK
<1>3. agents' \in [Agent -> AgentRow] /\ (RetiredHasRecord /\ CardsVerify /\ ProbesVerify)'
  BY <1>1, <1>2, StatusWritten
<1>4. Closes
  BY <1>1 DEF Closes, Stored
<1>5. Grows
  BY <1>0, <1>1, <1>2, <1>4, ClosesGrows
<1>6. (\A q \in Proc : HandlerInv(q))' /\ proc' = [q \in Proc |-> proc'[q]]
  BY <1>1, <1>5, HandlersStay
<1>7. (OffersVerify /\ TradesPropose /\ OfferKeysUnique)'
  BY <1>1, <1>4, ClosesKeeps
<1>8. TradeKeysUnique'
  BY <1>1 DEF MarketInv, TradeKeysUnique
<1>9. offers' \in [OfferID -> OfferRow]
  BY <1>0, <1>4, ClosedOffers
<1>10. MarketTypeOK'
  BY <1>0, <1>1, <1>2, <1>3, <1>6, <1>9 DEF MarketTypeOK
<1> QED
  BY <1>3, <1>6, <1>7, <1>8, <1>10 DEF MarketInv

\* RestoreAgent marks the record and does not delete it.
LEMMA RestoreAgentInv ==
  ASSUME MarketInv, NEW a \in Agent, RestoreAgent(a)
  PROVE  MarketInv'
<1>0. MarketTypeOK
  BY DEF MarketInv
<1>1. /\ agents' = [agents EXCEPT ![a].status = "active"]
      /\ retirements' = [retirements EXCEPT ![a] = IF @ = "retired" THEN "restored" ELSE @]
      /\ offers' = offers
      /\ attestations' = attestations /\ offerSigs' = offerSigs /\ trades' = trades
      /\ probes' = probes /\ marketKeys' = marketKeys /\ now' = now /\ proc' = proc
      /\ Registered(a)
  BY DEF RestoreAgent
<1>2. /\ retirements' \in [Agent -> {"none", "retired", "restored"}]
      /\ \A b \in Agent : retirements[b] # "none" => retirements'[b] # "none"
  BY <1>0, <1>1 DEF MarketTypeOK
<1>3. agents' \in [Agent -> AgentRow] /\ (RetiredHasRecord /\ CardsVerify /\ ProbesVerify)'
  BY <1>1, <1>2, StatusWritten
<1>4. Grows
  BY <1>1, <1>2 DEF Grows, Stored, MarketplaceKeyIDs
<1>5. (\A q \in Proc : HandlerInv(q))' /\ proc' = [q \in Proc |-> proc'[q]]
  BY <1>1, <1>4, HandlersStay
<1>6. (OffersVerify /\ TradesPropose /\ OfferKeysUnique /\ TradeKeysUnique)'
  BY <1>1, OfferPartsKept
<1>7. MarketTypeOK'
  BY <1>0, <1>1, <1>2, <1>3, <1>5 DEF MarketTypeOK
<1> QED
  BY <1>3, <1>5, <1>6, <1>7 DEF MarketInv

\* CreateOffer leaves a stored offer and a used key alone; otherwise the offer and
\* the signature over it are written together.
LEMMA CreateOfferInv ==
  ASSUME MarketInv, NEW p \in Proc, CreateOffer(p)
  PROVE  MarketInv'
<1> PICK h : h = proc[p]
  OBVIOUS
<1>1. OfferPending(h) /\ h.expires \in Nat
  BY DEF MarketInv, HandlerInv, CreateOffer
<1>2. /\ UNCHANGED << agents, attestations, retirements, probes, marketKeys >>
      /\ trades' = trades /\ now' = now /\ Goto(p, Idle)
  BY DEF CreateOffer, Return
<1>3. CASE UNCHANGED << offers, offerSigs >>
  <2>1. Reads
    BY <1>2, <1>3 DEF Reads, tables
  <2> QED
    BY <1>2, <2>1, ReadsInv, IdleInvNext
<1>4. CASE ~(Stored(h.offer) \/ GetOfferByIdempotencyKey(h.key) # {})
  <2> DEFINE row == [status |-> "open", agent |-> h.agent, terms |-> h.terms,
                     key |-> h.key, expires |-> h.expires]
  <2>1. offers' = [offers EXCEPT ![h.offer] = row] /\ offerSigs' = [offerSigs EXCEPT ![h.offer] = h.sig]
    BY <1>4 DEF CreateOffer
  <2>2. MarketTypeOK /\ OffersVerify /\ TradesPropose /\ OfferKeysUnique /\ TradeKeysUnique
    BY DEF MarketInv
  <2>3. h.offer \in OfferID /\ ~Stored(h.offer)
    BY <1>1, <1>4 DEF OfferPending
  <2>4. row \in OfferRow /\ row.status # "none" /\ row.agent = h.agent /\ row.terms = h.terms /\ row.key = h.key
    BY <1>1 DEF OfferPending, OfferRow
  <2> HIDE DEF row
  <2>5. /\ offers' = [o \in OfferID |-> offers'[o]] /\ offers'[h.offer] = row
        /\ \A o \in OfferID \ {h.offer} : offers'[o] = offers[o]
    BY <2>1, <2>2, <2>3 DEF MarketTypeOK
  <2>6. /\ offerSigs' = [o \in OfferID |-> offerSigs'[o]] /\ offerSigs'[h.offer] = h.sig
        /\ \A o \in OfferID \ {h.offer} : offerSigs'[o] = offerSigs[o]
    BY <2>1, <2>2, <2>3 DEF MarketTypeOK
  <2>7. Grows
    BY <1>2, <2>3, <2>5 DEF Grows, Stored, MarketplaceKeyIDs
  <2>8. (\A q \in Proc : HandlerInv(q))' /\ proc' = [q \in Proc |-> proc'[q]]
    BY <1>2, <2>7, HandlersKept, IdleInvNext
  <2>9. offers' \in [OfferID -> OfferRow]
    BY <2>2, <2>4, <2>5 DEF MarketTypeOK
  <2>10. MarketTypeOK'
    BY <1>2, <2>2, <2>6, <2>8, <2>9 DEF MarketTypeOK
  <2>11. OffersVerify'
    <3> SUFFICES ASSUME NEW o \in OfferID, NEW s \in offerSigs'[o]
                 PROVE  /\ Stored(o)'
                        /\ VerifyOffer(attestOffer(o, offers'[o].agent, offers'[o].terms), s)
      BY DEF OffersVerify
    <3>1. CASE o = h.offer
      BY <1>1, <2>4, <2>5, <2>6, <3>1 DEF OfferPending, Stored
    <3>2. CASE o # h.offer
      BY <2>2, <2>5, <2>6, <3>2 DEF OffersVerify, Stored
    <3> QED
      BY <3>1, <3>2
  <2>12. TradesPropose'
    <3> SUFFICES ASSUME NEW t \in TradeID, Exists(t)
                 PROVE  Proposes(trades[t])' /\ settles(trades[t].mode, trades[t].terms.mint)
      BY <1>2 DEF TradesPropose, Exists
    <3> PICK x : x = trades[t]
      OBVIOUS
    <3>1. Proposes(x) /\ settles(x.mode, x.terms.mint)
      BY <2>2 DEF TradesPropose
    <3>2. Proposes(x)'
      BY <2>7, <3>1, StillProposes
    <3> QED
      BY <1>2, <3>1, <3>2 DEF Proposes
  <2>13. OfferKeysUnique'
    <3>1. \A q \in OfferID : h.key \in Key => offers[q].key # h.key
      BY <1>4, MarketAssumption DEF GetOfferByIdempotencyKey
    <3> QED
      BY <2>2, <2>4, <2>5, <3>1 DEF OfferKeysUnique
  <2>14. (RetiredHasRecord /\ CardsVerify /\ ProbesVerify)'
    BY <1>2, AgentPartsKept
  <2>15. TradeKeysUnique'
    BY <1>2, <2>2 DEF TradeKeysUnique
  <2> QED
    BY <2>8, <2>10, <2>11, <2>12, <2>13, <2>14, <2>15 DEF MarketInv
<1> QED
  BY <1>3, <1>4 DEF CreateOffer

\* CreateTrade writes what the handler holds, on a free id and a free key.
LEMMA CreateTradeInv ==
  ASSUME MarketInv, NEW p \in Proc, CreateTrade(p)
  PROVE  MarketInv'
<1> PICK h : h = proc[p]
  OBVIOUS
<1>1. h \in CreateCall /\ Proposes(h) /\ settles(h.mode, h.terms.mint)
  BY DEF MarketInv, HandlerInv, CreateTrade
<1>2. /\ UNCHANGED << agents, attestations, retirements, probes, marketKeys >>
      /\ offers' = offers /\ offerSigs' = offerSigs /\ now' = now /\ Goto(p, Idle)
  BY DEF CreateTrade, Return
<1>3. CASE trades' = trades
  <2>1. Reads
    BY <1>2, <1>3 DEF Reads, tables
  <2> QED
    BY <1>2, <2>1, ReadsInv, IdleInvNext
<1>4. CASE trades' # trades
  <2> DEFINE row == [state |-> "proposed", offer |-> h.offer, buyer |-> h.buyer,
                     seller |-> h.seller, terms |-> h.terms, mode |-> h.mode, key |-> h.key]
  <2>1. GetTradeByIdempotencyKey(h.key) = {}
    BY <1>4 DEF CreateTrade
  <2>2. PICK t \in TradeID : ~Exists(t) /\ trades' = [trades EXCEPT ![t] = row]
    BY <1>4 DEF CreateTrade
  <2>3. /\ row \in TradeRow /\ row.key = h.key /\ row.offer = h.offer /\ row.terms = h.terms
        /\ row.mode = h.mode /\ row.buyer = h.buyer /\ row.seller = h.seller
    BY <1>1 DEF CreateCall, TradeRow, TradeState
  <2>4. MarketTypeOK /\ OffersVerify /\ TradesPropose /\ OfferKeysUnique /\ TradeKeysUnique
    BY DEF MarketInv
  <2> HIDE DEF row
  <2>5. /\ trades' = [u \in TradeID |-> trades'[u]] /\ trades'[t] = row
        /\ \A u \in TradeID \ {t} : trades'[u] = trades[u]
    BY <2>2, <2>4 DEF MarketTypeOK
  <2>6. trades' \in [TradeID -> TradeRow]
    BY <2>3, <2>4, <2>5 DEF MarketTypeOK
  <2>7. Grows
    BY <1>2 DEF Grows, Stored, MarketplaceKeyIDs
  <2>8. (\A q \in Proc : HandlerInv(q))' /\ proc' = [q \in Proc |-> proc'[q]]
    BY <1>2, <2>7, HandlersKept, IdleInvNext
  <2>9. MarketTypeOK'
    BY <1>2, <2>4, <2>6, <2>8 DEF MarketTypeOK
  <2>10. TradesPropose'
    BY <1>1, <1>2, <2>3, <2>4, <2>5 DEF TradesPropose, Proposes, StoredOffer, Stored, Exists
  <2>11. TradeKeysUnique'
    <3>1. \A u \in TradeID : h.key \in Key => trades[u].key # h.key
      BY <2>1, MarketAssumption DEF GetTradeByIdempotencyKey
    <3> QED
      BY <2>3, <2>4, <2>5, <3>1 DEF TradeKeysUnique
  <2>12. (RetiredHasRecord /\ CardsVerify /\ ProbesVerify)'
    BY <1>2, AgentPartsKept
  <2>13. (OffersVerify /\ OfferKeysUnique)'
    BY <1>2, <2>4 DEF OffersVerify, Stored, OfferKeysUnique
  <2> QED
    BY <2>8, <2>9, <2>10, <2>11, <2>12, <2>13 DEF MarketInv
<1> QED
  BY <1>3, <1>4

\* SaveProbe keeps what the marketplace signed with its current key.
LEMMA SaveProbeInv ==
  ASSUME MarketInv, NEW p \in Proc, SaveProbe(p)
  PROVE  MarketInv'
<1> PICK h : h = proc[p]
  OBVIOUS
<1>1. h.agent \in Agent
  BY DEF MarketInv, HandlerInv, SaveProbe
<1>2. /\ UNCHANGED << offers, offerSigs, trades >>
      /\ agents' = agents /\ attestations' = attestations /\ retirements' = retirements
      /\ marketKeys' = marketKeys /\ now' = now /\ Goto(p, Idle)
  BY DEF SaveProbe, Return
<1>3. CASE probes' = probes
  <2>1. Reads
    BY <1>2, <1>3 DEF Reads, tables
  <2> QED
    BY <1>2, <2>1, ReadsInv, IdleInvNext
<1>4. CASE probes' # probes
  <2>0. PICK answer \in ProbeAnswers, target \in h.card.probeTarget :
          \E results \in Run(target, answer, h.agent, h.card.capabilities, p) :
          LET Report(r) == Statement(h.agent, h.card, r, h.checkedAt) IN
          probes' = [probes EXCEPT ![h.agent] =
                       {[statement |-> Report(marshal(results)), passed |-> Passed(results),
                         sig |-> SignProbe(marketKeys.current, Report(results), now)]}]
    BY <1>4 DEF SaveProbe
  <2>1. PICK results \in Run(target, answer, h.agent, h.card.capabilities, p) :
          LET Report(r) == Statement(h.agent, h.card, r, h.checkedAt) IN
          probes' = [probes EXCEPT ![h.agent] =
                       {[statement |-> Report(marshal(results)), passed |-> Passed(results),
                         sig |-> SignProbe(marketKeys.current, Report(results), now)]}]
    BY <2>0
  <2> DEFINE st == Statement(h.agent, h.card, marshal(results), h.checkedAt)
             signed == Statement(h.agent, h.card, results, h.checkedAt)
             sig == SignProbe(marketKeys.current, signed, now)
             row == [statement |-> st, passed |-> Passed(results), sig |-> sig]
  <2>2. /\ st.agentID = h.agent /\ st.results = marshal(results)
        /\ signed.agentID = h.agent /\ signed.results = results
    BY DEF Statement
  <2>3. SignedAsText(sig) => st = signed
    BY <2>2, RunResults, Marshalled, SignedDetails
  <2>4. /\ row.statement.agentID = h.agent /\ row.passed = Passed(row.statement.results)
        /\ row.sig.keyID \in MarketplaceKeyIDs /\ row.sig.over.agent = h.agent
        /\ SignedAsText(row.sig) => VerifyProbeAttestedByAny(row.statement, row.sig, MarketplaceKeyIDs)
    <3>1. VerifyProbeAttestedByAny(signed, sig, MarketplaceKeyIDs)
      BY OwnProbeVerifies DEF MarketplaceKeyIDs
    <3>2. sig.keyID = marketKeys.current /\ sig.over.agent = signed.agentID
      BY DEF SignProbe, Sign, ProbeBytes
    <3>3. Passed(st.results) = Passed(results)
      BY <2>2, RunResults, Marshalled
    <3> HIDE DEF st, signed, sig
    <3> QED
      BY <2>2, <2>3, <3>1, <3>2, <3>3 DEF MarketplaceKeyIDs
  <2> HIDE DEF st, signed, sig
  <2>5. probes' = [probes EXCEPT ![h.agent] = {row}]
    BY <2>1 DEF st, signed, sig
  <2> HIDE DEF row
  <2>6. MarketTypeOK /\ ProbesVerify /\ RetiredHasRecord /\ CardsVerify
    BY DEF MarketInv
  <2>7. /\ probes' = [a \in Agent |-> probes'[a]] /\ probes'[h.agent] = {row}
        /\ \A a \in Agent \ {h.agent} : probes'[a] = probes[a]
    BY <1>1, <2>5, <2>6 DEF MarketTypeOK
  <2>8. MarketplaceKeyIDs' = MarketplaceKeyIDs
    BY <1>2 DEF MarketplaceKeyIDs
  <2>9. ProbesVerify'
    BY <2>4, <2>6, <2>7, <2>8 DEF ProbesVerify
  <2>10. Grows
    BY <1>2 DEF Grows, Stored, MarketplaceKeyIDs
  <2>11. (\A q \in Proc : HandlerInv(q))' /\ proc' = [q \in Proc |-> proc'[q]]
    BY <1>2, <2>10, HandlersKept, IdleInvNext
  <2>12. MarketTypeOK'
    BY <1>2, <2>6, <2>7, <2>11 DEF MarketTypeOK
  <2>13. (RetiredHasRecord /\ CardsVerify)'
    BY <1>2, <2>6, <2>8 DEF RetiredHasRecord, CardsVerify, Registered
  <2>14. (OffersVerify /\ TradesPropose /\ OfferKeysUnique /\ TradeKeysUnique)'
    BY <1>2, OfferPartsKept
  <2> QED
    BY <2>9, <2>11, <2>12, <2>13, <2>14 DEF MarketInv
<1> QED
  BY <1>3, <1>4

\* A rotation trusts every key it replaces, and the restart drops the handlers.
LEMMA RotateAndRestartInv ==
  ASSUME MarketInv, RotateAndRestart
  PROVE  MarketInv'
<1>1. MarketTypeOK /\ RetiredHasRecord /\ CardsVerify /\ ProbesVerify
  BY DEF MarketInv
<1>2. PICK k \in MarketKey : marketKeys' = [current |-> k, retired |-> MarketplaceKeyIDs]
  BY DEF RotateAndRestart
<1>3. /\ agents' = agents /\ attestations' = attestations /\ retirements' = retirements
      /\ offers' = offers /\ offerSigs' = offerSigs /\ trades' = trades /\ probes' = probes
      /\ now' = now /\ proc' = [p \in Proc |-> Idle]
  BY DEF RotateAndRestart, tables
<1>4. MarketplaceKeyIDs \subseteq MarketplaceKeyIDs'
  BY <1>2 DEF MarketplaceKeyIDs
<1>5. MarketplaceKeyIDs \subseteq MarketKey
  BY <1>1 DEF MarketTypeOK, MarketplaceKeyIDs
<1>6. marketKeys' \in [current : MarketKey, retired : SUBSET MarketKey]
  BY <1>2, <1>5
<1>7. MarketTypeOK'
  <2>1. proc' = [p \in Proc |-> proc'[p]]
    BY <1>3
  <2> QED
    BY <1>1, <1>3, <1>6, <2>1 DEF MarketTypeOK
<1>8. (\A q \in Proc : HandlerInv(q))'
  BY <1>3, IdleInvNext
<1>9. RetiredHasRecord'
  BY <1>1, <1>3 DEF RetiredHasRecord
<1>10. CardsVerify'
  BY <1>1, <1>3, <1>4, MoreKeys DEF CardsVerify, Registered
<1>11. ProbesVerify'
  BY <1>1, <1>3, <1>4, MoreKeys DEF ProbesVerify
<1>12. (OffersVerify /\ TradesPropose /\ OfferKeysUnique /\ TradeKeysUnique)'
  BY <1>3, OfferPartsKept
<1> QED
  BY <1>7, <1>8, <1>9, <1>10, <1>11, <1>12 DEF MarketInv

\* Time passes, or nothing the registry keeps changes.
LEMMA QuietInv ==
  ASSUME MarketInv, UNCHANGED << tables, marketKeys, proc >>, now' \in Nat
  PROVE  MarketInv'
<1>1. /\ agents' = agents /\ attestations' = attestations /\ retirements' = retirements
      /\ offers' = offers /\ offerSigs' = offerSigs /\ trades' = trades /\ probes' = probes
      /\ proc' = proc /\ marketKeys' = marketKeys
  BY DEF tables
<1>2. Grows
  BY <1>1 DEF Grows, Stored, MarketplaceKeyIDs
<1>3. (\A q \in Proc : HandlerInv(q))'
  BY <1>1, <1>2, HandlersStay
<1>4. MarketTypeOK'
  BY <1>1 DEF MarketInv, MarketTypeOK
<1>5. (RetiredHasRecord /\ CardsVerify /\ ProbesVerify)'
  BY <1>1, AgentPartsKept
<1>6. (OffersVerify /\ TradesPropose /\ OfferKeysUnique /\ TradeKeysUnique)'
  BY <1>1, OfferPartsKept
<1> QED
  BY <1>3, <1>4, <1>5, <1>6 DEF MarketInv

-----------------------------------------------------------------------------
(* The theorems                                                             *)

\* An empty marketplace with its first key satisfies the invariant.
LEMMA MarketInitInv == MarketInit => MarketInv
<1> SUFFICES ASSUME MarketInit PROVE MarketInv
  OBVIOUS
<1>1. MarketTypeOK
  <2>1. agents \in [Agent -> AgentRow] /\ retirements \in [Agent -> {"none", "retired", "restored"}]
    BY DEF MarketInit, AgentRow
  <2>2. offers \in [OfferID -> OfferRow] /\ trades \in [TradeID -> TradeRow]
    BY DEF MarketInit, OfferRow, TradeRow
  <2>3. /\ attestations = [a \in Agent |-> attestations[a]] /\ offerSigs = [o \in OfferID |-> offerSigs[o]]
        /\ probes = [a \in Agent |-> probes[a]] /\ proc = [p \in Proc |-> proc[p]]
    BY DEF MarketInit
  <2>4. marketKeys \in [current : MarketKey, retired : SUBSET MarketKey] /\ now \in Nat
    BY MarketAssumption DEF MarketInit
  <2> QED
    BY <2>1, <2>2, <2>3, <2>4 DEF MarketTypeOK
<1>2. \A p \in Proc : HandlerInv(p)
  BY IdleInv DEF MarketInit
<1>3. RetiredHasRecord /\ CardsVerify /\ ProbesVerify
  BY DEF MarketInit, RetiredHasRecord, CardsVerify, ProbesVerify, Registered, NoAgent
<1>4. OffersVerify
  BY DEF MarketInit, OffersVerify
<1>5. TradesPropose
  BY DEF MarketInit, TradesPropose, Exists, NoTrade
<1>6. OfferKeysUnique
  BY MarketAssumption DEF MarketInit, OfferKeysUnique, NoOffer
<1>7. TradeKeysUnique
  BY MarketAssumption DEF MarketInit, TradeKeysUnique, NoTrade
<1> QED
  BY <1>1, <1>2, <1>3, <1>4, <1>5, <1>6, <1>7 DEF MarketInv

\* Every step keeps it.
LEMMA MarketNextInv == MarketInv /\ [MarketNext]_marketVars => MarketInv'
<1> SUFFICES ASSUME MarketInv, [MarketNext]_marketVars PROVE MarketInv'
  OBVIOUS
<1>1. ASSUME NEW p \in Proc, Handler(p) PROVE MarketInv'
  <2>1. CASE Register(p)
    BY <2>1, RegisterInv
  <2>2. CASE SaveAgentCard(p)
    BY <2>2, SaveAgentCardInv
  <2>3. CASE PublishOffer(p)
    BY <2>3, PublishOfferInv
  <2>4. CASE publishAgent(p)
    BY <2>4, publishAgentInv
  <2>5. CASE CreateOffer(p)
    BY <2>5, CreateOfferInv
  <2>6. CASE CloseOffer(p)
    BY <2>6, CloseOfferInv
  <2>7. CASE SetOfferClosed(p)
    BY <2>7, SetOfferClosedInv
  <2>8. CASE ExpireOffers(p)
    BY <2>8, ExpireOffersInv
  <2>9. CASE sweepReread(p)
    BY <2>9, sweepRereadInv
  <2>10. CASE sweepClose(p)
    BY <2>10, sweepCloseInv
  <2>11. CASE Create(p)
    BY <2>11, CreateInv
  <2>12. CASE createAgents(p)
    BY <2>12, createAgentsInv
  <2>13. CASE CreateTrade(p)
    BY <2>13, CreateTradeInv
  <2>14. CASE ProbeCapabilities(p)
    BY <2>14, ProbeCapabilitiesInv
  <2>15. CASE SaveProbe(p)
    BY <2>15, SaveProbeInv
  <2>16. CASE Abort(p)
    BY <2>16, AbortInv
  <2> QED
    BY <1>1, <2>1, <2>2, <2>3, <2>4, <2>5, <2>6, <2>7, <2>8, <2>9, <2>10, <2>11, <2>12,
       <2>13, <2>14, <2>15, <2>16 DEF Handler
<1>2. ASSUME NEW a \in Agent, RetireAgent(a) \/ RestoreAgent(a) PROVE MarketInv'
  BY <1>2, RetireAgentInv, RestoreAgentInv
<1>3. ASSUME NEW t \in TradeID, TradeMoves(t) \/ TradeClosesOffer(t) PROVE MarketInv'
  BY <1>3, TradeMovesInv, TradeClosesOfferInv
<1>4. CASE RotateAndRestart
  BY <1>4, RotateAndRestartInv
<1>5. now \in Nat
  BY DEF MarketInv, MarketTypeOK
<1>6. CASE Tick
  <2>1. UNCHANGED << tables, marketKeys, proc >> /\ now' = now + 1
    BY <1>6 DEF Tick
  <2>2. now' \in Nat
    BY <1>5, <2>1
  <2> QED
    BY <2>1, <2>2, QuietInv
<1>7. CASE UNCHANGED marketVars
  <2>1. UNCHANGED << tables, marketKeys, proc >> /\ now' = now
    BY <1>7 DEF marketVars
  <2> QED
    BY <1>5, <2>1, QuietInv
<1> QED
  BY <1>1, <1>2, <1>3, <1>4, <1>6, <1>7 DEF MarketNext

\* The marketplace keeps its invariant: the rows it stores, what its handlers hold
\* between two statements, the signatures on file and the keys that name rows
\* (internal/registry, Service.Create, and the statements of internal/store).
THEOREM MarketInvariant == MarketSpec => []MarketInv
<1> QED
  BY MarketInitInv, MarketNextInv, PTL DEF MarketSpec

\* Every card on file, and every probe whose details were text when they were
\* signed, verifies under a key the marketplace publishes, whatever registrations,
\* probes and rotations overlapped (SaveAgentCard, SaveProbe, MarketplaceKeyIDs).
THEOREM AttestedRowsVerify == MarketSpec => []AttestationsVerify
<1>1. MarketInv => AttestationsVerify
  BY DEF MarketInv, AttestationsVerify
<1> QED
  BY <1>1, MarketInvariant, PTL

\* Every stored offer signature is its seller's over the stored terms
\* (CreateOfferWithAttestation).
THEOREM OfferSignaturesVerify == MarketSpec => []OffersVerify
<1>1. MarketInv => OffersVerify
  BY DEF MarketInv
<1> QED
  BY <1>1, MarketInvariant, PTL

\* A retired agent has its record, although Register writes back the status it
\* read before an operator retired or restored the agent (RetireAgent, Register).
THEOREM RetirementIsRecorded == MarketSpec => []RetiredHasRecord
<1>1. MarketInv => RetiredHasRecord
  BY DEF MarketInv
<1> QED
  BY <1>1, MarketInvariant, PTL

\* A trade is the one its offer proposed, on the sides its direction says, also
\* when the offer was closed while Create was between its reads and its insert.
THEOREM TradeIsTheOffers == MarketSpec => []TradeMatchesOffer
<1>1. MarketInv => TradeMatchesOffer
  BY DEF MarketInv, TradesPropose, Proposes, StoredOffer, TradeMatchesOffer
<1> QED
  BY <1>1, MarketInvariant, PTL

\* A set of at most one element has at most that cardinality.
LEMMA AtMostOne ==
  ASSUME NEW S, \A x, y \in S : x = y
  PROVE  Cardinality(S) <= 1
<1>1. CASE S = {}
  BY <1>1, FS_EmptySet
<1>2. CASE S # {}
  <2>1. PICK x : x \in S
    BY <1>2
  <2>2. S = {x}
    BY <2>1
  <2> QED
    BY <2>2, FS_Singleton
<1> QED
  BY <1>1, <1>2

\* An idempotency key names at most one offer and at most one trade, however many
\* retries overlap (CreateOffer, CreateTrade and the unique indexes).
THEOREM KeysNameOneRow == MarketSpec => []OnePerKey
<1>1. MarketInv => OnePerKey
  <2> SUFFICES ASSUME OfferKeysUnique, TradeKeysUnique, NEW key \in Key
               PROVE  /\ Cardinality(GetOfferByIdempotencyKey(key)) <= 1
                      /\ Cardinality(GetTradeByIdempotencyKey(key)) <= 1
    BY DEF MarketInv, OnePerKey
  <2>1. \A o, q \in GetOfferByIdempotencyKey(key) : o = q
    BY DEF GetOfferByIdempotencyKey, OfferKeysUnique
  <2>2. \A t, u \in GetTradeByIdempotencyKey(key) : t = u
    BY DEF GetTradeByIdempotencyKey, TradeKeysUnique
  <2> QED
    BY <2>1, <2>2, AtMostOne
<1> QED
  BY <1>1, MarketInvariant, PTL
=============================================================================
