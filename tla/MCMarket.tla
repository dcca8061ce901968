------------------------------- MODULE MCMarket -------------------------------
EXTENDS Market, TLC

CONSTANTS a1, a2, k1, k2, p1, p2, o1, o2, t1, t2

url == [scheme |-> "https", user |-> FALSE, port |-> TRUE, path |-> "/probe", query |-> FALSE]

MCCards ==
  {[text |-> "card", capabilities |-> <<"c1">>, probeTarget |-> {url}, currencies |-> {}],
   [text |-> "card", capabilities |-> <<"c1", "c2">>, probeTarget |-> {}, currencies |-> {"usdc"}]}

one == [integer |-> <<1>>, fraction |-> <<>>]
MCTerms ==
  {[text |-> "t", direction |-> d, capabilities |-> <<"c1">>, mint |-> "usdc",
    amount |-> one, settlementModes |-> <<"offchain">>] : d \in {"ask", "bid"}}
  \cup {[text |-> "t", direction |-> "ask", capabilities |-> <<"c1">>, mint |-> m,
         amount |-> one, settlementModes |-> <<"onchain">>] : m \in {"usdc", "eurx"}}

\* Details of one character, of two and one cut off, and of one that the cut is in.
short == Detail("short", 1, {0})
long == Detail("long", 3, {0, 1, 2})
split == Detail("split", 3, {0, 1})

OK == [addrs |-> {"public"}, code |-> 200, bytes |-> 1, schema |-> TRUE, agentID |-> ""]
MCProbeAnswers ==
  {OK @@ [challenge |-> p, results |-> << Result("c1", r[1], r[2]) >>] :
     p \in Proc, r \in {<< "pass", short >>, << "pass", split >>, << "fail", long >>}}
  \* A status line that is not UTF-8.
  \cup {[OK EXCEPT !.code = 500] @@ [statusLine |-> [short EXCEPT !.utf8 = "broken"]]}

MCDecimals == [m \in {"usdc"} |-> 1]
\* eurx has a rate and is not governed: it can be listed and not settled.
MCPriced == {"usdc", "eurx"}

Symmetric ==
  Permutations(Agent) \cup Permutations(Proc) \cup Permutations(OfferID) \cup Permutations(TradeID)

\* Which calls a behaviour is made of: agents and their cards, listings, trades.
Calls(b) == [op \in Operation |-> IF op \in DOMAIN b THEN b[op] ELSE 0]

\* Cards, retirements, probes and a rotation, from an empty marketplace.
CardCalls == Calls([register |-> 3, retire |-> 1, restore |-> 1, probe |-> 1, rotate |-> 1, abort |-> 1])
\* Listings and trades, from two registered agents.
ListingCalls == Calls([publish |-> 2, retire |-> 1, restore |-> 1])
SweepCalls == Calls([publish |-> 2, close |-> 1, sweep |-> 1, tick |-> 1])
TradeCalls == Calls([publish |-> 1, retire |-> 1, create |-> 2, trade |-> 3, close |-> 1])
MCBudgets == {CardCalls, ListingCalls, SweepCalls, TradeCalls}

first == CHOOSE c \in MCCards : c.probeTarget # {}
MCInit ==
  \/ MarketInit /\ budget = CardCalls
  \/ /\ budget \in MCBudgets \ {CardCalls}
     /\ agents = [a \in Agent |-> [status |-> "active", card |-> first]]
     /\ attestations = [a \in Agent |->
          [agent |-> {}, market |-> {AttestCard(FirstKey, attestCard(a, first), 1)}]]
     /\ retirements = [a \in Agent |-> "none"]
     /\ offers = [o \in OfferID |-> NoOffer]
     /\ offerSigs = [o \in OfferID |-> {}]
     /\ trades = [t \in TradeID |-> NoTrade]
     /\ probes = [a \in Agent |-> {}]
     /\ marketKeys = [current |-> FirstKey, retired |-> {}]
     /\ now = 1
     /\ proc = [p \in Proc |-> Idle]
MCSpec == MCInit /\ [][MarketNext]_marketVars
=============================================================================
