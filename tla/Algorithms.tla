------------------------------ MODULE Algorithms ------------------------------
(***************************************************************************)
(* The pure parts of the service against reference definitions: amounts     *)
(* (module Money), the sum of committed spend (Limits), routing (Route),    *)
(* the settlement transaction (Transaction) and the choice of a cluster     *)
(* (Config).  A behaviour is one call: `input` is what it is given.         *)
(***************************************************************************)
EXTENDS Config, Route, Transaction

CONSTANTS
  AmountInputs,     \* trades and the decimals of their mint
  SpendInputs,      \* sequences of << base units, price of a token >>
  RouteInputs,      \* offers, the active agents and an intent
  TermsInputs,      \* terms to settle
  TransferInputs,   \* terms, and a transaction somebody submitted
  ConfigInputs      \* settings

\* What an input is: a trade ready to be settled in a governed mint, with the digits
\* Parse lets through; rows of words; offers under ids of their own; terms between
\* parties none of which is the key resolve answers for an account it cannot find; a
\* setting for every name.
ASSUME InputsAssumption ==
  /\ MaxFractionDigits \in Nat /\ MaxIntegerDigits \in Nat
  /\ MaxUint < Pow10(MaxIntegerDigits + MaxFractionDigits + 1)
  /\ \A g \in AmountInputs :
       /\ g.decimals \in 0 .. MaxFractionDigits
       /\ g.trade.amount \in DecimalAmount /\ Len(g.trade.amount.fraction) <= MaxFractionDigits
       /\ g.trade.state = "accepted" /\ g.trade.mode = "onchain" /\ g.trade.mint = "local"
       /\ {g.trade.buyer, g.trade.seller} \subseteq Address
  /\ SpendInputs \subseteq Seq((0 .. MaxUint) \X (0 .. MaxUint))
  /\ \A g \in RouteInputs :
       /\ IsFiniteSet(g.offers)
       /\ \A o \in g.offers : /\ SquadPath(o) \in Int \X Int
                             /\ o.price \in DecimalAmount /\ Len(o.price.fraction) <= MaxFractionDigits
       /\ \A o, p \in g.offers : SquadPath(o) = SquadPath(p) => o = p
  /\ \A g \in TransferInputs :
       "none" \notin {g.terms.buyer, g.terms.seller, g.terms.mint, g.terms.fee.wallet}
  /\ \A env \in ConfigInputs :
       env = [host |-> env.host, cluster |-> env.cluster, ack |-> env.ack, lamports |-> env.lamports,
              wallet |-> env.wallet, mints |-> env.mints, hosts |-> env.hosts]

VARIABLE input

NoInput == [of |-> "nothing"]

AlgorithmsInit == input = NoInput

Choose(kind, inputs) ==
  /\ input = NoInput
  /\ \E i \in inputs : input' = [of |-> kind, given |-> i]

AlgorithmsNext ==
  \/ Choose("amount", AmountInputs)
  \/ Choose("spend", SpendInputs)
  \/ Choose("route", RouteInputs)
  \/ Choose("terms", TermsInputs)
  \/ Choose("transfer", TransferInputs)
  \/ Choose("config", ConfigInputs)

AlgorithmsSpec == AlgorithmsInit /\ [][AlgorithmsNext]_input

Given(kind) == IF input.of = kind THEN {input.given} ELSE {}

-----------------------------------------------------------------------------
(* Amounts                                                                  *)

\* A decimal amount as a number of the smallest fractions it can be written in.
Exact(a) == Value(a.integer \o a.fraction \o Zeros(MaxFractionDigits - Len(a.fraction)))

\* What moves is what was quoted: the base units of the terms are the trade's
\* amount to the last digit, whatever the mint's decimals, and read back as an
\* amount they are that amount again.  A price that cannot be carried exactly never
\* becomes terms (NewTerms, BaseUnits, NewFromBaseUnits).
AmountsAreExact ==
  \A g \in Given("amount") :
    LET registry == [cluster |-> "localnet", tokens |-> {Token("local", g.decimals, "none", "none")}]
        terms == NewTerms(g.trade, registry, DefaultFee)
    IN  /\ \A t \in terms :
             /\ t.amount * Pow10(MaxFractionDigits - g.decimals) = Exact(g.trade.amount)
             /\ \A back \in NewFromBaseUnits(t.amount, g.decimals) : Cmp(back, g.trade.amount) = 0
        /\ terms = {} => \/ IsZero(g.trade.amount)
                         \/ Len(g.trade.amount.fraction) > g.decimals
                         \/ Exact(g.trade.amount) > MaxUint * Pow10(MaxFractionDigits - g.decimals)

\* Committed spend is never understated: the sum is the exact one, with a single
\* trade's value saturating at the largest integer, or the sum fails; it never wraps
\* to a small number that would let the next trade under the cap (scaleToUSD,
\* AddSpend).
SpendNeverUnderstated ==
  \A rows \in Given("spend") :
    LET value(r) == (r[1] * r[2]) \div Pow10(USDScale)
        capped(r) == IF value(r) > MaxUint THEN MaxUint ELSE value(r)
        exact == SumFunction([i \in DOMAIN rows |-> capped(rows[i])])
        total == SumSpend(0, [i \in DOMAIN rows |-> scaleToUSD(rows[i][1], rows[i][2])])
    IN  total = IF exact > MaxUint THEN SpendOverflow ELSE exact

-----------------------------------------------------------------------------
(* Routing                                                                  *)

\* An intent is routed to a compliant open offer of an active agent, and no
\* compliant one is cheaper, as numbers; it is refused for the reason that holds
\* (Table.Route, lessCost, sortEntries).
RouteIsCheapest ==
  \A g \in Given("route") :
    LET result == RouteIntent(g.offers, g.active, g.intent)
        announced == {a \in Announcements(g.offers, g.active) :
                        a.capability = NormalizeCapability(g.intent.capability)}
        compliant == {a \in announced : checkPolicy(a.policy, g.intent.constraints)}
    IN  CASE result.code = "routed" ->
               \E best \in compliant :
                 /\ best.path = result.path
                 /\ \A a \in compliant : Exact(best.cost) <= Exact(a.cost)
          [] result = RouteNotFound -> announced = {}
          [] result = PolicyViolation -> announced # {} /\ compliant = {}
          [] OTHER -> TRUE

-----------------------------------------------------------------------------
(* The settlement transaction                                               *)

\* What a message does when the chain executes it, instruction by instruction.
Effects(tx) ==
  LET acts(ix) == [does |-> ix.data, program |-> tx.keys[ix.program],
                   on |-> [j \in DOMAIN ix.accounts |-> tx.keys[ix.accounts[j]]]]
  IN  [i \in DOMAIN tx.instructions |-> acts(tx.instructions[i])]

Agreed(t) ==
  << [does |-> << "transfer", t.amount, t.decimals >>, program |-> Key("token"),
      on |-> << ATA(t.buyer, t.mint), Key(t.mint), ATA(t.seller, t.mint), Key(t.buyer) >>],
     [does |-> << "memo", t.tradeID >>, program |-> Key("memo"), on |-> << Key(t.buyer) >>],
     [does |-> << "lamports", t.fee.lamports >>, program |-> Key("system"),
      on |-> << Key(t.buyer), Key(t.fee.wallet) >>] >>

OpensAccount(t) ==
  [does |-> << "create" >>, program |-> Key("associated-token"),
   on |-> << Key(t.buyer), ATA(t.seller, t.mint), Key(t.seller), Key(t.mint) >>]

\* The transaction the builder hands out is one the verifier accepts once the buyer
\* has signed it, whether or not the seller's account existed at build time and
\* whichever of the parties' accounts coincide (Build, Verify).
BuildVerifies ==
  \A t \in Given("terms") :
    \A exists \in BOOLEAN : Verify(t, SignedBy(Build(t, exists), {Buyer(t)}))

\* A transaction the verifier accepts moves exactly what was agreed, names this
\* trade, is signed by the buyer and nobody else, and does nothing more than open the
\* seller's token account (Verify, compile, sameInstructions).
VerifiedPaysAgreed ==
  \A g \in Given("transfer") :
    Verify(g.terms, g.tx) =>
      /\ Effects(g.tx) \in {Agreed(g.terms), << OpensAccount(g.terms) >> \o Agreed(g.terms)}
      /\ g.tx.signedBy = {Key(g.terms.buyer)}

-----------------------------------------------------------------------------
(* The cluster                                                              *)

\* No single setting turns a development deployment into one that moves real money,
\* or back: what is accepted for mainnet-beta is refused under every other cluster
\* name and the other way round (parseSolana).
NotOneSettingFromMainnet ==
  \A env \in Given("config") :
    \A name \in supported :
      /\ parseSolana(env) # {} /\ env.host # Unset
      /\ IsProduction(name) # IsProduction(env.cluster)
      => parseSolana([env EXCEPT !.cluster = name]) = {}
=============================================================================
