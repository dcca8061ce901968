----------------------------- MODULE MCAlgorithms -----------------------------
EXTENDS Algorithms

MCAddress == {"usdcMain", "usdcDev", "eurc", "local", "local2", "none", "circle", "freezer", "circleEU",
              "freezerEU", "circleDev", "freezerDev", "circleEUDev", "feeWallet", "buyer", "seller", "other"}
MCResolve == [loop |-> {"loopback"}, main |-> {"public"}]

\* Every canonical amount of up to two digits on either side of the point.
Digits == {0, 1, 9}
Integers1or2 == {<< d >> : d \in Digits} \cup {<< d, e >> : d \in Digits \ {0}, e \in Digits}
Fractions == {<<>>} \cup {<< d >> : d \in Digits} \cup {<< d, e >> : d \in Digits, e \in Digits}
Amounts == {[integer |-> i, fraction |-> f] : i \in Integers1or2, f \in Fractions}

Trade(amount) ==
  [id |-> "t1", state |-> "accepted", mode |-> "onchain", amount |-> amount, mint |-> "local",
   buyer |-> "buyer", seller |-> "seller"]
MCAmountInputs == {[trade |-> Trade(a), decimals |-> d] : a \in Amounts, d \in 0 .. 2}

\* Prices and amounts up to the width, and the rows that bring a sum to its edge.
Word == {0, 1, 7, 10, 11, 99, 100, 101, 500, 990, 998, 999}
MCSpendInputs == {<< << u, p >>, << v, 10 >>, << w, 10 >> >> : u \in Word, p \in Word, v \in Word, w \in {0, 1, 999}}

MCLower == [s \in {"", "x", "X", "y", "usdc", "USDC", "eurc", "offchain", "general", "act"} |->
              CASE s = "X" -> "x" [] s = "USDC" -> "usdc" [] OTHER -> s]
MCAsBool == [true |-> TRUE, false |-> FALSE]
MCAsNumber == [one |-> 1, two |-> 2]

Offer(id, agent, caps, price, mint, open) ==
  [id |-> id, agent |-> agent, capabilities |-> caps, action |-> "act", price |-> price,
   mint |-> mint, modes |-> {"offchain"}, direction |-> "ask", open |-> open]
Prices == {[integer |-> << 9 >>, fraction |-> <<>>], [integer |-> << 1, 0 >>, fraction |-> <<>>],
           [integer |-> << 9 >>, fraction |-> << 0 >>], [integer |-> << 1 >>, fraction |-> << 0, 9 >>]}
Pairs(caps) ==
  {{Offer(1, 1, c, p, "usdc", TRUE), Offer(2, a, << << "x", "y" >> >>, q, m, open)} :
     c \in caps, p \in Prices, q \in Prices, m \in {"usdc", "eurc"}, a \in {1, 2}, open \in BOOLEAN}
Third == Offer(3, 2, << << "X", "y" >>, << "x" >> >>, [integer |-> << 9 >>, fraction |-> << 1 >>], "eurc", TRUE)
Intents ==
  {[capability |-> c, payload |-> {"work"}, constraints |-> k] :
     c \in {<< "x", "y" >>, << "x", "act" >>, << "y", "x" >>, << "x" >>},
     k \in {<<>>, [currencies |-> TextValue("USDC")], [currencies |-> List({"eurc", "usdc"})],
            [direction |-> TextValue("ask"), agent |-> Number(2)],
            [requires_pii |-> TextValue("true")], [security_level |-> Number(1)]}}
\* A full capability, a bare domain, one that is blank, and one that cannot be
\* announced.
Capabilities == {<< << "x", "y" >> >>, << << "X" >> >>, << << "" >> >>, << << "x", "" >> >>}
MCRouteInputs ==
  {[offers |-> os \cup more, active |-> act, intent |-> i] :
     os \in Pairs(Capabilities), more \in {{}, {Third}}, act \in {{1, 2}, {2}}, i \in Intents}

\* The agreed terms, and what may differ in a transaction somebody submitted.
Fee(w, n) == [wallet |-> w, lamports |-> n]
Terms(id, amount, mint, buyer, seller, fee) ==
  [tradeID |-> id, amount |-> amount, decimals |-> 2, mint |-> mint, buyer |-> buyer,
   seller |-> seller, fee |-> fee]
Variants ==
  {Terms(id, n, m, b, s, f) :
     id \in {"t1", "t2"}, n \in {100, 101}, m \in {"local", "local2"}, b \in {"buyer", "other"},
     s \in {"seller"}, f \in {Fee("feeWallet", 5), Fee("feeWallet", 6), Fee("seller", 5), Fee("buyer", 5)}}
Edits(ixs, t) ==
  {ixs, << ixs[Len(ixs)] >> \o SubSeq(ixs, 1, Len(ixs) - 1), ixs \o << ixs[Len(ixs)] >>,
   ixs \o << transferChecked(t) >>} \cup {SubSeq(ixs, 1, i - 1) \o SubSeq(ixs, i + 1, Len(ixs)) : i \in DOMAIN ixs}
Signatures(tx, t) ==
  {[SignedBy(tx, signers) EXCEPT !.version = v] :
     signers \in {{}, {Buyer(t)}, {Buyer(t), Key("seller")}}, v \in {"legacy", "v0"}}
Submitted(t) ==
  UNION {UNION {Signatures(NewTransaction(edit, payer), t) :
                  edit \in Edits(expectedInstructions(t, e), t), payer \in {Buyer(t), Key("seller")}} :
           e \in BOOLEAN}
MCTermsInputs == Variants
MCTransferInputs ==
  UNION {{[terms |-> t, tx |-> tx] : tx \in Submitted(t)} : t \in Variants}
  \cup UNION {{[terms |-> Terms("t1", 100, "local", "buyer", "seller", Fee("feeWallet", 5)),
                tx |-> SignedBy(Build(t, e), {Buyer(t)})] : e \in BOOLEAN} : t \in Variants}

MCConfigInputs ==
  {[host |-> h, cluster |-> c, ack |-> a, lamports |-> l, wallet |-> w, mints |-> m, hosts |-> hs] :
     h \in {"", "loop", "main"}, c \in {"", "mainnet-beta", "devnet", "localnet", "testnet"},
     a \in {"", "1", "yes"}, l \in {NoFigure, Malformed, 0, 5}, w \in {"", "other", "bad"},
     m \in {<<>>, << Token("local", 2, "none", "none") >>}, hs \in {{}, {"main"}}}
=============================================================================
