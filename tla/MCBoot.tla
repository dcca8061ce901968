-------------------------------- MODULE MCBoot --------------------------------
EXTENDS Boot, TLC

CONSTANTS p1, p2

Amount(n) == [integer |-> << n >>, fraction |-> <<>>]

MCAddress == {"usdcMain", "usdcDev", "eurc", "local", "circle", "freezer", "circleEU",
              "freezerEU", "circleDev", "freezerDev", "circleEUDev", "feeWallet", "other"}

\* A name that resolves to this machine and elsewhere counts as elsewhere.
MCResolve == [loop |-> {"loopback"}, split |-> {"loopback", "public"}, compose |-> {"private"},
              main |-> {"public"}, dev |-> {"public"}, nowhere |-> {}]

Account(t) == [owner |-> "token program", initialized |-> TRUE, decimals |-> t.decimals,
               mintAuthority |-> t.mintAuthority, freezeAuthority |-> t.freezeAuthority]
Accounts(tokens) == [a \in Governed(tokens) |->
                       Account(CHOOSE t \in Range(tokens) : t.address = a)]
Local(decimals) == Token("local", decimals, "none", "none")

MCChain ==
  [loop |-> [genesis |-> "g1", accounts |-> Accounts(<< Local(2) >>)],
   split |-> [genesis |-> "g1", accounts |-> Accounts(<< Local(2) >>)],
   compose |-> [genesis |-> "g2", accounts |-> Accounts(<< Local(2) >>)],
   nowhere |-> [genesis |-> "g1", accounts |-> <<>>],
   main |-> [genesis |-> "genesis-main", accounts |-> Accounts(mintsFor("mainnet-beta"))],
   dev |-> [genesis |-> "genesis-dev", accounts |-> Accounts(mintsFor("devnet"))]]

Base ==
  [host |-> "", cluster |-> "", ack |-> "", lamports |-> NoFigure, wallet |-> "", mints |-> <<>>,
   hosts |-> {}, sandbox |-> FALSE, preflightOnly |-> FALSE, one |-> Amount(1),
   perTrade |-> Amount(1), perDay |-> Amount(2), window |-> 1, ceilingPerTrade |-> Amount(0),
   ceilingPerDay |-> Amount(0), rates |-> <<>>, adminToken |-> "", operators |-> <<>>,
   short |-> {"short"}, secret |-> 32, positive |-> [d \in {"acceptTTL", "offerTTL"} |-> 1],
   grace |-> 0, limits |-> [l \in {"agent", "ip"} |-> [rps |-> 1, burst |-> 1]]]

RateOf(m) == << [mint |-> m, rate |-> [decimals |-> 2, usd |-> Amount(1)]] >>

\* Hosts, clusters and acknowledgements in every combination, ...
Chains ==
  {[Base EXCEPT !.host = h, !.cluster = c, !.ack = a, !.lamports = l, !.preflightOnly = o] :
     h \in {"", "loop", "main", "dev"},
     c \in {"", "mainnet-beta", "devnet", "localnet", "testnet"},
     a \in {"", "1"}, l \in {NoFigure, 0, 5}, o \in {FALSE}}
  \cup {[Base EXCEPT !.host = "dev", !.cluster = "devnet", !.sandbox = s, !.preflightOnly = o] :
          s \in BOOLEAN, o \in BOOLEAN}

\* ... a validator of one's own, ...
Validators ==
  {[Base EXCEPT !.host = h, !.cluster = c, !.mints = m, !.hosts = hs, !.rates = r] :
     h \in {"loop", "split", "compose", "nowhere"}, c \in {"devnet", "localnet"},
     m \in {<< Local(2) >>, << Local(3) >>, << Local(2), Local(2) >>},
     hs \in {{}, {"compose"}}, r \in {<<>>, RateOf("local")}}

\* ... and each of the others at a value that is refused and one that is not.
Op(n, t) == [name |-> n, token |-> t]
Others ==
  {[Base EXCEPT !.secret = 31], [Base EXCEPT !.grace = -1], [Base EXCEPT !.window = 0],
   [Base EXCEPT !.positive["offerTTL"] = 0], [Base EXCEPT !.perDay = Amount(0)],
   [Base EXCEPT !.ceilingPerDay = Amount(1)], [Base EXCEPT !.ceilingPerDay = Amount(3)],
   [Base EXCEPT !.limits["ip"].burst = 0], [Base EXCEPT !.limits["ip"].rps = 0],
   [Base EXCEPT !.rates = RateOf("not an address")], [Base EXCEPT !.rates = RateOf("eurc")],
   [Base EXCEPT !.wallet = "other"],
   [Base EXCEPT !.adminToken = "short"],
   [Base EXCEPT !.adminToken = "x", !.operators = << Op("ann", "x") >>],
   [Base EXCEPT !.adminToken = "x", !.operators = << Op("operator", "y") >>],
   [Base EXCEPT !.operators = << Op("ann", "x"), Op("ann", "y") >>],
   [Base EXCEPT !.operators = << Op("ann", "x"), Op("bob", "y") >>]}

MCEnvs == Chains \cup Validators \cup Others

Symmetric == Permutations(Proc)
=============================================================================
