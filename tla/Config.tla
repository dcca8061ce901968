-------------------------------- MODULE Config --------------------------------
(***************************************************************************)
(* The settings a process starts from, internal/config/config.go: Parse     *)
(* turns what the operator wrote into a configuration or refuses it.  A     *)
(* numeric setting that does not parse is Malformed; what can be refused    *)
(* answers a set of at most one value.                                      *)
(***************************************************************************)
EXTENDS Cluster, Limits

CONSTANT MinSecret    \* 32: the shortest session secret and operator token

Malformed == -1
NoFigure == -2     \* a numeric setting left unset

\* SettlementEnabled
Settles(cfg) == cfg.host # Unset /\ cfg.cluster # Unset

\* resolveFeePolicy
resolveFeePolicy(lamports, wallet) ==
  IF lamports = Malformed THEN {}
  ELSE NewFee(IF lamports = NoFigure THEN DefaultLamports ELSE lamports,
              IF wallet = Unset THEN DefaultWallet ELSE wallet)

\* parseLocalnetMints: each entry is checked on its own, a duplicate is found later.
parseLocalnetMints(mints) == \A i \in DOMAIN mints : NewRegistry("localnet", << mints[i] >>) # {}

OffChain ==
  [cluster |-> Unset, host |-> Unset, fee |-> DefaultFee, mints |-> <<>>, hosts |-> {}]

\* clusterTable without the refusal of a stray acknowledgement.
clusterTable_LaxAck(c, env) ==
  /\ IsProduction(c) => env.ack = "1" /\ env.lamports = NoFigure /\ env.wallet = Unset
  /\ ~AllowsExtraMints(c) => env.mints = <<>> /\ env.hosts = {}

\* What each cluster demands and forbids.
clusterTable(c, env) ==
  /\ IsProduction(c) => env.ack = "1" /\ env.lamports = NoFigure /\ env.wallet = Unset
  /\ ~IsProduction(c) => env.ack = Unset
  /\ ~AllowsExtraMints(c) => env.mints = <<>> /\ env.hosts = {}

parseSolana(env) ==
  IF env.host = Unset THEN (IF env.cluster = Unset THEN {OffChain} ELSE {})
  ELSE {[cluster |-> c, host |-> env.host, fee |-> fee, mints |-> env.mints, hosts |-> env.hosts] :
          c \in {d \in ParseCluster(env.cluster) :
                   /\ clusterTable(d, env)
                   /\ parseLocalnetMints(env.mints)
                   /\ CheckEndpoint(d, env.host, env.hosts)},
          fee \in resolveFeePolicy(env.lamports, env.wallet)}

-----------------------------------------------------------------------------
(* Caps, operators and the rest                                             *)

\* DefaultRates: the governed stablecoins at par.
governedPar(one) ==
  [m \in {"usdcMain", "usdcDev", "eurc"} |-> [decimals |-> USDScale, usd |-> one]]

\* Each --spend-rates entry on top of the table so far; the first bad one refuses all.
AddRates(first, entries) ==
  LET upTo[i \in 0 .. Len(entries)] ==
        IF i = 0 THEN {first}
        ELSE UNION {AddRate(table, Address, entries[i].mint, entries[i].rate) : table \in upTo[i - 1]}
  IN  upTo[Len(entries)]

\* A cap is never zero; a ceiling may be left unset, which is stored as zero.
parseSpend(env) ==
  IF /\ ~IsZero(env.perTrade) /\ ~IsZero(env.perDay)
     /\ \A i \in DOMAIN env.rates : ~IsZero(env.rates[i].rate.usd)
  THEN {[perTrade |-> env.perTrade, perDay |-> env.perDay, window |-> env.window,
         ceilingPerTrade |-> env.ceilingPerTrade, ceilingPerDay |-> env.ceilingPerDay,
         rates |-> table] : table \in AddRates(governedPar(env.one), env.rates)}
  ELSE {}

LegacyOperator(env) == IF env.adminToken = Unset THEN {} ELSE {[name |-> "operator", token |-> env.adminToken]}

\* parseAdminOperators, and the length of every token.
parseAdminOperators(env) ==
  LET ops == env.operators
      taken == LegacyOperator(env)
  IN  /\ \A i \in DOMAIN ops : ops[i].token \notin env.short \cup {Unset} /\ ops[i].name # Unset
      /\ env.adminToken \notin env.short
      /\ \A i \in DOMAIN ops, o \in taken : ops[i].name # o.name /\ ops[i].token # o.token
      /\ \A i, j \in DOMAIN ops : i # j => ops[i].name # ops[j].name /\ ops[i].token # ops[j].token

\* Config.Validate, and the positive figures Parse asks for itself.
ValidateConfig(env, solana, policy) ==
  /\ env.secret >= MinSecret
  /\ \A d \in DOMAIN env.positive : env.positive[d] > 0
  /\ env.grace >= 0
  /\ Validate(policy)
  /\ ~(env.sandbox /\ Settles(solana))
  /\ \A l \in DOMAIN env.limits :
       /\ env.limits[l].rps >= 0
       /\ env.limits[l].burst >= 0
       /\ env.limits[l].rps > 0 => env.limits[l].burst > 0

\* Parse, with the fields that outlive it.
ParseConfig(env) ==
  IF ~parseAdminOperators(env) \/ (env.preflightOnly /\ env.host = Unset) THEN {}
  ELSE {[solana |-> sp[1], policy |-> sp[2], sandbox |-> env.sandbox,
         preflightOnly |-> env.preflightOnly] :
          sp \in {pair \in parseSolana(env) \X parseSpend(env) :
                   ValidateConfig(env, pair[1], pair[2])}}
=============================================================================
