------------------------------- MODULE Cluster -------------------------------
(***************************************************************************)
(* Which chain a deployment settles on, which mints it governs there and    *)
(* what it charges: internal/cluster, internal/tokens and internal/fees.    *)
(***************************************************************************)
EXTENDS Naturals, Sequences, SequencesExt

CONSTANTS
  Address,        \* the strings that decode as a Solana address
  Resolve,        \* host name or literal -> the kinds of address it stands for
  MaxDecimals     \* 9, the SPL Token limit

Unset == ""       \* absent, empty and blank settings are one value

-----------------------------------------------------------------------------
(* cluster.go                                                               *)

supported == {"mainnet-beta", "devnet", "localnet"}

\* Parse also refuses testnet by name.
ParseCluster(name) == IF name \in supported THEN {name} ELSE {}

GenesisHash(c) ==
  CASE c = "mainnet-beta" -> "genesis-main"
    [] c = "devnet" -> "genesis-dev"
    [] OTHER -> Unset

IsProduction(c) == c = "mainnet-beta"
AllowsExtraMints(c) == c = "localnet"
RequiresLoopback(c) == c = "localnet"

VerifyGenesis(c, reported) == GenesisHash(c) \in {Unset, reported}

CheckEndpoint(c, host, allowHosts) ==
  \/ ~RequiresLoopback(c)
  \/ host \in allowHosts
  \/ Resolve[host] = {"loopback"}

-----------------------------------------------------------------------------
(* tokens.go                                                                *)

NoAuthority == "none"

Token(address, decimals, mintAuthority, freezeAuthority) ==
  [address |-> address, decimals |-> decimals, enabled |-> TRUE,
   mintAuthority |-> mintAuthority, freezeAuthority |-> freezeAuthority]

validToken(t) ==
  /\ t.address \in Address
  /\ t.decimals \in 0 .. MaxDecimals
  /\ {t.mintAuthority, t.freezeAuthority} \subseteq Address \cup {NoAuthority}

\* EURC has one address on both public clusters and another issuer on each.
mintsFor(c) ==
  CASE c = "mainnet-beta" -> << Token("usdcMain", 6, "circle", "freezer"),
                                Token("eurc", 6, "circleEU", "freezerEU") >>
    [] c = "devnet" -> << Token("usdcDev", 6, "circleDev", "freezerDev"),
                          Token("eurc", 6, "circleEUDev", "circleEUDev") >>
    [] OTHER -> <<>>

Governed(entries) == {entries[i].address : i \in DOMAIN entries}

\* The registry of a cluster, {} when an entry is refused.
NewRegistry(c, entries) ==
  IF /\ ParseCluster(c) # {}
     /\ \A i \in DOMAIN entries : validToken(entries[i])
     /\ \A i, j \in DOMAIN entries : entries[i].address = entries[j].address => i = j
  THEN {[cluster |-> c, tokens |-> Range(entries)]}
  ELSE {}

ForCluster(c, extra) ==
  IF ParseCluster(c) = {} \/ (extra # <<>> /\ ~AllowsExtraMints(c)) THEN {}
  ELSE NewRegistry(c, mintsFor(c) \o extra)

Lookup(r, address) == {t \in r.tokens : t.address = address}

elsewhere(r) ==
  UNION {Governed(mintsFor(c)) : c \in {"mainnet-beta", "devnet"} \ {r.cluster}}
    \ {t.address : t \in r.tokens}

Enabled(r, address) ==
  CASE Lookup(r, address) = {} /\ address \in elsewhere(r) -> "ungoverned"
    [] Lookup(r, address) = {} /\ address \notin elsewhere(r) -> "not registered"
    [] OTHER -> IF \A t \in Lookup(r, address) : t.enabled THEN "ok" ELSE "disabled"

-----------------------------------------------------------------------------
(* fees.go                                                                  *)

DefaultLamports == 1000
DefaultWallet == "feeWallet"

NewFee(lamports, wallet) ==
  IF lamports > 0 /\ wallet \in Address THEN {[lamports |-> lamports, wallet |-> wallet]} ELSE {}

DefaultFee == [lamports |-> DefaultLamports, wallet |-> DefaultWallet]
=============================================================================
