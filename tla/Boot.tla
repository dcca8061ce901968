--------------------------------- MODULE Boot ---------------------------------
(***************************************************************************)
(* A gateway process from its settings to its first request: run in         *)
(* cmd/vtessera, preflight.Check, store.Open with its migrations and the    *)
(* boot checks between them.  Several processes may open one volume, each   *)
(* with its own settings; any of them can fail or be killed at any point.   *)
(***************************************************************************)
EXTENDS Config, FiniteSets

CONSTANTS
  Proc, NoProc,
  Envs,          \* settings an operator may start a process with
  Chain,         \* endpoint host -> genesis, accounts and rent-exempt minimum
  Migration,     \* 1 .. 6
  Altering,      \* the migrations whose statement fails when it is in place already
  Rotating,      \* mints whose issuer may change an authority
  MaxStarts      \* bound for TLC: processes started

ASSUME BootAssumption ==
  /\ Altering \subseteq Migration
  /\ Cardinality(Migration) \in Nat \ {0}
  /\ Migration = 1 .. Cardinality(Migration)

VARIABLES
  proc,
  db,          \* the volume: exists, applied DDL, schema_migrations, and the writer
  keyFile,     \* whether the signing key is on disk
  rotated,     \* mints whose issuer changed an authority since it was pinned
  funded,      \* whether the fee wallet holds its rent-exempt minimum
  starts

bootVars == << proc, db, keyFile, rotated, funded, starts >>

Off == [pc |-> "off"]
Goto(p, pc) == proc' = [proc EXCEPT ![p].pc = pc]
Solana(p) == proc[p].cfg.solana
Settling(p) == Settles(Solana(p))

\* Parse refuses the rest; such a process exits before it reads or writes anything.
Configs == UNION {ParseConfig(env) : env \in Envs}

-----------------------------------------------------------------------------
(* preflight.Check, one read of the chain at a time                         *)

Start(p) ==
  /\ proc[p] = Off
  /\ starts < MaxStarts
  /\ starts' = starts + 1
  /\ \E cfg \in Configs :
       proc' = [proc EXCEPT ![p] = [pc |-> IF Settles(cfg.solana) THEN "genesis" ELSE "open",
                                    cfg |-> cfg, left |-> {}, drift |-> FALSE,
                                    version |-> 0, snapshot |-> {}]]
  /\ UNCHANGED << db, keyFile, rotated, funded >>

Registry(p) == ForCluster(Solana(p).cluster, Solana(p).mints)

checkGenesis(p) ==
  /\ proc[p].pc = "genesis"
  /\ CheckEndpoint(Solana(p).cluster, Solana(p).host, Solana(p).hosts)
  /\ VerifyGenesis(Solana(p).cluster, Chain[Solana(p).host].genesis)
  /\ \E r \in Registry(p) : proc' = [proc EXCEPT ![p].pc = "mints", ![p].left = r.tokens]
  /\ UNCHANGED << db, keyFile, rotated, funded, starts >>

\* What the chain says of a mint must be what was priced ...
HardInvariants(account, t) ==
  /\ account.owner = "token program"
  /\ account.initialized
  /\ account.decimals = t.decimals

\* ... and its authorities are pins: drift is collected, and refused at the end.
AuthorityDrift(account, t) ==
  \/ t.address \in rotated
  \/ account.mintAuthority # t.mintAuthority
  \/ account.freezeAuthority # t.freezeAuthority

\* checkMint without the scale.
checkMint_AnyScale(p) ==
  LET h == proc[p]
      accounts == Chain[Solana(p).host].accounts
  IN  /\ h.pc = "mints"
      /\ \E t \in h.left :
           /\ t.address \in DOMAIN accounts
           /\ HardInvariants([accounts[t.address] EXCEPT !.decimals = t.decimals], t)
           /\ proc' = [proc EXCEPT ![p].left = @ \ {t},
                                   ![p].drift = @ \/ AuthorityDrift(accounts[t.address], t)]
      /\ UNCHANGED << db, keyFile, rotated, funded, starts >>

checkMint(p) ==
  LET h == proc[p]
      accounts == Chain[Solana(p).host].accounts
  IN  /\ h.pc = "mints"
      /\ \E t \in h.left :
           /\ t.address \in DOMAIN accounts
           /\ HardInvariants(accounts[t.address], t)
           /\ proc' = [proc EXCEPT ![p].left = @ \ {t},
                                   ![p].drift = @ \/ AuthorityDrift(accounts[t.address], t)]
      /\ UNCHANGED << db, keyFile, rotated, funded, starts >>

\* The fee wallet, and the end of a --preflight-only run.
checkFee(p) ==
  /\ proc[p].pc = "mints" /\ proc[p].left = {} /\ ~proc[p].drift
  /\ funded
  /\ IF proc[p].cfg.preflightOnly THEN proc' = [proc EXCEPT ![p] = Off] ELSE Goto(p, "open")
  /\ UNCHANGED << db, keyFile, rotated, funded, starts >>

-----------------------------------------------------------------------------
(* store.Open                                                               *)

Open(p) ==
  /\ proc[p].pc = "open"
  /\ db.writer = NoProc
  /\ db' = [db EXCEPT !.exists = TRUE]
  /\ proc' = [proc EXCEPT ![p].pc = "check", ![p].version = 1]
  /\ UNCHANGED << keyFile, rotated, funded, starts >>

\* The next migration, or the signer once there is none.
After(h) ==
  IF h.version + 1 \in Migration THEN [h EXCEPT !.pc = "check", !.version = @ + 1]
  ELSE [h EXCEPT !.pc = "signer"]

\* applyMigration: the read outside the transaction, ...
applyMigration(p) ==
  LET h == proc[p]
  IN  /\ h.pc = "check"
      /\ proc' = [proc EXCEPT ![p] = IF h.version \in db.recorded THEN After(h)
                                     ELSE [h EXCEPT !.pc = "recheck"]]
      /\ UNCHANGED << db, keyFile, rotated, funded, starts >>

\* recheck that trusts the first read.
recheck_Skips(p) ==
  /\ proc[p].pc = "recheck"
  /\ proc' = [proc EXCEPT ![p].pc = "apply", ![p].snapshot = db.recorded]
  /\ UNCHANGED << db, keyFile, rotated, funded, starts >>

\* ... the same read inside it, which fixes the transaction's snapshot, ...
recheck(p) ==
  LET h == proc[p]
  IN  /\ h.pc = "recheck"
      /\ proc' = [proc EXCEPT ![p] = IF h.version \in db.recorded THEN After(h)
                                     ELSE [h EXCEPT !.pc = "apply", !.snapshot = db.recorded]]
      /\ UNCHANGED << db, keyFile, rotated, funded, starts >>

\* A write needs the lock and a snapshot nobody has committed past: SQLite fails
\* the statement otherwise, and Open with it.
CanWrite(p) == db.writer = NoProc /\ db.recorded = proc[p].snapshot

\* apply outside the transaction.
apply_Autocommits(p) ==
  LET v == proc[p].version
  IN  /\ proc[p].pc = "apply"
      /\ CanWrite(p)
      /\ ~(v \in Altering /\ v \in db.applied)
      /\ db' = [db EXCEPT !.writer = p, !.applied = @ \cup {v}]
      /\ Goto(p, "commit")
      /\ UNCHANGED << keyFile, rotated, funded, starts >>

\* ... the statement, which takes the write lock, ...
apply(p) ==
  LET v == proc[p].version
  IN  /\ proc[p].pc = "apply"
      /\ CanWrite(p)
      /\ ~(v \in Altering /\ v \in db.applied)
      /\ db' = [db EXCEPT !.writer = p]
      /\ Goto(p, "commit")
      /\ UNCHANGED << keyFile, rotated, funded, starts >>

\* ... and its row, committed with it.
commit(p) ==
  LET v == proc[p].version
  IN  /\ proc[p].pc = "commit"
      /\ db' = [db EXCEPT !.writer = NoProc, !.applied = @ \cup {v}, !.recorded = @ \cup {v}]
      /\ proc' = [proc EXCEPT ![p] = After(proc[p])]
      /\ UNCHANGED << keyFile, rotated, funded, starts >>

-----------------------------------------------------------------------------
(* The rest of run                                                          *)

LoadOrCreateSigner(p) ==
  /\ proc[p].pc = "signer"
  /\ keyFile' = TRUE
  /\ Goto(p, "rates")
  /\ UNCHANGED << db, rotated, funded, starts >>

governedAddresses(p) == UNION {{t.address : t \in r.tokens} : r \in Registry(p)}

checkRates(p) ==
  /\ proc[p].pc = "rates"
  /\ Settling(p) => Missing(proc[p].cfg.policy.rates, governedAddresses(p)) = {}
  /\ Goto(p, "serving")
  /\ UNCHANGED << db, keyFile, rotated, funded, starts >>

\* A check that refuses, an endpoint or a disk that fails, a port in use, a
\* signal: whatever ends run also rolls back the transaction it was in.
Exit(p) ==
  /\ proc[p] # Off
  /\ proc' = [proc EXCEPT ![p] = Off]
  /\ db' = [db EXCEPT !.writer = IF @ = p THEN NoProc ELSE @]
  /\ UNCHANGED << keyFile, rotated, funded, starts >>

\* The world outside: an issuer rotates an authority, the fee wallet is drained
\* or topped up.
Rotate(m) ==
  /\ m \notin rotated
  /\ rotated' = rotated \cup {m}
  /\ UNCHANGED << proc, db, keyFile, funded, starts >>

Fund ==
  /\ funded' = ~funded
  /\ UNCHANGED << proc, db, keyFile, rotated, starts >>

BootInit ==
  /\ proc = [p \in Proc |-> Off]
  /\ db = [exists |-> FALSE, applied |-> {}, recorded |-> {}, writer |-> NoProc]
  /\ keyFile = FALSE
  /\ rotated = {}
  /\ funded = TRUE
  /\ starts = 0

BootNext ==
  \/ \E p \in Proc :
       \/ Start(p) \/ checkGenesis(p) \/ checkMint(p) \/ checkFee(p)
       \/ Open(p) \/ applyMigration(p) \/ recheck(p) \/ apply(p) \/ commit(p)
       \/ LoadOrCreateSigner(p) \/ checkRates(p) \/ Exit(p)
  \/ \E m \in Rotating : Rotate(m)
  \/ Fund

BootSpec == BootInit /\ [][BootNext]_bootVars

-----------------------------------------------------------------------------
(* Properties                                                               *)

\* What the boot checks are to establish for a process that settles.
FitToSettle(p) ==
  LET s == Solana(p)
      accounts == Chain[s.host].accounts
  IN  /\ ~proc[p].cfg.sandbox
      /\ GenesisHash(s.cluster) # Unset => Chain[s.host].genesis = GenesisHash(s.cluster)
      /\ s.cluster = "localnet" => Resolve[s.host] = {"loopback"} \/ s.host \in s.hosts
      /\ IsProduction(s.cluster) => s.fee = DefaultFee
      /\ \A a \in governedAddresses(p) :
           /\ a \in DOMAIN accounts
           /\ \A r \in Registry(p) : \A t \in Lookup(r, a) : accounts[a].decimals = t.decimals
           /\ a \in DOMAIN proc[p].cfg.policy.rates

\* A process that settles and is past its boot checks talks to the chain it was
\* configured for (the pinned genesis, or its own machine on localnet), every mint
\* it governs has the scale its prices are converted with and a dollar rate its
\* caps can be measured in, real value is only ever charged the published fee, and
\* it is no sandbox (main.go run: "Fail closed").
ServesWhatItChecked == \A p \in Proc : proc[p].pc = "serving" /\ Settling(p) => FitToSettle(p)

\* However boots, failures and restarts interleave on one volume, a migration is
\* in schema_migrations exactly when its statement took effect, in order, and a
\* process past Open finds all of them (store.go applyMigration).
SchemaMatchesRecord ==
  /\ db.applied = db.recorded
  /\ \A v \in db.recorded : 1 .. v \subseteq db.recorded
  /\ \A p \in Proc : proc[p].pc \in {"signer", "rates", "serving"} => db.recorded = Migration

\* "two processes opening the same volume at once can both pass the check above,
\* and the loser must not apply the same ALTER TABLE twice" (store.go): a process
\* that may run a migration's statement never finds it in place already.
NeverAppliesTwice ==
  \A p \in Proc : proc[p].pc = "apply" /\ CanWrite(p) => proc[p].version \notin db.applied
=============================================================================
