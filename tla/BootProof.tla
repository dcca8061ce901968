------------------------------ MODULE BootProof ------------------------------
(***************************************************************************)
(* What module Boot promises, for any number of processes on one volume,    *)
(* any settings, chains and migrations, and any pattern of exits; and what  *)
(* module MintVerifier, which looks again at the mints start-up has         *)
(* checked, promises any set of callers, for any window and clock.          *)
(***************************************************************************)
EXTENDS Boot, MintVerifier, TLAPS

Migrating == {"check", "recheck", "apply", "commit"}
Migrated == {"signer", "rates", "serving"}
PastChecks == {"open"} \cup Migrating \cup Migrated

RegistryOf(cfg) == ForCluster(cfg.solana.cluster, cfg.solana.mints)
TokenSets == UNION {{r.tokens : r \in RegistryOf(cfg)} : cfg \in Configs}

Running == [pc : {"genesis", "mints"} \cup PastChecks, cfg : Configs,
            left : SUBSET UNION TokenSets, drift : BOOLEAN, version : Nat,
            snapshot : SUBSET Migration]
Volume == [exists : BOOLEAN, applied : SUBSET Migration, recorded : SUBSET Migration,
           writer : Proc \cup {NoProc}]

BootTypeOK ==
  /\ proc \in [Proc -> {Off} \cup Running]
  /\ db \in Volume

\* Where a process stands against the migrations recorded so far: everything
\* before its own version is there, its snapshot lacks the one it is to apply, and
\* past Open nothing is missing.
Migrates(h, recorded) ==
  /\ h.pc \in Migrating => h.version \in Migration /\ 1 .. h.version - 1 \subseteq recorded
  /\ h.pc = "apply" => h.version \notin h.snapshot
  /\ h.pc \in Migrated => recorded = Migration

\* What the chain says of a mint agrees with what it is priced as.
Sound(h, t) ==
  LET accounts == Chain[h.cfg.solana.host].accounts
  IN  t.address \in DOMAIN accounts /\ accounts[t.address].decimals = t.decimals

\* What a settling process has established by the time it stands where it stands.
Preflighted(h) ==
  LET s == h.cfg.solana
  IN  /\ h.pc = "mints" \/ h.pc \in PastChecks =>
           /\ CheckEndpoint(s.cluster, s.host, s.hosts)
           /\ VerifyGenesis(s.cluster, Chain[s.host].genesis)
      /\ h.pc = "mints" => \A r \in RegistryOf(h.cfg) : \A t \in r.tokens \ h.left : Sound(h, t)
      /\ h.pc \in PastChecks => \A r \in RegistryOf(h.cfg) : \A t \in r.tokens : Sound(h, t)
      /\ h.pc = "serving" =>
           \A r \in RegistryOf(h.cfg) : \A t \in r.tokens : t.address \in DOMAIN h.cfg.policy.rates

BootInv ==
  /\ BootTypeOK
  /\ db.applied = db.recorded
  /\ \A v \in db.recorded : 1 .. v \subseteq db.recorded
  /\ \A p \in Proc : Migrates(proc[p], db.recorded)
  /\ \A p \in Proc : proc[p] # Off /\ Settles(proc[p].cfg.solana) => Preflighted(proc[p])
  /\ \A p \in Proc : proc[p].pc \in {"genesis", "mints"} => Settles(proc[p].cfg.solana)

-----------------------------------------------------------------------------
(* What Parse lets through                                                  *)

\* A parsed configuration that settles is no sandbox, and on the production
\* cluster it charges the published fee (config.go Validate, clusterTable).
LEMMA ParsedConfig ==
  ASSUME NEW cfg \in Configs, Settles(cfg.solana)
  PROVE  /\ ~cfg.sandbox
         /\ IsProduction(cfg.solana.cluster) => cfg.solana.fee = DefaultFee
<1>1. PICK env \in Envs : cfg \in ParseConfig(env)
  BY DEF Configs
<1>2. PICK sp \in parseSolana(env) \X parseSpend(env) :
        /\ ValidateConfig(env, sp[1], sp[2])
        /\ cfg = [solana |-> sp[1], policy |-> sp[2], sandbox |-> env.sandbox,
                  preflightOnly |-> env.preflightOnly]
  BY <1>1 DEF ParseConfig
<1>3. cfg.solana \in parseSolana(env) /\ cfg.sandbox = env.sandbox
  BY <1>2
<1>4. ~cfg.sandbox
  BY <1>2, <1>3 DEF ValidateConfig
<1>5. ASSUME IsProduction(cfg.solana.cluster) PROVE cfg.solana.fee = DefaultFee
  <2>1. env.host # Unset
    <3>1. env.host = Unset => cfg.solana = OffChain
      BY <1>3 DEF parseSolana
    <3>2. OffChain.host = Unset
      BY DEF OffChain
    <3> QED
      BY <3>1, <3>2 DEF Settles
  <2>2. PICK c \in ParseCluster(env.cluster), fee \in resolveFeePolicy(env.lamports, env.wallet) :
          /\ clusterTable(c, env)
          /\ cfg.solana = [cluster |-> c, host |-> env.host, fee |-> fee, mints |-> env.mints,
                           hosts |-> env.hosts]
    BY <1>3, <2>1 DEF parseSolana
  <2>3. env.lamports = NoFigure /\ env.wallet = Unset /\ cfg.solana.fee = fee
    BY <1>5, <2>2 DEF clusterTable
  <2> QED
    BY <2>2, <2>3 DEF resolveFeePolicy, NoFigure, Malformed, NewFee, DefaultFee
<1> QED
  BY <1>4, <1>5

\* A cluster has one registry.
LEMMA OneRegistry ==
  ASSUME NEW cfg, NEW r \in RegistryOf(cfg), NEW q \in RegistryOf(cfg)
  PROVE  r = q
  BY DEF RegistryOf, ForCluster, NewRegistry

-----------------------------------------------------------------------------
(* The steps                                                                *)

\* A process keeps its place while others record more migrations.
LEMMA OthersRecord ==
  ASSUME NEW h, NEW before \in SUBSET Migration, NEW after \in SUBSET Migration,
         before \subseteq after, Migrates(h, before)
  PROVE  Migrates(h, after)
  BY DEF Migrates

\* One process moves to g, and migrations are recorded with their statements, in
\* order: what g has to satisfy.
LEMMA Moves ==
  ASSUME BootInv, NEW p \in Proc, NEW g \in {Off} \cup Running,
         proc' = [proc EXCEPT ![p] = g],
         db' \in Volume, db'.applied = db'.recorded, db.recorded \subseteq db'.recorded,
         \A v \in db'.recorded : 1 .. v \subseteq db'.recorded,
         Migrates(g, db'.recorded),
         g # Off /\ Settles(g.cfg.solana) => Preflighted(g),
         g.pc \in {"genesis", "mints"} => Settles(g.cfg.solana)
  PROVE  BootInv'
<1>1. /\ proc' \in [Proc -> {Off} \cup Running] /\ proc'[p] = g
      /\ \A q \in Proc \ {p} : proc'[q] = proc[q]
  BY DEF BootInv, BootTypeOK
<1>2. \A q \in Proc : Migrates(proc[q], db'.recorded)
  <2>1. db.recorded \in SUBSET Migration /\ db'.recorded \in SUBSET Migration
    BY DEF BootInv, BootTypeOK, Volume
  <2> QED
    BY <2>1, OthersRecord DEF BootInv
<1>3. \A q \in Proc : Migrates(proc'[q], db'.recorded)
  BY <1>1, <1>2
<1>4. \A q \in Proc : proc'[q] # Off /\ Settles(proc'[q].cfg.solana) => Preflighted(proc'[q])
  BY <1>1 DEF BootInv
<1>5. \A q \in Proc : proc'[q].pc \in {"genesis", "mints"} => Settles(proc'[q].cfg.solana)
  BY <1>1 DEF BootInv
<1> QED
  BY <1>1, <1>3, <1>4, <1>5 DEF BootInv, BootTypeOK

\* A process that is not Off has all its fields.
LEMMA IsRunning ==
  ASSUME BootInv, NEW p \in Proc, proc[p].pc # "off"
  PROVE  proc[p] \in Running /\ proc[p] # Off /\ db \in Volume
  BY DEF BootInv, BootTypeOK, Off

\* Past the checks, what was established stays established up to the last one.
LEMMA StaysChecked ==
  ASSUME NEW h, NEW g, g.cfg = h.cfg, h.pc \in PastChecks, Preflighted(h),
         g.pc \in PastChecks, g.pc # "serving"
  PROVE  Preflighted(g)
  BY DEF Preflighted, Sound, PastChecks, Migrating, Migrated

\* A process starts from settings that parsed, with nothing checked yet (main).
LEMMA StartInv ==
  ASSUME BootInv, NEW p \in Proc, Start(p)
  PROVE  BootInv'
<1>1. PICK cfg \in Configs :
        proc' = [proc EXCEPT ![p] = [pc |-> IF Settles(cfg.solana) THEN "genesis" ELSE "open",
                                     cfg |-> cfg, left |-> {}, drift |-> FALSE,
                                     version |-> 0, snapshot |-> {}]]
  BY DEF Start
<1> DEFINE g == [pc |-> IF Settles(cfg.solana) THEN "genesis" ELSE "open", cfg |-> cfg,
                 left |-> {}, drift |-> FALSE, version |-> 0, snapshot |-> {}]
<1>2. g \in Running /\ g.cfg = cfg /\ g.pc = IF Settles(cfg.solana) THEN "genesis" ELSE "open"
  BY DEF Running, PastChecks
<1>3. proc' = [proc EXCEPT ![p] = g] /\ db' = db
  BY <1>1 DEF Start
<1> HIDE DEF g
<1>4. Migrates(g, db.recorded)
  BY <1>2 DEF Migrates, Migrating, Migrated
<1>5. Settles(g.cfg.solana) => Preflighted(g)
  BY <1>2 DEF Preflighted, PastChecks, Migrating, Migrated
<1> QED
  BY <1>2, <1>3, <1>4, <1>5, Moves DEF BootInv, BootTypeOK

\* The genesis hash: a mismatch ends the boot, a match is what the process checked
\* (preflight, checkGenesis).
LEMMA checkGenesisInv ==
  ASSUME BootInv, NEW p \in Proc, checkGenesis(p)
  PROVE  BootInv'
<1> DEFINE h == proc[p]
<1>1. PICK r \in RegistryOf(h.cfg) : proc' = [proc EXCEPT ![p].pc = "mints", ![p].left = r.tokens]
  BY DEF checkGenesis, Registry, RegistryOf, Solana
<1> DEFINE g == [h EXCEPT !.pc = "mints", !.left = r.tokens]
<1>2. h \in Running /\ h # Off /\ Settles(h.cfg.solana)
  BY IsRunning DEF checkGenesis, BootInv
<1>3. r.tokens \in SUBSET UNION TokenSets
  BY <1>2 DEF TokenSets, Running
<1>4. g \in Running /\ g.pc = "mints" /\ g.left = r.tokens /\ g.cfg = h.cfg
  BY <1>2, <1>3 DEF Running
<1>5. proc' = [proc EXCEPT ![p] = g] /\ db' = db
  BY <1>1 DEF checkGenesis
<1>6. /\ CheckEndpoint(h.cfg.solana.cluster, h.cfg.solana.host, h.cfg.solana.hosts)
      /\ VerifyGenesis(h.cfg.solana.cluster, Chain[h.cfg.solana.host].genesis)
  BY DEF checkGenesis, Solana
<1>7. \A q \in RegistryOf(h.cfg) : q = r
  BY OneRegistry
<1> HIDE DEF g
<1>8. Migrates(g, db.recorded)
  BY <1>4 DEF Migrates, Migrating, Migrated
<1>9. Preflighted(g)
  BY <1>4, <1>6, <1>7 DEF Preflighted, PastChecks, Migrating, Migrated
<1> QED
  BY <1>2, <1>4, <1>5, <1>8, <1>9, Moves DEF BootInv, BootTypeOK

\* One governed mint is read and compared with the registry (preflight, checkMint).
LEMMA checkMintInv ==
  ASSUME BootInv, NEW p \in Proc, checkMint(p)
  PROVE  BootInv'
<1> DEFINE h == proc[p]
           accounts == Chain[h.cfg.solana.host].accounts
<1>1. PICK t \in h.left :
        /\ t.address \in DOMAIN accounts
        /\ HardInvariants(accounts[t.address], t)
        /\ proc' = [proc EXCEPT ![p].left = @ \ {t},
                                ![p].drift = @ \/ AuthorityDrift(accounts[t.address], t)]
  BY DEF checkMint, Solana
<1> DEFINE drift == h.drift \/ AuthorityDrift(accounts[t.address], t)
           g == [h EXCEPT !.left = @ \ {t}, !.drift = drift]
<1>2. h \in Running /\ h # Off /\ h.pc = "mints" /\ Settles(h.cfg.solana) /\ Preflighted(h)
  BY IsRunning DEF checkMint, BootInv
<1>3. drift \in BOOLEAN
  OBVIOUS
<1>4. proc' = [proc EXCEPT ![p] = g] /\ db' = db
  BY <1>1 DEF checkMint
<1>5. Sound(h, t)
  BY <1>1 DEF Sound, HardInvariants
<1> HIDE DEF drift
<1>6. g \in Running /\ g.pc = "mints" /\ g.left = h.left \ {t} /\ g.cfg = h.cfg
  BY <1>2, <1>3 DEF Running
<1> HIDE DEF g
<1>7. Migrates(g, db.recorded)
  BY <1>6 DEF Migrates, Migrating, Migrated
<1>8. \A x : Sound(g, x) <=> Sound(h, x)
  BY <1>6 DEF Sound
<1>9. Preflighted(g)
  BY <1>2, <1>5, <1>6, <1>8 DEF Preflighted, PastChecks, Migrating, Migrated
<1> QED
  BY <1>2, <1>4, <1>6, <1>7, <1>9, Moves DEF BootInv, BootTypeOK

\* A boot that fails, or a process that exits, leaves the recorded schema alone.
LEMMA ToOff ==
  ASSUME BootInv, NEW p \in Proc, proc' = [proc EXCEPT ![p] = Off],
         db' \in Volume, db'.applied = db.applied, db'.recorded = db.recorded
  PROVE  BootInv'
<1>1. Off.pc = "off"
  BY DEF Off
<1>2. Migrates(Off, db.recorded)
  BY <1>1 DEF Migrates, Migrating, Migrated
<1> QED
  BY <1>1, <1>2, Moves DEF BootInv, BootTypeOK

\* The fee account is the last of the chain checks (preflight, checkFee).
LEMMA checkFeeInv ==
  ASSUME BootInv, NEW p \in Proc, checkFee(p)
  PROVE  BootInv'
<1> DEFINE h == proc[p]
           g == [h EXCEPT !.pc = "open"]
<1>1. h \in Running /\ h # Off /\ h.pc = "mints" /\ h.left = {} /\ Settles(h.cfg.solana)
      /\ Preflighted(h) /\ db' = db /\ db \in Volume
  BY IsRunning DEF checkFee, BootInv
<1>2. CASE proc' = [proc EXCEPT ![p] = Off]
  BY <1>1, <1>2, ToOff
<1>3. CASE Goto(p, "open")
  <2>1. g \in Running /\ g.pc = "open" /\ g.cfg = h.cfg
    BY <1>1 DEF Running, PastChecks
  <2>2. proc' = [proc EXCEPT ![p] = g]
    BY <1>3 DEF Goto
  <2> HIDE DEF g
  <2>3. Migrates(g, db.recorded)
    BY <2>1 DEF Migrates, Migrating, Migrated
  <2>4. \A x : Sound(g, x) <=> Sound(h, x)
    BY <2>1 DEF Sound
  <2>5. Preflighted(g)
    BY <1>1, <2>1, <2>4 DEF Preflighted, PastChecks, Migrating, Migrated
  <2> QED
    BY <1>1, <2>1, <2>2, <2>3, <2>5, Moves DEF BootInv, BootTypeOK
<1> QED
  BY <1>2, <1>3 DEF checkFee

\* A process past the checks moves on among the steps that check nothing more.
LEMMA MovesOn ==
  ASSUME BootInv, NEW p \in Proc, NEW g \in Running, proc' = [proc EXCEPT ![p] = g],
         g.cfg = proc[p].cfg, proc[p].pc \in PastChecks,
         g.pc \in PastChecks, g.pc # "serving",
         db' \in Volume, db'.applied = db'.recorded, db.recorded \subseteq db'.recorded,
         \A v \in db'.recorded : 1 .. v \subseteq db'.recorded,
         Migrates(g, db'.recorded)
  PROVE  BootInv'
<1>1. proc[p] # Off
  BY DEF Off, PastChecks, Migrating, Migrated
<1>2. Settles(g.cfg.solana) => Preflighted(g)
  BY <1>1, StaysChecked DEF BootInv
<1>3. g.pc \notin {"genesis", "mints"}
  BY DEF PastChecks, Migrating, Migrated
<1> QED
  BY <1>2, <1>3, Moves

\* Open lists the migrations that the volume has not recorded (store.Open).
LEMMA OpenInv ==
  ASSUME BootInv, NEW p \in Proc, Open(p)
  PROVE  BootInv'
<1> DEFINE h == proc[p]
           g == [h EXCEPT !.pc = "check", !.version = 1]
<1>1. h \in Running /\ h.pc = "open" /\ db \in Volume
  BY IsRunning DEF Open
<1>2. g \in Running /\ g.pc = "check" /\ g.version = 1 /\ g.cfg = h.cfg
  BY <1>1 DEF Running, PastChecks, Migrating
<1>3. proc' = [proc EXCEPT ![p] = g]
  BY DEF Open
<1>4. db' \in Volume /\ db'.applied = db.applied /\ db'.recorded = db.recorded
  BY <1>1 DEF Open, Volume
<1> HIDE DEF g
<1>5. Migrates(g, db.recorded)
  BY <1>2, BootAssumption DEF Migrates, Migrating, Migrated
<1> QED
  BY <1>1, <1>2, <1>3, <1>4, <1>5, MovesOn DEF BootInv, PastChecks, Migrating

\* Once its version is recorded a process goes to the next one, or has them all.
LEMMA AfterMigration ==
  ASSUME NEW h \in Running, h.pc \in Migrating, NEW recorded \in SUBSET Migration,
         Migrates(h, recorded), h.version \in recorded
  PROVE  /\ After(h) \in Running /\ After(h).cfg = h.cfg
         /\ After(h).pc \in PastChecks \ {"serving"}
         /\ Migrates(After(h), recorded)
<1>1. h.version \in Migration /\ 1 .. h.version - 1 \subseteq recorded /\ h.version \in Nat
  BY DEF Migrates, Running
<1>2. 1 .. h.version \subseteq recorded
  BY <1>1
<1>3. CASE h.version + 1 \in Migration
  <2> DEFINE v == h.version + 1
             g == [h EXCEPT !.pc = "check", !.version = v]
  <2>1. After(h) = g /\ v \in Nat /\ "check" \in PastChecks
    BY <1>1, <1>3 DEF After, PastChecks, Migrating
  <2> HIDE DEF v
  <2>2. g \in Running /\ g.cfg = h.cfg /\ g.pc = "check" /\ g.version = v
    BY <2>1 DEF Running
  <2> USE DEF v
  <2> HIDE DEF g
  <2>3. Migrates(g, recorded)
    BY <1>1, <1>2, <1>3, <2>2 DEF Migrates, Migrating, Migrated
  <2> QED
    BY <2>1, <2>2, <2>3 DEF PastChecks, Migrating
<1>4. CASE h.version + 1 \notin Migration
  <2> DEFINE g == [h EXCEPT !.pc = "signer"]
  <2>1. After(h) = g
    BY <1>4 DEF After
  <2>2. g \in Running /\ g.cfg = h.cfg /\ g.pc = "signer"
    BY DEF Running, PastChecks, Migrated
  <2>3. recorded = Migration
    <3>1. h.version = Cardinality(Migration)
      BY <1>1, <1>4, BootAssumption
    <3> QED
      BY <1>2, <3>1, BootAssumption
  <2> HIDE DEF g
  <2>4. Migrates(g, recorded)
    BY <2>2, <2>3 DEF Migrates, Migrating, Migrated
  <2> QED
    BY <2>1, <2>2, <2>4 DEF PastChecks, Migrated
<1> QED
  BY <1>3, <1>4

\* The two reads of schema_migrations: on to the next version, or towards applying
\* this one.
LEMMA readsInv ==
  ASSUME BootInv, NEW p \in Proc, applyMigration(p) \/ recheck(p)
  PROVE  BootInv'
<1> DEFINE h == proc[p]
<1>1. h \in Running /\ h.pc \in {"check", "recheck"} /\ db \in Volume /\ db' = db
      /\ Migrates(h, db.recorded)
  BY IsRunning DEF applyMigration, recheck, BootInv
<1>2. db.recorded \in SUBSET Migration
  BY <1>1 DEF Volume
<1>3. h.pc \in PastChecks /\ h.pc \in Migrating
  BY <1>1 DEF PastChecks, Migrating
<1>4. CASE h.version \in db.recorded
  <2>1. proc' = [proc EXCEPT ![p] = After(h)]
    BY <1>4 DEF applyMigration, recheck
  <2> QED
    BY <1>1, <1>2, <1>3, <1>4, <2>1, AfterMigration, MovesOn DEF BootInv
<1>5. CASE h.version \notin db.recorded /\ h.pc = "check"
  <2> DEFINE g == [h EXCEPT !.pc = "recheck"]
  <2>1. proc' = [proc EXCEPT ![p] = g]
    BY <1>5 DEF applyMigration, recheck
  <2>2. g \in Running /\ g.cfg = h.cfg /\ g.pc = "recheck" /\ g.version = h.version
    BY <1>1 DEF Running, PastChecks, Migrating
  <2> HIDE DEF g
  <2>3. Migrates(g, db.recorded)
    BY <1>1, <2>2 DEF Migrates, Migrating, Migrated
  <2> QED
    BY <1>1, <1>3, <2>1, <2>2, <2>3, MovesOn DEF BootInv, PastChecks, Migrating
<1>6. CASE h.version \notin db.recorded /\ h.pc = "recheck"
  <2> DEFINE g == [h EXCEPT !.pc = "apply", !.snapshot = db.recorded]
  <2>1. proc' = [proc EXCEPT ![p] = g]
    BY <1>6 DEF applyMigration, recheck
  <2>2. g \in Running /\ g.cfg = h.cfg /\ g.pc = "apply" /\ g.version = h.version
        /\ g.snapshot = db.recorded
    BY <1>1, <1>2 DEF Running, PastChecks, Migrating
  <2> HIDE DEF g
  <2>3. Migrates(g, db.recorded)
    BY <1>1, <1>6, <2>2 DEF Migrates, Migrating, Migrated
  <2> QED
    BY <1>1, <1>3, <2>1, <2>2, <2>3, MovesOn DEF BootInv, PastChecks, Migrating
<1> QED
  BY <1>1, <1>4, <1>5, <1>6

\* apply runs a migration and its record in one transaction (store migrations).
LEMMA applyInv ==
  ASSUME BootInv, NEW p \in Proc, apply(p)
  PROVE  BootInv'
<1> DEFINE h == proc[p]
           g == [h EXCEPT !.pc = "commit"]
<1>1. h \in Running /\ h.pc = "apply" /\ db \in Volume /\ Migrates(h, db.recorded)
  BY IsRunning DEF apply, BootInv
<1>2. g \in Running /\ g.cfg = h.cfg /\ g.pc = "commit" /\ g.version = h.version
  BY <1>1 DEF Running, PastChecks, Migrating
<1>3. proc' = [proc EXCEPT ![p] = g]
  BY DEF apply, Goto
<1>4. db' \in Volume /\ db'.applied = db.applied /\ db'.recorded = db.recorded
  BY <1>1 DEF apply, Volume
<1> HIDE DEF g
<1>5. Migrates(g, db.recorded)
  BY <1>1, <1>2 DEF Migrates, Migrating, Migrated
<1> QED
  BY <1>1, <1>2, <1>3, <1>4, <1>5, MovesOn DEF BootInv, PastChecks, Migrating

\* The statement and its row are committed together, and in order.
LEMMA commitInv ==
  ASSUME BootInv, NEW p \in Proc, commit(p)
  PROVE  BootInv'
<1> DEFINE h == proc[p]
           v == h.version
<1>1. h \in Running /\ h.pc = "commit" /\ db \in Volume /\ Migrates(h, db.recorded)
  BY IsRunning DEF commit, BootInv
<1>2. v \in Migration /\ v \in Nat /\ 1 .. v - 1 \subseteq db.recorded
      /\ h.pc \in Migrating /\ h.pc \in PastChecks
  BY <1>1 DEF Migrates, Migrating, Running, PastChecks
<1>3. /\ db' \in Volume /\ db'.applied = db.applied \cup {v}
      /\ db'.recorded = db.recorded \cup {v}
  BY <1>1, <1>2 DEF commit, Volume
<1>4. proc' = [proc EXCEPT ![p] = After(h)]
  BY DEF commit
<1>5. \A u \in db'.recorded : 1 .. u \subseteq db'.recorded
  <2> SUFFICES ASSUME NEW u \in db'.recorded PROVE 1 .. u \subseteq db'.recorded
    OBVIOUS
  <2>1. CASE u \in db.recorded
    BY <1>3, <2>1 DEF BootInv
  <2>2. CASE u = v
    BY <1>2, <1>3, <2>2
  <2> QED
    BY <1>3, <2>1, <2>2
<1>6. db.recorded \in SUBSET Migration /\ db'.recorded \in SUBSET Migration
  BY <1>1, <1>3 DEF Volume
<1>7. db.recorded \subseteq db'.recorded /\ v \in db'.recorded
  BY <1>3
<1>8. Migrates(h, db'.recorded)
  BY <1>1, <1>6, <1>7, OthersRecord
<1>9. /\ After(h) \in Running /\ After(h).cfg = h.cfg
      /\ After(h).pc \in PastChecks \ {"serving"}
      /\ Migrates(After(h), db'.recorded)
  BY <1>1, <1>2, <1>6, <1>7, <1>8, AfterMigration
<1>10. db'.applied = db'.recorded
  BY <1>3 DEF BootInv
<1> QED
  BY <1>2, <1>3, <1>4, <1>5, <1>7, <1>9, <1>10, MovesOn

\* The signing key is loaded or created after the schema is in place.
LEMMA LoadOrCreateSignerInv ==
  ASSUME BootInv, NEW p \in Proc, LoadOrCreateSigner(p)
  PROVE  BootInv'
<1> DEFINE h == proc[p]
           g == [h EXCEPT !.pc = "rates"]
<1>1. h \in Running /\ h.pc = "signer" /\ db \in Volume /\ Migrates(h, db.recorded) /\ db' = db
  BY IsRunning DEF LoadOrCreateSigner, BootInv
<1>2. g \in Running /\ g.cfg = h.cfg /\ g.pc = "rates"
  BY <1>1 DEF Running, PastChecks, Migrated
<1>3. proc' = [proc EXCEPT ![p] = g]
  BY DEF LoadOrCreateSigner, Goto
<1> HIDE DEF g
<1>4. Migrates(g, db.recorded)
  BY <1>1, <1>2 DEF Migrates, Migrating, Migrated
<1> QED
  BY <1>1, <1>2, <1>3, <1>4, MovesOn DEF BootInv, PastChecks, Migrated

\* Every governed mint must have a rate before the process serves (checkRates).
LEMMA checkRatesInv ==
  ASSUME BootInv, NEW p \in Proc, checkRates(p)
  PROVE  BootInv'
<1> DEFINE h == proc[p]
           g == [h EXCEPT !.pc = "serving"]
<1>1. h \in Running /\ h # Off /\ h.pc = "rates" /\ db \in Volume /\ Migrates(h, db.recorded)
      /\ db' = db
  BY IsRunning DEF checkRates, BootInv
<1>2. g \in Running /\ g.cfg = h.cfg /\ g.pc = "serving"
  BY <1>1 DEF Running, PastChecks, Migrated
<1>3. proc' = [proc EXCEPT ![p] = g]
  BY DEF checkRates, Goto
<1>4. Settles(h.cfg.solana) =>
        \A r \in RegistryOf(h.cfg) : \A t \in r.tokens : t.address \in DOMAIN h.cfg.policy.rates
  BY DEF checkRates, Settling, Solana, Missing, governedAddresses, Registry, RegistryOf
<1>5. Settles(h.cfg.solana) => Preflighted(h)
  BY <1>1 DEF BootInv
<1> HIDE DEF g
<1>6. Migrates(g, db.recorded)
  BY <1>1, <1>2 DEF Migrates, Migrating, Migrated
<1>7. \A x : Sound(g, x) <=> Sound(h, x)
  BY <1>2 DEF Sound
<1>8. Settles(g.cfg.solana) => Preflighted(g)
  BY <1>1, <1>2, <1>4, <1>5, <1>7 DEF Preflighted, PastChecks, Migrated, Migrating
<1> QED
  BY <1>1, <1>2, <1>3, <1>6, <1>8, Moves DEF BootInv

\* A process stops wherever it is: nothing it did not commit stays.
LEMMA ExitInv ==
  ASSUME BootInv, NEW p \in Proc, Exit(p)
  PROVE  BootInv'
<1>1. db' \in Volume /\ db'.applied = db.applied /\ db'.recorded = db.recorded
  BY DEF Exit, Volume, BootInv, BootTypeOK
<1> QED
  BY <1>1, ToOff DEF Exit

-----------------------------------------------------------------------------

\* The invariant holds on an empty volume and every step keeps it.
THEOREM BootInvariant == BootSpec => []BootInv
<1>1. BootInit => BootInv
  <2> SUFFICES ASSUME BootInit PROVE BootInv
    OBVIOUS
  <2>1. BootTypeOK
    BY DEF BootInit, BootTypeOK, Volume
  <2>2. \A p \in Proc : proc[p] = Off
    BY DEF BootInit
  <2>3. Off.pc = "off"
    BY DEF Off
  <2>4. db.applied = {} /\ db.recorded = {}
    BY DEF BootInit
  <2> QED
    BY <2>1, <2>2, <2>3, <2>4 DEF BootInv, Migrates, Migrating, Migrated
<1>2. BootInv /\ [BootNext]_bootVars => BootInv'
  <2> SUFFICES ASSUME BootInv, [BootNext]_bootVars PROVE BootInv'
    OBVIOUS
  <2>1. ASSUME NEW p \in Proc,
               \/ Start(p) \/ checkGenesis(p) \/ checkMint(p) \/ checkFee(p)
               \/ Open(p) \/ applyMigration(p) \/ recheck(p) \/ apply(p) \/ commit(p)
               \/ LoadOrCreateSigner(p) \/ checkRates(p) \/ Exit(p)
        PROVE  BootInv'
    BY <2>1, StartInv, checkGenesisInv, checkMintInv, checkFeeInv, OpenInv, readsInv, applyInv,
       commitInv, LoadOrCreateSignerInv, checkRatesInv, ExitInv
  <2>2. CASE (\E m \in Rotating : Rotate(m)) \/ Fund \/ UNCHANGED bootVars
    <3>1. proc' = proc /\ db' = db
      BY <2>2 DEF Rotate, Fund, bootVars
    <3> QED
      BY <3>1 DEF BootInv, BootTypeOK
  <2> QED
    BY <2>1, <2>2 DEF BootNext
<1> QED
  BY <1>1, <1>2, PTL DEF BootSpec

\* However boots, failures and restarts interleave, schema_migrations says exactly
\* which statements took effect, in order, and a process past Open finds all of
\* them (store.go applyMigration).
THEOREM SchemaIsRecorded == BootSpec => []SchemaMatchesRecord
<1>1. BootInv => SchemaMatchesRecord
  BY DEF BootInv, Migrates, SchemaMatchesRecord, Migrated
<1> QED
  BY <1>1, BootInvariant, PTL

\* The loser of a race of two processes on one volume does not run the statement
\* of a migration that is in place (store.go applyMigration, the second read).
THEOREM AppliedOnce == BootSpec => []NeverAppliesTwice
<1>1. BootInv => NeverAppliesTwice
  BY DEF BootInv, Migrates, NeverAppliesTwice, CanWrite
<1> QED
  BY <1>1, BootInvariant, PTL

\* A process that settles and has started serving was checked against its chain,
\* its mints, its rates and the published fee, whatever its settings (main.go run,
\* preflight.Check, config.Parse).
THEOREM ServingIsChecked == BootSpec => []ServesWhatItChecked
<1>1. BootInv => ServesWhatItChecked
  <2> SUFFICES ASSUME BootInv, NEW p \in Proc, proc[p].pc = "serving", Settling(p)
               PROVE  FitToSettle(p)
    BY DEF ServesWhatItChecked
  <2> DEFINE h == proc[p]
             s == h.cfg.solana
  <2>1. h \in Running /\ h # Off /\ Settles(s) /\ h.cfg \in Configs /\ Preflighted(h)
    BY IsRunning DEF Settling, Solana, BootInv, Running
  <2>2. ~h.cfg.sandbox /\ (IsProduction(s.cluster) => s.fee = DefaultFee)
    BY <2>1, ParsedConfig
  <2>3. CheckEndpoint(s.cluster, s.host, s.hosts) /\ VerifyGenesis(s.cluster, Chain[s.host].genesis)
    BY <2>1 DEF Preflighted, PastChecks, Migrated
  <2>4. GenesisHash(s.cluster) # Unset => Chain[s.host].genesis = GenesisHash(s.cluster)
    BY <2>3 DEF VerifyGenesis
  <2>5. s.cluster = "localnet" => Resolve[s.host] = {"loopback"} \/ s.host \in s.hosts
    BY <2>3 DEF CheckEndpoint, RequiresLoopback
  <2>6. \A r \in RegistryOf(h.cfg) : \A t \in r.tokens :
          Sound(h, t) /\ t.address \in DOMAIN h.cfg.policy.rates
    BY <2>1 DEF Preflighted, PastChecks, Migrated
  <2>7. Registry(p) = RegistryOf(h.cfg) /\ Solana(p) = s
    BY DEF Registry, RegistryOf, Solana
  <2>8. ASSUME NEW a \in governedAddresses(p)
        PROVE  /\ a \in DOMAIN Chain[s.host].accounts
               /\ \A r \in Registry(p) : \A t \in Lookup(r, a) :
                    Chain[s.host].accounts[a].decimals = t.decimals
               /\ a \in DOMAIN h.cfg.policy.rates
    <3>1. PICK r \in RegistryOf(h.cfg) : \E t \in r.tokens : t.address = a
      BY <2>7 DEF governedAddresses
    <3>2. \A q \in RegistryOf(h.cfg) : \A t \in Lookup(q, a) : t \in q.tokens /\ t.address = a
      BY DEF Lookup
    <3> QED
      BY <2>6, <2>7, <3>1, <3>2 DEF Sound
  <2> QED
    BY <2>2, <2>4, <2>5, <2>7, <2>8 DEF FitToSettle
<1> QED
  BY <1>1, BootInvariant, PTL

-----------------------------------------------------------------------------
(* Mint verification                                                        *)

Found == Reading \cup {Unreachable}

\* The record of a caller, by how far it has come.
Inside == [pc : {"lookup"}, at : Nat, gone : BOOLEAN]
Waiting == [pc : {"waiting"}, at : Nat, gone : BOOLEAN, leader : Caller]
Leading == [pc : {"reading"}, at : Nat, gone : BOOLEAN, since : Nat]
Looked == [pc : {"sampled", "returned", "publish"}, at : Nat, gone : BOOLEAN, since : Nat,
           reading : Found, sampled : Nat]
Told == [pc : {"woken", "answered"}, verdict : Found \cup {Cancelled}, sampled : Nat, at : Nat,
         gone : BOOLEAN]
Record == {Idle} \cup Inside \cup Waiting \cup Leading \cup Looked \cup Told
Observation == [reading : Reading, sampled : Nat, at : Nat]

InFlight == {"reading", "sampled", "returned"}

MintTypeOK ==
  /\ cache \subseteq Observation
  /\ inflight \subseteq Caller
  /\ drifts \in Nat
  /\ caller \in [Caller -> Record]
  /\ now \in Nat

\* The times a caller carries at time t: how old what it holds can be by then.
Timely(h, t) ==
  /\ h.pc # "idle" => h.at <= t
  /\ h.pc = "reading" => h.at <= h.since /\ h.since <= t /\ t <= h.since + TTL
  /\ h.pc = "sampled" => /\ h.at <= h.since /\ h.since <= h.sampled /\ h.sampled <= t
                         /\ t <= h.since + TTL
  /\ h.pc = "returned" => h.since = t
  /\ h.pc \in {"returned", "publish"} =>
       h.at <= h.sampled /\ h.sampled <= h.since /\ h.since <= h.sampled + TTL
  /\ h.pc \in {"woken", "answered"} => h.at < h.sampled + 2 * TTL

\* Whoever waits, waits for a read that has not been published yet, and came
\* before it was over.
Joined(w, leader) ==
  w.pc = "waiting" => /\ leader.pc \in InFlight \cup {"publish"}
                      /\ leader.pc = "publish" => w.at <= leader.since

Uncancelled(h) ==
  /\ h.pc = "woken" => h.verdict # Cancelled
  /\ h.pc = "answered" /\ h.verdict = Cancelled => h.gone

MintInv ==
  /\ MintTypeOK
  /\ \A obs \in cache : obs.at <= obs.sampled + TTL
  /\ \A c \in Caller : c \in inflight <=> caller[c].pc \in InFlight
  /\ \A c, d \in inflight : c = d
  /\ \A c \in Caller : /\ Timely(caller[c], now)
                       /\ Joined(caller[c], caller[caller[c].leader])
                       /\ Uncancelled(caller[c])

-----------------------------------------------------------------------------

\* The program counter of a caller says which fields it has.
LEMMA Shape ==
  ASSUME NEW h \in Record
  PROVE  /\ h.pc = "idle" => h = Idle
         /\ h.pc = "lookup" => h \in Inside
         /\ h.pc = "waiting" => h \in Waiting
         /\ h.pc = "reading" => h \in Leading
         /\ h.pc \in {"sampled", "returned", "publish"} => h \in Looked
         /\ h.pc \in {"woken", "answered"} => h \in Told
         /\ h.pc \in {"idle", "lookup", "waiting", "reading", "sampled", "returned", "publish",
                      "woken", "answered"}
  BY DEF Record, Idle, Inside, Waiting, Leading, Looked, Told

\* One caller moves to g and the clock stands still: what g has to satisfy.
LEMMA CallerMoves ==
  ASSUME MintInv, NEW c \in Caller, NEW g \in Record, Becomes(c, g), UNCHANGED now,
         drifts' \in Nat, cache' \subseteq Observation,
         \A obs \in cache' : obs.at <= obs.sampled + TTL,
         inflight' \subseteq Caller, \A x, y \in inflight' : x = y,
         c \in inflight' <=> g.pc \in InFlight,
         \A d \in Caller \ {c} : d \in inflight' <=> d \in inflight,
         Timely(g, now), Uncancelled(g),
         g.pc = "waiting" => g.leader \in Caller \ {c} /\ Joined(g, caller[g.leader]),
         caller[c].pc \in InFlight \cup {"publish"} =>
           /\ g.pc \in InFlight \cup {"publish"}
           /\ g.pc = "publish" => \/ g.since = now
                                  \/ caller[c].pc = "publish" /\ g.since = caller[c].since
  PROVE  MintInv'
<1>1. /\ caller' \in [Caller -> Record] /\ caller'[c] = g
      /\ \A d \in Caller \ {c} : caller'[d] = caller[d]
  BY DEF MintInv, MintTypeOK, Becomes
<1>2. MintTypeOK'
  BY <1>1 DEF MintInv, MintTypeOK
<1>3. \A d \in Caller : d \in inflight' <=> caller'[d].pc \in InFlight
  BY <1>1 DEF MintInv
<1>4. \A d \in Caller : Timely(caller'[d], now') /\ Uncancelled(caller'[d])
  BY <1>1 DEF MintInv
<1>5. ASSUME NEW d \in Caller PROVE Joined(caller'[d], caller'[caller'[d].leader])
  <2>1. CASE d = c
    BY <1>1, <2>1 DEF Joined
  <2>2. CASE d # c
    <3>1. caller'[d] = caller[d] /\ caller[d] \in Record
      BY <1>1, <2>2 DEF MintInv, MintTypeOK
    <3>2. SUFFICES ASSUME caller[d].pc = "waiting"
                   PROVE  Joined(caller[d], caller'[caller[d].leader])
      BY <3>1 DEF Joined
    <3>3. caller[d].leader \in Caller /\ caller[d].at \in Nat /\ caller[d].at <= now
      BY <3>1, <3>2, Shape DEF MintInv, Timely, Waiting
    <3>4. Joined(caller[d], caller[caller[d].leader])
      BY DEF MintInv
    <3>5. CASE caller[d].leader # c
      BY <1>1, <3>3, <3>4, <3>5
    <3>6. CASE caller[d].leader = c
      BY <1>1, <3>2, <3>3, <3>4, <3>6 DEF Joined
    <3> QED
      BY <3>5, <3>6
  <2> QED
    BY <2>1, <2>2
<1> QED
  BY <1>2, <1>3, <1>4, <1>5 DEF MintInv

\* Entering, leaving and giving up move one caller and nothing else.
LEMMA VerifyInv ==
  ASSUME MintInv, NEW c \in Caller, Verify(c)
  PROVE  MintInv'
<1> DEFINE g == [pc |-> "lookup", at |-> now, gone |-> FALSE]
<1>1. g \in Record /\ g.pc = "lookup" /\ g.at = now /\ now \in Nat
  BY DEF Record, Inside, MintInv, MintTypeOK
<1>2. caller[c].pc = "idle" /\ Becomes(c, g) /\ UNCHANGED << cache, inflight, drifts, now >>
  BY DEF Verify, Idle
<1> HIDE DEF g
<1>3. Timely(g, now) /\ Uncancelled(g)
  BY <1>1 DEF Timely, Uncancelled
<1> QED
  BY <1>1, <1>2, <1>3, CallerMoves DEF MintInv, MintTypeOK, InFlight

\* A caller that was answered returns and holds nothing (Verify).
LEMMA ReturnInv ==
  ASSUME MintInv, NEW c \in Caller, Return(c)
  PROVE  MintInv'
<1>1. Idle \in Record /\ Idle.pc = "idle"
  BY DEF Record, Idle
<1>2. caller[c].pc = "answered" /\ Becomes(c, Idle) /\ UNCHANGED << cache, inflight, drifts, now >>
  BY DEF Return
<1>3. Timely(Idle, now) /\ Uncancelled(Idle)
  BY <1>1 DEF Timely, Uncancelled
<1> QED
  BY <1>1, <1>2, <1>3, CallerMoves DEF MintInv, MintTypeOK, InFlight

\* A caller whose context ends walks away; a read it leads goes on (Verify).
LEMMA GiveUpInv ==
  ASSUME MintInv, NEW c \in Caller, GiveUp(c)
  PROVE  MintInv'
<1> DEFINE h == caller[c]
           g == [h EXCEPT !.gone = TRUE]
<1>1. h \in Record /\ h.pc \notin {"idle", "answered"}
  BY DEF MintInv, MintTypeOK, GiveUp
<1>2. /\ g \in Record /\ g.pc = h.pc /\ g.at = h.at
      /\ h.pc = "waiting" => g.leader = h.leader
      /\ h.pc \in {"reading", "sampled", "returned", "publish"} => g.since = h.since
      /\ h.pc \in {"sampled", "returned", "publish", "woken"} => g.sampled = h.sampled
      /\ h.pc = "woken" => g.verdict = h.verdict
  BY <1>1, Shape DEF Record, Inside, Waiting, Leading, Looked, Told
<1>3. Becomes(c, g) /\ UNCHANGED << cache, inflight, drifts, now >>
  BY DEF GiveUp
<1>4. Timely(h, now) /\ Uncancelled(h) /\ Joined(h, caller[h.leader])
  BY DEF MintInv
<1>5. h.pc = "waiting" => h.leader \in Caller
  BY <1>1, Shape DEF Waiting
<1>6. c \in inflight <=> h.pc \in InFlight
  BY DEF MintInv
<1> HIDE DEF g
<1>7. Timely(g, now) /\ Uncancelled(g)
  BY <1>1, <1>2, <1>4 DEF Timely, Uncancelled
<1>8. g.pc = "waiting" => g.leader \in Caller \ {c} /\ Joined(g, caller[g.leader])
  BY <1>2, <1>4, <1>5 DEF Joined, InFlight
<1>9. h.pc \in InFlight \cup {"publish"} =>
        /\ g.pc \in InFlight \cup {"publish"}
        /\ g.pc = "publish" => h.pc = "publish" /\ g.since = h.since
  BY <1>2
<1> QED
  BY <1>2, <1>3, <1>6, <1>7, <1>8, <1>9, CallerMoves DEF MintInv, MintTypeOK

\* observe answers from an observation at most a window old, which was itself
\* taken at most a window after the chain was looked at; joins the one read in
\* flight; or starts it.
LEMMA observeInv ==
  ASSUME MintInv, NEW c \in Caller, observe(c)
  PROVE  MintInv'
<1> DEFINE h == caller[c]
           hit == {obs \in cache : Fresh(obs, h.at)}
<1>1. /\ h \in Inside /\ h.pc = "lookup" /\ h.at \in Nat /\ h.gone \in BOOLEAN /\ h.at <= now
      /\ now \in Nat /\ TTL \in Nat
  BY Shape, MintAssumption DEF MintInv, MintTypeOK, observe, Timely, Inside
<1>2. UNCHANGED << cache, drifts, now >> /\ c \notin inflight
  BY <1>1 DEF observe, MintInv, InFlight
<1>3. ASSUME NEW obs \in hit, Becomes(c, Answer(h, obs.reading, obs.sampled)), UNCHANGED inflight
      PROVE  MintInv'
  <2> DEFINE g == Answer(h, obs.reading, obs.sampled)
  <2>1. /\ obs \in Observation /\ obs.at <= obs.sampled + TTL /\ h.at < obs.at + TTL
    BY DEF MintInv, MintTypeOK, Fresh
  <2>2. /\ g \in Record /\ g.pc = "answered" /\ g.verdict \in Reading
        /\ g.sampled = obs.sampled /\ g.at = h.at
    BY <1>1, <2>1 DEF Record, Told, Answer, Observation, Found
  <2>3. h.at < obs.sampled + 2 * TTL
    BY <1>1, <2>1 DEF Observation
  <2> HIDE DEF g
  <2>4. Timely(g, now) /\ Uncancelled(g)
    BY <1>1, <2>2, <2>3 DEF Timely, Uncancelled, Reading, Cancelled
  <2>5. Becomes(c, g)
    BY <1>3 DEF g
  <2> QED
    BY <1>1, <1>2, <1>3, <2>2, <2>4, <2>5, CallerMoves DEF MintInv, MintTypeOK, InFlight
<1>4. ASSUME NEW leader \in inflight, UNCHANGED inflight,
             Becomes(c, [pc |-> "waiting", at |-> h.at, gone |-> h.gone, leader |-> leader])
      PROVE  MintInv'
  <2> DEFINE g == [pc |-> "waiting", at |-> h.at, gone |-> h.gone, leader |-> leader]
  <2>1. leader \in Caller \ {c} /\ caller[leader].pc \in InFlight
    BY <1>2 DEF MintInv, MintTypeOK
  <2>2. g \in Record /\ g.pc = "waiting" /\ g.at = h.at /\ g.leader = leader
    BY <1>1, <2>1 DEF Record, Waiting
  <2> HIDE DEF g
  <2>3. Timely(g, now) /\ Uncancelled(g) /\ Joined(g, caller[g.leader])
    BY <1>1, <2>1, <2>2 DEF Timely, Uncancelled, Joined, InFlight
  <2>4. Becomes(c, g)
    BY <1>4 DEF g
  <2> QED
    BY <1>1, <1>2, <1>4, <2>1, <2>2, <2>3, <2>4, CallerMoves DEF MintInv, MintTypeOK, InFlight
<1>5. ASSUME inflight = {}, inflight' = {c},
             Becomes(c, [pc |-> "reading", at |-> h.at, gone |-> h.gone, since |-> now])
      PROVE  MintInv'
  <2> DEFINE g == [pc |-> "reading", at |-> h.at, gone |-> h.gone, since |-> now]
  <2>1. g \in Record /\ g.pc = "reading" /\ g.at = h.at /\ g.since = now
    BY <1>1 DEF Record, Leading
  <2> HIDE DEF g
  <2>2. Timely(g, now) /\ Uncancelled(g)
    BY <1>1, <2>1 DEF Timely, Uncancelled
  <2>3. Becomes(c, g)
    BY <1>5 DEF g
  <2> QED
    BY <1>1, <1>2, <1>5, <2>1, <2>2, <2>3, CallerMoves DEF MintInv, MintTypeOK, InFlight
<1> QED
  BY <1>3, <1>4, <1>5 DEF observe

\* The node looks at the account while the read is within its timeout.
LEMMA sampleInv ==
  ASSUME MintInv, NEW c \in Caller, sample(c)
  PROVE  MintInv'
<1> DEFINE h == caller[c]
<1>1. PICK reading \in Reading :
        Becomes(c, [pc |-> "sampled", at |-> h.at, gone |-> h.gone, since |-> h.since,
                 reading |-> reading, sampled |-> now])
  BY DEF sample
<1> DEFINE g == [pc |-> "sampled", at |-> h.at, gone |-> h.gone, since |-> h.since,
                 reading |-> reading, sampled |-> now]
<1>2. h \in Leading /\ h.pc = "reading" /\ now \in Nat
  BY Shape DEF MintInv, MintTypeOK, sample
<1>3. h.at <= h.since /\ h.since <= now /\ now <= h.since + TTL /\ h.at <= now
  BY <1>2 DEF MintInv, Timely
<1>4. /\ g \in Record /\ g.pc = "sampled" /\ g.at = h.at /\ g.since = h.since /\ g.sampled = now
      /\ c \in inflight
  BY <1>2 DEF Record, Looked, Leading, Found, MintInv, InFlight
<1>5. Becomes(c, g) /\ UNCHANGED << cache, inflight, drifts, now >>
  BY <1>1 DEF sample
<1> HIDE DEF g
<1>6. Timely(g, now) /\ Uncancelled(g)
  BY <1>2, <1>3, <1>4 DEF Timely, Uncancelled, Leading
<1> QED
  BY <1>2, <1>4, <1>5, <1>6, CallerMoves DEF MintInv, MintTypeOK, InFlight

\* The read ends within its timeout, so what it brings is at most a window old.
LEMMA fetchInv ==
  ASSUME MintInv, NEW c \in Caller, fetch(c)
  PROVE  MintInv'
<1> DEFINE h == caller[c]
<1>1. /\ h.pc \in {"reading", "sampled"} /\ h \in Record /\ now \in Nat /\ TTL \in Nat
      /\ Timely(h, now) /\ c \in inflight /\ UNCHANGED << cache, inflight, drifts, now >>
  BY MintAssumption DEF MintInv, MintTypeOK, fetch, InFlight
<1>2. ASSUME h.pc = "sampled", Becomes(c, [h EXCEPT !.pc = "returned", !.since = now])
      PROVE  MintInv'
  <2> DEFINE g == [h EXCEPT !.pc = "returned", !.since = now]
  <2>1. h \in Looked
    BY <1>1, <1>2, Shape
  <2>2. /\ g \in Record /\ g.pc = "returned" /\ g.at = h.at /\ g.since = now
        /\ g.sampled = h.sampled
    BY <1>1, <2>1 DEF Record, Looked
  <2>3. Becomes(c, g)
    BY <1>2
  <2>4. h.at \in Nat /\ h.since \in Nat /\ h.sampled \in Nat
    BY <2>1 DEF Looked
  <2>5. h.at <= h.since /\ h.since <= h.sampled /\ h.sampled <= now /\ now <= h.since + TTL
    BY <1>1, <1>2 DEF Timely
  <2> HIDE DEF g, h
  <2>6. Timely(g, now) /\ Uncancelled(g)
    BY <1>1, <2>2, <2>4, <2>5 DEF Timely, Uncancelled
  <2> QED
    BY <1>1, <2>2, <2>3, <2>6, CallerMoves DEF MintInv, MintTypeOK, InFlight
<1>3. ASSUME Becomes(c, [pc |-> "returned", at |-> h.at, gone |-> h.gone, since |-> now,
                      reading |-> Unreachable, sampled |-> now])
      PROVE  MintInv'
  <2> DEFINE g == [pc |-> "returned", at |-> h.at, gone |-> h.gone, since |-> now,
                   reading |-> Unreachable, sampled |-> now]
  <2>1. h.at \in Nat /\ h.gone \in BOOLEAN /\ h.at <= now
    BY <1>1, Shape DEF Leading, Looked, Timely
  <2>2. /\ g \in Record /\ g.pc = "returned" /\ g.at = h.at /\ g.since = now
        /\ g.sampled = now
    BY <1>1, <2>1 DEF Record, Looked, Found
  <2>3. Becomes(c, g)
    BY <1>3
  <2> HIDE DEF g, h
  <2>4. Timely(g, now) /\ Uncancelled(g)
    BY <1>1, <2>1, <2>2 DEF Timely, Uncancelled
  <2> QED
    BY <1>1, <2>2, <2>3, <2>4, CallerMoves DEF MintInv, MintTypeOK, InFlight
<1> QED
  BY <1>2, <1>3 DEF fetch

\* What is kept was returned this instant, so an observation's own age starts at
\* the end of its read.
LEMMA storeInv ==
  ASSUME MintInv, NEW c \in Caller, store(c)
  PROVE  MintInv'
<1> DEFINE h == caller[c]
           g == [h EXCEPT !.pc = "publish"]
           obs == [reading |-> h.reading, sampled |-> h.sampled, at |-> h.since]
<1>1. h.pc = "returned" /\ h \in Looked /\ Timely(h, now) /\ h.since = now /\ drifts \in Nat
  BY Shape DEF MintInv, MintTypeOK, store, Timely
<1>2. /\ g \in Record /\ g.pc = "publish" /\ g.at = h.at /\ g.since = h.since
      /\ g.sampled = h.sampled
  BY <1>1 DEF Record, Looked
<1>3. Becomes(c, g) /\ UNCHANGED now /\ inflight' = inflight \ {c}
  BY DEF store
<1>4. cache' = (IF h.reading \in Reading THEN {obs} ELSE cache)
  BY DEF store
<1>5. drifts' \in Nat
  BY <1>1 DEF store
<1>6. h.reading \in Reading => obs \in Observation /\ obs.at <= obs.sampled + TTL
  BY <1>1 DEF Looked, Observation, Timely
<1> HIDE DEF obs
<1>7. cache' \subseteq Observation /\ \A o \in cache' : o.at <= o.sampled + TTL
  BY <1>4, <1>6 DEF MintInv, MintTypeOK
<1> HIDE DEF g
<1>8. Timely(g, now) /\ Uncancelled(g)
  BY <1>1, <1>2 DEF Timely, Uncancelled
<1> QED
  BY <1>1, <1>2, <1>3, <1>5, <1>7, <1>8, CallerMoves DEF MintInv, MintTypeOK, InFlight

\* A waiter leaves with what it was woken with, or with its own cancellation.
LEMMA waitInv ==
  ASSUME MintInv, NEW c \in Caller, wait(c)
  PROVE  MintInv'
<1> DEFINE h == caller[c]
<1>1. /\ h \in Record /\ Timely(h, now) /\ Uncancelled(h) /\ now \in Nat /\ TTL \in Nat \ {0}
      /\ UNCHANGED << cache, inflight, drifts, now >> /\ h.pc \in {"waiting", "woken"}
      /\ c \notin inflight
  BY MintAssumption DEF MintInv, MintTypeOK, wait, InFlight
<1>2. ASSUME h.pc = "woken", Becomes(c, [h EXCEPT !.pc = "answered"])
      PROVE  MintInv'
  <2> DEFINE g == [h EXCEPT !.pc = "answered"]
  <2>1. /\ g \in Record /\ g.pc = "answered" /\ g.at = h.at /\ g.verdict = h.verdict
        /\ g.sampled = h.sampled
    BY <1>1, <1>2, Shape DEF Record, Told
  <2>2. Becomes(c, g)
    BY <1>2
  <2> HIDE DEF g
  <2>3. Timely(g, now) /\ Uncancelled(g)
    BY <1>1, <1>2, <2>1 DEF Timely, Uncancelled
  <2> QED
    BY <1>1, <2>1, <2>2, <2>3, CallerMoves DEF MintInv, MintTypeOK, InFlight
<1>3. ASSUME h.gone, Becomes(c, Answer(h, Cancelled, now))
      PROVE  MintInv'
  <2> DEFINE g == Answer(h, Cancelled, now)
  <2>1. h.at \in Nat /\ h.gone \in BOOLEAN /\ h.at <= now
    BY <1>1, Shape DEF Waiting, Told, Timely
  <2>2. /\ g \in Record /\ g.pc = "answered" /\ g.at = h.at /\ g.gone = h.gone
        /\ g.sampled = now
    BY <1>1, <2>1 DEF Record, Told, Answer
  <2>3. Becomes(c, g)
    BY <1>3
  <2> HIDE DEF g
  <2>4. Timely(g, now) /\ Uncancelled(g)
    BY <1>1, <1>3, <2>1, <2>2 DEF Timely, Uncancelled
  <2> QED
    BY <1>1, <2>2, <2>3, <2>4, CallerMoves DEF MintInv, MintTypeOK, InFlight
<1> QED
  BY <1>2, <1>3 DEF wait

\* A published read answers its leader and wakes everyone who joined it: each of
\* them asked before the read was over.
LEMMA publishInv ==
  ASSUME MintInv, NEW c \in Caller, publish(c)
  PROVE  MintInv'
<1> DEFINE h == caller[c]
           verdict == IF h.gone THEN Cancelled ELSE h.reading
           joined(w) == caller[w].pc = "waiting" /\ caller[w].leader = c
           woken(w) == [Answer(caller[w], h.reading, h.sampled) EXCEPT !.pc = "woken"]
<1>1. /\ h.pc = "publish" /\ h \in Looked /\ Timely(h, now) /\ now \in Nat /\ TTL \in Nat \ {0}
      /\ UNCHANGED << cache, inflight, drifts, now >>
  BY Shape, MintAssumption DEF MintInv, MintTypeOK, publish
<1>2. /\ h.at \in Nat /\ h.gone \in BOOLEAN /\ h.since \in Nat /\ h.reading \in Found
      /\ h.sampled \in Nat /\ h.at <= h.sampled /\ h.since <= h.sampled + TTL /\ h.at <= now
  BY <1>1 DEF Looked, Timely
<1>3. /\ caller'[c] = Answer(h, verdict, h.sampled) /\ DOMAIN caller' = Caller
      /\ caller' = [w \in Caller |-> caller'[w]]
      /\ \A w \in Caller \ {c} : caller'[w] = IF joined(w) THEN woken(w) ELSE caller[w]
  BY DEF publish
<1>4. /\ caller'[c] \in Record /\ caller'[c].pc = "answered"
      /\ Timely(caller'[c], now) /\ Uncancelled(caller'[c])
  <2> DEFINE g == Answer(h, verdict, h.sampled)
  <2>1. /\ g \in Record /\ g.pc = "answered" /\ g.at = h.at /\ g.sampled = h.sampled
        /\ g.verdict = verdict /\ g.gone = h.gone
    BY <1>2 DEF Answer, Record, Told, Found
  <2>2. verdict = Cancelled => h.gone
    BY <1>2 DEF Found, Reading, Unreachable, Cancelled
  <2> HIDE DEF g, verdict, h
  <2>3. Timely(g, now) /\ Uncancelled(g)
    BY <1>1, <1>2, <2>1, <2>2 DEF Timely, Uncancelled
  <2> QED
    BY <1>3, <2>1, <2>3 DEF g, h, verdict
<1>5. ASSUME NEW w \in Caller \ {c}, joined(w)
      PROVE  /\ caller'[w] \in Record /\ caller'[w].pc = "woken"
             /\ Timely(caller'[w], now) /\ Uncancelled(caller'[w])
  <2> DEFINE g == woken(w)
  <2>1. caller[w] \in Waiting /\ caller[w].at <= now /\ caller[w].at <= h.since
    BY <1>1, <1>5, Shape DEF MintInv, MintTypeOK, Timely, Joined
  <2>2. caller[w].at \in Nat /\ caller[w].gone \in BOOLEAN
    BY <2>1 DEF Waiting
  <2>3. /\ g \in Record /\ g.pc = "woken" /\ g.at = caller[w].at /\ g.sampled = h.sampled
        /\ g.verdict = h.reading
    BY <1>2, <2>2 DEF Answer, Record, Told
  <2>4. h.reading # Cancelled
    BY <1>2 DEF Found, Reading, Unreachable, Cancelled
  <2>5. caller[w].at < h.sampled + 2 * TTL
    BY <1>1, <1>2, <2>1, <2>2
  <2>6. caller'[w] = g
    BY <1>3, <1>5
  <2> HIDE DEF g, h
  <2>7. Timely(g, now) /\ Uncancelled(g)
    BY <1>1, <2>1, <2>2, <2>3, <2>4, <2>5 DEF Timely, Uncancelled
  <2> QED
    BY <2>3, <2>6, <2>7
<1>6. ASSUME NEW w \in Caller \ {c}, ~joined(w)
      PROVE  caller'[w] = caller[w] /\ caller[w] \in Record
             /\ Timely(caller'[w], now) /\ Uncancelled(caller'[w])
  BY <1>3, <1>6 DEF MintInv, MintTypeOK
<1>7. caller' \in [Caller -> Record]
  BY <1>3, <1>4, <1>5, <1>6
<1>8. ASSUME NEW w \in Caller PROVE w \in inflight <=> caller'[w].pc \in InFlight
  BY <1>1, <1>4, <1>5, <1>6 DEF MintInv, InFlight
<1>9. ASSUME NEW w \in Caller PROVE Joined(caller'[w], caller'[caller'[w].leader])
  <2>1. SUFFICES ASSUME caller'[w].pc = "waiting"
                 PROVE  Joined(caller'[w], caller'[caller'[w].leader])
    BY DEF Joined
  <2>2. w # c /\ ~joined(w) /\ caller'[w] = caller[w] /\ caller[w] \in Waiting
    BY <1>4, <1>5, <1>6, <2>1, Shape
  <2>3. caller[w].leader \in Caller \ {c}
    BY <2>1, <2>2 DEF Waiting
  <2>4. Joined(caller[w], caller[caller[w].leader])
    BY DEF MintInv
  <2>5. ~joined(caller[w].leader)
    BY <2>1, <2>2, <2>4 DEF Joined, InFlight
  <2> QED
    BY <1>6, <2>2, <2>3, <2>4, <2>5
<1> QED
  BY <1>1, <1>4, <1>5, <1>6, <1>7, <1>8, <1>9 DEF MintInv, MintTypeOK

\* Time passes only while no read is past its timeout and none is being taken in.
LEMMA TickInv ==
  ASSUME MintInv, Tick
  PROVE  MintInv'
<1>1. now \in Nat /\ now' = now + 1 /\ UNCHANGED << cache, inflight, drifts, caller >>
  BY DEF MintInv, MintTypeOK, Tick
<1>2. ASSUME NEW c \in Caller PROVE Timely(caller[c], now + 1)
  <2> DEFINE h == caller[c]
  <2>1. h \in Record /\ Timely(h, now) /\ TTL \in Nat
    BY MintAssumption DEF MintInv, MintTypeOK
  <2>2. h.pc \in {"reading", "sampled"} => now < h.since + TTL
    BY DEF Tick
  <2>3. h.pc # "returned"
    BY DEF Tick
  <2>4. /\ h.pc # "idle" => h.at \in Nat
        /\ h.pc \in {"reading", "sampled", "publish"} => h.since \in Nat
        /\ h.pc \in {"sampled", "publish", "woken", "answered"} => h.sampled \in Nat
    BY <2>1, Shape DEF Inside, Waiting, Leading, Looked, Told
  <2> HIDE DEF h
  <2>5. Timely(h, now + 1)
    BY <1>1, <2>1, <2>2, <2>3, <2>4 DEF Timely
  <2> QED
    BY <2>5 DEF h
<1> QED
  BY <1>1, <1>2 DEF MintInv, MintTypeOK

-----------------------------------------------------------------------------

\* The invariant holds at the start and every step keeps it.
THEOREM MintInvariant == MintSpec => []MintInv
<1>1. MintInit => MintInv
  <2> SUFFICES ASSUME MintInit PROVE MintInv
    OBVIOUS
  <2>1. Idle \in Record /\ Idle.pc = "idle"
    BY DEF Record, Idle
  <2>2. \A c \in Caller : caller[c] = Idle
    BY DEF MintInit
  <2>3. MintTypeOK
    BY <2>1 DEF MintInit, MintTypeOK
  <2> QED
    BY <2>1, <2>2, <2>3 DEF MintInit, MintInv, InFlight, Timely, Joined, Uncancelled
<1>2. MintInv /\ [MintNext]_mintVars => MintInv'
  <2> SUFFICES ASSUME MintInv, [MintNext]_mintVars PROVE MintInv'
    OBVIOUS
  <2>1. ASSUME NEW c \in Caller, Verify(c) \/ Step(c) \/ GiveUp(c) PROVE MintInv'
    BY <2>1, VerifyInv, observeInv, sampleInv, fetchInv, storeInv, publishInv, waitInv,
       ReturnInv, GiveUpInv DEF Step
  <2>2. CASE Tick
    BY <2>2, TickInv
  <2>3. CASE UNCHANGED mintVars
    BY <2>3 DEF mintVars, MintInv, MintTypeOK
  <2> QED
    BY <2>1, <2>2, <2>3 DEF MintNext
<1> QED
  BY <1>1, <1>2, PTL DEF MintSpec

\* No caller, whichever read or cached observation answered it, is told what the
\* chain said two windows before it asked (mints.go observe, fetch).
THEOREM VerdictsAreFresh == MintSpec => []FreshVerdict
<1>1. MintInv => FreshVerdict
  BY DEF MintInv, Timely, FreshVerdict
<1> QED
  BY <1>1, MintInvariant, PTL

\* A caller whose context ended cannot poison the ones that share its read
\* (mints.go observe: the read is detached from the caller's context).
THEOREM NobodyIsPoisoned == MintSpec => []NotPoisoned
<1>1. MintInv => NotPoisoned
  BY DEF MintInv, Uncancelled, NotPoisoned
<1> QED
  BY <1>1, MintInvariant, PTL

\* However many callers miss the cache at once, one of them reads the chain.
OneRead == \A c, d \in Caller : caller[c].pc \in InFlight /\ caller[d].pc \in InFlight => c = d

\* The flight is shared: two reads of a mint are never under way together
\* (mints.go observe, the inflight map).
THEOREM ReadsAreShared == MintSpec => []OneRead
<1>1. MintInv => OneRead
  BY DEF MintInv, OneRead
<1> QED
  BY <1>1, MintInvariant, PTL
=============================================================================
