# A TLA+ verification of vtessera

vtessera is a marketplace for software agents. Agents publish offers, open trades
on them, negotiate, accept, and either commit off chain or settle with a Solana
transaction; the service signs a *tessera*, a receipt over an entry of a
hash-chained ledger. This directory models the service from its boot to its
receipts and checks the models with TLC; every safety property the runs check is
also proved with TLAPS, for every value of the constants. Paths are relative to the
repository's root.

## The system

One Go process over one SQLite file. `Store.write` (`internal/store/store.go`)
serialises write transactions on a mutex, so **a statement is atomic and nothing
larger is**: a handler reads a row, decides, and writes in later transactions
while other handlers, the sweepers and the reconciler do the same. Every statement
takes the request's context, which a 30 s timeout or a disconnecting client
cancels, so a handler can stop between any two of its statements.

| component | state | operations | interacts with | hard because |
|---|---|---|---|---|
| trade service, `internal/trade/trade.go` | `trades`, `trade_acceptances`, `trade_events` | Create, BeginNegotiation, Accept, Cancel, Dispute, Resolve, Record | ledger, offers, spend caps | compare-and-set on a stale copy whose loss is not an error; five transactions per Record |
| expiry sweeper, same file | none | ExpireAccepted, ExpireOpen | trade service | runs beside every handler |
| settlement, `trade/settlement.go` | `settlement_requests` | BuildSettlement, ConfirmSettlement | chain, ledger | the chain answers late, fails or shows another transaction |
| reconciler, `trade/reconcile.go` | none | ReconcileOutstanding | settlement, chain | decides on a list of requests read earlier |
| ledger, `internal/ledger`, `store/ledger.go` | `ledger_entries`, `receipts` | Record (head, append, sign, save) | signer | head read outside the append, three attempts |
| signing keys, `ledger/signer.go` | keyring file, keys in memory | LoadOrCreateSigner, RotateSigner | ledger, registry | rotation while a process signs with the old key |
| registry, `internal/registry`, `store/agents.go`, `store/offers.go` | `agents`, `offers`, `agent_retirements` | Register, PublishOffer, CloseOffer, ExpireOffers, Retire, Restore, ProbeCapabilities | Create, attestations | read-modify-write across transactions |
| attestations, `internal/attest`, `store/attestations.go` | signatures over cards, offers, probes | sign, verify, save | registry | a signature must cover what is stored |
| probe, `internal/probe` | none | Run | registry, an agent's endpoint | the answer is somebody else's |
| spend caps, `internal/limits`, `store/limits.go` | `agent_limits`, reservation query | checkSpend, RaiseLimits | trade service | check before reservation, a sliding window, 64-bit arithmetic |
| authentication, `internal/auth` | `auth_challenges`, signed session tokens | IssueChallenge, Redeem, Authenticate | HTTP API | single use under races |
| HTTP API, `internal/httpapi` | token buckets | gates, rate limits, handlers | every service | eviction at the limit; the clock is read before the lock |
| AGP routing, `internal/agp` | none | BuildTable, Route, CheckPolicy | registry | a pure algorithm with many cases |
| settlement compiler and verifier, `internal/settlement` | none | NewTerms, Build, Verify | chain | two paths to one transaction must agree exactly |
| mint verifier, `settlement/mints.go` | cache, in-flight reads | Verify | chain, BuildSettlement | a shared read whose leader may walk away |
| money, tokens, fees, cluster | tables | parsing, scaling, lookup | all of the above | decimal texts at a mint's scale |
| configuration, preflight, migrations, `cmd/vtessera` | `schema_migrations` | Parse, Check, Open | the chain, the volume | settings combine; a boot can stop anywhere, twice at once |

What makes each correct: a trade moves only along its transitions table, once per
state, and is accepted only by both parties; what the ledger anchors is what
happened, once; a settled trade was paid and its tessera names the payment; a
pending trade ends; the chain of entries is unbroken and every tessera, card, offer
and probe ever signed verifies; concurrent trades do not reserve past a cap; a
challenge is one session and a call is somebody's; a boot serves only what it
checked. `PROJECT.json` lists the hazards line by line.

## Modules

| module | models |
|---|---|
| `TradeRules` | trade states and the transitions table |
| `TradeContract` | abstract specification: what a trade promises its parties |
| `TradeStore` | one trade's rows and the store's statements on them |
| `Trade` | the handlers of `trade.go` after Create, and the sweeper, on one trade |
| `Settlement` | BuildSettlement, ConfirmSettlement, the reconciler, restarts and the chain, beside every handler of `Trade` |
| `Ledger` | Record's append loop over many trades, the tesseras, the keyring |
| `Market` | agents, cards, offers, probes, retirement, the offer sweeper, and Create; uses `Attest`, `Probe`, `Money` |
| `Attest`, `Probe` | what a signature covers and when it verifies; what a probe reports |
| `Spend` | Create, Record and BuildSettlement of one buyer's trades against its caps, and the raise of the caps; uses `Limits` |
| `Limits`, `Money` | the cap policy and its USD arithmetic; decimal amounts, digit by digit |
| `Ordering` | a finite set laid out in an order: the sort of `Route`, the account list of `Transaction` |
| `Cluster`, `Config` | the clusters, governed mints and fee; what a set of settings is parsed to, or refused |
| `Boot` | processes from their settings through preflight, migrations and boot checks to serving |
| `Access`, `RateLimit` | rate limits, session and operator gates, challenges and sessions; the token bucket |
| `MintVerifier` | the cached, single-flight reading of one mint |
| `Route` | announcements, the routing table, policies and route selection |
| `Transaction` | terms, the settlement transaction, its compiled form and the verifier |
| `Algorithms` | the pure modules against reference definitions |
| `TradeProof`, `SettlementProof`, `LedgerProof`, `MarketProof`, `SpendProof`, `AccessProof`, `AlgorithmsProof` | the theorems about the module of that name |
| `BootProof` | the theorems about `Boot` and `MintVerifier` |
| `MC*` | instances for TLC |

**A handler is a process with a program counter**, one step per statement.
`proc[p]` is the handler process `p` runs: its operation, next statement and what
it has read so far. A call that the rows it first reads refuse changes nothing and
is not a step. `applyAs` is the compare-and-set: the loser carries on with the row
as it finds it, as the code does. `Abort` ends a handler between two statements.

**The parts fit together through tables.** `Settlement` extends `Trade`, so the
on-chain and off-chain handlers race on the same rows; `TradeStore` keeps one
trade's entry and receipt with their unique indexes, and `Ledger` models the append
behind them over many trades. `Market` and `Spend` both start a trade: `Market`
follows the offer, the parties and the keys, `Spend` the price, the lock and the
window; after that a trade moves in both along `TradeRules`, and `Trade` says how.
`Settlement`'s `Verify` abstracts what `Transaction!Verify` computes to the two
things that can differ between this trade's transactions, the fee they pay and
whether they are its own; `Boot` uses `Config`, which uses `Cluster` and
`Limits`.

**Time** is a counter and every TTL a constant; 0 is "no row". Requests of a trade
are kept in insertion order; `created_at` is read before the insert, so two
overlapping builds can be stored in the other order, which is not modelled (a
hazard of the list).

**The outside.** A signature of `Settlement` names a transaction that the buyer can
submit, on the request's cluster and with the fee it was compiled with, until the
request's blockhash lapses; it lands there, after any delay, as executed or failed,
and is verified under the fee of the process that runs by then. `ForeignSigs` are
landed transactions that settle no request. A restart may change the cluster and the
fee policy (on mainnet `config.go` pins the policy, which allows less). In `Boot`
and `MintVerifier` a mint's issuer may change an authority at any moment. A hash or
a signature is the record of everything it covers, so it is collision free and
unforgeable by construction, which is all the code assumes of SHA-256 and Ed25519.
DNS is the constant `Resolve`; the code resolves a host again when it connects.
The programs among the accounts of `CreateATA` are the same for every settlement and
are left out of `Transaction`; one of them, the System Program, has the key that the
verifier reads for an account index out of range, which the chain refuses before the
verifier sees it.

**Abstractions.** Texts (descriptions, reasons, names) are single values; JSON,
HTTP bodies and log lines are left out. Money is not: an amount is its digits, as
in `internal/money`, and `MaxUint` is the width (a power of ten less one in the
instances, `2^64 - 1` in the code). The routing order on ids and paths is the order
of their texts. `Access` logs under which name a service is called; what the call
does is in that service's module.

## Runs

| run | instance | shows |
|---|---|---|
| `trade` | two requests of any kind, the sweeper, one abort, clock to 3 | agreement, books, commitment, refinement of `TradeContract` |
| `settlement` | two requests, the worker, an honest and a foreign signature, two requests stored | settled means paid; a pending trade has something left to end it; the audit trail; the contract |
| `settlement_restart` | the buyer, the worker, two clusters, two fees, one restart | the tessera names a payment of its cluster; no dispute without an executed transaction that the running policy rejects |
| `liveness` | any request, the worker, one abort, from a proposed trade | a trade past its deadline ends; an abandoned build is cancelled |
| `settlement_verdict` | the buyer and the worker | *violated*: see below |
| `ledger` | three handlers, three trades, three keys, one abort, one restart | the chain, one tessera per trade, verification, retries |
| `market` | two requests, two agents, two offers, two trades, two keys | attestations verify over what is stored, retirement has its record, trades match their offers, keys are idempotent |
| `spend` | two requests, three trades, three raises (also to a cap written 1.0), clock to 3 over a window of 1 | reservations within the day's ceiling; caps between default and ceiling, whichever raise is stored last |
| `boot` | two processes, three starts, three migrations, more than 200 settings, a rotating issuer | a serving process passed its checks; migrations are atomic and applied once |
| `access` | two requests, two agents, two addresses, one challenge, one restart, a table of one bucket | one session per challenge; every call attributable; the rate |
| `mints` | two callers, clock to 3 over a TTL of 1 | age of a verdict, no poisoning, everybody answered |
| `algorithms` | one step per input, 67 000 inputs | amounts, spend, routes, transactions and settings against their references |

The bounds are chosen so that each race has all its parties: a handler can lose its
write to two others, a signed request can be superseded by a second, the clock
passes every deadline with one tick to spare, a third handler can be made stale
twice within `appendAttempts = 3`, two rotations put a retired key behind a retired
key, a full table of one bucket is evicted by the second address, three raises let
one be read before and stored after another. `market` starts one family of calls
from an empty marketplace (cards, retirements, probes, a rotation) and three from
two registered agents (`MCInit`), each with a budget of calls, because all at once
is out of TLC's reach; for the same reason `spend` starts with all three checks left
and one raise, with two of each, or with one check and all three raises (`MCInit`).
All settlement runs but `liveness` start from an accepted trade (`AcceptedInit`),
which `trade` shows to be reachable; `settlement_restart` names the cluster and the
fee the process starts with (`HomeInit`), since clusters are alike and fees are
alike, and has no abort, since a restart stops a handler as well. Interchangeable
handlers, agents, trades and keys are symmetric, except in the runs that check
liveness (`liveness`, `mints`, `settlement_verdict`) and in the settlement runs,
whose handlers differ. Deadlock checking is off where a finished trade, a clock at
its bound or a spent budget really stops; it is on in `boot`.

In `algorithms` the reference definitions are written independently of the code's
way of computing: an amount is an integer number of the smallest units, spend is
exact arithmetic, a route is a minimum over all compliant offers, a transaction is
what its instructions move and who signed.

**Fairness.** `Fairness` in `Settlement` assumes what the process does by itself:
its tickers call the sweeper and the reconciler, a handler that is not aborted runs
to its end, time passes and a submitted transaction lands. Nothing makes an agent
call. In `MintVerifier` goroutines are scheduled and a read ends, by its timeout at
the latest. All of it is weak fairness. `AbandonedBuildEnds` speaks of behaviours
without an abort or a restart: the code does not keep it across one (below).
`MintVerifier` assumes that taking a mutex takes no time to speak of, and `Access`
that no request sleeps through an idle period between reading the clock and taking
the limiter's lock.

### Where the code does not keep what the repository says

`settlement_verdict` checks one such statement and ends in a counterexample: *"a
signature that was invisible then ... still reaches a verdict without a human"*
(`internal/trade/reconcile.go:14-17`). When the buyer rebuilds before the first
signature is visible, the signed request is expired; once that payment lands its
request can no longer be confirmed and the paid trade stays pending. `PROJECT.json`
quotes the lines. The models show the following too; they have no run of their own.

Trades and settlement:

* *"what the deadline bounds is how long after both parties said yes the buyer has
  to move"* (`trade.go:258-260`): `TradeAcceptance` takes the **first** acceptance,
  so a trade can be cancelled as soon as the second party agrees. What holds is
  `CommitmentHolds`.
* *"`/record` issues the tessera and closes the offer"* (design spec, line 222): a
  Record cut short after its transition leaves a recorded trade, and the retry only
  looks the receipt up.
* *"The fee policy it enforces travels with the terms, so ... a policy change can never
  be silently out of step with verification"* (`verify.go:15-17`): the terms are
  derived at the verdict from the configuration (`reconcile.go:288`), so a fee changed
  across a restart makes an honest payment of an older request a mismatch and a
  dispute. `NoFalseDispute` allows this one beside the dispute over a transaction that
  settles no request, and nothing else.
* *"the trade cannot be cancelled while a live (unexpired) transaction exists"*
  (design spec, line 139): Cancel and the sweeper race BuildSettlement, which
  stores its request before it moves the trade.
* *"This cannot strand a buyer who paid"* (`reconcile.go:169-170`): the decision is
  taken on requests listed earlier, and a signature recorded or landed since does
  not stop the cancellation.
* *"The reconciler also cancels a request that is still `issued` after its blockhash
  has lapsed"* (design spec, line 139): an earlier request that was signed, never
  submitted and superseded hides the lapse of the last one.
* *"the trade is cancelled so its buyer's reservation comes back"*
  (`reconcile.go:151-154`): a stop between the two statements of `reconcileLapsed`
  leaves a pending trade whose requests are all expired, which only a rebuild by the
  buyer revives. `PendingHasRequest` and `AbandonedBuildEnds` are about a worker that
  was not stopped half way.
* *"so the buyer may build a fresh transaction against the same trade"* (design spec,
  line 139): the next pass polls the failed signature again and withdraws the fresh
  request.
* *"tessera issued referencing the signature"* (design spec, line 179): a Record
  that lost its race to a settlement signs the settled trade without it.
* *"empty for a pre-Phase-3 on-chain tessera"* (`ledger.go:83-87`): `Record` does not
  look at the settlement mode, so an on-chain trade committed with it gets a
  tessera without a cluster, which `verifyTesseraUnder` accepts.

Registry, caps and the rest:

* *"The result and its signature are one fact"* (`store/attestations.go:243-246`): a
  probe's detail is cut at 200 bytes and not at a character, signed as those bytes
  and stored through `json.Marshal`, which writes U+FFFD for half a character; what
  is stored then verifies under no key. The HTTP status line of a failed probe
  (`probe.go:224-229`) reaches the signature in the same way, uncut. `ProbesVerify`
  is about every other probe.
* *"a zero rate means the bucket never refills, so a burst is a fixed quota"*
  (`ratelimit.go:18-20`): a bucket is dropped when idle whatever its rate, and the
  quota is handed out again. `RateHolds` counts one burst per idle period for it.
* *"leaves a buyer holding a trade with a seller that has been withdrawn, which is
  the exact situation the refusal exists to prevent"* (`store/agents.go:162-166`):
  the retirement is one transaction, Create is not; it inserts a trade whose party
  was retired after Create read it. `PublishOffer` lists an offer of a retired agent
  in the same way, and `Register` writes back the status it read. `RetiredHasRecord`
  is what survives.
* *"re-closing an already closed offer would overwrite the time the seller actually
  closed it"* (`registry.go:709-711`): `ExpireOffers` re-reads and closes in two
  transactions, so it still can.
* *"the exposure survives until a day after the money actually moved"*
  (`store/limits.go:94-95`): the window is anchored on the event of the commitment;
  a handler that stops between the state and the event leaves a committed trade
  charged on its creation. Two commitments whose reservations both left the window
  are re-checked without `reserveMu` and can each miss the other.
* *"unset means an agent cannot raise its caps at all"* (`config.go:471-473`):
  `Policy.Check` skips an unset ceiling. `CapsInForce` is stated for both,
  `ReservationsWithinCap` for a deployment that has a ceiling.
* *"an agent sending a cap below the default gets the default back"*
  (`trade.go:230-231`) leaves out an equal one: 1 and 1.0 are one value in two texts,
  so an agent that asks for 1.0 where the default is 1 stores 1.0 and is held to 1.
  `CapsInForce` compares values; the attempt to prove it for texts found this.
* *"rate is what one whole token of a mint is worth in USD"* (`limits.go:55`):
  `scaleToUSD` divides by `10^USDScale` whatever the mint's decimals are, so a value
  is in millionths of a dollar only for a mint of six decimals. All governed mints
  have six; `Rates.Add` takes up to nine. The instances keep the two scales equal.
* *"maxKeys bounds the map"* (`ratelimit.go:43-46`): only idle buckets are evicted,
  so the map grows past it.
* *"Each open offer is announced"* (`README.md:12`): one offer whose capability has an
  empty segment, or more than 128 announcements, makes `BuildTable` fail for
  everybody (`agp.go:165-172`). Costs in different mints are compared as numbers.
* A mint's reading is reused for its TTL counted from the *end* of the read
  (`mints.go:38-47`), so a verdict can be older; `FreshVerdict` has the bound that
  holds.

## Proofs

Each theorem holds for every value of the constants under assumptions named in the
module that declares them, which the runs evaluate:

| assumption | says | because |
|---|---|---|
| `StoreAssumption` | two distinct parties, `NoSig` is no signature | Create refuses a trade with oneself |
| `TradeAssumption` | positive TTLs | configuration refuses others |
| `SettlementAssumption` | some cluster and some fee policy, a positive blockhash TTL, a foreign transaction pays no fee of theirs | as above; a blockhash lives for some slots; the models tell an agreed transaction by its fee |
| `LedgerAssumption` | at least one append attempt | a constant of `ledger.go` |
| `MarketAssumption` | "no key" and "no agent" are nobody's, a positive offer TTL | empty texts in the code |
| `LimitsAssumption`, `SpendAssumption` | amounts are digits, the policy passed `Validate`, finitely many trades | boot refuses another policy; a table is finite |
| `InputsAssumption` | see below | `money.Parse`, the primary key of `offers`, `NewTerms` |
| `BootAssumption` | migrations are numbered 1 to n | `store.go` lists them so |
| `AccessAssumption` | operators' names and tokens are unique; a request's delay before the lock is shorter than the idle time | `parseAdminOperators` refuses others; nothing waits for ten minutes on a mutex. Any rate, zero included, and any burst above zero |
| `MintAssumption` | a positive TTL | a constant of `mints.go` |

What makes all of these proofs necessary is the same: **a handler acts on what it
read some statements ago**. The properties speak of rows, so none is inductive; each
invariant adds, per program counter, what a handler between two statements can still
rely on, and why no step of anybody else takes it away.

* `TradeInvariant`, `TradeSpec => []TradeInv`: the transition a handler is about to
  try is legal *for the state it read*, which the compare-and-set turns into legality
  for the row; a handler about to append holds a final state, which no transition
  leaves (`BookedIsFinal`); one handler at most is between its append and its
  receipt. `TradeQuiet` covers every step that leaves trade and books alone.
  `TradeBothAgreed`, `TradeBooksSound` and `TradeTesseraAnchored` follow.
* `TradeImplementsContract`, `TradeSpec => ImplementsContract`: the mapping reads the
  contract's tessera off the ledger and the receipts (`tesseraStage`). Three kinds of
  statement show: the compare-and-set is a `Move` because `HandlerInv` makes it legal
  for the row, an acceptance is an `Agree`, an entry or a receipt an `Issue`, which
  `TesseraAnchored` keeps in order; everything else stutters.
* `TradeCommitmentHolds`: the deadline is read one statement before the cancellation
  is written, so `DeadlineInv` carries it: a handler about to cancel a trade it saw
  accepted holds a verdict that is true and stays true, because the clock goes on
  and acceptance rows never change.
* `SettlementInvariant`, `Spec => []SettlementInv`, for on-chain settlement beside
  every handler of `Trade`. `SettleInv` adds that the request a confirmation works
  on carries its signature and the cluster the process runs on (`Named`), that its
  transaction was executed there and pays the running fee, or does not, once the
  handler has judged it so (`Settles`, `Mismatches`), that the request was confirmed
  once the trade may be settled (`Paid`), that a trade with such a handler can no
  longer be recorded off chain (`OnChain`), that only the newest request is issued
  and, while nothing was stopped half way, that a pending trade can end (`CanEnd`). It
  survives every other step because requests are never dropped and signatures never
  replaced (`Kept`), an executed transaction stays what it is, and a restart, which
  changes cluster and fee, ends every handler. `SettledIsPaid`, `PendingIsBuilt`,
  `TesseraIsTrue`, `SettlementKeepsBooks` and `AuditTrail` follow, and
  `DisputesAreFounded`, the action property that the service disputes only over an
  executed transaction the running policy rejects (`Mismatches`). The off-chain
  lemmas are about single statements, which a settlement runs too, so
  `SettlementImplementsContract` and `SettlementCommitmentHolds` reuse them. That the
  newest signed request exists (`latestSignedRequest`) rests on
  `WellFoundedInduction`.
* `LedgerInvariant`, `LedgerSpec => []LedgerInv`: the head a handler holds is the
  hash of some prefix at least as long as its number of stale appends, which gives
  `LedgerRetryMeansProgress` (every retry is paid for by somebody's append); a
  handler about to sign owns its entry alone, which gives `LedgerOneTessera`; the
  key file trusts every key the process does (`KeyringInv`), which carries
  `LedgerTesserasVerify` over rotation and restart. `LedgerChainIntact` and
  `LedgerIsAppendOnly` follow.
* `MarketInvariant`, `MarketSpec => []MarketInv`: what Register, PublishOffer, Create
  and the offer sweeper hold between read and write stays good because the tables
  only grow where it matters (`Grows`): an offer is never deleted nor its terms
  rewritten, the record of a retirement never goes away, a retired key is never
  forgotten. So a stale status can bring back a retirement but not one without its
  record, and a trade written after its offer was closed is still that offer's.
  A probe verifies when what was signed was text, because `json.Marshal` then writes
  it as it is (`marshal`); `ProbesVerify` carries that condition. `AttestedRowsVerify`, `OfferSignaturesVerify`, `RetirementIsRecorded`,
  `TradeIsTheOffers` and `KeysNameOneRow` follow.
* `SpendInvariant`, `SpendSpec => []SpendInv`: a stored cap is the default or a
  non-zero amount not below it that `Check` let through (`CapStored`), whichever of
  two raises is stored last. `CapsStayInForce` follows with `CmpAntisymmetric`: the
  comparison of aligned digit strings is antisymmetric for amounts of any length.
* `ReserveInvariant`, `SpendSpec => []ReserveInv`, on top of it: a Create between its
  read of the caps and its insert holds `reserveMu`; its cap is within the ceiling in
  micro-dollars, not only by `Cmp` (`CmpMicro`); and once it has summed the rows,
  what it summed plus its own value fits (`CreateReserves`). It stays so while others
  move trades, record events and raise caps, because whatever leaves the mutex alone
  opens no trade, changes no price and revives no released trade (`RowsKept`,
  `KeptReserved`), and a row's anchor is never before its creation, so every trade of
  the property's window is among those the query reads. The sums are folds
  over sets of trades, which the proof splits, bounds and compares.
  `ReservationsStayWithinCap` follows.
* `BootInvariant`, `BootSpec => []BootInv`: a process knows that everything before
  its own migration is recorded and that its snapshot lacks the one it applies
  (`Migrates`), and what of the chain it has established by the time it stands where
  it stands (`Preflighted`). `SchemaIsRecorded`, `AppliedOnce` and `ServingIsChecked`
  follow.
* `AccessInvariant`, `AccessSpec => []AccessInv`: a challenge is used up before its
  signature is looked at, so who stands between the two is alone with it
  (`Redemptions`); a session in hand was issued to the name it carries (`Carries`);
  what a key was let through and what its bucket holds are covered by one burst and,
  up to the last refill, by the larger of the rate and one burst per idle period
  (`Accounts`), which is what an eviction can hand out again. `SessionsAreUnique`, `CallersAreProven`
  and `RateIsKept` follow.
* `MintInvariant`, `MintSpec => []MintInv`: how old what a caller holds can be at
  each of its steps (`Timely`), and that whoever waits does so for a read that is
  not yet published (`Joined`). `VerdictsAreFresh`, `NobodyIsPoisoned` and
  `ReadsAreShared` follow.

TLC checked each of these invariants on its run's instance before it was proved.

### The pure parts

A behaviour of `Algorithms` is one call, so its properties need no induction over
steps; what they need is induction over the data. The prover cannot instantiate an
induction theorem with a predicate, so recursion is brought to sets: `NatSet` says
that a set of naturals with 0 and closed under successor is `Nat`, `SubsetInduction`
that a family of subsets of a finite set with the empty one and closed under adding
an element has them all. A recursive function or a fold is a `CHOOSE` of something
that satisfies its equation; a lemma builds that something, the lemmas after it use
the equation alone. So it goes for powers of ten, the value of a digit string,
trimming, folds over sets and sequences, and the concatenation of a transaction's
instructions.

* `CmpIsNumeric`: `Cmp`, which aligns two digit strings and compares them digit by
  digit, is the order of the numbers they stand for. `CmpMicro` is its consequence for
  `SpendProof`: an amount not above another is not worth more micro-dollars, the
  truncation to six digits included.
* `AmountsStayExact`, `AlgorithmsSpec => []AmountsAreExact`: base units are the trade's
  amount at the mint's scale to the last digit and read back as it; an amount is
  refused only if it has a digit beyond the scale or does not fit the word.
* `SpendIsNeverUnderstated`: no product or sum wraps, by induction on the rows.
* `RoutesToTheCheapest`: the table's sort is `InOrder` of a relation that
  is proved to be a strict total order on the announcements (cost by `CmpIsNumeric`,
  then agent and offer), so the first compliant entry is a cheapest one.
* `WhatIsBuiltVerifies`: the compiled message's accounts are laid out by `InOrder` too
  (`MessageOrders`), each key once, so every index of an instruction resolves to the
  account it was compiled from (`MessageReadsBack`), the buyer is first and the only
  signer, and each check of the verifier finds what the builder put there, also when
  buyer, seller, mint and fee wallet coincide.
* `VerifiedDoesWhatWasAgreed`, for any transaction whatever: one the verifier
  accepts has the four instructions, or five, that make the agreed transfer, memo
  and fee and nothing else.
* `NotOneSettingAway`: by cases on how `Parse` establishes the cluster.

`InputsAssumption` is what the callers of these functions guarantee. Amounts have the
digits `money.Parse` lets through, and a word has at most one digit more than the
longest of them. Offers are finitely many and have ids of their own (`offers.id` is a primary
key). No party, mint or fee wallet of a settlement is `none`, the all-zero key that
the verifier's `resolve` answers for an account index out of range: `NewTerms`
compares nothing with that key, but it is the System Program's address and no
trader's wallet; were it a party, an instruction that points beyond the
account list would pass for one that names it. The attempt to prove
`VerifiedDoesWhatWasAgreed` without the assumption found this.

Only model-checked: the liveness properties `DeadlineEndsTrade`,
`AbandonedBuildEnds` and `EveryCallerAnswered`, because fairness and `ENABLED` are
beyond the prover.

## Not modelled

`PROJECT.json` lists every component with its status. Left out for good: encodings
and HTTP bodies, metrics (read-only aggregates), the seeder (a client tool), the RPC
client (transport; its answers are the environment of the models), and the MCP
gateway (a separate module that forwards calls and keeps no trade state). Reads of
the API change nothing and appear only as a gate and a rate. The limit of a
reconciler pass is left out because `Settlement` follows one trade. The table of
governed mints is constant across a restart in `Settlement`, and during a boot the
chain behind an endpoint and what its name resolves to are constant in `Boot`.
No property is about a window anchored on the wrong event beyond what is listed
above, nor about one bad offer that stops the routing of all.

## What is left

`Settlement` over several trades, with the batch limit of a reconciler pass and builds
ordered by `created_at`; a retirement beside a trade that lives on in `Trade`; two
rotations of the key file at once. `PROJECT.json` notes, hazard by hazard, what no
property covers and why.
