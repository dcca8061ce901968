-------------------------------- MODULE Ledger --------------------------------
(***************************************************************************)
(* The hash-chained ledger and the tesseras signed over it                 *)
(* (internal/ledger, internal/store/ledger.go): handlers that complete     *)
(* different trades, or the same one, append concurrently.  A handler      *)
(* reads the head outside the transaction that appends, so the append      *)
(* compares hashes and the handler retries when the head has moved.        *)
(*                                                                         *)
(* The signing key lives in a file.  The operator rotates it offline, and  *)
(* the running process keeps the key it loaded until it restarts.          *)
(*                                                                         *)
(* A trade reaches Record only when it is recorded or settled; which       *)
(* handler brings it here is the subject of modules Trade and Settlement.  *)
(***************************************************************************)
EXTENDS Integers, Sequences

CONSTANTS
  Trades,           \* completed trades
  Recorders,        \* handlers that can be in ledger.Record at once
  appendAttempts,   \* tries of one append before it gives up
  Keys,             \* signing keys that can be generated
  NoTrade,          \* the trade of an idle recorder
  MaxRestarts,      \* bound on restarts
  MaxAborts         \* bound on aborted handlers

ASSUME LedgerAssumption ==
  /\ appendAttempts \in Nat \ {0}
  /\ MaxRestarts \in Nat
  /\ MaxAborts \in Nat
  /\ NoTrade \notin Trades

VARIABLES
  log,         \* ledger_entries, by seq
  tesseras,    \* receipts: what each one claims and the key that signed it
  rec,         \* the recorders in flight
  keyring,     \* the signing key file: current key and retired public keys
  signer,      \* the keys the running process loaded
  restarts,
  aborts

ledgerVars == << log, tesseras, rec, keyring, signer, restarts, aborts >>

-----------------------------------------------------------------------------
(* Hashes are abstracted to what makes them collision free: the hash of an  *)
(* entry spells out everything that was hashed into it.                     *)

GenesisHash == << >>

EntryHash(seq, prevHash, payload) == Append(prevHash, << seq, payload >>)

Hash == Seq(Nat \X Trades)

Entry == [ seq : Nat, trade : Trades, prevHash : Hash, hash : Hash ]

Tessera == [ trade : Trades, sequence : Nat, entryHash : Hash, kid : Keys ]

\* The hash a reader of the head sees once n entries are in the log.
HashAt(n) == IF n = 0 THEN GenesisHash ELSE log[n].hash

HeadLedgerEntry == HashAt(Len(log))

\* A recorder: where it is, its trade, the stale appends so far, the head it
\* read, and the entry it appended.
Idle == [ pc |-> "idle", trade |-> NoTrade, attempt |-> 0,
          prevHash |-> GenesisHash, sequence |-> 0 ]

-----------------------------------------------------------------------------
(* Record *)

\* A trade that has its tessera already is refused.
Record(r, t) ==
  /\ rec[r] = Idle
  /\ \A x \in tesseras : x.trade # t
  /\ rec' = [ rec EXCEPT ![r] = [ Idle EXCEPT !.pc = "head", !.trade = t ] ]
  /\ UNCHANGED << log, tesseras, keyring, signer, restarts, aborts >>

readHead(r) ==
  /\ rec[r].pc = "head"
  /\ rec' = [ rec EXCEPT ![r].pc = "append", ![r].prevHash = HeadLedgerEntry ]
  /\ UNCHANGED << log, tesseras, keyring, signer, restarts, aborts >>

\* An append that trusts the head its caller read.
AppendLedgerEntry_CallersHead(r) ==
  /\ rec[r].pc = "append"
  /\ \A i \in DOMAIN log : log[i].trade # rec[r].trade
  /\ LET seq == Len(log) + 1
     IN  /\ log' = Append(log, [ seq |-> seq, trade |-> rec[r].trade,
                                 prevHash |-> rec[r].prevHash,
                                 hash |-> EntryHash(seq, rec[r].prevHash, rec[r].trade) ])
         /\ rec' = [ rec EXCEPT ![r].pc = "sign", ![r].sequence = seq ]
  /\ UNCHANGED << tesseras, keyring, signer, restarts, aborts >>

\* An INSERT OR REPLACE: the trade's earlier row goes.
AppendLedgerEntry_Replaces(r) ==
  /\ rec[r].pc = "append"
  /\ rec[r].prevHash = HeadLedgerEntry
  /\ LET kept == SelectSeq(log, LAMBDA e : e.trade # rec[r].trade)
         seq == Len(log) + 1
     IN  /\ log' = Append(kept, [ seq |-> seq, trade |-> rec[r].trade,
                                  prevHash |-> HeadLedgerEntry,
                                  hash |-> EntryHash(seq, HeadLedgerEntry, rec[r].trade) ])
         /\ rec' = [ rec EXCEPT ![r].pc = "sign", ![r].sequence = Len(log') ]
  /\ UNCHANGED << tesseras, keyring, signer, restarts, aborts >>

\* The transaction links the entry to the head it finds itself.
AppendLedgerEntry(r) ==
  /\ rec[r].pc = "append"
  /\ rec[r].prevHash = HeadLedgerEntry
  /\ \A i \in DOMAIN log : log[i].trade # rec[r].trade
  /\ LET seq == Len(log) + 1
     IN  /\ log' = Append(log, [ seq |-> seq, trade |-> rec[r].trade,
                                 prevHash |-> HeadLedgerEntry,
                                 hash |-> EntryHash(seq, HeadLedgerEntry, rec[r].trade) ])
         /\ rec' = [ rec EXCEPT ![r].pc = "sign", ![r].sequence = seq ]
  /\ UNCHANGED << tesseras, keyring, signer, restarts, aborts >>

\* A retry that reads the head once, before the loop.
appendStale_SameHead(r) ==
  /\ rec[r].pc = "append"
  /\ rec[r].prevHash # HeadLedgerEntry
  /\ LET attempt == rec[r].attempt + 1
     IN  rec' = [ rec EXCEPT ![r] =
                    IF attempt < appendAttempts
                    THEN [ rec[r] EXCEPT !.attempt = attempt ]
                    ELSE Idle ]
  /\ UNCHANGED << log, tesseras, keyring, signer, restarts, aborts >>

\* ErrStale: the head moved since it was read.  The last attempt gives up.
appendStale(r) ==
  /\ rec[r].pc = "append"
  /\ rec[r].prevHash # HeadLedgerEntry
  /\ LET attempt == rec[r].attempt + 1
     IN  rec' = [ rec EXCEPT ![r] =
                    IF attempt < appendAttempts
                    THEN [ rec[r] EXCEPT !.pc = "head", !.attempt = attempt ]
                    ELSE Idle ]
  /\ UNCHANGED << log, tesseras, keyring, signer, restarts, aborts >>

\* A refused duplicate taken for success.
appendDuplicate_Signs(r) ==
  /\ rec[r].pc = "append"
  /\ rec[r].prevHash = HeadLedgerEntry
  /\ \E i \in DOMAIN log :
       /\ log[i].trade = rec[r].trade
       /\ rec' = [ rec EXCEPT ![r].pc = "sign", ![r].sequence = i ]
  /\ UNCHANGED << log, tesseras, keyring, signer, restarts, aborts >>

\* The unique index on trade_id refuses a second entry, and nothing retries it.
appendDuplicate(r) ==
  /\ rec[r].pc = "append"
  /\ rec[r].prevHash = HeadLedgerEntry
  /\ \E i \in DOMAIN log : log[i].trade = rec[r].trade
  /\ rec' = [ rec EXCEPT ![r] = Idle ]
  /\ UNCHANGED << log, tesseras, keyring, signer, restarts, aborts >>

\* signClaims names the key the process holds, and SaveReceipt stores the result.
SaveReceipt(r) ==
  /\ rec[r].pc = "sign"
  /\ tesseras' = tesseras \cup
       { [ trade |-> rec[r].trade, sequence |-> rec[r].sequence,
           entryHash |-> log[rec[r].sequence].hash, kid |-> signer.current ] }
  /\ rec' = [ rec EXCEPT ![r] = Idle ]
  /\ UNCHANGED << log, keyring, signer, restarts, aborts >>

Abort(r) ==
  /\ rec[r] # Idle
  /\ aborts < MaxAborts
  /\ aborts' = aborts + 1
  /\ rec' = [ rec EXCEPT ![r] = Idle ]
  /\ UNCHANGED << log, tesseras, keyring, signer, restarts >>

-----------------------------------------------------------------------------
(* The signing key *)

VerificationKeyIDs(s) == { s.current } \cup s.retired

\* A rotation that keeps only the key it succeeds.
RotateSigner_KeepsOne(key) ==
  /\ key \notin VerificationKeyIDs(keyring)
  /\ keyring' = [ current |-> key, retired |-> { keyring.current } ]
  /\ UNCHANGED << log, tesseras, rec, signer, restarts, aborts >>

\* A fresh key replaces the file's; the key it succeeds and every key retired
\* before stay as public keys.  The running process does not notice.
RotateSigner(key) ==
  /\ key \notin VerificationKeyIDs(keyring)
  /\ keyring' = [ current |-> key, retired |-> VerificationKeyIDs(keyring) ]
  /\ UNCHANGED << log, tesseras, rec, signer, restarts, aborts >>

\* LoadOrCreateSigner, at the start of a process.
Restart ==
  /\ restarts < MaxRestarts
  /\ restarts' = restarts + 1
  /\ signer' = keyring
  /\ rec' = [ r \in Recorders |-> Idle ]
  /\ UNCHANGED << log, tesseras, keyring, aborts >>

-----------------------------------------------------------------------------
LedgerInit ==
  /\ log = << >>
  /\ tesseras = {}
  /\ rec = [ r \in Recorders |-> Idle ]
  /\ \E key \in Keys : keyring = [ current |-> key, retired |-> {} ]
  /\ signer = keyring
  /\ restarts = 0
  /\ aborts = 0

RecorderStep(r) ==
  \/ readHead(r) \/ AppendLedgerEntry(r) \/ appendStale(r) \/ appendDuplicate(r)
  \/ SaveReceipt(r)

LedgerNext ==
  \/ \E r \in Recorders :
       \/ \E t \in Trades : Record(r, t)
       \/ RecorderStep(r)
       \/ Abort(r)
  \/ \E key \in Keys : RotateSigner(key)
  \/ Restart

LedgerSpec == LedgerInit /\ [][LedgerNext]_ledgerVars

-----------------------------------------------------------------------------
(* Properties *)

\* Every row, recorder and key has its type.
LedgerTypeOK ==
  /\ log \in Seq(Entry)
  /\ tesseras \subseteq Tessera
  /\ rec \in [ Recorders ->
       [ pc : { "idle", "head", "append", "sign" }, trade : Trades \cup { NoTrade },
         attempt : Nat, prevHash : Hash, sequence : Nat ] ]
  /\ keyring \in [ current : Keys, retired : SUBSET Keys ]
  /\ signer \in [ current : Keys, retired : SUBSET Keys ]
  /\ restarts \in Nat
  /\ aborts \in Nat

\* The chain is intact after any interleaving of appends: each entry is numbered
\* by its place, linked to the entry before it, and hashed over that link.
ChainIntact ==
  \A i \in DOMAIN log :
    /\ log[i].seq = i
    /\ log[i].prevHash = HashAt(i - 1)
    /\ log[i].hash = EntryHash(i, HashAt(i - 1), log[i].trade)

\* A trade is anchored at most once, however many handlers complete it.
OneEntryPerTrade ==
  \A i, j \in DOMAIN log : log[i].trade = log[j].trade => i = j

\* A tessera cites the sequence and the hash of the entry of its own trade.
TesseraCitesEntry ==
  \A x \in tesseras :
    /\ x.sequence \in DOMAIN log
    /\ log[x.sequence].trade = x.trade
    /\ log[x.sequence].hash = x.entryHash

\* The tessera of a trade is unique: the receipts index never has to refuse one.
OneTesseraPerTrade ==
  /\ \A x, y \in tesseras : x.trade = y.trade => x = y
  /\ \A r \in Recorders : rec[r].pc = "sign" => \A x \in tesseras : x.trade # rec[r].trade

\* Every tessera ever issued verifies against the running process and against
\* the key file the next process will load, across rotations and restarts and
\* under a process that signs with a key rotated away.
TesserasVerify ==
  \A x \in tesseras :
    x.kid \in VerificationKeyIDs(signer) \cap VerificationKeyIDs(keyring)

\* A retry is never spurious: a handler on its n-th retry has been overtaken by
\* n appends, so with at most n of them to come it does not give up.
RetryMeansProgress == \A r \in Recorders : rec[r].attempt <= Len(log)

\* What a recorder between two of its statements can rely on: the head it read
\* was the head when at least as many entries as its stale appends were in the
\* log; and from the append to the receipt the entry is its own, nobody else is
\* signing for its trade, and no tessera for it exists.
RecorderInv ==
  \A r \in Recorders :
    /\ rec[r].pc # "idle" => rec[r].trade \in Trades
    /\ rec[r].pc = "append" =>
         \E n \in 0..Len(log) : rec[r].attempt <= n /\ rec[r].prevHash = HashAt(n)
    /\ rec[r].pc = "sign" =>
         /\ rec[r].sequence \in DOMAIN log
         /\ log[rec[r].sequence].trade = rec[r].trade
         /\ \A q \in Recorders :
              rec[q].pc = "sign" /\ rec[q].trade = rec[r].trade => q = r

\* The file trusts every key the running process does, whatever was rotated.
KeyringInv == VerificationKeyIDs(signer) \subseteq VerificationKeyIDs(keyring)

\* The inductive invariant behind the properties above.
LedgerInv ==
  /\ LedgerTypeOK /\ ChainIntact /\ OneEntryPerTrade /\ TesseraCitesEntry
  /\ OneTesseraPerTrade /\ RetryMeansProgress /\ RecorderInv
  /\ KeyringInv /\ TesserasVerify

\* The ledger is append-only.
LedgerAppendOnly ==
  [][ /\ Len(log) <= Len(log')
      /\ \A i \in DOMAIN log : log'[i] = log[i] ]_log
=============================================================================
