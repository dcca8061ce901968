----------------------------- MODULE LedgerProof -----------------------------
(***************************************************************************)
(* The ledger's properties, for any number of trades, handlers, attempts,  *)
(* keys and restarts.  LedgerInv is inductive; the properties the model    *)
(* checker is asked are its conjuncts.                                     *)
(***************************************************************************)
EXTENDS Ledger, TLAPS

\* The invariant holds of an empty ledger.
LEMMA LedgerInitInv == ASSUME LedgerInit PROVE LedgerInv
<1> USE LedgerAssumption DEF LedgerInit, Idle, GenesisHash
<1>1. LedgerTypeOK
  <2>1. PICK key \in Keys : keyring = [ current |-> key, retired |-> {} ]
    OBVIOUS
  <2>2. keyring \in [ current : Keys, retired : SUBSET Keys ]
    BY <2>1
  <2> QED
    BY <2>2 DEF LedgerTypeOK, Entry, Tessera, Hash
<1>2. ChainIntact /\ OneEntryPerTrade
  BY DEF ChainIntact, OneEntryPerTrade
<1>3. TesseraCitesEntry /\ OneTesseraPerTrade /\ TesserasVerify
  BY DEF TesseraCitesEntry, OneTesseraPerTrade, TesserasVerify
<1>4. RetryMeansProgress /\ RecorderInv /\ KeyringInv
  BY DEF RetryMeansProgress, RecorderInv, KeyringInv
<1> QED
  BY <1>1, <1>2, <1>3, <1>4 DEF LedgerInv

\* A recorder in flight, as LedgerTypeOK types it.
RecType ==
  [ pc : { "idle", "head", "append", "sign" }, trade : Trades \cup { NoTrade },
    attempt : Nat, prevHash : Hash, sequence : Nat ]

\* The idle recorder has its type.
LEMMA IdleType ==
  /\ Idle \in RecType
  /\ Idle.pc = "idle" /\ Idle.attempt = 0 /\ Idle.prevHash = GenesisHash
BY DEF Idle, RecType, Hash, GenesisHash

\* What a reader of the head sees is a hash.
LEMMA HashAtType ==
  ASSUME log \in Seq(Entry), NEW n \in 0..Len(log)
  PROVE  HashAt(n) \in Hash
<1>1. CASE n = 0
  BY <1>1 DEF HashAt, GenesisHash, Hash
<1>2. CASE n # 0
  <2>1. log[n] \in Entry
    BY <1>2
  <2> QED
    BY <1>2, <2>1 DEF HashAt, Entry
<1> QED
  BY <1>1, <1>2

\* Steps of handlers that leave the ledger, the tesseras and the keys alone keep
\* the invariant as long as each handler stays as it is, ends, or looks for the
\* head as the code's append loop does.
LEMMA LedgerQuiet ==
  ASSUME LedgerInv,
         UNCHANGED << log, tesseras, keyring, signer >>,
         restarts' \in Nat, aborts' \in Nat,
         rec' \in [ Recorders -> RecType ],
         \A r \in Recorders :
           \/ rec'[r] = rec[r]
           \/ rec'[r] = Idle
           \/ /\ rec'[r].pc \in { "head", "append" }
              /\ rec'[r].trade \in Trades
              /\ rec'[r].attempt <= Len(log)
              /\ rec'[r].pc = "append" => rec'[r].prevHash = HashAt(Len(log))
  PROVE  LedgerInv'
<1> USE DEF LedgerInv
<1>h. \A n \in 0..Len(log) : HashAt(n)' = HashAt(n)
  BY DEF HashAt
<1>t. log \in Seq(Entry) /\ Len(log) \in Nat /\ rec \in [ Recorders -> RecType ]
  BY DEF LedgerTypeOK, RecType
<1>1. LedgerTypeOK'
  BY DEF LedgerTypeOK, RecType
<1>2. ChainIntact' /\ OneEntryPerTrade'
  BY DEF ChainIntact, OneEntryPerTrade, HashAt
<1>3. TesseraCitesEntry'
  BY DEF TesseraCitesEntry
<1>4. \A r \in Recorders : rec'[r].pc = "sign" => rec'[r] = rec[r]
  BY IdleType
<1>5. OneTesseraPerTrade'
  BY <1>4 DEF OneTesseraPerTrade
<1>6. KeyringInv' /\ TesserasVerify'
  BY DEF KeyringInv, TesserasVerify, VerificationKeyIDs
<1>7. RetryMeansProgress'
  BY <1>t, IdleType DEF RetryMeansProgress
<1>8. RecorderInv'
  <2> SUFFICES ASSUME NEW r \in Recorders
      PROVE /\ rec'[r].pc # "idle" => rec'[r].trade \in Trades
            /\ rec'[r].pc = "append" =>
                 \E n \in 0..Len(log) : rec'[r].attempt <= n /\ rec'[r].prevHash = HashAt(n)
            /\ rec'[r].pc = "sign" =>
                 /\ rec'[r].sequence \in DOMAIN log
                 /\ log[rec'[r].sequence].trade = rec'[r].trade
                 /\ \A q \in Recorders :
                      rec'[q].pc = "sign" /\ rec'[q].trade = rec'[r].trade => q = r
    BY <1>h DEF RecorderInv
  <2>1. CASE rec'[r] = rec[r]
    BY <2>1, <1>4 DEF RecorderInv
  <2>2. CASE rec'[r] = Idle
    BY <2>2, IdleType
  <2>3. CASE /\ rec'[r].pc \in { "head", "append" }
             /\ rec'[r].trade \in Trades
             /\ rec'[r].attempt <= Len(log)
             /\ rec'[r].pc = "append" => rec'[r].prevHash = HashAt(Len(log))
    BY <2>3, <1>t
  <2> QED
    BY <2>1, <2>2, <2>3
<1> QED
  BY <1>1, <1>2, <1>3, <1>5, <1>6, <1>7, <1>8

\* The entry an append adds to the log.
NewEntry(r) ==
  [ seq |-> Len(log) + 1, trade |-> rec[r].trade, prevHash |-> HeadLedgerEntry,
    hash |-> EntryHash(Len(log) + 1, HeadLedgerEntry, rec[r].trade) ]

\* The append extends the log by one well-typed entry and keeps the others.
LEMMA LedgerAppendEffect ==
  ASSUME LedgerInv, NEW r \in Recorders, AppendLedgerEntry(r)
  PROVE  /\ log' \in Seq(Entry) /\ Len(log') = Len(log) + 1
         /\ DOMAIN log = 1..Len(log) /\ DOMAIN log' = 1..(Len(log) + 1)
         /\ \A i \in 1..Len(log) : log'[i] = log[i]
         /\ log'[Len(log) + 1] = NewEntry(r)
<1>t. /\ log \in Seq(Entry) /\ Len(log) \in Nat /\ rec[r].trade \in Trades
  BY DEF LedgerInv, LedgerTypeOK, RecorderInv, AppendLedgerEntry
<1>1. HeadLedgerEntry \in Hash
  BY <1>t, HashAtType DEF HeadLedgerEntry
<1>2. EntryHash(Len(log) + 1, HeadLedgerEntry, rec[r].trade) \in Hash
  BY <1>t, <1>1 DEF EntryHash, Hash
<1>3. NewEntry(r) \in Entry
  BY <1>t, <1>1, <1>2 DEF NewEntry, Entry
<1>4. log' = Append(log, NewEntry(r))
  BY DEF AppendLedgerEntry, NewEntry
<1> QED
  BY <1>t, <1>3, <1>4

\* The append links the entry to the head and nothing else changes.
LEMMA LedgerAppendInv ==
  ASSUME LedgerInv, NEW r \in Recorders, AppendLedgerEntry(r)
  PROVE  LedgerInv'
<1> DEFINE seq == Len(log) + 1
           e == NewEntry(r)
<1>t. /\ log \in Seq(Entry) /\ Len(log) \in Nat /\ rec \in [ Recorders -> RecType ]
      /\ rec[r].trade \in Trades
  BY DEF LedgerInv, LedgerTypeOK, RecType, RecorderInv, AppendLedgerEntry
<1>n. /\ rec' = [ rec EXCEPT ![r].pc = "sign", ![r].sequence = seq ]
      /\ UNCHANGED << tesseras, keyring, signer, restarts, aborts >>
      /\ \A i \in DOMAIN log : log[i].trade # rec[r].trade
  BY DEF AppendLedgerEntry
<1>l. /\ log' \in Seq(Entry) /\ Len(log') = seq /\ DOMAIN log = 1..Len(log)
      /\ DOMAIN log' = 1..seq
      /\ \A i \in 1..Len(log) : log'[i] = log[i]
      /\ log'[seq] = e
  BY LedgerAppendEffect
<1> HIDE DEF e
<1>h. \A n \in 0..Len(log) : HashAt(n)' = HashAt(n)
  BY <1>t, <1>l DEF HashAt
<1>r. /\ rec' \in [ Recorders -> RecType ]
      /\ rec'[r].pc = "sign" /\ rec'[r].sequence = seq
      /\ rec'[r].trade = rec[r].trade /\ rec'[r].attempt = rec[r].attempt
      /\ \A q \in Recorders : q # r => rec'[q] = rec[q]
  <2> DEFINE h == [ rec[r] EXCEPT !.pc = "sign", !.sequence = seq ]
  <2>1. rec[r] \in RecType /\ seq \in Nat
    BY <1>t
  <2>2. /\ h \in RecType /\ h.pc = "sign" /\ h.sequence = seq
        /\ h.trade = rec[r].trade /\ h.attempt = rec[r].attempt
    BY <2>1 DEF RecType
  <2>3. rec' = [ rec EXCEPT ![r] = h ]
    BY <1>t, <1>n
  <2> QED
    BY <1>t, <2>2, <2>3
<1>w. e.seq = seq /\ e.trade = rec[r].trade /\ e.prevHash = HashAt(Len(log))
      /\ e.hash = EntryHash(seq, HashAt(Len(log)), rec[r].trade)
  BY DEF e, NewEntry, HeadLedgerEntry
<1>1. LedgerTypeOK'
  BY <1>n, <1>l, <1>r DEF LedgerInv, LedgerTypeOK, RecType
<1>2. ChainIntact'
  <2>h. \A i \in 1..seq : HashAt(i - 1)' = HashAt(i - 1)
    BY <1>t, <1>h
  <2> SUFFICES ASSUME NEW i \in 1..seq
      PROVE /\ log'[i].seq = i
            /\ log'[i].prevHash = HashAt(i - 1)
            /\ log'[i].hash = EntryHash(i, HashAt(i - 1), log'[i].trade)
    BY <1>l, <2>h DEF ChainIntact, EntryHash
  <2>1. CASE i = seq
    BY <2>1, <1>t, <1>l, <1>w
  <2>2. CASE i \in 1..Len(log)
    BY <2>2, <1>t, <1>l DEF LedgerInv, ChainIntact
  <2> QED
    BY <1>t, <2>1, <2>2
<1>3. OneEntryPerTrade'
  BY <1>t, <1>n, <1>l, <1>w DEF LedgerInv, OneEntryPerTrade
<1>4. TesseraCitesEntry'
  BY <1>t, <1>n, <1>l DEF LedgerInv, TesseraCitesEntry
<1>5. OneTesseraPerTrade'
  <2>1. \A x \in tesseras : x.trade # rec[r].trade
    BY <1>n DEF LedgerInv, TesseraCitesEntry
  <2> QED
    BY <2>1, <1>n, <1>r DEF LedgerInv, OneTesseraPerTrade
<1>6. RetryMeansProgress'
  <2>1. \A q \in Recorders : rec'[q].attempt = rec[q].attempt /\ rec[q].attempt \in Nat
    BY <1>t, <1>r DEF RecType
  <2> QED
    BY <1>t, <1>l, <2>1 DEF LedgerInv, RetryMeansProgress
<1>7. RecorderInv'
  <2> SUFFICES ASSUME NEW p \in Recorders
      PROVE /\ rec'[p].pc # "idle" => rec'[p].trade \in Trades
            /\ rec'[p].pc = "append" =>
                 \E n \in 0..seq : rec'[p].attempt <= n /\ rec'[p].prevHash = HashAt(n)'
            /\ rec'[p].pc = "sign" =>
                 /\ rec'[p].sequence \in 1..seq
                 /\ log'[rec'[p].sequence].trade = rec'[p].trade
                 /\ \A q \in Recorders :
                      rec'[q].pc = "sign" /\ rec'[q].trade = rec'[p].trade => q = p
    BY <1>l DEF RecorderInv
  <2>1. CASE p = r
    <3>1. ASSUME NEW q \in Recorders, q # r, rec[q].pc = "sign"
          PROVE rec[q].trade # rec[r].trade
      BY <3>1, <1>n DEF LedgerInv, RecorderInv
    <3>2. \A q \in Recorders : rec'[q].pc = "sign" /\ rec'[q].trade = rec'[r].trade => q = r
      BY <3>1, <1>r
    <3>3. seq \in 1..seq /\ log'[seq].trade = rec'[r].trade
      BY <1>t, <1>l, <1>w, <1>r
    <3> QED
      BY <2>1, <1>t, <1>r, <3>2, <3>3
  <2>2. CASE p # r
    <3>1. rec'[p] = rec[p]
      BY <2>2, <1>r
    <3>2. ASSUME rec[p].pc = "append"
          PROVE \E n \in 0..seq : rec[p].attempt <= n /\ rec[p].prevHash = HashAt(n)'
      <4>1. PICK n \in 0..Len(log) : rec[p].attempt <= n /\ rec[p].prevHash = HashAt(n)
        BY <3>2 DEF LedgerInv, RecorderInv
      <4>2. n \in 0..seq /\ HashAt(n)' = HashAt(n)
        BY <1>t, <1>h
      <4> QED
        BY <4>1, <4>2
    <3>3. ASSUME rec[p].pc = "sign"
          PROVE /\ rec[p].sequence \in 1..seq
                /\ log'[rec[p].sequence].trade = rec[p].trade
                /\ \A q \in Recorders :
                     rec'[q].pc = "sign" /\ rec'[q].trade = rec[p].trade => q = p
      BY <3>3, <1>t, <1>n, <1>l, <1>r DEF LedgerInv, RecorderInv
    <3> QED
      BY <3>1, <3>2, <3>3 DEF LedgerInv, RecorderInv
  <2> QED
    BY <2>1, <2>2
<1>8. KeyringInv' /\ TesserasVerify'
  BY <1>n DEF LedgerInv, KeyringInv, TesserasVerify, VerificationKeyIDs
<1> QED
  BY <1>1, <1>2, <1>3, <1>4, <1>5, <1>6, <1>7, <1>8 DEF LedgerInv

\* Signing the tessera: it cites the handler's own entry and the key in memory.
LEMMA LedgerReceiptInv ==
  ASSUME LedgerInv, NEW r \in Recorders, SaveReceipt(r)
  PROVE  LedgerInv'
<1> DEFINE x == [ trade |-> rec[r].trade, sequence |-> rec[r].sequence,
                  entryHash |-> log[rec[r].sequence].hash, kid |-> signer.current ]
<1>t. /\ log \in Seq(Entry) /\ rec \in [ Recorders -> RecType ]
      /\ tesseras \subseteq Tessera
      /\ signer \in [ current : Keys, retired : SUBSET Keys ]
      /\ rec[r].pc = "sign" /\ rec[r].trade \in Trades
      /\ rec[r].sequence \in DOMAIN log /\ log[rec[r].sequence].trade = rec[r].trade
  BY DEF LedgerInv, LedgerTypeOK, RecType, RecorderInv, SaveReceipt
<1>n. /\ tesseras' = tesseras \cup { x }
      /\ rec' = [ rec EXCEPT ![r] = Idle ]
      /\ UNCHANGED << log, keyring, signer, restarts, aborts >>
  BY DEF SaveReceipt
<1>x. /\ x \in Tessera /\ x.trade = rec[r].trade /\ x.sequence = rec[r].sequence
      /\ x.entryHash = log[rec[r].sequence].hash /\ x.kid = signer.current
  <2>1. log[rec[r].sequence] \in Entry /\ rec[r] \in RecType
    BY <1>t
  <2>2. log[rec[r].sequence].hash \in Hash /\ rec[r].sequence \in Nat /\ signer.current \in Keys
    BY <1>t, <2>1 DEF Entry, RecType
  <2> QED
    BY <1>t, <2>2 DEF Tessera
<1> HIDE DEF x
<1>r. /\ rec' \in [ Recorders -> RecType ] /\ rec'[r] = Idle
      /\ \A q \in Recorders : q # r => rec'[q] = rec[q]
  BY <1>t, <1>n, IdleType
<1>h. \A n \in 0..Len(log) : HashAt(n)' = HashAt(n)
  BY <1>n DEF HashAt
<1>1. LedgerTypeOK'
  BY <1>t, <1>n, <1>x, <1>r DEF LedgerInv, LedgerTypeOK, RecType
<1>2. ChainIntact' /\ OneEntryPerTrade'
  BY <1>n DEF LedgerInv, ChainIntact, OneEntryPerTrade, HashAt
<1>3. TesseraCitesEntry'
  BY <1>t, <1>n, <1>x DEF LedgerInv, TesseraCitesEntry
<1>4. OneTesseraPerTrade'
  <2>1. \A y \in tesseras : y.trade # rec[r].trade
    BY <1>t DEF LedgerInv, OneTesseraPerTrade
  <2>2. \A q \in Recorders : q # r /\ rec[q].pc = "sign" => rec[q].trade # rec[r].trade
    BY <1>t DEF LedgerInv, RecorderInv
  <2> QED
    BY <2>1, <2>2, <1>n, <1>x, <1>r, IdleType DEF LedgerInv, OneTesseraPerTrade
<1>5. RetryMeansProgress'
  BY <1>t, <1>n, <1>r, IdleType DEF LedgerInv, RetryMeansProgress
<1>6. RecorderInv'
  <2> SUFFICES ASSUME NEW p \in Recorders
      PROVE /\ rec'[p].pc # "idle" => rec'[p].trade \in Trades
            /\ rec'[p].pc = "append" =>
                 \E n \in 0..Len(log) : rec'[p].attempt <= n /\ rec'[p].prevHash = HashAt(n)
            /\ rec'[p].pc = "sign" =>
                 /\ rec'[p].sequence \in DOMAIN log
                 /\ log[rec'[p].sequence].trade = rec'[p].trade
                 /\ \A q \in Recorders :
                      rec'[q].pc = "sign" /\ rec'[q].trade = rec'[p].trade => q = p
    BY <1>n, <1>h DEF RecorderInv
  <2>1. CASE p = r
    BY <2>1, <1>r, IdleType
  <2>2. CASE p # r
    BY <2>2, <1>r, IdleType DEF LedgerInv, RecorderInv
  <2> QED
    BY <2>1, <2>2
<1>7. KeyringInv' /\ TesserasVerify'
  BY <1>n, <1>x DEF LedgerInv, KeyringInv, TesserasVerify, VerificationKeyIDs
<1> QED
  BY <1>1, <1>2, <1>3, <1>4, <1>5, <1>6, <1>7 DEF LedgerInv

\* A rotation, and the restart that loads it, lose no key.
LEMMA LedgerKeysInv ==
  ASSUME LedgerInv, (\E key \in Keys : RotateSigner(key)) \/ Restart
  PROVE  LedgerInv'
<1>1. ASSUME NEW key \in Keys, RotateSigner(key) PROVE LedgerInv'
  <2>n. /\ keyring' = [ current |-> key, retired |-> VerificationKeyIDs(keyring) ]
        /\ UNCHANGED << log, tesseras, rec, signer, restarts, aborts >>
    BY <1>1 DEF RotateSigner
  <2>1. LedgerTypeOK'
    BY <2>n DEF LedgerInv, LedgerTypeOK, VerificationKeyIDs
  <2>2. ChainIntact' /\ OneEntryPerTrade' /\ TesseraCitesEntry' /\ OneTesseraPerTrade'
    BY <2>n DEF LedgerInv, ChainIntact, OneEntryPerTrade, TesseraCitesEntry,
                OneTesseraPerTrade, HashAt
  <2>3. RetryMeansProgress' /\ RecorderInv'
    BY <2>n DEF LedgerInv, RetryMeansProgress, RecorderInv, HashAt
  <2>4. VerificationKeyIDs(keyring) \subseteq VerificationKeyIDs(keyring')
    BY <2>n DEF VerificationKeyIDs
  <2>5. KeyringInv' /\ TesserasVerify'
    BY <2>n, <2>4 DEF LedgerInv, KeyringInv, TesserasVerify
  <2> QED
    BY <2>1, <2>2, <2>3, <2>5 DEF LedgerInv
<1>2. CASE Restart
  <2>n. /\ signer' = keyring /\ rec' = [ r \in Recorders |-> Idle ] /\ restarts' = restarts + 1
        /\ UNCHANGED << log, tesseras, keyring, aborts >>
    BY <1>2 DEF Restart
  <2>r. \A r \in Recorders : rec'[r] = Idle
    BY <2>n
  <2>1. LedgerTypeOK'
    BY <2>n, IdleType DEF LedgerInv, LedgerTypeOK, RecType
  <2>2. ChainIntact' /\ OneEntryPerTrade' /\ TesseraCitesEntry'
    BY <2>n DEF LedgerInv, ChainIntact, OneEntryPerTrade, TesseraCitesEntry, HashAt
  <2>3. OneTesseraPerTrade' /\ RecorderInv'
    BY <2>n, <2>r, IdleType DEF LedgerInv, OneTesseraPerTrade, RecorderInv
  <2>4. RetryMeansProgress'
    BY <2>n, <2>r, IdleType DEF LedgerInv, LedgerTypeOK, RetryMeansProgress
  <2>5. KeyringInv' /\ TesserasVerify'
    BY <2>n DEF LedgerInv, KeyringInv, TesserasVerify
  <2> QED
    BY <2>1, <2>2, <2>3, <2>4, <2>5 DEF LedgerInv
<1> QED
  BY <1>1, <1>2

\* Every step of every handler, of the operator and of a restart keeps it.
LEMMA LedgerNextInv == ASSUME LedgerInv, [LedgerNext]_ledgerVars PROVE LedgerInv'
<1>t. /\ log \in Seq(Entry) /\ Len(log) \in Nat /\ rec \in [ Recorders -> RecType ]
      /\ restarts \in Nat /\ aborts \in Nat
  BY DEF LedgerInv, LedgerTypeOK, RecType
<1>1. ASSUME NEW r \in Recorders, NEW t \in Trades, Record(r, t) PROVE LedgerInv'
  <2>1. rec' = [ rec EXCEPT ![r] = [ Idle EXCEPT !.pc = "head", !.trade = t ] ]
        /\ UNCHANGED << log, tesseras, keyring, signer, restarts, aborts >>
    BY <1>1 DEF Record
  <2>2. [ Idle EXCEPT !.pc = "head", !.trade = t ] \in RecType
    BY IdleType DEF RecType
  <2>3. rec' \in [ Recorders -> RecType ] /\ \A q \in Recorders : q # r => rec'[q] = rec[q]
    BY <1>t, <2>1, <2>2
  <2>4. rec'[r].pc = "head" /\ rec'[r].trade = t /\ rec'[r].attempt = 0
    BY <1>t, <2>1 DEF Idle
  <2> QED
    BY <1>t, <2>1, <2>3, <2>4, LedgerQuiet
<1>2. ASSUME NEW r \in Recorders, readHead(r) PROVE LedgerInv'
  <2>1. rec' = [ rec EXCEPT ![r].pc = "append", ![r].prevHash = HeadLedgerEntry ]
        /\ UNCHANGED << log, tesseras, keyring, signer, restarts, aborts >>
    BY <1>2 DEF readHead
  <2>2. HeadLedgerEntry = HashAt(Len(log)) /\ HeadLedgerEntry \in Hash
    BY <1>t, HashAtType DEF HeadLedgerEntry
  <2>3. rec' \in [ Recorders -> RecType ] /\ \A q \in Recorders : q # r => rec'[q] = rec[q]
    BY <1>t, <2>1, <2>2 DEF RecType
  <2>4. rec'[r].pc = "append" /\ rec'[r].trade = rec[r].trade
        /\ rec'[r].attempt = rec[r].attempt /\ rec'[r].prevHash = HashAt(Len(log))
    BY <1>t, <2>1, <2>2 DEF RecType
  <2>5. rec[r].trade \in Trades /\ rec[r].attempt <= Len(log)
    BY <1>2 DEF readHead, LedgerInv, RecorderInv, RetryMeansProgress
  <2> QED
    BY <1>t, <2>1, <2>3, <2>4, <2>5, LedgerQuiet
<1>3. ASSUME NEW r \in Recorders, appendStale(r) PROVE LedgerInv'
  <2> DEFINE attempt == rec[r].attempt + 1
             h == [ rec[r] EXCEPT !.pc = "head", !.attempt = attempt ]
  <2>1. rec' = [ rec EXCEPT ![r] = IF attempt < appendAttempts THEN h ELSE Idle ]
        /\ UNCHANGED << log, tesseras, keyring, signer, restarts, aborts >>
    BY <1>3 DEF appendStale
  <2>2. h \in RecType /\ h.pc = "head" /\ h.trade = rec[r].trade /\ h.attempt = attempt
    <3>1. rec[r] \in RecType
      BY <1>t
    <3>2. rec[r].attempt \in Nat /\ attempt \in Nat
      BY <3>1 DEF RecType
    <3> QED
      BY <3>1, <3>2 DEF RecType
  <2>3. attempt <= Len(log) /\ rec[r].trade \in Trades
    <3>1. PICK n \in 0..Len(log) : rec[r].attempt <= n /\ rec[r].prevHash = HashAt(n)
      BY <1>3 DEF appendStale, LedgerInv, RecorderInv
    <3>2. n # Len(log)
      BY <1>3, <3>1 DEF appendStale, HeadLedgerEntry
    <3>3. rec[r].attempt \in Nat
      BY <1>t DEF RecType
    <3>4. attempt <= Len(log)
      BY <1>t, <3>1, <3>2, <3>3
    <3> QED
      BY <1>3, <3>4 DEF appendStale, LedgerInv, RecorderInv
  <2> HIDE DEF h, attempt
  <2>4. rec' \in [ Recorders -> RecType ] /\ (rec'[r] = h \/ rec'[r] = Idle)
        /\ \A q \in Recorders : q # r => rec'[q] = rec[q]
    BY <1>t, <2>1, <2>2, IdleType
  <2> QED
    BY <1>t, <2>1, <2>2, <2>3, <2>4, LedgerQuiet
<1>4. ASSUME NEW r \in Recorders, appendDuplicate(r) \/ Abort(r) PROVE LedgerInv'
  <2>1. rec' = [ rec EXCEPT ![r] = Idle ] /\ aborts' \in Nat
        /\ UNCHANGED << log, tesseras, keyring, signer, restarts >>
    BY <1>4, <1>t DEF appendDuplicate, Abort
  <2>2. rec' \in [ Recorders -> RecType ] /\ rec'[r] = Idle
        /\ \A q \in Recorders : q # r => rec'[q] = rec[q]
    BY <1>t, <2>1, IdleType
  <2> QED
    BY <1>t, <2>1, <2>2, LedgerQuiet
<1>5. CASE UNCHANGED ledgerVars
  BY <1>5, <1>t, LedgerQuiet DEF ledgerVars
<1> QED
  BY <1>1, <1>2, <1>3, <1>4, <1>5, LedgerAppendInv, LedgerReceiptInv, LedgerKeysInv
  DEF LedgerNext, RecorderStep

-----------------------------------------------------------------------------
\* The ledger keeps its invariant: however many handlers append, retry, abort and
\* restart, the chain stays linked, a trade is anchored once, each tessera cites
\* its own entry and verifies under the keys kept by rotation (ledger.Record,
\* store.AppendLedgerEntry, RotateSigner).
THEOREM LedgerInvariant == LedgerSpec => []LedgerInv
<1>1. LedgerInit => LedgerInv
  BY LedgerInitInv
<1>2. LedgerInv /\ [LedgerNext]_ledgerVars => LedgerInv'
  BY LedgerNextInv
<1> QED
  BY <1>1, <1>2, PTL DEF LedgerSpec

\* The chain is intact in every state (AppendLedgerEntry and its retry loop).
THEOREM LedgerChainIntact == LedgerSpec => [](ChainIntact /\ OneEntryPerTrade)
<1>1. LedgerInv => ChainIntact /\ OneEntryPerTrade
  BY DEF LedgerInv
<1> QED
  BY <1>1, LedgerInvariant, PTL

\* Every tessera ever issued cites its entry and verifies, across rotations.
THEOREM LedgerTesserasVerify == LedgerSpec => [](TesseraCitesEntry /\ TesserasVerify)
<1>1. LedgerInv => TesseraCitesEntry /\ TesserasVerify
  BY DEF LedgerInv
<1> QED
  BY <1>1, LedgerInvariant, PTL

\* A trade has at most one tessera, and a handler about to sign one signs for a
\* trade that has none, also when two handlers record one trade at once
\* (ledger.Record's read of the tessera, its retry, and the primary key).
THEOREM LedgerOneTessera == LedgerSpec => []OneTesseraPerTrade
<1>1. LedgerInv => OneTesseraPerTrade
  BY DEF LedgerInv
<1> QED
  BY <1>1, LedgerInvariant, PTL

\* No handler retries without another's append having overtaken it.
THEOREM LedgerRetryMeansProgress == LedgerSpec => []RetryMeansProgress
<1>1. LedgerInv => RetryMeansProgress
  BY DEF LedgerInv
<1> QED
  BY <1>1, LedgerInvariant, PTL

\* No step rewrites or drops an entry (the only write is AppendLedgerEntry's).
THEOREM LedgerIsAppendOnly == LedgerSpec => LedgerAppendOnly
<1>1. ASSUME LedgerInv, [LedgerNext]_ledgerVars
      PROVE [ /\ Len(log) <= Len(log')
              /\ \A i \in DOMAIN log : log'[i] = log[i] ]_log
  <2>1. ASSUME NEW r \in Recorders, AppendLedgerEntry(r)
        PROVE Len(log) <= Len(log') /\ \A i \in DOMAIN log : log'[i] = log[i]
    <3>1. Len(log) \in Nat
      BY <1>1 DEF LedgerInv, LedgerTypeOK
    <3> QED
      BY <1>1, <2>1, <3>1, LedgerAppendEffect
  <2>2. CASE UNCHANGED log
    BY <2>2
  <2> QED
    BY <1>1, <2>1, <2>2 DEF LedgerNext, RecorderStep, ledgerVars, Record, readHead,
      appendStale, appendDuplicate, SaveReceipt, Abort, RotateSigner, Restart
<1> QED
  BY <1>1, LedgerInvariant, PTL DEF LedgerSpec, LedgerAppendOnly
=============================================================================
