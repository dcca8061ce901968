----------------------------- MODULE Transaction -----------------------------
(***************************************************************************)
(* The settlement transaction, internal/settlement: the terms of a trade,   *)
(* the transaction the builder hands the buyer and the comparison that      *)
(* decides whether a transaction on the chain settles the terms.            *)
(***************************************************************************)
EXTENDS Cluster, Money, Ordering

Key(name) == << "key", name >>
ATA(wallet, mint) == << "ata", wallet, mint >>

Buyer(t) == Key(t.buyer)
BuyerATA(t) == ATA(t.buyer, t.mint)
SellerATA(t) == ATA(t.seller, t.mint)
Memo(t) == t.tradeID

\* The terms of a trade, {} when it is not settleable.
NewTerms(trade, registry, fee) ==
  LET entry == CHOOSE e \in Lookup(registry, trade.mint) : TRUE
      units == BaseUnits(trade.amount, entry.decimals)
  IN  IF \/ trade.state \notin {"accepted", "settlement_pending"}
         \/ trade.mode # "onchain"
         \/ IsZero(trade.amount)
         \/ Enabled(registry, trade.mint) # "ok"
         \/ {trade.buyer, trade.seller} \cap Address # {trade.buyer, trade.seller}
      THEN {}
      ELSE IF units <= 0 THEN {}
      ELSE {[tradeID |-> trade.id, amount |-> units, decimals |-> entry.decimals,
             mint |-> trade.mint, buyer |-> trade.buyer, seller |-> trade.seller, fee |-> fee]}

-----------------------------------------------------------------------------
(* Instructions, as the program libraries build them                        *)

\* CreateATA also lists the System and the token program, the same for every
\* settlement; they are left out.
Plain == [signer |-> FALSE, writable |-> FALSE]
Writable == [signer |-> FALSE, writable |-> TRUE]
Signs == [signer |-> TRUE, writable |-> FALSE]
Pays == [signer |-> TRUE, writable |-> TRUE]
As(key, flags) == [key |-> key, signer |-> flags.signer, writable |-> flags.writable]

CreateATA(t) ==
  [program |-> Key("associated-token"),
   accounts |-> << As(Buyer(t), Pays), As(SellerATA(t), Writable), As(Key(t.seller), Plain),
                   As(Key(t.mint), Plain) >>,
   data |-> << "create" >>]

transferChecked(t) ==
  [program |-> Key("token"),
   accounts |-> << As(BuyerATA(t), Writable), As(Key(t.mint), Plain), As(SellerATA(t), Writable),
                   As(Buyer(t), Signs) >>,
   data |-> << "transfer", t.amount, t.decimals >>]

MemoInstruction(t) ==
  [program |-> Key("memo"), accounts |-> << As(Buyer(t), Signs) >>, data |-> << "memo", Memo(t) >>]

FeeTransfer(t) ==
  [program |-> Key("system"),
   accounts |-> << As(Buyer(t), Pays), As(Key(t.fee.wallet), Writable) >>,
   data |-> << "lamports", t.fee.lamports >>]

expectedInstructions(t, sellerATAExists) ==
  (IF sellerATAExists THEN <<>> ELSE << CreateATA(t) >>)
    \o << transferChecked(t), MemoInstruction(t), FeeTransfer(t) >>

-----------------------------------------------------------------------------
(* The message compiler of the Solana library                               *)

\* The accounts the instructions use, the payer's first and each program's last.
AccountUses(instructions, payer) ==
  << As(payer, Pays) >>
    \o FlattenSeq([i \in DOMAIN instructions |->
                     instructions[i].accounts \o << As(instructions[i].program, Plain) >>])

KeysUsed(uses) == {uses[i].key : i \in DOMAIN uses}

\* An account has the union of its uses' flags.
SigningKeys(uses) == {uses[i].key : i \in {j \in DOMAIN uses : uses[j].signer}}
WritingKeys(uses) == {uses[i].key : i \in {j \in DOMAIN uses : uses[j].writable}}

\* Signers come first, then writable accounts, then the rest.
AccountClass(k, signing, writing) ==
  IF k \in signing THEN (IF k \in writing THEN 1 ELSE 2) ELSE (IF k \in writing THEN 3 ELSE 4)

FirstUse(k, uses) ==
  CHOOSE i \in DOMAIN uses : uses[i].key = k /\ \A j \in 1 .. i - 1 : uses[j].key # k

\* Every account once, by class and then by first use; an instruction refers to it by
\* its place.
NewTransaction(instructions, payer) ==
  LET uses == AccountUses(instructions, payer)
      keys == KeysUsed(uses)
      signing == SigningKeys(uses)
      writing == WritingKeys(uses)
      class(k) == AccountClass(k, signing, writing)
      precedes(k, l) ==
        class(k) < class(l) \/ (class(k) = class(l) /\ FirstUse(k, uses) < FirstUse(l, uses))
      before == {p \in keys \X keys : precedes(p[1], p[2])}
      index == Places(keys, before)
      count(classes) == Cardinality({k \in keys : class(k) \in classes})
  IN  [version |-> "legacy", keys |-> InOrder(keys, before),
       signers |-> count({1, 2}), readonlySigned |-> count({2}), readonlyUnsigned |-> count({4}),
       signedBy |-> {},
       instructions |-> [i \in DOMAIN instructions |->
         [program |-> index[instructions[i].program],
          accounts |-> [j \in DOMAIN instructions[i].accounts |-> index[instructions[i].accounts[j].key]],
          data |-> instructions[i].data]]]

\* A signature of a wallet over exactly this message.
SignedBy(tx, wallets) == [tx EXCEPT !.signedBy = wallets]

-----------------------------------------------------------------------------
(* Build and verify                                                         *)

Build(t, sellerATAExists) == NewTransaction(expectedInstructions(t, sellerATAExists), Buyer(t))

\* compile: the canonical instructions of a legacy message, {} for another one.
compile(tx) ==
  LET n == Len(tx.keys)
      resolve(i) ==
        IF i > n THEN As(Key("none"), Plain)
        ELSE [key |-> tx.keys[i], signer |-> i <= tx.signers,
              writable |-> IF i <= tx.signers THEN i <= tx.signers - tx.readonlySigned
                           ELSE i <= n - tx.readonlyUnsigned]
  IN  IF tx.version # "legacy" \/ \E i \in DOMAIN tx.instructions : tx.instructions[i].program > n
      THEN {}
      ELSE {[i \in DOMAIN tx.instructions |->
               [program |-> tx.keys[tx.instructions[i].program],
                accounts |-> [j \in DOMAIN tx.instructions[i].accounts |->
                                resolve(tx.instructions[i].accounts[j])],
                data |-> tx.instructions[i].data]]}

\* expectedCanonical that reads the flags the instruction builders set.
expectedCanonical_Raw(t, sellerATAExists) == {expectedInstructions(t, sellerATAExists)}

expectedCanonical(t, sellerATAExists) ==
  compile(NewTransaction(expectedInstructions(t, sellerATAExists), Buyer(t)))

\* sameInstructions that does not mind what follows.
sameInstructions_Prefix(a, b) == Len(a) >= Len(b) /\ SubSeq(a, 1, Len(b)) = b

sameInstructions(a, b) == a = b

checkPayer(t, tx) ==
  /\ tx.keys # <<>>
  /\ tx.keys[1] = Buyer(t)
  /\ tx.signers = 1
  /\ tx.signedBy = {tx.keys[1]}

Verify(t, tx) ==
  /\ checkPayer(t, tx)
  /\ \E actual \in compile(tx) :
       \E want \in expectedCanonical(t, FALSE) \cup expectedCanonical(t, TRUE) :
         sameInstructions(actual, want)
=============================================================================
