--------------------------- MODULE SettlementProof ---------------------------
(***************************************************************************)
(* The safety of on-chain settlement for any set of handlers, any          *)
(* signatures, any number of requests, aborts and restarts.  SettlementInv *)
(* is inductive.  The invariant and the contract of the off-chain service  *)
(* carry over: the lemmas of TradeProof are about single statements, which *)
(* a settlement runs too.                                                  *)
(***************************************************************************)
EXTENDS Settlement, TradeProof, WellFoundedInduction

-----------------------------------------------------------------------------
(* The requests *)

\* What no statement does to the requests of a trade: one is never dropped or
\* given another cluster, a recorded signature is never replaced, and a request
\* that is not issued any more stays what it is.  A new one is of the cluster the
\* process runs on.
Kept ==
  /\ requests' \in Seq(Request)
  /\ Len(requests) <= Len(requests')
  /\ \A i \in DOMAIN requests :
       /\ requests'[i].cluster = requests[i].cluster
       /\ requests[i].signature # NoSig => requests'[i].signature = requests[i].signature
       /\ requests[i].status # "issued" => requests'[i].status = requests[i].status
  /\ \A i \in DOMAIN requests' : i > Len(requests) => requests'[i].cluster = cluster

\* The newest request waits for its buyer.
NewestIssued == requests # << >> /\ requests[Len(requests)].status = "issued"

\* Withdrawing the issued requests changes their status and nothing else.
LEMMA ExpireRows ==
  ASSUME NEW rs \in Seq(Request)
  PROVE  /\ Expire(rs) \in Seq(Request) /\ Len(Expire(rs)) = Len(rs)
         /\ \A i \in 1..Len(rs) :
              /\ Expire(rs)[i] \in Request
              /\ Expire(rs)[i].cluster = rs[i].cluster
              /\ Expire(rs)[i].signature = rs[i].signature
              /\ Expire(rs)[i].status # "issued"
              /\ rs[i].status # "issued" => Expire(rs)[i].status = rs[i].status
<1>1. DOMAIN rs = 1..Len(rs) /\ Len(rs) \in Nat /\ \A i \in 1..Len(rs) : rs[i] \in Request
  OBVIOUS
<1>2. ASSUME NEW r \in Request
      PROVE  /\ [ r EXCEPT !.status = "expired" ] \in Request
             /\ [ r EXCEPT !.status = "expired" ].cluster = r.cluster
             /\ [ r EXCEPT !.status = "expired" ].signature = r.signature
             /\ [ r EXCEPT !.status = "expired" ].status = "expired"
  BY DEF Request
<1>3. /\ Expire(rs) = [ i \in 1..Len(rs) |-> Expire(rs)[i] ]
      /\ \A i \in 1..Len(rs) :
           Expire(rs)[i] = IF rs[i].status = "issued" THEN [ rs[i] EXCEPT !.status = "expired" ]
                                                      ELSE rs[i]
  BY <1>1 DEF Expire
<1>4. \A i \in 1..Len(rs) :
              /\ Expire(rs)[i] \in Request
              /\ Expire(rs)[i].cluster = rs[i].cluster
              /\ Expire(rs)[i].signature = rs[i].signature
              /\ Expire(rs)[i].status # "issued"
              /\ rs[i].status # "issued" => Expire(rs)[i].status = rs[i].status
  BY <1>1, <1>2, <1>3
<1>5. Expire(rs) \in Seq(Request) /\ Len(Expire(rs)) = Len(rs)
  BY <1>1, <1>3, <1>4
<1> QED
  BY <1>4, <1>5

\* Updating one row of a table leaves the others alone.
LEMMA UpdateRow ==
  ASSUME NEW S, NEW s \in Seq(S), NEW i \in DOMAIN s, NEW x \in S
  PROVE  LET t == [ s EXCEPT ![i] = x ]
         IN  /\ t \in Seq(S) /\ Len(t) = Len(s) /\ t[i] = x
             /\ \A j \in DOMAIN s : j # i => t[j] = s[j]
OBVIOUS

\* What is kept when nothing is written.
LEMMA NothingKept ==
  ASSUME requests \in Seq(Request), UNCHANGED requests
  PROVE  Kept /\ (IssuedIsLast => IssuedIsLast')
<1>1. Len(requests) \in Nat /\ DOMAIN requests = 1..Len(requests)
  OBVIOUS
<1> QED
  BY <1>1 DEF Kept, IssuedIsLast

\* ExpireSettlementRequests leaves no request issued.
LEMMA ExpireKept ==
  ASSUME requests \in Seq(Request), ExpireSettlementRequests
  PROVE  /\ Kept /\ IssuedIsLast' /\ Len(requests') = Len(requests)
         /\ \A i \in DOMAIN requests : requests'[i].signature = requests[i].signature
<1> DEFINE rs == Expire(requests)
<1>1. /\ rs \in Seq(Request) /\ Len(rs) = Len(requests)
      /\ \A i \in 1..Len(requests) :
              /\ rs[i].cluster = requests[i].cluster
              /\ rs[i].signature = requests[i].signature
              /\ rs[i].status # "issued"
              /\ requests[i].status # "issued" => rs[i].status = requests[i].status
  BY ExpireRows
<1>2. requests' = rs
  BY DEF ExpireSettlementRequests
<1>3. Len(requests) \in Nat /\ DOMAIN requests = 1..Len(requests) /\ DOMAIN rs = 1..Len(rs)
  BY <1>1
<1> HIDE DEF rs
<1> QED
  BY <1>1, <1>2, <1>3 DEF Kept, IssuedIsLast

\* CreateSettlementRequest supersedes what was issued and adds one request.
LEMMA CreateKept ==
  ASSUME requests \in Seq(Request), NEW at \in Nat, cluster \in Clusters,
         fee \in Fees, CreateSettlementRequest(at, cluster, fee)
  PROVE  Kept /\ IssuedIsLast' /\ NewestIssued'
<1> DEFINE rs == Expire(requests)
           x == [ status |-> "issued", signature |-> NoSig, expiresAt |-> at,
                  cluster |-> cluster, fee |-> fee ]
           n == Len(requests)
<1>1. /\ rs \in Seq(Request) /\ Len(rs) = n
      /\ \A i \in 1..n :
              /\ rs[i].cluster = requests[i].cluster
              /\ rs[i].signature = requests[i].signature
              /\ rs[i].status # "issued"
              /\ requests[i].status # "issued" => rs[i].status = requests[i].status
  BY ExpireRows
<1>2. requests' = Append(rs, x)
  BY DEF CreateSettlementRequest
<1>3. n \in Nat /\ DOMAIN requests = 1..n
  OBVIOUS
<1>x. x \in Request /\ x.cluster = cluster /\ x.status = "issued"
  BY DEF Request
<1> HIDE DEF rs, x, n
<1>4. ASSUME NEW s \in Seq(Request), NEW y \in Request
      PROVE  /\ Append(s, y) \in Seq(Request) /\ Len(Append(s, y)) = Len(s) + 1
             /\ \A i \in 1..Len(s) : Append(s, y)[i] = s[i]
             /\ Append(s, y)[Len(s) + 1] = y
             /\ DOMAIN Append(s, y) = 1..(Len(s) + 1)
  OBVIOUS
<1>5. /\ requests' \in Seq(Request) /\ Len(requests') = n + 1
      /\ \A i \in 1..n : requests'[i] = rs[i]
      /\ requests'[n + 1] = x /\ DOMAIN requests' = 1..(n + 1)
  BY <1>1, <1>2, <1>4, <1>x
<1>6. Kept
  BY <1>1, <1>3, <1>5, <1>x DEF Kept, n
<1>7. IssuedIsLast'
  BY <1>1, <1>3, <1>5 DEF IssuedIsLast
<1>8. NewestIssued'
  BY <1>3, <1>5, <1>x, EmptyIsEmpty DEF NewestIssued
<1> QED
  BY <1>6, <1>7, <1>8

\* A statement that writes one request: its signature, and perhaps its status.
LEMMA RowKept ==
  ASSUME requests \in Seq(Request), IssuedIsLast, NEW i \in DOMAIN requests,
         NEW r \in Request, requests' = [ requests EXCEPT ![i] = r ],
         requests[i].status = "issued",
         requests[i].signature \in { NoSig, r.signature },
         r.cluster = requests[i].cluster
  PROVE  /\ Kept /\ IssuedIsLast' /\ Len(requests') = Len(requests) /\ requests'[i] = r
<1>1. /\ requests' \in Seq(Request) /\ Len(requests') = Len(requests) /\ requests'[i] = r
      /\ \A j \in DOMAIN requests : j # i => requests'[j] = requests[j]
  BY UpdateRow
<1>2. Len(requests) \in Nat /\ DOMAIN requests = 1..Len(requests)
      /\ DOMAIN requests' = 1..Len(requests')
  BY <1>1
<1>3. i = Len(requests)
  BY DEF IssuedIsLast
<1>4. Kept
  BY <1>1, <1>2 DEF Kept
<1>5. IssuedIsLast'
  BY <1>1, <1>2, <1>3 DEF IssuedIsLast
<1> QED
  BY <1>1, <1>4, <1>5

\* SetSettlementSignature records the signature it was given.
LEMMA SignKept ==
  ASSUME requests \in Seq(Request), IssuedIsLast, NEW i \in DOMAIN requests,
         NEW sig \in Sigs, SetSettlementSignature(i, sig)
  PROVE  /\ Kept /\ IssuedIsLast' /\ Len(requests') = Len(requests)
         /\ requests'[i].signature = sig /\ requests'[i].cluster = requests[i].cluster
<1> DEFINE r == [ requests[i] EXCEPT !.signature = sig ]
<1>1. requests[i] \in Request
  OBVIOUS
<1>2. r \in Request /\ r.signature = sig /\ r.cluster = requests[i].cluster
  BY <1>1 DEF Request
<1>3. /\ requests' = [ requests EXCEPT ![i] = r ] /\ requests[i].status = "issued"
      /\ requests[i].signature \in { NoSig, sig }
  BY DEF SetSettlementSignature
<1> HIDE DEF r
<1> QED
  BY <1>2, <1>3, RowKept

\* ConfirmSettlementRequest of a request that names this signature, or none.
LEMMA ConfirmKept ==
  ASSUME requests \in Seq(Request), IssuedIsLast, NEW i \in DOMAIN requests,
         NEW sig \in Sigs, ConfirmSettlementRequest(i, sig),
         requests[i].signature \in { NoSig, sig }
  PROVE  /\ Kept /\ IssuedIsLast' /\ Len(requests') = Len(requests)
         /\ requests'[i].signature = sig /\ requests'[i].cluster = requests[i].cluster
         /\ requests'[i].status = "confirmed"
<1> DEFINE r == [ requests[i] EXCEPT !.status = "confirmed", !.signature = sig ]
<1>1. requests[i] \in Request
  OBVIOUS
<1>2. /\ r \in Request /\ r.signature = sig /\ r.cluster = requests[i].cluster
      /\ r.status = "confirmed"
  BY <1>1 DEF Request
<1>3. requests' = [ requests EXCEPT ![i] = r ] /\ requests[i].status = "issued"
  BY DEF ConfirmSettlementRequest
<1> HIDE DEF r
<1> QED
  BY <1>2, <1>3, RowKept

\* GetSettlementRequest finds a request as soon as there is one: the newest, since
\* only that one can be issued.
LEMMA CurrentExists ==
  ASSUME requests \in Seq(Request), requests # << >>, IssuedIsLast
  PROVE  GetSettlementRequest \in DOMAIN requests
<1>1. Len(requests) \in DOMAIN requests
  OBVIOUS
<1> DEFINE newest(i) == \A j \in DOMAIN requests :
              /\ requests[j].status = "issued" => requests[i].status = "issued"
              /\ ((requests[i].status = "issued") <=> (requests[j].status = "issued")) => j <= i
<1>2. newest(Len(requests))
  BY <1>1 DEF IssuedIsLast
<1>3. GetSettlementRequest = CHOOSE i \in DOMAIN requests : newest(i)
  BY DEF GetSettlementRequest
<1> HIDE DEF newest
<1> QED
  BY <1>1, <1>2, <1>3

\* A set of natural numbers up to n that is not empty has a greatest element.
LEMMA Greatest ==
  ASSUME NEW n \in Nat, NEW S, S \subseteq 1..n, S # {}
  PROVE  \E i \in S : \A j \in S : j <= i
<1> DEFINE T == { n - i : i \in S }
           R == OpToRel(<, Nat)
<1>1. T \subseteq Nat /\ T # {}
  <2>1. \A i \in S : n - i \in Nat
    OBVIOUS
  <2> QED
    BY <2>1
<1>2. IsWellFoundedOn(R, Nat)
  BY NatLessThanWellFounded
<1>3. \A x, y \in Nat : x < y => << x, y >> \in R
  BY DEF OpToRel
<1> HIDE DEF R, T
<1>4. PICK m \in T : \A y \in T : ~ (<< y, m >> \in R)
  BY <1>1, <1>2, WFMin
<1>5. PICK i \in S : m = n - i
  BY DEF T
<1>6. ASSUME NEW j \in S PROVE j <= i
  <2>1. n - j \in T /\ n - j \in Nat /\ m \in Nat
    BY <1>1 DEF T
  <2>2. ~ (n - j < m)
    BY <1>3, <1>4, <2>1
  <2> QED
    BY <1>5, <2>2
<1> QED
  BY <1>6

\* latestSignedRequest is a signed request.
LEMMA LatestExists ==
  ASSUME requests \in Seq(Request), signedRequests # {}
  PROVE  latestSignedRequest \in signedRequests
<1>1. Len(requests) \in Nat /\ signedRequests \subseteq 1..Len(requests)
  BY DEF signedRequests
<1>2. \E i \in signedRequests : \A j \in signedRequests : j <= i
  BY <1>1, Greatest
<1> QED
  BY <1>2 DEF latestSignedRequest

-----------------------------------------------------------------------------
(* The frame of a step *)

\* What every step but a restart leaves to the handlers it does not move.
Stable ==
  /\ Kept
  /\ cluster' = cluster /\ fee' = fee
  /\ \A sig \in Sigs : chain[sig].status \in { "executed", "failed" } => chain'[sig] = chain[sig]
  /\ trade.state \in OnChain => trade'.state \in OnChain

\* Where a settlement stands, no statement but a build, a confirmation, a
\* reconciliation and what they lead to can be.
LEMMA PlainHandler ==
  ASSUME NEW p \in Procs,
         proc'[p].pc \notin SettlePc \cup { "create", "append", "receipt" },
         proc'[p].to # "settled",
         proc'[p].to = "recorded" => proc'[p].op = "record",
         proc'[p].pc = "set_state" => proc'[p].to # "settlement_pending",
         proc'[p].to = "disputed" => proc'[p].pc # "set_state" \/ proc'[p].op = "dispute"
  PROVE  SettleInv(p)'
BY DEF SettleInv, SettlePc

\* A trade that has requests keeps them.
LEMMA StillHasRequest ==
  ASSUME requests \in Seq(Request), Kept, requests # << >>
  PROVE  requests' # << >>
<1>1. Len(requests) \in Nat /\ Len(requests) > 0
  OBVIOUS
<1>2. Len(requests) <= Len(requests')
  BY DEF Kept
<1> QED
  BY <1>1, <1>2, EmptyIsEmpty

\* A request stays where it is.
LEMMA StillThere ==
  ASSUME requests \in Seq(Request), Kept
  PROVE  \A i \in DOMAIN requests : i \in DOMAIN requests' /\ i <= Len(requests)
<1>1. requests' \in Seq(Request) /\ Len(requests) <= Len(requests')
  BY DEF Kept
<1>2. /\ DOMAIN requests = 1..Len(requests) /\ DOMAIN requests' = 1..Len(requests')
      /\ Len(requests) \in Nat /\ Len(requests') \in Nat
  BY <1>1
<1> QED
  BY <1>1, <1>2

\* A recorded signature stays recorded.
LEMMA StillSigned ==
  ASSUME requests \in Seq(Request), Kept, signedRequests # {}
  PROVE  signedRequests' # {}
<1>1. \A i \in DOMAIN requests : i \in DOMAIN requests'
  BY StillThere
<1>2. PICK i \in DOMAIN requests : requests[i].signature # NoSig
  BY DEF signedRequests
<1>3. i \in signedRequests'
  BY <1>1, <1>2 DEF Kept, signedRequests
<1> QED
  BY <1>3

\* What a handler knows of its request and of the chain stays true.
LEMMA StillNamed ==
  ASSUME SettlementInv, Stable, NEW q \in Procs,
         proc'[q].current = proc[q].current, proc'[q].signature = proc[q].signature
  PROVE  /\ Named(q) => Named(q)'
         /\ Settles(q) => Settles(q)'
         /\ Mismatches(q) => Mismatches(q)'
         /\ Paid(q) => Paid(q)'
<1>1. requests \in Seq(Request) /\ NoSig \notin Sigs
  BY StoreAssumption DEF SettlementInv, TypeOK, TradeTypeOK, StoreType
<1>2. \A i \in DOMAIN requests : i \in DOMAIN requests'
  BY <1>1, StillThere DEF Stable
<1>3. Named(q) => Named(q)'
  BY <1>1, <1>2 DEF Stable, Kept, Named
<1>4. Named(q) /\ Visible(chain[proc[q].signature])
      => chain'[proc'[q].signature] = chain[proc[q].signature]
  BY DEF Stable, Named, Visible
<1>5. Settles(q) => Settles(q)'
  BY <1>3, <1>4 DEF Settles, Stable, Visible, Verify
<1>6. Mismatches(q) => Mismatches(q)'
  BY <1>3, <1>4 DEF Mismatches, Stable, Visible, Verify
<1>7. Paid(q) => Paid(q)'
  BY <1>1, <1>5 DEF Stable, Kept, Settles, Named, Paid
<1> QED
  BY <1>3, <1>5, <1>6, <1>7

\* A handler that does not move keeps what it can rely on.
LEMMA HandlerKept ==
  ASSUME SettlementInv, Stable, NEW q \in Procs, proc'[q] = proc[q]
  PROVE  SettleInv(q)'
<1>1. SettleInv(q) /\ requests \in Seq(Request)
  BY DEF SettlementInv, TypeOK, TradeTypeOK, StoreType
<1>2. requests # << >> => requests' # << >>
  BY <1>1, StillHasRequest DEF Stable
<1>3. /\ Named(q) => Named(q)'
      /\ Settles(q) => Settles(q)'
      /\ Mismatches(q) => Mismatches(q)'
      /\ Paid(q) => Paid(q)'
  BY StillNamed
<1>4. proc[q].pc = "sign" =>
        \A i \in DOMAIN requests' : i > proc[q].listed => requests'[i].cluster = cluster'
  <2> SUFFICES ASSUME proc[q].pc = "sign", NEW i \in DOMAIN requests', i > proc[q].listed
               PROVE  requests'[i].cluster = cluster
    BY DEF Stable
  <2>1. CASE i \in DOMAIN requests
    BY <1>1, <2>1 DEF Stable, Kept, SettleInv
  <2>2. CASE i \notin DOMAIN requests
    <3>1. /\ DOMAIN requests = 1..Len(requests) /\ DOMAIN requests' = 1..Len(requests')
          /\ Len(requests) \in Nat /\ Len(requests') \in Nat
      BY <1>1 DEF Stable, Kept
    <3> QED
      BY <2>2, <3>1 DEF Stable, Kept
  <2> QED
    BY <2>1, <2>2
<1>5. proc[q].pc = "withdraw" => signedRequests' # {}
  BY <1>1, StillSigned DEF Stable, SettleInv
<1> QED
  BY <1>1, <1>2, <1>3, <1>4, <1>5 DEF Stable, SettleInv, Books

\* The rows a settlement leaves stay explained while the trade stays as it is.
LEMMA RowsKept ==
  ASSUME SettlementInv, Stable, UNCHANGED << trade, receipts >>
  PROVE  SettledWasPaid' /\ TesseraNamesPayment'
<1>1. requests \in Seq(Request) /\ NoSig \notin Sigs
  BY StoreAssumption DEF SettlementInv, TypeOK, TradeTypeOK, StoreType
<1>2. \A i \in DOMAIN requests : i \in DOMAIN requests'
  BY <1>1, StillThere DEF Stable
<1>s. \A i \in DOMAIN requests : requests[i].signature \in Sigs \cup { NoSig }
  <2>1. \A i \in DOMAIN requests : requests[i] \in Request
    BY <1>1
  <2> QED
    BY <2>1 DEF Request
<1>3. ASSUME NEW i \in DOMAIN requests, requests[i].signature \in Sigs, Executed(i)
      PROVE  Executed(i)' /\ requests'[i].signature = requests[i].signature
  BY <1>1, <1>3 DEF Stable, Kept, Executed
<1>4. SettledWasPaid'
  <2> SUFFICES ASSUME trade'.state = "settled" PROVE SettledWasPaid'
    BY DEF SettledWasPaid
  <2>1. PICK i \in DOMAIN requests :
          requests[i].status = "confirmed" /\ requests[i].signature \in Sigs /\ Executed(i)
    BY DEF SettlementInv, SettledWasPaid
  <2>2. requests'[i].status = "confirmed"
    BY <2>1 DEF Stable, Kept
  <2> QED
    BY <1>2, <1>3, <2>1, <2>2 DEF SettledWasPaid
<1>5. TesseraNamesPayment'
  <2> SUFFICES ASSUME receipts # << >>, receipts[1].signature # NoSig PROVE TesseraNamesPayment'
    BY DEF TesseraNamesPayment
  <2>1. trade.state = "settled"
    BY DEF SettlementInv, TesseraNamesPayment
  <2>2. PICK i \in DOMAIN requests :
          /\ requests[i].status = "confirmed"
          /\ requests[i].signature = receipts[1].signature
          /\ requests[i].cluster = receipts[1].cluster
          /\ Executed(i)
    BY DEF SettlementInv, TesseraNamesPayment
  <2>3. requests[i].signature \in Sigs
    BY <1>s, <2>2
  <2>4. requests'[i].status = "confirmed" /\ requests'[i].cluster = requests[i].cluster
    BY <2>2 DEF Stable, Kept
  <2> QED
    BY <1>2, <1>3, <2>1, <2>2, <2>3, <2>4 DEF TesseraNamesPayment
<1> QED
  BY <1>4, <1>5

\* What a step that moves a handler to h and writes only the requests leaves to end
\* the trade: the requests as they are, a new one, a recorded signature, or h itself.
Ending(h) ==
  \/ UNCHANGED requests
  \/ NewestIssued'
  \/ trade.state \in OnChain /\ signedRequests' # {}
  \/ trade.state \in OnChain /\ h.pc = "set_state" /\ h.seen = "settlement_pending" /\ h.to = "cancelled"

\* A pending trade keeps something that can end it while only the requests change.
LEMMA EndingKept ==
  ASSUME SettlementInv, Kept, UNCHANGED << trade, aborts, restarts >>,
         NEW p \in Procs, NEW h \in HandlerType, proc' = [ proc EXCEPT ![p] = h ],
         proc[p].pc # "set_state", Ending(h)
  PROVE  PendingHasRequest' /\ NewestIsIssued'
<1>t. /\ requests \in Seq(Request) /\ PendingHasRequest /\ NewestIsIssued
      /\ proc \in [ Procs -> HandlerType ]
  BY DEF SettlementInv, TypeOK, TradeTypeOK, StoreType, HandlerType
<1>n. NewestIssued' => \E i \in DOMAIN requests' : requests'[i].status = "issued"
  <2> SUFFICES ASSUME NewestIssued' PROVE Len(requests') \in DOMAIN requests'
    BY DEF NewestIssued
  <2>1. requests' \in Seq(Request) /\ requests' # << >>
    BY DEF Kept, NewestIssued
  <2> QED
    BY <2>1
<1>1. ASSUME trade.state = "settlement_pending" PROVE PendingHasRequest'
  <2>1. requests' # << >>
    BY <1>t, <1>1, StillHasRequest DEF PendingHasRequest
  <2>2. ASSUME CanEnd PROVE CanEnd'
    <3>1. CASE signedRequests # {}
      BY <1>t, <3>1, StillSigned DEF CanEnd
    <3>2. CASE \E q \in Procs : /\ At(q, "set_state") /\ proc[q].seen = trade.state
                                /\ proc[q].to = "cancelled"
      <4>1. PICK q \in Procs : /\ At(q, "set_state") /\ proc[q].seen = trade.state
                               /\ proc[q].to = "cancelled"
        BY <3>2
      <4>2. proc'[q] = proc[q]
        BY <1>t, <4>1 DEF At
      <4> QED
        BY <4>1, <4>2 DEF CanEnd, At
    <3>3. CASE \E i \in DOMAIN requests : requests[i].status = "issued"
      <4>1. proc'[p] = h
        BY <1>t
      <4> QED
        BY <1>n, <1>1, <3>3, <4>1 DEF Ending, CanEnd, At
    <3> QED
      BY <2>2, <3>1, <3>2, <3>3 DEF CanEnd
  <2> QED
    BY <1>t, <1>1, <2>1, <2>2 DEF PendingHasRequest
<1>2. NewestIsIssued'
  BY <1>t DEF Ending, NewestIsIssued, NewestIssued
<1> QED
  BY <1>1, <1>2 DEF PendingHasRequest

\* The same where no request is written, also by a handler that is stopped.
LEMMA EndingRead ==
  ASSUME SettlementInv, UNCHANGED << trade, requests, restarts >>,
         NEW p \in Procs, NEW h, proc' = [ proc EXCEPT ![p] = h ],
         \/ aborts' # 0
         \/ aborts' = aborts /\ (proc[p].pc # "set_state" \/ proc[p].seen # trade.state)
  PROVE  PendingHasRequest'
<1>t. proc \in [ Procs -> HandlerType ] /\ PendingHasRequest
  BY DEF SettlementInv, TypeOK, TradeTypeOK, HandlerType
<1>1. CASE aborts' # 0
  BY <1>t, <1>1 DEF PendingHasRequest
<1>2. CASE aborts' = aborts /\ (proc[p].pc # "set_state" \/ proc[p].seen # trade.state)
  <2>1. \A q \in Procs : At(q, "set_state") /\ proc[q].seen = trade.state => proc'[q] = proc[q]
    BY <1>t, <1>2 DEF At
  <2>2. signedRequests' = signedRequests
    BY DEF signedRequests
  <2>3. CanEnd => CanEnd'
    BY <2>1, <2>2 DEF CanEnd, At
  <2> QED
    BY <1>t, <1>2, <2>3 DEF PendingHasRequest
<1> QED
  BY <1>1, <1>2

\* A step that moves one handler and writes no row but the requests.
LEMMA SettleStep ==
  ASSUME SettlementInv, NEW p \in Procs, NEW h \in HandlerType,
         proc' = [ proc EXCEPT ![p] = h ],
         UNCHANGED << now, trade, acceptances, events, entries, receipts, offer, aborts >>,
         UNCHANGED chainVars, proc[p].pc # "set_state",
         Kept, IssuedIsLast', Ending(h), Quiet(h), SettleInv(p)'
  PROVE  SettlementInv'
<1>1. TradeInv /\ TypeOK /\ StoreType /\ aborts \in Nat /\ proc \in [ Procs -> HandlerType ]
  BY DEF SettlementInv, TypeOK, TradeTypeOK, HandlerType
<1>2. StoreType' /\ aborts' \in Nat
  BY <1>1 DEF StoreType, Kept
<1>3. tradeAcceptances \subseteq tradeAcceptances'
  BY DEF tradeAcceptances
<1>4. TradeInv'
  BY <1>1, <1>2, <1>3, TradeQuiet
<1>5. TypeOK'
  BY <1>1, <1>4 DEF TypeOK, TradeInv, chainVars
<1>6. Stable
  BY DEF Stable, chainVars
<1>7. \A q \in Procs : SettleInv(q)'
  <2> SUFFICES ASSUME NEW q \in Procs, q # p PROVE SettleInv(q)'
    OBVIOUS
  <2>1. proc'[q] = proc[q]
    BY <1>1
  <2> QED
    BY <1>6, <2>1, HandlerKept
<1>8. PendingHasRequest' /\ NewestIsIssued'
  BY EndingKept DEF chainVars
<1> QED
  BY <1>4, <1>5, <1>6, <1>7, <1>8, RowsKept DEF SettlementInv

\* A step of one handler on the rows of the trade, whose requests it leaves alone.
LEMMA TradeSide ==
  ASSUME SettlementInv, TradeInv', NEW p \in Procs, NEW h \in HandlerType,
         proc' = [ proc EXCEPT ![p] = h ], UNCHANGED requests, UNCHANGED chainVars,
         trade.state \in OnChain => trade'.state \in OnChain,
         SettleInv(p)', SettledWasPaid' /\ PendingHasRequest' /\ TesseraNamesPayment'
  PROVE  SettlementInv'
<1>1. TypeOK /\ IssuedIsLast /\ requests \in Seq(Request) /\ proc \in [ Procs -> HandlerType ]
  BY DEF SettlementInv, TypeOK, TradeTypeOK, StoreType, HandlerType
<1>2. TypeOK'
  BY <1>1 DEF TypeOK, TradeInv, chainVars
<1>3. Kept /\ IssuedIsLast'
  BY <1>1, NothingKept
<1>4. Stable
  BY <1>3 DEF Stable, chainVars
<1>5. \A q \in Procs : SettleInv(q)'
  <2> SUFFICES ASSUME NEW q \in Procs, q # p PROVE SettleInv(q)'
    OBVIOUS
  <2>1. proc'[q] = proc[q]
    BY <1>1
  <2> QED
    BY <1>4, <2>1, HandlerKept
<1>6. NewestIsIssued'
  BY DEF SettlementInv, NewestIsIssued
<1> QED
  BY <1>2, <1>3, <1>5, <1>6 DEF SettlementInv

\* The same where the trade and its tessera stay as they are.
LEMMA TradeSideRead ==
  ASSUME SettlementInv, TradeInv', NEW p \in Procs, NEW h \in HandlerType,
         proc' = [ proc EXCEPT ![p] = h ],
         UNCHANGED << trade, requests, receipts >>, UNCHANGED chainVars,
         aborts' # 0 \/ (aborts' = aborts /\ proc[p].pc # "set_state"),
         SettleInv(p)'
  PROVE  SettlementInv'
<1>1. requests \in Seq(Request) /\ requests' = requests
  BY DEF SettlementInv, TypeOK, TradeTypeOK, StoreType
<1>2. Kept
  BY <1>1, NothingKept
<1>3. Stable
  BY <1>2 DEF Stable, chainVars
<1>4. SettledWasPaid' /\ PendingHasRequest' /\ TesseraNamesPayment'
  BY <1>3, RowsKept, EndingRead DEF chainVars
<1> QED
  BY <1>1, <1>4, TradeSide

\* A handler that goes on to log, book or return what it applied.
LEMMA Carried ==
  ASSUME SettlementInv, Stable, NEW p \in Procs,
         proc'[p].op = proc[p].op, proc'[p].to = proc[p].to,
         proc'[p].current = proc[p].current, proc'[p].signature = proc[p].signature,
         proc'[p].pc \notin SettlePc \cup { "create", "set_state" },
         proc'[p].pc \in { "append", "receipt" } => Books(proc[p]),
         proc[p].to = "settled" => trade'.state \in OnChain
  PROVE  SettleInv(p)'
<1>1. SettleInv(p)
  BY DEF SettlementInv
<1>2. Paid(p) => Paid(p)'
  BY StillNamed
<1> QED
  BY <1>1, <1>2 DEF SettleInv, SettlePc, Books

\* The fields of a handler just begun, and of one about to apply a transition.
LEMMA HandlerFields ==
  /\ Idle.pc = "idle" /\ Idle.to = "proposed"
  /\ \A op, pc :
       /\ Handler(op, pc).op = op /\ Handler(op, pc).pc = pc
       /\ Handler(op, pc).to = trade.state /\ Handler(op, pc).seen = trade.state
       /\ Handler(op, pc).signature = NoSig
BY DEF Idle, Handler

\* A handler about to run the compare-and-set holds what it read and where it goes
\* (applyAs).
LEMMA ApplyingFields ==
  ASSUME NEW h \in HandlerType, NEW to, NEW event
  PROVE  /\ Applying(h, to, event).op = h.op /\ Applying(h, to, event).to = to
         /\ Applying(h, to, event).pc = "set_state"
         /\ Applying(h, to, event).seen = h.seen
         /\ Applying(h, to, event).current = h.current
         /\ Applying(h, to, event).signature = h.signature
BY DEF Applying, HandlerType

\* A handler that returns relies on nothing.
LEMMA IdleRests ==
  ASSUME NEW p \in Procs, proc \in [ Procs -> HandlerType ], proc' = [ proc EXCEPT ![p] = Idle ]
  PROVE  SettleInv(p)'
<1>1. proc'[p] = Idle
  OBVIOUS
<1> QED
  BY <1>1, HandlerFields, PlainHandler DEF SettlePc

-----------------------------------------------------------------------------
(* The statements of the trade service *)

\* A trade that was built never goes back to where it could be recorded.
LEMMA OnChainForGood ==
  ASSUME NEW from \in OnChain, NEW to, canTransition(from, to)
  PROVE  to \in OnChain
BY DEF OnChain, canTransition, transitions, TradeState

\* The calls of a party, the operator or the sweeper.
LEMMA CallInv ==
  ASSUME SettlementInv, NEW p \in Procs, TradeCall(p) \/ Sweep(p), UNCHANGED chainVars
  PROVE  SettlementInv'
<1>t. /\ TradeInv /\ trade.state \in TradeState /\ proc \in [ Procs -> HandlerType ]
  BY DEF SettlementInv, TradeInv, TradeTypeOK, StoreType, HandlerType
<1>i. TradeInv'
  BY <1>t, TradeBeginInv
<1>u. /\ UNCHANGED << trade, requests, receipts, aborts >>
      /\ proc[p].pc # "set_state"
  BY HandlerFields DEF TradeCall, Sweep, BeginNegotiation, Accept, Cancel, Dispute, Resolve,
     Record, ExpireAccepted, ExpireOpen, Begin, db
<1>o. /\ { "set_state", "accept", "live" } \subseteq Pc
      /\ { "negotiate", "accept", "cancel", "dispute", "resolve", "record", "sweep" } \subseteq Op
      /\ { "negotiating", "cancelled", "disputed", "resolved", "recorded" } \subseteq TradeState
      /\ TradeState \subseteq EventType /\ "expired" \in EventType
  BY DEF Pc, Op, TradeState, EventType
<1>b. ASSUME NEW op \in Op, NEW to \in TradeState, NEW event \in EventType,
             to \notin { "settled", "settlement_pending" }, to = "recorded" => op = "record",
             to = "disputed" => op = "dispute", Begin(p, Applying(Handler(op, "set_state"), to, event))
      PROVE  SettlementInv'
  <2> DEFINE g == Handler(op, "set_state")
             h == Applying(g, to, event)
  <2>1. g \in HandlerType /\ g.op = op
    BY <1>t, <1>o, HandlerTypes, HandlerFields
  <2>2. proc' = [ proc EXCEPT ![p] = h ]
    BY <1>b DEF Begin
  <2> HIDE DEF g
  <2>3. h \in HandlerType /\ h.pc = "set_state" /\ h.to = to /\ h.op = op
    BY <2>1, ApplyingType, ApplyingFields
  <2> HIDE DEF h
  <2>4. proc'[p] = h
    BY <1>t, <2>2
  <2>5. SettleInv(p)'
    BY <1>b, <2>3, <2>4, PlainHandler DEF SettlePc
  <2> QED
    BY <1>i, <1>u, <2>2, <2>3, <2>5, TradeSideRead
<1>1. CASE BeginNegotiation(p)
  BY <1>1, <1>b, <1>o DEF BeginNegotiation
<1>2. CASE Dispute(p)
  BY <1>2, <1>b, <1>o DEF Dispute
<1>3. CASE Resolve(p)
  BY <1>3, <1>b, <1>o DEF Resolve
<1>4. CASE Record(p)
  BY <1>4, <1>b, <1>o DEF Record
<1>5. CASE ExpireAccepted(p) \/ ExpireOpen(p)
  BY <1>5, <1>b, <1>o DEF ExpireAccepted, ExpireOpen
<1>6. CASE Cancel(p)
  <2> DEFINE h == Handler("cancel", "live")
  <2>1. h \in HandlerType /\ h.pc = "live" /\ h.to = trade.state
    BY <1>t, <1>o, HandlerTypes, HandlerFields
  <2>2. proc' = [ proc EXCEPT ![p] = h ] /\ canTransition(trade.state, "cancelled")
    BY <1>6 DEF Cancel, Begin
  <2>3. trade.state \notin { "recorded", "settled" }
    BY <1>t, <2>2, BookedIsFinal
  <2> HIDE DEF h
  <2>4. proc'[p] = h
    BY <1>t, <2>2
  <2>5. SettleInv(p)'
    BY <2>1, <2>3, <2>4, PlainHandler DEF SettlePc
  <2> QED
    BY <1>i, <1>u, <2>1, <2>2, <2>5, TradeSideRead
<1>7. ASSUME NEW agent \in Party, Accept(p, agent) PROVE SettlementInv'
  <2> DEFINE g == Handler("accept", "accept")
             h == [ g EXCEPT !.agent = agent ]
  <2>1. g \in HandlerType /\ g.pc = "accept" /\ g.to = trade.state
    BY <1>t, <1>o, HandlerTypes, HandlerFields
  <2>2. proc' = [ proc EXCEPT ![p] = h ] /\ trade.state = "negotiating"
    BY <1>7 DEF Accept, Begin
  <2> HIDE DEF g
  <2>3. h \in HandlerType /\ h.pc = "accept" /\ h.to = g.to
    BY <2>1, <1>7 DEF HandlerType
  <2> HIDE DEF h
  <2>4. proc'[p] = h
    BY <1>t, <2>2
  <2>5. SettleInv(p)'
    BY <2>1, <2>2, <2>3, <2>4, PlainHandler DEF SettlePc
  <2> QED
    BY <1>i, <1>u, <2>2, <2>3, <2>5, TradeSideRead
<1> QED
  BY <1>1, <1>2, <1>3, <1>4, <1>5, <1>6, <1>7 DEF TradeCall, Sweep

\* The compare-and-set: a handler that settles the trade was paid for it, and one
\* that makes it pending stored its request.
LEMMA applySettles ==
  ASSUME SettlementInv, NEW p \in Procs, applyAs(p), UNCHANGED chainVars
  PROVE  SettlementInv'
<1>t. /\ TradeInv /\ trade.state \in TradeState /\ proc \in [ Procs -> HandlerType ]
      /\ proc[p] \in HandlerType /\ SettleInv(p) /\ requests \in Seq(Request)
      /\ NoSig \notin Sigs /\ fee \in Fees
  BY StoreAssumption
  DEF SettlementInv, TradeInv, TypeOK, TradeTypeOK, StoreType, HandlerType
<1>i. TradeInv'
  BY <1>t, applyAsInv
<1>u. UNCHANGED << requests, receipts, aborts >> /\ proc[p].pc = "set_state"
  BY DEF applyAs, At
<1>k. Kept
  BY <1>t, <1>u, NothingKept
<1>c. canTransition(proc[p].seen, proc[p].to)
  BY <1>t, <1>u DEF TradeInv, HandlerInv, At
<1>o. "event" \in Pc /\ "reread" \in Pc
  BY DEF Pc
<1>h. ASSUME NEW pc \in { "event", "reread" }, Goto(p, pc), Stable,
             proc[p].to = "settled" => trade'.state \in OnChain,
             SettledWasPaid' /\ PendingHasRequest' /\ TesseraNamesPayment'
      PROVE  SettlementInv'
  <2> DEFINE h == [ proc[p] EXCEPT !.pc = pc ]
  <2>1. /\ h \in HandlerType /\ h.pc = pc /\ h.op = proc[p].op /\ h.to = proc[p].to
        /\ h.current = proc[p].current /\ h.signature = proc[p].signature
    BY <1>t, <1>o DEF HandlerType
  <2>2. proc' = [ proc EXCEPT ![p] = h ]
    BY <1>h, <1>t DEF Goto
  <2> HIDE DEF h
  <2>3. proc'[p] = h
    BY <1>t, <2>2
  <2>4. SettleInv(p)'
    BY <1>h, <2>1, <2>3, Carried DEF SettlePc
  <2> QED
    BY <1>h, <1>i, <1>u, <2>1, <2>2, <2>4, TradeSide DEF Stable
<1>1. CASE trade.state # proc[p].seen
  <2>1. UNCHANGED trade /\ Goto(p, "reread")
    BY <1>1 DEF applyAs, SetTradeState
  <2>2. Stable
    BY <2>1, <1>k DEF Stable, chainVars
  <2>3. SettledWasPaid' /\ TesseraNamesPayment'
    BY <2>1, <2>2, <1>u, RowsKept
  <2>5. PendingHasRequest'
    BY <1>1, <1>u, <2>1, EndingRead DEF Goto, chainVars
  <2>4. proc[p].to = "settled" => trade'.state \in OnChain
    BY <1>t, <2>1 DEF SettleInv
  <2> QED
    BY <1>h, <2>1, <2>2, <2>3, <2>4, <2>5
<1>2. CASE trade.state = proc[p].seen
  <2>1. trade'.state = proc[p].to /\ Goto(p, "event")
    BY <1>2 DEF applyAs, SetTradeState
  <2>2. Stable
    BY <2>1, <1>2, <1>k, <1>c, OnChainForGood DEF Stable, chainVars
  <2>3. trade.state \notin { "recorded", "settled" }
    BY <1>t, <1>2, <1>c, BookedIsFinal
  <2>4. SettledWasPaid'
    BY <1>t, <1>u, <2>1 DEF SettleInv, Paid, Settles, Named, Visible, Verify, Executed,
       SettledWasPaid, chainVars
  <2>5. PendingHasRequest'
    <3> SUFFICES ASSUME proc[p].to = "settlement_pending" PROVE PendingHasRequest'
      BY <2>1 DEF PendingHasRequest
    <3>1. trade.state \notin OnChain
      BY <1>2, <1>c DEF OnChain, canTransition, transitions, TradeState
    <3>2. requests # << >>
      BY <1>t, <1>u DEF SettleInv
    <3>3. requests[Len(requests)].status = "issued"
      BY <3>1, <3>2 DEF SettlementInv, NewestIsIssued
    <3>4. Len(requests) \in DOMAIN requests
      BY <1>t, <3>2
    <3> QED
      BY <1>u, <3>2, <3>3, <3>4 DEF PendingHasRequest, CanEnd
  <2>6. TesseraNamesPayment'
    BY <1>u, <2>3 DEF SettlementInv, TesseraNamesPayment
  <2>7. proc[p].to = "settled" => trade'.state \in OnChain
    BY <2>1 DEF OnChain
  <2> QED
    BY <1>h, <2>1, <2>2, <2>4, <2>5, <2>6, <2>7
<1> QED
  BY <1>1, <1>2

\* Every other statement of the trade service.
LEMMA StepsInv ==
  ASSUME SettlementInv, NEW p \in Procs, UNCHANGED chainVars,
         \/ appendEvent(p) \/ reread(p) \/ acceptInsert(p) \/ acceptCount(p)
         \/ cancelLive(p) \/ cancelDeadline(p) \/ Abort(p)
         \/ ledgerAppend(p) \/ closeOffer(p)
  PROVE  SettlementInv'
<1>t. /\ TradeInv /\ trade.state \in TradeState /\ proc \in [ Procs -> HandlerType ]
      /\ proc[p] \in HandlerType /\ SettleInv(p) /\ requests \in Seq(Request)
      /\ Idle \in HandlerType
  BY HandlerTypes DEF SettlementInv, TradeInv, TypeOK, TradeTypeOK, StoreType, HandlerType
<1>i. TradeInv'
  BY <1>t, TradeReadStepsInv, ledgerAppendInv, TradeBooksInv
<1>u. UNCHANGED << trade, requests, receipts >>
  BY DEF appendEvent, reread, acceptInsert, acceptCount, cancelLive, cancelDeadline, Abort,
     ledgerAppend, closeOffer, db
<1>p. aborts' # 0 \/ (aborts' = aborts /\ proc[p].pc # "set_state")
  <2>1. aborts \in Nat
    BY DEF SettlementInv, TypeOK, TradeTypeOK
  <2> QED
    BY <2>1 DEF appendEvent, reread, acceptInsert, acceptCount, cancelLive, cancelDeadline,
       Abort, ledgerAppend, closeOffer, At
<1>s. Stable
  BY <1>t, <1>u, NothingKept DEF Stable, chainVars
<1>o. { "reread", "count", "deadline", "append", "receipt" } \subseteq Pc
      /\ { "accepted", "cancelled" } \subseteq TradeState /\ TradeState \subseteq EventType
  BY DEF Pc, TradeState, EventType
<1>r. ASSUME Return(p) PROVE SettlementInv'
  BY <1>r, <1>t, <1>i, <1>u, <1>p, IdleRests, TradeSideRead DEF Return
<1>a. ASSUME NEW g \in HandlerType, NEW to \in { "accepted", "cancelled" },
             Continue(p, Applying(g, to, to))
      PROVE  SettlementInv'
  <2> DEFINE h == Applying(g, to, to)
  <2>1. h \in HandlerType /\ h.pc = "set_state" /\ h.to = to
    BY <1>o, ApplyingType
  <2>2. proc' = [ proc EXCEPT ![p] = h ]
    BY <1>a DEF Continue
  <2> HIDE DEF h
  <2>3. proc'[p] = h
    BY <1>t, <2>2
  <2>4. SettleInv(p)'
    BY <2>1, <2>3, PlainHandler DEF SettlePc
  <2> QED
    BY <1>i, <1>u, <1>p, <2>1, <2>2, <2>4, TradeSideRead
<1>g. ASSUME NEW h \in HandlerType, Continue(p, h),
             h.pc \in { "reread", "count", "deadline", "append", "receipt" },
             h.op = proc[p].op, h.to = proc[p].to, h.current = proc[p].current,
             h.signature = proc[p].signature,
             h.pc \in { "append", "receipt" } => Books(proc[p])
      PROVE  SettlementInv'
  <2>1. proc' = [ proc EXCEPT ![p] = h ]
    BY <1>g DEF Continue
  <2>2. proc'[p] = h
    BY <1>t, <2>1
  <2>3. proc[p].to = "settled" => trade'.state \in OnChain
    BY <1>t, <1>u DEF SettleInv
  <2>4. SettleInv(p)'
    BY <1>g, <1>s, <2>2, <2>3, Carried DEF SettlePc
  <2> QED
    BY <1>i, <1>u, <1>p, <2>1, <2>4, TradeSideRead
<1>m. ASSUME NEW pc \in { "reread", "count", "deadline", "receipt" }, Goto(p, pc),
             pc = "receipt" => Books(proc[p])
      PROVE  SettlementInv'
  <2> DEFINE h == [ proc[p] EXCEPT !.pc = pc ]
  <2>1. /\ h \in HandlerType /\ h.pc = pc /\ h.op = proc[p].op /\ h.to = proc[p].to
        /\ h.current = proc[p].current /\ h.signature = proc[p].signature
    BY <1>t, <1>o DEF HandlerType
  <2>2. Continue(p, h)
    BY <1>m, <1>t DEF Goto, Continue
  <2> HIDE DEF h
  <2> QED
    BY <1>g, <1>m, <2>1, <2>2
<1>1. CASE appendEvent(p)
  BY <1>1, <1>m DEF appendEvent
<1>2. CASE reread(p)
  <2>1. CASE Return(p)
    BY <2>1, <1>r
  <2>2. CASE ~ Return(p)
    <3> DEFINE h == [ proc[p] EXCEPT !.pc = "append", !.seen = trade.state ]
    <3>1. /\ h \in HandlerType /\ h.pc = "append" /\ h.op = proc[p].op /\ h.to = proc[p].to
          /\ h.current = proc[p].current /\ h.signature = proc[p].signature
      BY <1>t, <1>o DEF HandlerType
    <3>2. Continue(p, h) /\ Books(proc[p])
      BY <1>2, <2>2 DEF reread
    <3> HIDE DEF h
    <3> QED
      BY <1>g, <3>1, <3>2
  <2> QED
    BY <2>1, <2>2
<1>3. CASE acceptInsert(p)
  BY <1>3, <1>m, <1>r DEF acceptInsert
<1>4. CASE acceptCount(p)
  <2> DEFINE g == [ proc[p] EXCEPT !.seen = trade.state ]
  <2>1. g \in HandlerType
    BY <1>t DEF HandlerType
  <2>2. Return(p) \/ Continue(p, Applying(g, "accepted", "accepted"))
    BY <1>4 DEF acceptCount
  <2> HIDE DEF g
  <2> QED
    BY <2>1, <2>2, <1>r, <1>a
<1>5. CASE cancelLive(p) \/ cancelDeadline(p)
  BY <1>5, <1>t, <1>r, <1>m, <1>a DEF cancelLive, cancelDeadline
<1>6. CASE Abort(p) \/ closeOffer(p)
  BY <1>6, <1>r DEF Abort, closeOffer
<1>7. CASE ledgerAppend(p)
  <2>1. proc[p].pc = "append"
    BY <1>7 DEF ledgerAppend, At
  <2>2. Books(proc[p])
    BY <1>t, <2>1 DEF SettleInv
  <2> QED
    BY <1>7, <2>2, <1>m, <1>r DEF ledgerAppend
<1> QED
  BY <1>1, <1>2, <1>3, <1>4, <1>5, <1>6, <1>7

\* A tessera, off-chain or on-chain: what it says of a payment is so.
LEMMA ReceiptSettles ==
  ASSUME SettlementInv, NEW p \in Procs, At(p, "receipt"), Goto(p, "close"),
         NEW sig \in Sigs \cup { NoSig }, NEW c \in Clusters \cup { "" },
         SaveReceipt(proc[p].seen, sig, c),
         UNCHANGED << now, trade, acceptances, events, requests, entries, offer, aborts >>,
         UNCHANGED chainVars,
         sig # NoSig =>
           /\ trade.state = "settled"
           /\ \E i \in DOMAIN requests : /\ requests[i].status = "confirmed"
                                         /\ requests[i].signature = sig
                                         /\ requests[i].cluster = c
                                         /\ Executed(i)
  PROVE  SettlementInv'
<1>t. /\ TradeInv /\ proc \in [ Procs -> HandlerType ] /\ proc[p] \in HandlerType
      /\ SettleInv(p) /\ requests \in Seq(Request) /\ receipts \in Seq(Receipt)
      /\ proc[p].seen \in TradeState
  BY DEF SettlementInv, TradeInv, TypeOK, TradeTypeOK, StoreType, HandlerType
<1>i. TradeInv'
  BY <1>t, ReceiptInv
<1> DEFINE h == [ proc[p] EXCEPT !.pc = "close" ]
           x == [ state |-> proc[p].seen, signature |-> sig, cluster |-> c ]
<1>1. /\ h \in HandlerType /\ h.pc = "close" /\ h.op = proc[p].op /\ h.to = proc[p].to
      /\ h.current = proc[p].current /\ h.signature = proc[p].signature
  BY <1>t DEF HandlerType, Pc
<1>2. proc' = [ proc EXCEPT ![p] = h ] /\ receipts = << >> /\ receipts' = Append(receipts, x)
  BY <1>t DEF Goto, SaveReceipt
<1>x. x \in Receipt /\ x.signature = sig /\ x.cluster = c
  BY <1>t DEF Receipt
<1> HIDE DEF h, x
<1>3. proc'[p] = h
  BY <1>t, <1>2
<1>s. Stable
  BY <1>t, NothingKept DEF Stable, chainVars
<1>4. SettleInv(p)'
  BY <1>t, <1>1, <1>3, <1>s, Carried DEF SettlePc, SettleInv
<1>5. receipts'[1] = x
  BY <1>t, <1>2, <1>x, AppendRow, Zenon
<1>6. SettledWasPaid' /\ PendingHasRequest'
  <2>1. SettledWasPaid'
    BY DEF SettlementInv, SettledWasPaid, Executed, chainVars
  <2>2. PendingHasRequest'
    BY <1>2, EndingRead DEF At, chainVars
  <2> QED
    BY <2>1, <2>2
<1>7. TesseraNamesPayment'
  BY <1>5, <1>x DEF TesseraNamesPayment, Executed, chainVars
<1> QED
  BY <1>i, <1>1, <1>2, <1>4, <1>6, <1>7, TradeSide

\* The tessera of Record names no payment; the one of a settlement names the
\* request its handler confirmed.
LEMMA TesseraInv ==
  ASSUME SettlementInv, NEW p \in Procs,
         settleReceipt(p) \/ (recordReceipt(p) /\ UNCHANGED chainVars)
  PROVE  SettlementInv'
<1>t. TradeInv /\ SettleInv(p) /\ proc[p].signature \in Sigs \cup { NoSig }
      /\ cluster \in Clusters /\ fee \in Fees
  BY DEF SettlementInv, TypeOK, TradeTypeOK
<1>1. CASE recordReceipt(p) /\ UNCHANGED chainVars
  BY <1>1, ReceiptSettles DEF recordReceipt
<1>2. CASE settleReceipt(p)
  <2>1. /\ At(p, "receipt") /\ proc[p].op # "record" /\ Goto(p, "close")
        /\ SaveReceipt(proc[p].seen, proc[p].signature, cluster)
        /\ UNCHANGED << now, trade, acceptances, events, requests, entries, offer, aborts >>
        /\ UNCHANGED chainVars
    BY <1>2 DEF settleReceipt
  <2>2. proc[p].to = "settled"
    BY <1>t, <2>1 DEF SettleInv, At, Books
  <2>3. Paid(p) /\ trade.state \in OnChain
    BY <1>t, <2>2 DEF SettleInv
  <2>4. trade.state \in { "recorded", "settled" }
    BY <1>t, <2>1 DEF TradeInv, TesseraAnchored, EntryMatchesOutcome
  <2>5. trade.state = "settled"
    BY <2>3, <2>4 DEF OnChain
  <2>6. \E i \in DOMAIN requests : /\ requests[i].status = "confirmed"
                                   /\ requests[i].signature = proc[p].signature
                                   /\ requests[i].cluster = cluster
                                   /\ Executed(i)
    BY <1>t, <2>3 DEF Paid, Settles, Named, Visible, Verify, Executed
  <2> QED
    BY <1>t, <2>1, <2>5, <2>6, ReceiptSettles
<1> QED
  BY <1>1, <1>2

-----------------------------------------------------------------------------
(* The statements of a settlement *)

\* BuildSettlement, ConfirmSettlement and the reconciler's pass begin.
LEMMA BeginSettleInv ==
  ASSUME SettlementInv, NEW p \in Procs,
         \/ BuildSettlement(p) \/ ReconcileOutstanding(p)
         \/ \E sig \in Sigs : ConfirmSettlement(p, sig)
  PROVE  SettlementInv'
<1>t. /\ trade.state \in TradeState /\ proc \in [ Procs -> HandlerType ]
      /\ requests \in Seq(Request) /\ IssuedIsLast
      /\ trade.state = "settlement_pending" => requests # << >>
  BY DEF SettlementInv, PendingHasRequest, TypeOK, TradeTypeOK, StoreType, HandlerType
<1>u. /\ UNCHANGED << now, trade, acceptances, events, requests, entries, receipts, offer, aborts >>
      /\ UNCHANGED chainVars /\ proc[p].pc # "set_state"
  BY HandlerFields DEF BuildSettlement, ReconcileOutstanding, ConfirmSettlement, Begin, db
<1>k. Kept /\ IssuedIsLast'
  BY <1>t, <1>u, NothingKept
<1>o. /\ { "create", "list", "reconcile" } \subseteq Pc
      /\ { "build", "confirm", "reconcile" } \subseteq Op
  BY DEF Pc, Op
<1>h. ASSUME NEW h \in HandlerType, proc' = [ proc EXCEPT ![p] = h ],
             h.seen = trade.state, h.to = trade.state, h.op # "record",
             \/ h.pc = "create" /\ trade.state \in { "accepted", "settlement_pending" }
             \/ h.pc = "reconcile" /\ trade.state = "settlement_pending"
             \/ h.pc = "list" /\ trade.state = "settlement_pending" /\ h.signature \in Sigs
      PROVE  SettlementInv'
  <2>1. proc'[p] = h
    BY <1>t, <1>h
  <2>2. SettleInv(p)'
    BY <1>t, <1>u, <1>h, <2>1 DEF SettleInv, SettlePc, OnChain
  <2>3. Quiet(h) /\ Ending(h)
    BY <1>h, <1>u DEF Quiet, Ending
  <2> QED
    BY <1>h, <1>u, <1>k, <2>2, <2>3, SettleStep
<1>1. CASE BuildSettlement(p)
  <2> DEFINE h == Handler("build", "create")
  <2>1. h \in HandlerType /\ h.pc = "create" /\ h.seen = trade.state /\ h.to = trade.state
        /\ h.op = "build"
    BY <1>t, <1>o, HandlerTypes, HandlerFields
  <2>2. proc' = [ proc EXCEPT ![p] = h ] /\ trade.state \in { "accepted", "settlement_pending" }
    BY <1>1 DEF BuildSettlement, Begin
  <2> HIDE DEF h
  <2> QED
    BY <1>h, <2>1, <2>2
<1>2. CASE ReconcileOutstanding(p)
  <2> DEFINE h == Handler("reconcile", "reconcile")
  <2>1. h \in HandlerType /\ h.pc = "reconcile" /\ h.seen = trade.state /\ h.to = trade.state
        /\ h.op = "reconcile"
    BY <1>t, <1>o, HandlerTypes, HandlerFields
  <2>2. proc' = [ proc EXCEPT ![p] = h ] /\ trade.state = "settlement_pending"
    BY <1>2 DEF ReconcileOutstanding, Begin
  <2> HIDE DEF h
  <2> QED
    BY <1>h, <2>1, <2>2
<1>3. ASSUME NEW sig \in Sigs, ConfirmSettlement(p, sig) PROVE SettlementInv'
  <2> DEFINE g == Handler("confirm", "list")
             h == [ g EXCEPT !.signature = sig ]
  <2>1. g \in HandlerType /\ g.pc = "list" /\ g.seen = trade.state /\ g.to = trade.state
        /\ g.op = "confirm"
    BY <1>t, <1>o, HandlerTypes, HandlerFields
  <2>2. proc' = [ proc EXCEPT ![p] = h ] /\ trade.state = "settlement_pending"
    BY <1>3 DEF ConfirmSettlement, Begin
  <2> HIDE DEF g
  <2>3. h \in HandlerType /\ h.pc = "list" /\ h.seen = g.seen /\ h.to = g.to /\ h.signature = sig
        /\ h.op = g.op
    BY <2>1, <1>3 DEF HandlerType
  <2> HIDE DEF h
  <2> QED
    BY <1>h, <1>3, <2>1, <2>2, <2>3
<1> QED
  BY <1>1, <1>2, <1>3

\* A step of a settlement that returns.
LEMMA SettleReturns ==
  ASSUME SettlementInv, NEW p \in Procs, Return(p),
         UNCHANGED << now, trade, acceptances, events, entries, receipts, offer, aborts >>,
         UNCHANGED chainVars, Kept, IssuedIsLast', proc[p].pc # "set_state", Ending(Idle)
  PROVE  SettlementInv'
<1>t. trade.state \in TradeState /\ proc \in [ Procs -> HandlerType ]
  BY DEF SettlementInv, TypeOK, TradeTypeOK, StoreType, HandlerType
<1>1. Idle \in HandlerType /\ Quiet(Idle) /\ proc' = [ proc EXCEPT ![p] = Idle ]
  BY <1>t, HandlerTypes DEF Quiet, Return
<1>2. SettleInv(p)'
  BY <1>t, <1>1, IdleRests
<1> QED
  BY <1>1, <1>2, SettleStep

\* A step of a settlement that goes on to apply a transition.
LEMMA SettleApplies ==
  ASSUME SettlementInv, NEW p \in Procs,
         NEW to \in { "settlement_pending", "disputed", "cancelled", "settled" },
         NEW event \in EventType,
         Continue(p, Applying(proc[p], to, event)), canTransition(proc[p].seen, to),
         UNCHANGED << now, trade, acceptances, events, entries, receipts, offer, aborts >>,
         UNCHANGED chainVars, Kept, IssuedIsLast',
         proc[p].pc # "set_state", Ending(Applying(proc[p], to, event)),
         to = "settlement_pending" => requests' # << >>,
         to = "disputed" => Mismatches(p),
         to = "settled" => /\ proc[p].pc \in SettlePc /\ Settles(p)
                           /\ requests'[proc[p].current].status = "confirmed"
  PROVE  SettlementInv'
<1>t. proc \in [ Procs -> HandlerType ] /\ proc[p] \in HandlerType /\ SettleInv(p)
  BY DEF SettlementInv, TypeOK, TradeTypeOK, HandlerType
<1> DEFINE h == Applying(proc[p], to, event)
<1>e. Ending(h)
  OBVIOUS
<1>1. /\ h \in HandlerType /\ h.pc = "set_state" /\ h.seen = proc[p].seen /\ h.to = to
      /\ h.op = proc[p].op /\ h.current = proc[p].current /\ h.signature = proc[p].signature
  <2>1. to \in TradeState
    BY DEF TradeState
  <2> QED
    BY <1>t, <2>1, ApplyingType, ApplyingFields
<1>2. proc' = [ proc EXCEPT ![p] = h ]
  BY DEF Continue
<1> HIDE DEF h
<1>3. proc'[p] = h
  BY <1>t, <1>2
<1>4. Quiet(h)
  BY <1>1 DEF Quiet
<1>5. Stable
  BY DEF Stable, chainVars
<1>6. (Settles(p) => Settles(p)') /\ (Mismatches(p) => Mismatches(p)')
  BY <1>1, <1>3, <1>5, StillNamed
<1>7. to = "settled" => Paid(p)'
  BY <1>1, <1>3, <1>6 DEF Paid
<1>8. SettleInv(p)'
  BY <1>t, <1>1, <1>3, <1>6, <1>7 DEF SettleInv, SettlePc
<1> QED
  BY <1>e, <1>1, <1>2, <1>4, <1>8, SettleStep

\* BuildSettlement stores its request before the trade becomes pending.
LEMMA buildCreateInv ==
  ASSUME SettlementInv, NEW p \in Procs, buildCreate(p)
  PROVE  SettlementInv'
<1>t. /\ requests \in Seq(Request) /\ cluster \in Clusters /\ fee \in Fees
      /\ now \in Nat /\ SettleInv(p)
  BY DEF SettlementInv, TypeOK, TradeTypeOK, StoreType
<1>a. now + BlockhashTTL \in Nat
  BY <1>t, SettlementAssumption
<1>1. /\ proc[p].pc = "create" /\ CreateSettlementRequest(now + BlockhashTTL, cluster, fee)
      /\ UNCHANGED << now, trade, acceptances, events, entries, receipts, offer, aborts >>
      /\ UNCHANGED chainVars
  BY DEF buildCreate, At
<1>c. Kept /\ IssuedIsLast' /\ NewestIssued'
  BY <1>t, <1>a, <1>1, CreateKept
<1>2. Kept /\ IssuedIsLast' /\ requests' # << >> /\ \A h : Ending(h)
  BY <1>c DEF NewestIssued, Ending
<1>3. CASE Return(p)
  BY <1>1, <1>2, <1>3, SettleReturns
<1>4. CASE /\ proc[p].seen = "accepted"
           /\ Continue(p, Applying(proc[p], "settlement_pending", "settlement_pending"))
  <2>1. canTransition(proc[p].seen, "settlement_pending") /\ "settlement_pending" \in EventType
    BY <1>4 DEF canTransition, transitions, TradeState, EventType
  <2> QED
    BY <1>1, <1>2, <1>4, <2>1, SettleApplies
<1> QED
  BY <1>3, <1>4 DEF buildCreate

\* A confirmation lists the requests; what is built later is of this cluster.
LEMMA confirmListInv ==
  ASSUME SettlementInv, NEW p \in Procs, confirmList(p)
  PROVE  SettlementInv'
<1>t. /\ requests \in Seq(Request) /\ IssuedIsLast
      /\ proc \in [ Procs -> HandlerType ] /\ proc[p] \in HandlerType /\ SettleInv(p)
  BY DEF SettlementInv, TypeOK, TradeTypeOK, StoreType, HandlerType
<1>n. Len(requests) \in Nat
  BY <1>t
<1> DEFINE h == [ proc[p] EXCEPT !.pc = "sign", !.listed = Len(requests) ]
<1>1. /\ h \in HandlerType /\ h.pc = "sign" /\ h.seen = proc[p].seen /\ h.to = proc[p].to
      /\ h.op = proc[p].op /\ h.listed = Len(requests)
      /\ h.current = proc[p].current /\ h.signature = proc[p].signature
  BY <1>t, <1>n DEF HandlerType, Pc
<1>2. /\ proc[p].pc = "list" /\ proc' = [ proc EXCEPT ![p] = h ]
      /\ UNCHANGED << now, trade, acceptances, events, requests, entries, receipts, offer, aborts >>
      /\ UNCHANGED chainVars
  BY DEF confirmList, At, Continue, db
<1> HIDE DEF h
<1>3. Kept /\ IssuedIsLast'
  BY <1>t, <1>2, NothingKept
<1>4. proc'[p] = h /\ Quiet(h) /\ Ending(h)
  BY <1>t, <1>1, <1>2 DEF Quiet, Ending
<1>5. Stable
  BY <1>2, <1>3 DEF Stable, chainVars
<1>6. Paid(p) => Paid(p)'
  BY <1>1, <1>4, <1>5, StillNamed
<1>7. \A i \in DOMAIN requests' : i > h.listed => requests'[i].cluster = cluster'
  BY <1>1, <1>2, <1>3 DEF Kept, chainVars
<1>8. SettleInv(p)'
  BY <1>t, <1>1, <1>2, <1>4, <1>6, <1>7 DEF SettleInv, SettlePc
<1> QED
  BY <1>1, <1>2, <1>3, <1>4, <1>8, SettleStep

\* A confirmation records its signature on the current request, which is of the
\* cluster the process runs on: among the listed ones it checked, and a later one
\* was compiled by this process.
LEMMA confirmSignInv ==
  ASSUME SettlementInv, NEW p \in Procs, confirmSign(p)
  PROVE  SettlementInv'
<1>t. /\ requests \in Seq(Request) /\ IssuedIsLast
      /\ proc \in [ Procs -> HandlerType ] /\ proc[p] \in HandlerType /\ SettleInv(p)
      /\ proc[p].listed \in Nat
  BY DEF SettlementInv, TypeOK, TradeTypeOK, StoreType, HandlerType
<1> DEFINE i == GetSettlementRequest
           sig == proc[p].signature
<1>1. /\ proc[p].pc = "sign"
      /\ UNCHANGED << now, trade, acceptances, events, entries, receipts, offer, aborts >>
      /\ UNCHANGED chainVars
  BY DEF confirmSign, At
<1>2. i \in DOMAIN requests /\ i \in Nat /\ sig \in Sigs
  <2>1. i \in DOMAIN requests /\ sig \in Sigs
    BY <1>t, <1>1, CurrentExists DEF SettleInv, SettlePc
  <2>2. DOMAIN requests \subseteq Nat
    BY <1>t
  <2> QED
    BY <2>1, <2>2
<1>3. CASE Return(p) /\ UNCHANGED requests
  BY <1>t, <1>1, <1>3, NothingKept, SettleReturns DEF Ending
<1>4. CASE /\ checkRequestCluster(proc[p].listed, i)
           /\ SetSettlementSignature(i, sig)
           /\ Continue(p, [ proc[p] EXCEPT !.pc = "fetch", !.current = i ])
  <2> DEFINE h == [ proc[p] EXCEPT !.pc = "fetch", !.current = i ]
  <2>1. /\ h \in HandlerType /\ h.pc = "fetch" /\ h.seen = proc[p].seen /\ h.to = proc[p].to
        /\ h.op = proc[p].op /\ h.current = i /\ h.signature = sig
    BY <1>t, <1>2 DEF HandlerType, Pc
  <2>2. proc' = [ proc EXCEPT ![p] = h ]
    BY <1>4 DEF Continue
  <2>3. requests[i].cluster = cluster
    BY <1>t, <1>1, <1>2, <1>4 DEF checkRequestCluster, SettleInv
  <2>4. /\ Kept /\ IssuedIsLast' /\ Len(requests') = Len(requests)
        /\ requests'[i].signature = sig /\ requests'[i].cluster = requests[i].cluster
    BY <1>t, <1>2, <1>4, SignKept
  <2>5. i \in DOMAIN requests'
    BY <1>t, <1>2, <2>4, StillThere
  <2> HIDE DEF h, i, sig
  <2>6. signedRequests' # {} /\ trade.state \in OnChain
    BY <1>t, <1>1, <1>2, <2>4, <2>5, StoreAssumption DEF signedRequests, SettleInv, SettlePc
  <2>7. proc'[p] = h /\ Quiet(h) /\ Ending(h)
    BY <1>t, <2>1, <2>2, <2>6 DEF Quiet, Ending
  <2>8. Named(p)'
    BY <1>1, <1>2, <2>1, <2>3, <2>4, <2>5, <2>7 DEF Named, chainVars
  <2>9. requests' # << >>
    BY <1>t, <1>1, <2>4, StillHasRequest DEF SettleInv, SettlePc
  <2>10. SettleInv(p)'
    BY <1>t, <1>1, <2>1, <2>7, <2>8, <2>9 DEF SettleInv, SettlePc
  <2> QED
    BY <1>1, <2>1, <2>2, <2>4, <2>7, <2>10, SettleStep
<1> QED
  BY <1>3, <1>4 DEF confirmSign

\* A confirmation or a reconciliation that goes on to its next statement.
LEMMA SettleGoes ==
  ASSUME SettlementInv, NEW p \in Procs, NEW h \in HandlerType,
         proc' = [ proc EXCEPT ![p] = h ],
         UNCHANGED << now, trade, acceptances, events, entries, receipts, offer, aborts >>,
         UNCHANGED chainVars, Kept, IssuedIsLast',
         proc[p].pc \in SettlePc, h.pc \in SettlePc \ { "list", "sign" },
         h.op = proc[p].op, h.seen = proc[p].seen, h.to = proc[p].to,
         UNCHANGED requests \/ signedRequests' # {},
         h.pc \in { "fetch", "last_fetch" } => Named(p)',
         h.pc = "withdraw" => signedRequests' # {},
         h.pc \in { "confirm", "supersede" } => Settles(p)',
         h.pc = "supersede" => requests'[h.current].status = "confirmed"
  PROVE  SettlementInv'
<1>t. proc \in [ Procs -> HandlerType ] /\ SettleInv(p) /\ requests \in Seq(Request)
  BY DEF SettlementInv, TypeOK, TradeTypeOK, StoreType, HandlerType
<1>1. proc'[p] = h /\ Quiet(h) /\ Ending(h) /\ proc[p].pc # "set_state"
  BY <1>t DEF Quiet, SettlePc, Ending, SettleInv
<1>2. requests' # << >>
  BY <1>t, StillHasRequest DEF SettleInv
<1>3. /\ h.pc = "supersede" => Paid(p)'
      /\ h.pc \in { "confirm", "supersede" } => Named(p)'
  BY <1>1 DEF Paid, Settles
<1>4. SettleInv(p)'
  BY <1>t, <1>1, <1>2, <1>3 DEF SettleInv, SettlePc, chainVars
<1> QED
  BY <1>1, <1>4, SettleStep

\* The same with Goto, which keeps the request and the signature.
LEMMA SettleGoto ==
  ASSUME SettlementInv, NEW p \in Procs,
         NEW pc \in { "withdraw", "confirm", "lapse", "supersede" }, Goto(p, pc),
         UNCHANGED << now, trade, acceptances, events, entries, receipts, offer, aborts >>,
         UNCHANGED chainVars, Kept, IssuedIsLast', proc[p].pc \in SettlePc,
         UNCHANGED requests \/ signedRequests' # {}, pc = "withdraw" => signedRequests # {},
         pc \in { "confirm", "supersede" } => Settles(p),
         pc = "supersede" => requests'[proc[p].current].status = "confirmed"
  PROVE  SettlementInv'
<1>t. /\ proc \in [ Procs -> HandlerType ] /\ proc[p] \in HandlerType
      /\ requests \in Seq(Request)
  BY DEF SettlementInv, TypeOK, TradeTypeOK, StoreType, HandlerType
<1> DEFINE h == [ proc[p] EXCEPT !.pc = pc ]
<1>1. /\ h \in HandlerType /\ h.pc = pc /\ h.op = proc[p].op /\ h.to = proc[p].to
      /\ h.seen = proc[p].seen /\ h.current = proc[p].current
      /\ h.signature = proc[p].signature
  BY <1>t DEF HandlerType, Pc
<1>2. proc' = [ proc EXCEPT ![p] = h ]
  BY <1>t DEF Goto
<1> HIDE DEF h
<1>3. proc'[p] = h
  BY <1>t, <1>2
<1>4. Stable
  BY DEF Stable, chainVars
<1>5. Settles(p) => Settles(p)'
  BY <1>1, <1>3, <1>4, StillNamed
<1>6. h.pc \in SettlePc \ { "list", "sign" }
  BY <1>1 DEF SettlePc
<1>7. pc = "withdraw" => signedRequests' # {}
  BY <1>t, StillSigned
<1> QED
  BY <1>1, <1>2, <1>5, <1>6, <1>7, SettleGoes

\* From a pending trade a settlement can settle, dispute and cancel.
LEMMA PendingTable ==
  /\ \A to \in { "settled", "disputed", "cancelled" } : canTransition("settlement_pending", to)
  /\ { "settled", "disputed", "cancelled", "expired" } \subseteq EventType
BY DEF canTransition, transitions, TradeState, EventType

\* A handler that polls has a signature recorded.
LEMMA NamedSigned == ASSUME NEW p \in Procs, Named(p) PROVE signedRequests # {}
BY StoreAssumption DEF Named, signedRequests

\* The verdict: only a transaction executed as agreed goes on to be confirmed, and
\* only one that was executed and is not as agreed to be disputed.
LEMMA fetchInv ==
  ASSUME SettlementInv, NEW p \in Procs, fetch(p)
  PROVE  SettlementInv'
<1>t. requests \in Seq(Request) /\ IssuedIsLast /\ SettleInv(p)
  BY DEF SettlementInv, TypeOK, TradeTypeOK, StoreType
<1>1. /\ proc[p].pc \in { "fetch", "last_fetch" } /\ proc[p].pc # "set_state"
      /\ UNCHANGED << now, trade, acceptances, events, entries, receipts, offer, aborts >>
      /\ UNCHANGED chainVars /\ UNCHANGED requests
  BY DEF fetch, db
<1>2. Kept /\ IssuedIsLast' /\ \A h : Ending(h)
  BY <1>t, <1>1, NothingKept DEF Ending
<1>3. proc[p].pc \in SettlePc /\ Named(p) /\ proc[p].seen = "settlement_pending"
  BY <1>t, <1>1 DEF SettleInv, SettlePc
<1>4. CASE Goto(p, "withdraw") \/ Goto(p, "lapse")
  BY <1>1, <1>2, <1>3, <1>4, NamedSigned, SettleGoto
<1>5. CASE Settles(p) /\ Goto(p, "confirm")
  BY <1>1, <1>2, <1>3, <1>5, SettleGoto
<1>6. CASE Mismatches(p) /\ Disputing(p)
  BY <1>1, <1>2, <1>3, <1>6, PendingTable, SettleApplies DEF Disputing
<1>7. CASE Return(p)
  BY <1>1, <1>2, <1>7, SettleReturns
<1>8. \/ Goto(p, "withdraw") \/ Goto(p, "lapse") \/ Return(p)
      \/ Settles(p) /\ Goto(p, "confirm")
      \/ Mismatches(p) /\ Disputing(p)
  BY <1>3 DEF fetch, NotFound, Settles, Mismatches
<1> QED
  BY <1>4, <1>5, <1>6, <1>7, <1>8

\* Statements that withdraw the issued requests.
LEMMA WithdrawInv ==
  ASSUME SettlementInv, NEW p \in Procs,
         withdraw(p) \/ confirmSupersede(p) \/ reconcileLapsed(p)
  PROVE  SettlementInv'
<1>t. requests \in Seq(Request) /\ IssuedIsLast /\ SettleInv(p)
  BY DEF SettlementInv, TypeOK, TradeTypeOK, StoreType
<1>1. /\ proc[p].pc \in { "withdraw", "supersede", "lapse" } /\ ExpireSettlementRequests
      /\ UNCHANGED << now, trade, acceptances, events, entries, receipts, offer, aborts >>
      /\ UNCHANGED chainVars
  BY DEF withdraw, confirmSupersede, reconcileLapsed, At
<1>2. Kept /\ IssuedIsLast'
  BY <1>t, <1>1, ExpireKept
<1>3. /\ proc[p].pc \in SettlePc /\ proc[p].seen = "settlement_pending"
      /\ trade.state \in OnChain /\ proc[p].pc # "set_state"
  BY <1>t, <1>1 DEF SettleInv, SettlePc
<1>s. ASSUME signedRequests # {} PROVE \A h : Ending(h)
  BY <1>t, <1>2, <1>3, <1>s, StillSigned DEF Ending
<1>4. CASE withdraw(p)
  <2>1. signedRequests # {}
    BY <1>t, <1>4 DEF withdraw, At, SettleInv
  <2> QED
    BY <1>1, <1>2, <1>3, <1>4, <1>s, <2>1, SettleReturns DEF withdraw
<1>5. CASE confirmSupersede(p)
  <2>1. Continue(p, Applying(proc[p], "settled", "settled")) /\ Paid(p)
    BY <1>t, <1>5 DEF confirmSupersede, At, SettleInv
  <2>2. Settles(p) /\ requests'[proc[p].current].status = "confirmed"
    BY <1>2, <2>1 DEF Paid, Settles, Named, Kept
  <2>3. signedRequests # {}
    BY <2>2, NamedSigned DEF Settles
  <2> QED
    BY <1>1, <1>2, <1>3, <1>s, <2>1, <2>2, <2>3, PendingTable, SettleApplies
<1>6. CASE reconcileLapsed(p)
  <2>1. proc[p] \in HandlerType
    BY DEF SettlementInv, TypeOK, TradeTypeOK, HandlerType
  <2>2. Ending(Applying(proc[p], "cancelled", "expired"))
    BY <1>3, <2>1, ApplyingFields DEF Ending
  <2> QED
    BY <1>1, <1>2, <1>3, <1>6, <2>2, PendingTable, SettleApplies DEF reconcileLapsed
<1> QED
  BY <1>4, <1>5, <1>6

\* confirmRequests: the paid request is confirmed before the trade is settled.
LEMMA confirmRequestInv ==
  ASSUME SettlementInv, NEW p \in Procs, confirmRequest(p)
  PROVE  SettlementInv'
<1>t. requests \in Seq(Request) /\ IssuedIsLast /\ SettleInv(p)
  BY DEF SettlementInv, TypeOK, TradeTypeOK, StoreType
<1>1. /\ proc[p].pc = "confirm"
      /\ UNCHANGED << now, trade, acceptances, events, entries, receipts, offer, aborts >>
      /\ UNCHANGED chainVars
  BY DEF confirmRequest, At
<1>2. /\ proc[p].pc \in SettlePc /\ Settles(p) /\ Named(p) /\ trade.state \in OnChain
      /\ proc[p].seen = "settlement_pending" /\ proc[p].pc # "set_state"
  BY <1>t, <1>1 DEF SettleInv, SettlePc
<1>3. CASE Return(p) /\ UNCHANGED requests
  BY <1>t, <1>1, <1>2, <1>3, NothingKept, SettleReturns DEF Ending
<1>4. CASE ConfirmSettlementRequest(proc[p].current, proc[p].signature)
  <2>1. /\ Kept /\ IssuedIsLast'
        /\ requests'[proc[p].current].status = "confirmed"
    BY <1>t, <1>2, <1>4, ConfirmKept DEF Named
  <2>s. signedRequests' # {} /\ \A h : Ending(h)
    BY <1>t, <1>2, <2>1, NamedSigned, StillSigned DEF Ending
  <2>2. CASE Goto(p, "supersede")
    BY <1>1, <1>2, <2>1, <2>s, <2>2, SettleGoto
  <2>3. CASE Continue(p, Applying(proc[p], "settled", "settled"))
    BY <1>1, <1>2, <2>1, <2>s, <2>3, PendingTable, SettleApplies
  <2>4. CASE Return(p) /\ UNCHANGED requests
    BY <2>4, <1>3
  <2> QED
    BY <2>2, <2>3, <2>4 DEF confirmRequest
<1> QED
  BY <1>3, <1>4 DEF confirmRequest

\* The reconciler polls the latest signed request, and one of another cluster it
\* only withdraws.
LEMMA reconcileTradeInv ==
  ASSUME SettlementInv, NEW p \in Procs, reconcileTrade(p)
  PROVE  SettlementInv'
<1>t. /\ requests \in Seq(Request) /\ IssuedIsLast /\ SettleInv(p)
      /\ proc \in [ Procs -> HandlerType ] /\ proc[p] \in HandlerType
  BY DEF SettlementInv, TypeOK, TradeTypeOK, StoreType, HandlerType
<1>1. /\ proc[p].pc = "reconcile" /\ UNCHANGED requests
      /\ UNCHANGED << now, trade, acceptances, events, entries, receipts, offer, aborts >>
      /\ UNCHANGED chainVars
  BY DEF reconcileTrade, At, db
<1>2. Kept /\ IssuedIsLast' /\ \A h : Ending(h)
  BY <1>t, <1>1, NothingKept DEF Ending
<1>3. proc[p].pc \in SettlePc /\ proc[p].pc # "set_state"
  BY <1>1 DEF SettlePc
<1>4. CASE Return(p)
  BY <1>1, <1>2, <1>3, <1>4, SettleReturns
<1>5. CASE Goto(p, "lapse") \/ (signedRequests # {} /\ Goto(p, "withdraw"))
  BY <1>1, <1>2, <1>3, <1>5, SettleGoto
<1> DEFINE i == latestSignedRequest
           next(pc) == [ proc[p] EXCEPT !.listed = Len(requests), !.current = i,
                           !.signature = requests[i].signature, !.pc = pc ]
<1>6. ASSUME signedRequests # {}, checkRequestCluster(Len(requests), i),
             NEW pc \in { "fetch", "last_fetch" }, Continue(p, next(pc))
      PROVE  SettlementInv'
  <2>1. i \in DOMAIN requests /\ requests[i].signature # NoSig
    BY <1>t, <1>6, LatestExists DEF signedRequests
  <2>2. i \in Nat /\ i <= Len(requests) /\ Len(requests) \in Nat /\ requests[i] \in Request
    BY <1>t, <2>1
  <2>3. requests[i].cluster = cluster /\ requests[i].signature \in Sigs
    BY <1>6, <2>1, <2>2 DEF checkRequestCluster, Request
  <2> DEFINE h == next(pc)
  <2>4. /\ h \in HandlerType /\ h.pc = pc /\ h.op = proc[p].op /\ h.to = proc[p].to
        /\ h.seen = proc[p].seen /\ h.current = i /\ h.signature = requests[i].signature
    BY <1>t, <2>2, <2>3 DEF HandlerType, Pc
  <2>5. proc' = [ proc EXCEPT ![p] = h ]
    BY <1>6 DEF Continue
  <2> HIDE DEF h, next, i
  <2>6. proc'[p] = h
    BY <1>t, <2>5
  <2>7. Named(p)'
    BY <1>1, <2>1, <2>3, <2>4, <2>6 DEF Named, chainVars
  <2>8. h.pc \in SettlePc \ { "list", "sign" } /\ h.pc \notin { "withdraw", "confirm", "supersede" }
    BY <2>4 DEF SettlePc
  <2> QED
    BY <1>1, <1>2, <1>3, <2>4, <2>5, <2>7, <2>8, SettleGoes
<1>7. \/ Return(p) \/ Goto(p, "lapse") \/ (signedRequests # {} /\ Goto(p, "withdraw"))
      \/ /\ signedRequests # {} /\ checkRequestCluster(Len(requests), i)
         /\ Continue(p, next(IF Lapsed(i) THEN "last_fetch" ELSE "fetch"))
  BY DEF reconcileTrade
<1> HIDE DEF next, i
<1> QED
  BY <1>4, <1>5, <1>6, <1>7

-----------------------------------------------------------------------------
(* The chain, the clock and the process *)

\* The invariant holds of a freshly proposed trade, on any cluster.
LEMMA SettlementInitInv == ASSUME Init PROVE SettlementInv
<1>1. TradeInv
  BY TradeInitInv DEF Init
<1>2. /\ trade.state = "proposed" /\ requests = << >> /\ receipts = << >>
      /\ \A p \in Procs : proc[p] = Idle
  BY DEF Init, TradeInit, StoreInit
<1>c. chain \in [ Sigs -> Tx ]
  <2>1. \A c \in Clusters : Foreign(c) \in Tx /\ NoTx \in Tx
    BY DEF Foreign, NoTx, Tx
  <2> QED
    BY <2>1 DEF Init
<1>3. TypeOK
  BY <1>1, <1>c DEF TypeOK, TradeInv, Init
<1>4. /\ IssuedIsLast /\ NewestIsIssued
      /\ SettledWasPaid /\ PendingHasRequest /\ TesseraNamesPayment
  BY <1>2 DEF IssuedIsLast, NewestIsIssued, SettledWasPaid, PendingHasRequest, TesseraNamesPayment
<1>5. ASSUME NEW p \in Procs PROVE SettleInv(p)
  BY <1>2, <1>5, HandlerFields DEF SettleInv, SettlePc
<1> QED
  BY <1>1, <1>3, <1>4, <1>5 DEF SettlementInv

\* A step of the chain, of the clock or of nothing.
LEMMA OutsideInv ==
  ASSUME SettlementInv, UNCHANGED << db, proc, aborts, cluster, fee, restarts >>,
         now' \in Nat \ {0}, chain' \in [ Sigs -> Tx ],
         \A sig \in Sigs : chain[sig].status \in { "executed", "failed" }
                             => chain'[sig] = chain[sig]
  PROVE  SettlementInv'
<1>t. TradeInv /\ TypeOK /\ requests \in Seq(Request) /\ IssuedIsLast /\ requests' = requests
      /\ trade' = trade /\ receipts' = receipts
  BY DEF SettlementInv, TypeOK, TradeTypeOK, StoreType, db
<1>1. TradeInv'
  BY <1>t, TradeClock
<1>2. TypeOK'
  BY <1>t, <1>1 DEF TypeOK, TradeInv
<1>3. Kept /\ IssuedIsLast'
  BY <1>t, NothingKept
<1>4. Stable
  BY <1>t, <1>3 DEF Stable
<1>5. SettledWasPaid' /\ TesseraNamesPayment'
  BY <1>t, <1>4, RowsKept
<1>7. PendingHasRequest' /\ NewestIsIssued'
  <2>1. signedRequests' = signedRequests
    BY <1>t DEF signedRequests
  <2> QED
    BY <1>t, <2>1 DEF SettlementInv, PendingHasRequest, NewestIsIssued, CanEnd, At
<1>6. \A p \in Procs : SettleInv(p)'
  BY <1>4, HandlerKept
<1> QED
  BY <1>1, <1>2, <1>3, <1>5, <1>6, <1>7 DEF SettlementInv

\* A restart drops every handler and may change the cluster and the fee.
LEMMA RestartInv ==
  ASSUME SettlementInv, NEW c \in Clusters, NEW f \in Fees, Restart(c, f)
  PROVE  SettlementInv'
<1>t. /\ TradeInv /\ TypeOK /\ IssuedIsLast /\ trade.state \in TradeState
  BY DEF SettlementInv, TypeOK, TradeTypeOK, StoreType
<1>1. /\ UNCHANGED << now, trade, acceptances, events, requests, entries, receipts, offer, aborts, chain >>
      /\ proc' = [ p \in Procs |-> Idle ] /\ cluster' = c /\ fee' = f
      /\ restarts' = restarts + 1
  BY DEF Restart, db
<1>2. Idle \in HandlerType /\ Idle.pc = "idle" /\ Idle.to = "proposed"
  BY <1>t, HandlerTypes, HandlerFields
<1>3. \A p \in Procs : proc'[p] = Idle
  BY <1>1
<1>4. TradeTypeOK'
  BY <1>t, <1>1, <1>2 DEF TypeOK, TradeTypeOK, StoreType, HandlerType
<1>5. tradeAcceptances' = tradeAcceptances
  BY <1>1 DEF tradeAcceptances
<1>6. BothAgreed' /\ EntryMatchesOutcome' /\ TesseraAnchored'
  BY <1>t, <1>1, <1>2, <1>3, <1>5
  DEF TradeInv, BothAgreed, EntryMatchesOutcome, TesseraAnchored, At
<1>7. HandlerInv'
  BY <1>2, <1>3 DEF HandlerInv, At
<1>8. TypeOK'
  BY <1>t, <1>1, <1>4 DEF TypeOK
<1>9. /\ IssuedIsLast' /\ NewestIsIssued'
      /\ SettledWasPaid' /\ PendingHasRequest' /\ TesseraNamesPayment'
  <2>1. restarts' # 0
    BY <1>t, <1>1 DEF TypeOK
  <2> QED
    BY <1>1, <2>1 DEF SettlementInv, IssuedIsLast, NewestIsIssued, SettledWasPaid, Executed,
       PendingHasRequest, TesseraNamesPayment
<1>10. ASSUME NEW p \in Procs PROVE SettleInv(p)'
  BY <1>2, <1>3, PlainHandler DEF SettlePc
<1> QED
  BY <1>4, <1>6, <1>7, <1>8, <1>9, <1>10 DEF SettlementInv, TradeInv

\* Every step keeps the invariant.
LEMMA SettlementNextInv == ASSUME SettlementInv, [Next]_vars PROVE SettlementInv'
<1>t. /\ now \in Nat \ {0} /\ restarts \in Nat
      /\ chain \in [ Sigs -> Tx ] /\ requests \in Seq(Request)
  BY DEF SettlementInv, TypeOK, TradeTypeOK, StoreType
<1>1. CASE Tick /\ UNCHANGED chainVars
  <2>1. now' \in Nat \ {0}
    BY <1>t, <1>1 DEF Tick
  <2> QED
    BY <1>t, <1>1, <2>1, OutsideInv DEF Tick, chainVars
<1>2. CASE UNCHANGED vars
  BY <1>t, <1>2, OutsideInv DEF vars, tradeVars, chainVars
<1>3. CASE Chain
  <2>1. PICK sig \in Sigs : Submit(sig) \/ \E v \in { "executed", "failed" } : Land(sig, v)
    BY <1>3 DEF Chain
  <2>2. PICK tx \in Tx :
          /\ chain[sig].status \in { "absent", "submitted" }
          /\ chain' = [ chain EXCEPT ![sig] = tx ]
          /\ UNCHANGED << tradeVars, cluster, fee, restarts >>
    <3>1. CASE Submit(sig)
      <4>1. PICK i \in DOMAIN requests :
              chain' = [ chain EXCEPT ![sig] =
                [ status |-> "submitted", cluster |-> requests[i].cluster, fee |-> requests[i].fee ] ]
        BY <3>1 DEF Submit
      <4>2. requests[i] \in Request
        BY <1>t
      <4>3. [ status |-> "submitted", cluster |-> requests[i].cluster, fee |-> requests[i].fee ] \in Tx
        BY <4>2 DEF Request, Tx
      <4>4. chain[sig] = NoTx /\ UNCHANGED << tradeVars, cluster, fee, restarts >>
        BY <3>1 DEF Submit
      <4>5. NoTx.status = "absent"
        BY DEF NoTx
      <4> QED
        BY <4>1, <4>3, <4>4, <4>5
    <3>2. ASSUME NEW v \in { "executed", "failed" }, Land(sig, v)
          PROVE  \E tx \in Tx :
                   /\ chain[sig].status \in { "absent", "submitted" }
                   /\ chain' = [ chain EXCEPT ![sig] = tx ]
                   /\ UNCHANGED << tradeVars, cluster, fee, restarts >>
      <4> DEFINE tx == [ chain[sig] EXCEPT !.status = v ]
      <4>1. chain[sig] \in Tx
        BY <1>t
      <4>2. tx \in Tx
        BY <4>1 DEF Tx
      <4>3. chain' = [ chain EXCEPT ![sig] = tx ]
        BY <1>t, <3>2 DEF Land
      <4>4. chain[sig].status = "submitted" /\ UNCHANGED << tradeVars, cluster, fee, restarts >>
        BY <3>2 DEF Land
      <4> HIDE DEF tx
      <4> QED
        BY <4>2, <4>3, <4>4
    <3> QED
      BY <2>1, <3>1, <3>2
  <2>3. /\ chain' \in [ Sigs -> Tx ]
        /\ \A s \in Sigs : chain[s].status \in { "executed", "failed" } => chain'[s] = chain[s]
    BY <1>t, <2>2
  <2> QED
    BY <1>t, <2>2, <2>3, OutsideInv DEF tradeVars
<1>4. ASSUME NEW c \in Clusters, NEW f \in Fees, Restart(c, f) PROVE SettlementInv'
  BY <1>4, RestartInv
<1>5. ASSUME NEW p \in Procs,
             Call(p) \/ Background(p) \/ Step(p) \/ (Abort(p) /\ UNCHANGED chainVars)
      PROVE SettlementInv'
  <2>1. CASE Call(p) \/ Background(p)
    BY <2>1, CallInv, BeginSettleInv DEF Call, Background
  <2>2. CASE Abort(p) /\ UNCHANGED chainVars
    BY <2>2, StepsInv
  <2>3. CASE TradeStep(p) /\ UNCHANGED chainVars
    BY <2>3, applySettles, StepsInv, TesseraInv DEF TradeStep
  <2>4. CASE SettlementStep(p)
    BY <2>4, buildCreateInv, confirmListInv, confirmSignInv, fetchInv, WithdrawInv,
       confirmRequestInv, TesseraInv, reconcileTradeInv DEF SettlementStep
  <2> QED
    BY <1>5, <2>1, <2>2, <2>3, <2>4 DEF Step
<1> QED
  BY <1>1, <1>2, <1>3, <1>4, <1>5 DEF Next

-----------------------------------------------------------------------------
\* The invariant of on-chain settlement holds however builds, confirmations, the
\* reconciler, the trade's other handlers, aborts, restarts on another cluster or under
\* another fee and the chain interleave (settlement.go, reconcile.go).
THEOREM SettlementInvariant == Spec => []SettlementInv
<1>1. Init => SettlementInv
  BY SettlementInitInv
<1>2. SettlementInv /\ [Next]_vars => SettlementInv'
  BY SettlementNextInv
<1> QED
  BY <1>1, <1>2, PTL DEF Spec

\* A trade is settled only over a confirmed request that names a transaction compiled
\* for this trade and executed on the cluster of that request (settleFetched,
\* checkRequestCluster, confirmRequests).
THEOREM SettledIsPaid == Spec => []SettledWasPaid
<1>1. SettlementInv => SettledWasPaid
  BY DEF SettlementInv
<1> QED
  BY <1>1, SettlementInvariant, PTL

\* A pending trade has a request, which BuildSettlement stored before the move, and
\* while no handler was stopped half way it has one to confirm or to lapse, a signature
\* to poll, or a reconciler about to cancel it.
THEOREM PendingIsBuilt == Spec => []PendingHasRequest
<1>1. SettlementInv => PendingHasRequest
  BY DEF SettlementInv
<1> QED
  BY <1>1, SettlementInvariant, PTL

\* The tessera of a settlement names the payment and the cluster it was made on,
\* across races and restarts on another cluster (commitSettlement).
THEOREM TesseraIsTrue == Spec => []TesseraNamesPayment
<1>1. SettlementInv => TesseraNamesPayment
  BY DEF SettlementInv
<1> QED
  BY <1>1, SettlementInvariant, PTL

\* On-chain settlement keeps what the trade service promises: both parties agreed,
\* the ledger entry matches the outcome, and the tessera is anchored.
THEOREM SettlementKeepsBooks == Spec => [](BothAgreed /\ EntryMatchesOutcome /\ TesseraAnchored)
<1>1. SettlementInv => BothAgreed /\ EntryMatchesOutcome /\ TesseraAnchored
  BY DEF SettlementInv, TradeInv
<1> QED
  BY <1>1, SettlementInvariant, PTL

-----------------------------------------------------------------------------
(* The audit trail *)

\* Every step keeps the requests.
LEMMA RequestsStep == ASSUME SettlementInv, [Next]_vars PROVE Kept
<1>t. /\ requests \in Seq(Request) /\ IssuedIsLast
      /\ cluster \in Clusters /\ fee \in Fees /\ now \in Nat
      /\ \A p \in Procs : SettleInv(p)
  BY DEF SettlementInv, TypeOK, TradeTypeOK, StoreType
<1>u. UNCHANGED requests => Kept
  BY <1>t, NothingKept
<1>1. ASSUME NEW p \in Procs, SettlementStep(p) PROVE Kept
  <2>1. CASE buildCreate(p)
    <3>1. now + BlockhashTTL \in Nat
      BY <1>t, SettlementAssumption
    <3> QED
      BY <1>t, <2>1, <3>1, CreateKept DEF buildCreate
  <2>2. CASE confirmSign(p)
    <3>1. GetSettlementRequest \in DOMAIN requests /\ proc[p].signature \in Sigs
      BY <1>t, <2>2, CurrentExists DEF confirmSign, At, SettleInv, SettlePc
    <3> QED
      BY <1>t, <1>u, <2>2, <3>1, SignKept DEF confirmSign
  <2>3. CASE confirmRequest(p)
    <3>1. Named(p)
      BY <1>t, <2>3 DEF confirmRequest, At, SettleInv
    <3> QED
      BY <1>t, <1>u, <2>3, <3>1, ConfirmKept DEF confirmRequest, Named
  <2>4. CASE withdraw(p) \/ confirmSupersede(p) \/ reconcileLapsed(p)
    BY <1>t, <2>4, ExpireKept DEF withdraw, confirmSupersede, reconcileLapsed
  <2>5. CASE confirmList(p) \/ fetch(p) \/ settleReceipt(p) \/ reconcileTrade(p)
    BY <1>u, <2>5 DEF confirmList, fetch, settleReceipt, reconcileTrade, db
  <2> QED
    BY <1>1, <2>1, <2>2, <2>3, <2>4, <2>5 DEF SettlementStep
<1>2. ASSUME NEW p \in Procs, TradeCall(p) \/ Sweep(p) \/ TradeStep(p) \/ Abort(p)
      PROVE  UNCHANGED requests
  BY <1>2 DEF TradeCall, Sweep, TradeStep, Abort, db, BeginNegotiation, Accept, Cancel, Dispute,
     Resolve, Record, ExpireAccepted, ExpireOpen, applyAs, appendEvent, reread, acceptInsert,
     acceptCount, cancelLive, cancelDeadline, ledgerAppend, recordReceipt, closeOffer
<1>3. ASSUME NEW p \in Procs,
             \/ BuildSettlement(p) \/ ReconcileOutstanding(p)
             \/ \E sig \in Sigs : ConfirmSettlement(p, sig)
      PROVE  UNCHANGED requests
  BY <1>3 DEF BuildSettlement, ReconcileOutstanding, ConfirmSettlement, db
<1>4. Tick \/ Chain \/ (\E c \in Clusters, f \in Fees : Restart(c, f)) \/ UNCHANGED vars => UNCHANGED requests
  BY DEF Tick, Chain, Submit, Land, Restart, vars, tradeVars, db
<1> QED
  BY <1>u, <1>1, <1>2, <1>3, <1>4 DEF Next, Call, Background, Step

\* The audit trail of a trade's requests is append-only: a recorded signature is
\* never replaced and a confirmed or expired request stays what it is, whichever
\* confirmation, reconciliation or build comes late (store/settlement.go).
THEOREM AuditTrail == Spec => AuditTrailKept
<1>1. SettlementInv /\ [Next]_vars =>
        [ /\ Len(requests) <= Len(requests')
          /\ \A i \in DOMAIN requests :
               /\ requests[i].signature # NoSig => requests'[i].signature = requests[i].signature
               /\ requests[i].status # "issued" => requests'[i].status = requests[i].status
        ]_requests
  BY RequestsStep DEF Kept
<1> QED
  BY <1>1, SettlementInvariant, PTL DEF Spec, AuditTrailKept

-----------------------------------------------------------------------------
(* The contract and the commitment, with on-chain settlement *)

\* Every step of a settlement is one the contract of a trade allows.
LEMMA SettlementContractStep ==
  ASSUME SettlementInv, [Next]_vars
  PROVE  [Contract!ContractNext]_(Contract!contractVars)
<1>t. TradeInv
  BY DEF SettlementInv
<1>1. CASE [TradeNext]_tradeVars
  BY <1>t, <1>1, ContractStep
<1>2. ASSUME NEW p \in Procs, settleReceipt(p) PROVE Contract!Issue
  <2> DEFINE r == [ state |-> proc[p].seen, signature |-> proc[p].signature, cluster |-> cluster ]
  <2>1. receipts = << >> /\ entries' = entries /\ UNCHANGED << trade, acceptances >>
        /\ receipts' = Append(receipts, r)
    BY <1>2 DEF settleReceipt, SaveReceipt
  <2>2. entries # << >> /\ trade.state \in { "recorded", "settled" }
    BY <1>t, <1>2 DEF TradeInv, TesseraAnchored, EntryMatchesOutcome, settleReceipt
  <2>3. receipts \in Seq(Receipt) /\ r \in Receipt
    BY DEF SettlementInv, TypeOK, TradeTypeOK, StoreType, Receipt
  <2> HIDE DEF r
  <2>4. receipts' # << >>
    BY <2>1, <2>3, AppendRow, Zenon
  <2>5. tesseraStage = "anchored" /\ tesseraStage' = "signed"
    BY <2>1, <2>2, <2>4 DEF tesseraStage
  <2>6. tradeAcceptances' = tradeAcceptances
    BY <2>1 DEF tradeAcceptances
  <2> QED
    BY <2>1, <2>2, <2>5, <2>6 DEF Contract!Issue
<1>3. ASSUME NEW p \in Procs, SettlementStep(p), ~ settleReceipt(p)
      PROVE  UNCHANGED << trade, acceptances, entries, receipts >>
  BY <1>3 DEF SettlementStep, buildCreate, confirmList, confirmSign, fetch, withdraw,
     confirmRequest, confirmSupersede, reconcileTrade, reconcileLapsed, db
<1>4. ASSUME NEW p \in Procs,
             \/ BuildSettlement(p) \/ ReconcileOutstanding(p)
             \/ \E sig \in Sigs : ConfirmSettlement(p, sig)
      PROVE  UNCHANGED << trade, acceptances, entries, receipts >>
  BY <1>4 DEF BuildSettlement, ReconcileOutstanding, ConfirmSettlement, db
<1>5. Chain \/ (\E c \in Clusters, f \in Fees : Restart(c, f)) \/ UNCHANGED vars
      => UNCHANGED << trade, acceptances, entries, receipts >>
  BY DEF Chain, Submit, Land, Restart, vars, tradeVars, db
<1>6. ASSUME NEW p \in Procs, TradeCall(p) \/ Sweep(p) \/ TradeStep(p) \/ Abort(p)
      PROVE  TradeNext
  BY <1>6 DEF TradeNext
<1>7. CASE UNCHANGED << trade, acceptances, entries, receipts >>
  BY <1>7, ContractStutter
<1>8. CASE \E p \in Procs : settleReceipt(p)
  BY <1>2, <1>8 DEF Contract!ContractNext
<1>9. CASE TradeNext
  BY <1>1, <1>9
<1>10. Tick => TradeNext
  BY DEF TradeNext
<1>11. \/ TradeNext \/ UNCHANGED << trade, acceptances, entries, receipts >>
       \/ \E p \in Procs : settleReceipt(p)
  BY <1>3, <1>4, <1>5, <1>6, <1>10 DEF Next, Call, Background, Step
<1> QED
  BY <1>7, <1>8, <1>9, <1>11

\* With on-chain settlement beside it the trade service still implements the
\* contract the parties rely on: builds, confirmations, the reconciler, restarts
\* and the chain never show them a step the contract does not allow.
THEOREM SettlementImplementsContract == Spec => ImplementsContract /\ KeepsContract
<1>1. Init => Contract!ContractInit
  BY ContractStart DEF Init
<1>2. SettlementInv /\ [Next]_vars => [Contract!ContractNext]_(Contract!contractVars)
  BY SettlementContractStep
<1> QED
  BY <1>1, <1>2, SettlementInvariant, PTL
  DEF Spec, ImplementsContract, KeepsContract, Contract!ContractSpec

\* What a statement of a settlement can be about to apply: it cancels only what it
\* read pending.
LEMMA SettlementNextHandler ==
  ASSUME SettlementInv, NEW p \in Procs,
         \/ SettlementStep(p) \/ BuildSettlement(p) \/ ReconcileOutstanding(p)
         \/ \E sig \in Sigs : ConfirmSettlement(p, sig)
  PROVE  /\ \A q \in Procs : q # p => proc'[q] = proc[q]
         /\ proc'[p].pc = "set_state" =>
              \/ proc'[p].to \in { "settlement_pending", "settled", "disputed" }
              \/ proc'[p].to = "cancelled" /\ proc'[p].seen = "settlement_pending"
<1>t. /\ proc \in [ Procs -> HandlerType ] /\ proc[p] \in HandlerType /\ SettleInv(p)
  BY DEF SettlementInv, TypeOK, TradeTypeOK, HandlerType
<1> DEFINE Others == \A q \in Procs : q # p => proc'[q] = proc[q]
           Tame == proc'[p].pc = "set_state" =>
              \/ proc'[p].to \in { "settlement_pending", "settled", "disputed" }
              \/ proc'[p].to = "cancelled" /\ proc'[p].seen = "settlement_pending"
<1>r. ASSUME Return(p) PROVE Others /\ Tame
  BY <1>r, <1>t, HandlerFields DEF Return
<1>g. ASSUME NEW pc, pc # "set_state", Goto(p, pc) PROVE Others /\ Tame
  BY <1>g, <1>t DEF Goto, HandlerType
<1>a. ASSUME NEW to, NEW event, Continue(p, Applying(proc[p], to, event)),
             \/ to \in { "settlement_pending", "settled", "disputed" }
             \/ to = "cancelled" /\ proc[p].seen = "settlement_pending"
      PROVE  Others /\ Tame
  <2> DEFINE h == Applying(proc[p], to, event)
  <2>1. h.to = to /\ h.seen = proc[p].seen
    BY <1>t, ApplyingFields
  <2>2. proc' = [ proc EXCEPT ![p] = h ]
    BY <1>a DEF Continue
  <2> HIDE DEF h
  <2> QED
    BY <1>a, <1>t, <2>1, <2>2
<1>c. ASSUME NEW h, h.pc # "set_state", proc' = [ proc EXCEPT ![p] = h ] PROVE Others /\ Tame
  BY <1>c, <1>t
<1>1. CASE buildCreate(p)
  BY <1>1, <1>r, <1>a DEF buildCreate
<1>2. CASE confirmList(p)
  <2> DEFINE h == [ proc[p] EXCEPT !.pc = "sign", !.listed = Len(requests) ]
  <2>1. h.pc # "set_state" /\ proc' = [ proc EXCEPT ![p] = h ]
    BY <1>2, <1>t DEF confirmList, Continue, HandlerType
  <2> HIDE DEF h
  <2> QED
    BY <2>1, <1>c
<1>3. CASE confirmSign(p)
  <2> DEFINE h == [ proc[p] EXCEPT !.pc = "fetch", !.current = GetSettlementRequest ]
  <2>1. h.pc # "set_state"
    BY <1>t DEF HandlerType
  <2>2. Return(p) \/ proc' = [ proc EXCEPT ![p] = h ]
    BY <1>3 DEF confirmSign, Continue
  <2> HIDE DEF h
  <2> QED
    BY <2>1, <2>2, <1>c, <1>r
<1>4. CASE fetch(p)
  <2>1. \/ Return(p) \/ Goto(p, "withdraw") \/ Goto(p, "confirm") \/ Goto(p, "lapse")
        \/ Continue(p, Applying(proc[p], "disputed", "disputed"))
    BY <1>4 DEF fetch, NotFound, Disputing
  <2> QED
    BY <2>1, <1>r, <1>g, <1>a
<1>5. CASE withdraw(p)
  BY <1>5, <1>r DEF withdraw
<1>6. CASE confirmRequest(p) \/ confirmSupersede(p)
  BY <1>6, <1>r, <1>g, <1>a DEF confirmRequest, confirmSupersede
<1>7. CASE settleReceipt(p)
  BY <1>7, <1>g DEF settleReceipt
<1>8. CASE reconcileTrade(p)
  <2> DEFINE h(pc) == [ proc[p] EXCEPT !.listed = Len(requests), !.current = latestSignedRequest,
                          !.signature = requests[latestSignedRequest].signature, !.pc = pc ]
  <2>1. \A pc : h(pc).pc = pc
    BY <1>t DEF HandlerType
  <2>2. \/ Return(p) \/ Goto(p, "lapse") \/ Goto(p, "withdraw")
        \/ \E pc \in { "last_fetch", "fetch" } : proc' = [ proc EXCEPT ![p] = h(pc) ]
    BY <1>8 DEF reconcileTrade, Continue
  <2> HIDE DEF h
  <2> QED
    BY <2>1, <2>2, <1>r, <1>g, <1>c
<1>9. CASE reconcileLapsed(p)
  <2>1. proc[p].seen = "settlement_pending"
    BY <1>9, <1>t DEF reconcileLapsed, At, SettleInv, SettlePc
  <2> QED
    BY <1>9, <2>1, <1>a DEF reconcileLapsed
<1>10. CASE BuildSettlement(p) \/ ReconcileOutstanding(p)
  <2>1. Handler("build", "create").pc # "set_state"
        /\ Handler("reconcile", "reconcile").pc # "set_state"
    BY HandlerFields
  <2> QED
    BY <1>10, <2>1, <1>c DEF BuildSettlement, ReconcileOutstanding, Begin
<1>11. ASSUME NEW sig \in Sigs, ConfirmSettlement(p, sig) PROVE Others /\ Tame
  <2> DEFINE h == [ Handler("confirm", "list") EXCEPT !.signature = sig ]
  <2>1. h.pc # "set_state"
    BY DEF Handler
  <2>2. proc' = [ proc EXCEPT ![p] = h ]
    BY <1>11 DEF ConfirmSettlement, Begin
  <2> HIDE DEF h
  <2> QED
    BY <2>1, <2>2, <1>c
<1> QED
  BY <1>1, <1>2, <1>3, <1>4, <1>5, <1>6, <1>7, <1>8, <1>9, <1>10, <1>11 DEF SettlementStep

\* Only the compare-and-set writes the trade's state.
LEMMA OnlyApplyMoves ==
  ASSUME [Next]_vars, trade' # trade
  PROVE  \E p \in Procs : applyAs(p) /\ SetTradeState(proc[p].seen, proc[p].to)
<1>1. ASSUME NEW p \in Procs, SettlementStep(p) PROVE trade' = trade
  BY <1>1 DEF SettlementStep, buildCreate, confirmList, confirmSign, fetch, withdraw,
     confirmRequest, confirmSupersede, settleReceipt, reconcileTrade, reconcileLapsed, db
<1>2. ASSUME NEW p \in Procs,
             \/ BuildSettlement(p) \/ ReconcileOutstanding(p)
             \/ (\E sig \in Sigs : ConfirmSettlement(p, sig))
             \/ TradeCall(p) \/ Sweep(p) \/ Abort(p)
      PROVE  trade' = trade
  BY <1>2 DEF BuildSettlement, ReconcileOutstanding, ConfirmSettlement, TradeCall, Sweep, Abort,
     BeginNegotiation, Accept, Cancel, Dispute, Resolve, Record, ExpireAccepted, ExpireOpen, db
<1>3. Tick \/ Chain \/ (\E c \in Clusters, f \in Fees : Restart(c, f)) \/ UNCHANGED vars => trade' = trade
  BY DEF Tick, Chain, Submit, Land, Restart, vars, tradeVars, db
<1>4. ASSUME NEW p \in Procs, TradeStep(p)
      PROVE  applyAs(p) /\ SetTradeState(proc[p].seen, proc[p].to)
  BY <1>4 DEF TradeStep, applyAs, appendEvent, reread, acceptInsert, acceptCount, cancelLive,
     cancelDeadline, ledgerAppend, recordReceipt, closeOffer, db
<1> QED
  BY <1>1, <1>2, <1>3, <1>4 DEF Next, Call, Background, Step

\* A settlement never withdraws an accepted trade.
LEMMA DeadlineSettles ==
  ASSUME SettlementInv, DeadlineInv, [Next]_vars
  PROVE  DeadlineInv'
<1>t. TradeInv /\ now \in Nat /\ acceptances \in [ Party -> Nat ]
  BY DEF SettlementInv, TypeOK, TradeTypeOK, StoreType
<1>1. CASE [TradeNext]_tradeVars
  BY <1>t, <1>1, DeadlineNext
<1>2. ASSUME NEW p \in Procs,
             \/ SettlementStep(p) \/ BuildSettlement(p) \/ ReconcileOutstanding(p)
             \/ \E sig \in Sigs : ConfirmSettlement(p, sig)
      PROVE  DeadlineInv'
  <2>1. now' = now /\ acceptances' = acceptances
    BY <1>2 DEF SettlementStep, buildCreate, confirmList, confirmSign, fetch, withdraw,
       confirmRequest, confirmSupersede, settleReceipt, reconcileTrade, reconcileLapsed,
       BuildSettlement, ReconcileOutstanding, ConfirmSettlement, db
  <2>2. CommitmentLapsed => CommitmentLapsed'
    BY <1>t, <2>1, LapsedStays
  <2>3. \A q \in Procs : Withdraws(proc'[q]) => Withdraws(proc[q])
    BY <1>2, SettlementNextHandler DEF Withdraws
  <2> QED
    BY <2>2, <2>3 DEF DeadlineInv, Withdraws
<1>3. ASSUME NEW c \in Clusters, NEW f \in Fees, Restart(c, f) PROVE DeadlineInv'
  <2>1. \A p \in Procs : proc'[p] = Idle
    BY <1>3 DEF Restart
  <2> QED
    BY <2>1, HandlerFields DEF DeadlineInv, Withdraws
<1>4. ASSUME NEW p \in Procs, TradeCall(p) \/ Sweep(p) \/ TradeStep(p) \/ Abort(p)
      PROVE  TradeNext
  BY <1>4 DEF TradeNext
<1>5. Tick => TradeNext
  BY DEF TradeNext
<1>6. Chain \/ UNCHANGED vars => UNCHANGED tradeVars
  BY DEF Chain, Submit, Land, vars
<1> QED
  BY <1>1, <1>2, <1>3, <1>4, <1>5, <1>6 DEF Next, Call, Background, Step

\* Acceptance is a commitment until its deadline also where the trade settles
\* on-chain: a lapsed build cancels a pending trade, never an accepted one.
THEOREM SettlementCommitmentHolds == Spec => CommitmentHolds
<1>1. Init => DeadlineInv
  <2> SUFFICES ASSUME Init PROVE DeadlineInv
    OBVIOUS
  <2>1. \A p \in Procs : proc[p] = Idle
    BY DEF Init, TradeInit
  <2> QED
    BY <2>1, HandlerFields DEF DeadlineInv, Withdraws
<1>2. SettlementInv /\ DeadlineInv /\ [Next]_vars => DeadlineInv'
  BY DeadlineSettles
<1>3. SettlementInv /\ DeadlineInv /\ [Next]_vars
      => [ trade.state = "accepted" /\ trade'.state = "cancelled"
           => \E a \in Party : acceptances[a] # 0 /\ now >= acceptances[a] + AcceptTTL ]_tradeVars
  <2> SUFFICES ASSUME SettlementInv, DeadlineInv, [Next]_vars,
                      trade.state = "accepted", trade'.state = "cancelled"
               PROVE  CommitmentLapsed
    BY DEF CommitmentLapsed
  <2>1. PICK p \in Procs : applyAs(p) /\ SetTradeState(proc[p].seen, proc[p].to)
    BY OnlyApplyMoves
  <2>2. Withdraws(proc[p])
    BY <2>1 DEF applyAs, At, SetTradeState, Withdraws
  <2> QED
    BY <2>2 DEF DeadlineInv
<1> QED
  BY <1>1, <1>2, <1>3, SettlementInvariant, PTL DEF Spec, CommitmentHolds

-----------------------------------------------------------------------------
(* Disputes *)

\* The service itself disputes a trade only over a recorded signature of its own
\* cluster whose transaction was executed and is not what the running fee policy
\* expects: not over one that is not visible, one that failed, a lapsed blockhash or a
\* restart on another cluster (settleFetched, reconcileTrade).
THEOREM DisputesAreFounded == Spec => NoFalseDispute
<1> DEFINE Founded ==
             \E i \in signedRequests :
               LET tx == chain[requests[i].signature]
               IN  requests[i].cluster = cluster /\ Visible(tx) /\ tx.status = "executed" /\ ~ Verify(tx)
<1>1. ASSUME SettlementInv, [Next]_vars, NEW p \in Procs, proc[p].op # "dispute",
             proc'[p] # proc[p], trade.state # "disputed", trade'.state = "disputed"
      PROVE  Founded
  <2>1. PICK q \in Procs : applyAs(q) /\ SetTradeState(proc[q].seen, proc[q].to)
    BY <1>1, OnlyApplyMoves
  <2>2. proc[q].pc = "set_state" /\ proc[q].to = "disputed"
    BY <1>1, <2>1 DEF applyAs, At, SetTradeState
  <2>3. proc \in [ Procs -> HandlerType ]
    BY <1>1 DEF SettlementInv, TypeOK, TradeTypeOK, HandlerType
  <2>4. \E pc : Goto(q, pc)
    BY <2>1 DEF applyAs
  <2>5. p = q
    BY <1>1, <2>3, <2>4 DEF Goto
  <2>6. Mismatches(p)
    BY <1>1, <2>2, <2>5 DEF SettlementInv, SettleInv
  <2>7. NoSig \notin Sigs
    BY StoreAssumption
  <2> QED
    BY <2>6, <2>7 DEF Mismatches, Named, signedRequests
<1>2. SettlementInv /\ [Next]_vars =>
        [ \A p \in Procs :
            proc[p].op # "dispute" /\ proc'[p] # proc[p]
              /\ trade.state # "disputed" /\ trade'.state = "disputed" => Founded ]_vars
  BY <1>1
<1> QED
  BY <1>2, SettlementInvariant, PTL DEF Spec, NoFalseDispute
=============================================================================
