----------------------------- MODULE AccessProof -----------------------------
(***************************************************************************)
(* What module Access promises, for any agents, operators, handlers, limits *)
(* and lifetimes: sessions, the names calls are made under, and the rate.   *)
(***************************************************************************)
EXTENDS Access, TLAPS

-----------------------------------------------------------------------------
(* One request of a key, as a function of the map of buckets                *)

\* Multiplication by a rate keeps the order.
LEMMA RateMonotone ==
  ASSUME NEW r \in Nat, NEW s \in Int, NEW t \in Int, s <= t
  PROVE  r * s <= r * t
  OBVIOUS

\* A product distributes over a sum, and its order does not matter.
LEMMA Products ==
  ASSUME NEW a \in Int, NEW b \in Int, NEW c \in Int
  PROVE  /\ a * (b + c) = a * b + a * c
         /\ a * b \in Int /\ a * c \in Int
         /\ a * (b * c) = b * (c * a)
  OBVIOUS

\* A product of naturals is one.
LEMMA NatProduct ==
  ASSUME NEW a \in Nat, NEW b \in Nat
  PROVE  a * b \in Nat
  OBVIOUS

\* One more start is one more burst.
LEMMA OneMore ==
  ASSUME NEW b \in Nat, NEW r \in Nat
  PROVE  b * (r + 1) = b * r + b /\ b * r \in Nat
  OBVIOUS

\* A bucket other than the one charged is kept as it was, or dropped when nobody
\* touched it for longer than the idle period (evictLocked).
LEMMA OtherBuckets ==
  ASSUME NEW limit, NEW m, NEW key, NEW at
  PROVE  LET after == allow(limit, m, key, at).buckets
         IN  /\ key \in DOMAIN after /\ DOMAIN after \subseteq DOMAIN m \cup {key}
             /\ \A k \in DOMAIN after \ {key} : after[k] = m[k]
             /\ \A k \in DOMAIN m \ {key} :
                  k \notin DOMAIN after => ~(at - m[k].last <= limit.idle)
<1> DEFINE kept == IF key \notin DOMAIN m /\ Cardinality(DOMAIN m) >= limit.maxKeys
                   THEN evictLocked(limit, m, at) ELSE m
           b == Bucket(limit, m, key, at)
           charged == IF b.tokens >= 1 THEN [b EXCEPT !.tokens = @ - 1] ELSE b
           after == allow(limit, m, key, at).buckets
<1>1. /\ DOMAIN kept \subseteq DOMAIN m
      /\ \A k \in DOMAIN kept : kept[k] = m[k]
      /\ \A k \in DOMAIN m : k \notin DOMAIN kept => ~(at - m[k].last <= limit.idle)
  BY DEF evictLocked
<1> HIDE DEF kept
<1> HIDE DEF charged
<1>2. after = [k \in DOMAIN kept \cup {key} |-> IF k = key THEN charged ELSE kept[k]]
  BY DEF allow, kept, charged
<1> HIDE DEF after
<1>3. /\ key \in DOMAIN after /\ DOMAIN after \subseteq DOMAIN m \cup {key}
      /\ \A k \in DOMAIN after \ {key} : after[k] = m[k]
      /\ \A k \in DOMAIN m \ {key} : k \notin DOMAIN after => ~(at - m[k].last <= limit.idle)
  BY <1>1, <1>2
<1> QED
  BY <1>3 DEF after

BucketRow == [tokens : Nat, last : Nat]

\* The account of a key, "gap" times over: what it was let through and what it
\* still holds are covered by its burst and by "per" for each unit of time up to the
\* last refill.  A request charges the bucket and keeps the account (allow).
LEMMA ChargedBucket ==
  ASSUME NEW limit, limit.rps \in Nat, limit.burst \in Nat \ {0}, NEW m, NEW key, NEW at \in Nat,
         NEW n \in Nat, NEW base \in Nat, NEW gap \in Nat, NEW per \in Nat, gap * limit.rps <= per,
         key \in DOMAIN m =>
           /\ m[key] \in BucketRow
           /\ gap * (n + m[key].tokens) <= gap * (base + limit.burst) + per * m[key].last,
         key \notin DOMAIN m => gap * n <= gap * base + per * at
  PROVE  LET a == allow(limit, m, key, at)
             b == a.buckets[key]
         IN  /\ b \in BucketRow
             /\ b.last = at \/ (key \in DOMAIN m /\ b.last = m[key].last)
             /\ a.ok \in BOOLEAN
             /\ a.ok => gap * (n + 1 + b.tokens) <= gap * (base + limit.burst) + per * b.last
             /\ ~a.ok => gap * (n + b.tokens) <= gap * (base + limit.burst) + per * b.last
<1> DEFINE old == Bucket(limit, m, key, at)
           ok == old.tokens >= 1
           charged == IF ok THEN [old EXCEPT !.tokens = @ - 1] ELSE old
<1>1. /\ old \in BucketRow
      /\ old.last = at \/ (key \in DOMAIN m /\ old.last = m[key].last)
      /\ gap * (n + old.tokens) <= gap * (base + limit.burst) + per * old.last
  <2>1. CASE key \notin DOMAIN m
    <3>1. old = [tokens |-> limit.burst, last |-> at]
      BY <2>1 DEF Bucket
    <3> HIDE DEF old
    <3>2. old \in BucketRow /\ old.last = at /\ old.tokens = limit.burst
      BY <3>1 DEF BucketRow
    <3>3. /\ gap * (n + limit.burst) = gap * n + gap * limit.burst
          /\ gap * (base + limit.burst) = gap * base + gap * limit.burst
          /\ gap * n \in Int /\ gap * base \in Int /\ gap * limit.burst \in Int /\ per * at \in Int
      BY Products
    <3> QED
      BY <2>1, <3>2, <3>3
  <2>2. CASE key \in DOMAIN m /\ at <= m[key].last
    <3>1. old = m[key]
      BY <2>2 DEF Bucket
    <3> HIDE DEF old
    <3> QED
      BY <2>2, <3>1
  <2>3. CASE key \in DOMAIN m /\ ~(at <= m[key].last)
    <3> DEFINE tokens == m[key].tokens
               last == m[key].last
               gained == (at - last) * limit.rps
               refilled == tokens + gained
               kept == Smaller(limit.burst, refilled)
    <3>1. tokens \in Nat /\ last \in Nat /\ last < at /\ at - last \in Nat
          /\ gap * (n + tokens) <= gap * (base + limit.burst) + per * last
      BY <2>3 DEF BucketRow
    <3>2. old = [tokens |-> kept, last |-> at]
      BY <2>3 DEF Bucket
    <3> HIDE DEF tokens, last
    <3>3. gained \in Nat /\ gap * gained <= per * at - per * last
      <4>1. gained \in Nat
        BY <3>1, NatProduct
      <4>2. gap * gained = (at - last) * (limit.rps * gap) /\ limit.rps * gap \in Int
        BY <3>1, Products
      <4>3. limit.rps * gap <= per
        OBVIOUS
      <4>4. (at - last) * (limit.rps * gap) <= (at - last) * per
        BY <3>1, <4>2, <4>3, RateMonotone
      <4>5. (at - last) * per = per * at - per * last
        BY <3>1
      <4> QED
        BY <4>1, <4>2, <4>4, <4>5
    <3> HIDE DEF gained
    <3>4. refilled \in Nat /\ gap * (n + refilled) <= gap * (base + limit.burst) + per * at
      <4>1. refilled \in Nat
        BY <3>1, <3>3
      <4>2. gap * ((n + tokens) + gained) = gap * (n + tokens) + gap * gained
            /\ gap * (n + tokens) \in Int /\ gap * gained \in Int
        BY <3>1, <3>3, Products
      <4>3. (n + tokens) + gained = n + refilled
        BY <3>1, <3>3
      <4>4. per * at \in Int /\ per * last \in Int /\ gap * (base + limit.burst) \in Int
        BY <3>1, Products
      <4> HIDE DEF refilled
      <4> QED
        BY <3>1, <3>3, <4>1, <4>2, <4>3, <4>4
    <3> HIDE DEF refilled
    <3>5. kept \in Nat /\ kept <= refilled
      BY <3>4 DEF Smaller
    <3> HIDE DEF kept
    <3> HIDE DEF old
    <3>6. old \in BucketRow /\ old.last = at /\ old.tokens = kept
      BY <3>2, <3>5 DEF BucketRow
    <3>7. gap * (n + kept) <= gap * (n + refilled)
      BY <3>4, <3>5, RateMonotone
    <3>8. gap * (n + kept) \in Int /\ gap * (n + refilled) \in Int /\ per * at \in Int
          /\ gap * (base + limit.burst) \in Int
      BY <3>4, <3>5, Products
    <3> QED
      BY <3>4, <3>6, <3>7, <3>8
  <2> QED
    BY <2>1, <2>2, <2>3
<1>2. allow(limit, m, key, at).ok = ok /\ allow(limit, m, key, at).buckets[key] = charged
  BY DEF allow
<1> HIDE DEF old
<1>3. /\ charged \in BucketRow /\ charged.last = old.last
      /\ ok => charged.tokens = old.tokens - 1
      /\ ~ok => charged.tokens = old.tokens
  BY <1>1 DEF BucketRow
<1> HIDE DEF charged
<1>4. /\ ok => n + 1 + charged.tokens = n + old.tokens
      /\ ~ok => n + charged.tokens = n + old.tokens
  BY <1>1, <1>3 DEF BucketRow
<1>5. /\ ok => gap * (n + 1 + charged.tokens) <= gap * (base + limit.burst) + per * charged.last
      /\ ~ok => gap * (n + charged.tokens) <= gap * (base + limit.burst) + per * charged.last
  BY <1>1, <1>3, <1>4
<1>6. ok \in BOOLEAN
  BY <1>1 DEF BucketRow
<1> QED
  BY <1>1, <1>2, <1>3, <1>5, <1>6

-----------------------------------------------------------------------------
(* The invariant                                                            *)

Row == [agent : Agent \cup {NoToken}, expires : Nat, consumed : BOOLEAN]
Session == [agent : Agent, challenge : ChallengeID, signer : Agent, expires : Nat]
Presented == {NoToken}
             \cup [kind : {"operator"}, token : {o.token : o \in Operator} \cup {"guess"}]
             \cup [kind : {"session"}, session : Session]

\* The record of a request, by how far it has come.
Arrived == [pc : {"address"}, route : routes, addr : Addr, path : Agent \cup {NoToken},
            cred : Presented, sig : Signature \cup {NoToken}, at : Nat]
Gated == [pc : {"operator", "session", "challenge", "redeem", "verify", "call"}, route : routes,
          path : Agent \cup {NoToken}, cred : Presented, sig : Signature \cup {NoToken}, at : Nat]
Named == [pc : {"agent", "handle"}, route : routes, path : Agent \cup {NoToken},
          cred : Presented, caller : Agent, at : Nat]
Request == {Idle} \cup Arrived \cup Gated \cup Named

Pending == {"address", "agent"}

AccessTypeOK ==
  /\ challenges \in [ChallengeID -> Row]
  /\ sessions \subseteq Session
  /\ buckets = [l \in DOMAIN Limits |-> buckets[l]]
  /\ \A l \in DOMAIN Limits : \A k \in DOMAIN buckets[l] : buckets[l][k] \in BucketRow
  /\ admitted = [l \in DOMAIN Limits |-> admitted[l]]
  /\ \A l \in DOMAIN Limits : admitted[l] \in [Keys[l] -> Nat]
  /\ now \in Nat /\ restarts \in Nat
  /\ proc \in [Proc -> Request]

\* What a request carries once the gates it passed have looked at it: a session in
\* hand was issued, behind the agent gate it is the caller's, and a time read for
\* a limiter is not yet stale.
Carries(h, issued, t) ==
  /\ h.pc # "idle" /\ h.cred.kind = "session" => h.cred.session \in issued
  /\ h.pc = "address" => /\ h.route = "challenge" => h.path \in Agent
                         /\ h.route = "verify" => h.sig \in Signature
  /\ h.pc = "challenge" => h.path \in Agent
  /\ h.pc \in {"redeem", "verify"} => h.sig \in Signature
  /\ h.pc = "operator" => h.route \in adminRoutes
  /\ h.pc \in {"session", "agent", "handle"} => h.route \notin adminRoutes
  /\ h.pc \in {"agent", "handle"} => h.cred.kind = "session" /\ h.caller = h.cred.session.agent
  /\ h.pc \in Pending => h.at <= t /\ t - h.at <= MaxDelay

\* A challenge is used up before its signature is looked at: who stands between
\* the two is alone with it, and no session was issued for it.
Redemptions ==
  /\ \A c \in ChallengeID : challenges[c].consumed => challenges[c].agent # NoToken
  /\ \A s \in sessions : challenges[s.challenge].consumed
  /\ \A p \in Proc : proc[p].pc = "verify" =>
       /\ challenges[proc[p].sig.over].consumed
       /\ \A s \in sessions : s.challenge # proc[p].sig.over
       /\ \A q \in Proc \ {p} : proc[q].pc = "verify" => proc[q].sig.over # proc[p].sig.over

\* What a key may have been let through, as many times over as a bucket is kept
\* idle: with a bucket, all but what the bucket holds, up to its last refill;
\* without one, up to the time any request that is still to be charged has read.
Gap(l) == Limits[l].idle - MaxDelay
Per(l) == PerIdle(Limits[l])

Account(l, k) ==
  LET n == admitted[l][k]
      base == Limits[l].burst * restarts
  IN  /\ k \in DOMAIN buckets[l] =>
           /\ buckets[l][k].last <= now
           /\ Gap(l) * (n + buckets[l][k].tokens)
                <= Gap(l) * (base + Limits[l].burst) + Per(l) * buckets[l][k].last
      /\ k \notin DOMAIN buckets[l] =>
           /\ Gap(l) * n <= Gap(l) * base + Per(l) * now
           /\ \A p \in Proc : proc[p].pc \in Pending => Gap(l) * n <= Gap(l) * base + Per(l) * proc[p].at

Accounts == \A l \in DOMAIN Limits : \A k \in Keys[l] : Account(l, k)

AccessInv ==
  /\ AccessTypeOK
  /\ \A p \in Proc : Carries(proc[p], sessions, now)
  /\ Redemptions
  /\ OneSessionPerChallenge
  /\ CallsAreAttributable
  /\ Accounts

\* A bucket is kept longer than a request takes, and over that time neither the
\* rate nor a burst exceeds what the key is allowed.
LEMMA Periods ==
  ASSUME NEW l \in DOMAIN Limits
  PROVE  /\ Limits[l].rps \in Nat /\ Limits[l].burst \in Nat \ {0} /\ Limits[l].idle \in Nat
         /\ MaxDelay \in Nat /\ Gap(l) \in Nat \ {0} /\ Per(l) \in Nat
         /\ Gap(l) * Limits[l].rps <= Per(l) /\ Limits[l].burst <= Per(l)
<1>1. /\ Limits[l].rps \in Nat /\ Limits[l].burst \in Nat \ {0} /\ Limits[l].idle \in Nat
      /\ MaxDelay \in Nat /\ Gap(l) \in Nat \ {0}
  BY AccessAssumption DEF Gap
<1>2. Gap(l) * Limits[l].rps \in Nat
  BY <1>1, NatProduct
<1>3. Per(l) = Larger(Gap(l) * Limits[l].rps, Limits[l].burst)
  BY DEF Per, PerIdle, Gap
<1> QED
  BY <1>1, <1>2, <1>3 DEF Larger

-----------------------------------------------------------------------------
(* What a step leaves alone                                                 *)

\* The program counter of a request says which fields it has.
LEMMA Shape ==
  ASSUME NEW h \in Request
  PROVE  /\ h.pc = "idle" => h = Idle
         /\ h.pc = "address" => h \in Arrived
         /\ h.pc \in {"operator", "session", "challenge", "redeem", "verify", "call"} => h \in Gated
         /\ h.pc \in {"agent", "handle"} => h \in Named
  BY DEF Request, Idle, Arrived, Gated, Named

\* The time a request read for a limiter is a number.
LEMMA ReadTime ==
  ASSUME AccessInv, NEW p \in Proc, proc[p].pc \in Pending
  PROVE  /\ proc[p].at \in Nat /\ proc[p].at <= now /\ now - proc[p].at <= MaxDelay
  BY Shape DEF AccessInv, AccessTypeOK, Arrived, Named, Pending, Carries

\* One request moves to g.
LEMMA Moves ==
  ASSUME AccessInv, NEW p \in Proc, NEW g \in Request, Goto(p, g), UNCHANGED now,
         sessions \subseteq sessions', Carries(g, sessions', now)
  PROVE  /\ proc' \in [Proc -> Request] /\ proc'[p] = g
         /\ \A q \in Proc \ {p} : proc'[q] = proc[q]
         /\ \A q \in Proc : Carries(proc'[q], sessions', now')
<1>1. /\ proc' \in [Proc -> Request] /\ proc'[p] = g
      /\ \A q \in Proc \ {p} : proc'[q] = proc[q]
  BY DEF AccessInv, AccessTypeOK, Goto
<1>2. \A q \in Proc : Carries(proc[q], sessions', now)
  BY DEF AccessInv, Carries
<1> QED
  BY <1>1, <1>2

\* A handler with no request carries nothing.
LEMMA IdleCarries ==
  ASSUME NEW S, NEW t
  PROVE  Idle \in Request /\ Idle.pc = "idle" /\ Carries(Idle, S, t)
<1>1. Idle \in Request /\ Idle.pc = "idle"
  BY DEF Request, Idle
<1> QED
  BY <1>1 DEF Carries, Pending

\* A step that neither touches the challenges and sessions nor reaches the
\* signature check keeps what is known of redemptions.
LEMMA RedemptionsKept ==
  ASSUME AccessInv, NEW p \in Proc, NEW g, g.pc # "verify", proc'[p] = g,
         \A q \in Proc \ {p} : proc'[q] = proc[q], UNCHANGED << challenges, sessions >>
  PROVE  Redemptions' /\ OneSessionPerChallenge'
<1>1. OneSessionPerChallenge'
  BY DEF AccessInv, OneSessionPerChallenge
<1>2. Redemptions'
  BY DEF AccessInv, Redemptions
<1> QED
  BY <1>1, <1>2

\* A session, once issued, keeps vouching for the call that was made under it.
LEMMA CallsKept ==
  ASSUME AccessInv, UNCHANGED lastCall, sessions \subseteq sessions'
  PROVE  CallsAreAttributable'
  BY DEF AccessInv, CallsAreAttributable

\* A step that charges nothing and reads no time but the present.
LEMMA AccountsKept ==
  ASSUME AccessInv, UNCHANGED << buckets, admitted, now, restarts >>,
         \A p \in Proc : proc'[p].pc \in Pending =>
           proc'[p].at = now \/ (proc[p].pc \in Pending /\ proc'[p].at = proc[p].at)
  PROVE  Accounts'
<1> SUFFICES ASSUME NEW l \in DOMAIN Limits, NEW k \in Keys[l]
             PROVE  Account(l, k)'
  BY DEF Accounts
<1>1. Account(l, k)
  BY DEF AccessInv, Accounts
<1> QED
  BY <1>1 DEF Account

\* With a bucket or without, a key was let through at most its burst per start and
\* what it is allowed for the time so far.
LEMMA Covered ==
  ASSUME AccessInv, NEW l \in DOMAIN Limits, NEW k \in Keys[l]
  PROVE  Gap(l) * admitted[l][k]
           <= Gap(l) * (Limits[l].burst * restarts + Limits[l].burst) + Per(l) * now
<1> DEFINE n == admitted[l][k]
           burst == Limits[l].burst
           base == burst * restarts
           gap == Gap(l)
           per == Per(l)
<1>1. /\ n \in Nat /\ burst \in Nat /\ gap \in Nat /\ per \in Nat /\ Account(l, k)
      /\ now \in Nat /\ restarts \in Nat
  BY Periods DEF AccessInv, AccessTypeOK, Accounts
<1>2. base \in Nat /\ base + burst \in Nat
  BY <1>1, NatProduct
<1>3. k \notin DOMAIN buckets[l] => gap * n <= gap * base + per * now
  BY <1>1 DEF Account
<1>4. k \in DOMAIN buckets[l] =>
        /\ buckets[l][k].last \in Nat /\ buckets[l][k].tokens \in Nat /\ buckets[l][k].last <= now
        /\ gap * (n + buckets[l][k].tokens) <= gap * (base + burst) + per * buckets[l][k].last
  BY <1>1 DEF Account, AccessInv, AccessTypeOK, BucketRow
<1> HIDE DEF n, burst, base, gap, per
<1>5. /\ gap * (base + burst) = gap * base + gap * burst
      /\ gap * base \in Int /\ gap * burst \in Nat /\ per * now \in Int /\ gap * n \in Int
  BY <1>1, <1>2, Products, NatProduct
<1>6. gap * n <= gap * (base + burst) + per * now
  <2>1. CASE k \notin DOMAIN buckets[l]
    BY <1>3, <1>5, <2>1
  <2>2. CASE k \in DOMAIN buckets[l]
    <3> DEFINE last == buckets[l][k].last
               tokens == buckets[l][k].tokens
    <3>1. /\ last \in Nat /\ tokens \in Nat /\ last <= now
          /\ gap * (n + tokens) <= gap * (base + burst) + per * last
      BY <1>4, <2>2
    <3> HIDE DEF last, tokens
    <3>2. per * last <= per * now /\ per * last \in Int
      BY <1>1, <3>1, RateMonotone, Products
    <3>3. gap * n <= gap * (n + tokens) /\ gap * (n + tokens) \in Int
      BY <1>1, <3>1, RateMonotone, Products
    <3> QED
      BY <1>5, <3>1, <3>2, <3>3
  <2> QED
    BY <2>1, <2>2
<1> QED
  BY <1>6 DEF n, burst, base, gap, per

\* A step of one request that leaves the tables and the limiters alone.
LEMMA QuietStep ==
  ASSUME AccessInv, NEW p \in Proc, NEW g \in Request, Goto(p, g),
         UNCHANGED << challenges, sessions, buckets, admitted, now, restarts >>,
         Carries(g, sessions, now), g.pc # "verify", CallsAreAttributable',
         g.pc \in Pending => g.at = now
  PROVE  AccessInv'
<1>1. /\ proc' \in [Proc -> Request] /\ proc'[p] = g
      /\ \A q \in Proc \ {p} : proc'[q] = proc[q]
      /\ \A q \in Proc : Carries(proc'[q], sessions', now')
  BY Moves
<1>2. Redemptions' /\ OneSessionPerChallenge'
  BY <1>1, RedemptionsKept
<1>3. Accounts'
  BY <1>1, AccountsKept
<1>4. AccessTypeOK'
  BY <1>1 DEF AccessInv, AccessTypeOK
<1> QED
  BY <1>1, <1>2, <1>3, <1>4 DEF AccessInv

-----------------------------------------------------------------------------
(* The limiter                                                              *)

\* The request of p, whose time was read while the clock ran at most MaxDelay
\* further, is charged: the key's account is kept, and a bucket that is dropped
\* would have been full again for everyone still to be charged.
LEMMA ChargeKeepsAccounts ==
  ASSUME AccessInv, NEW l \in DOMAIN Limits, NEW key \in Keys[l], NEW p \in Proc,
         proc[p].pc \in Pending, Charge(l, key, proc[p].at), UNCHANGED << now, restarts >>,
         \A q \in Proc : proc'[q].pc \in Pending => proc[q].pc \in Pending /\ proc'[q] = proc[q]
  PROVE  /\ Accounts'
         /\ buckets' = [j \in DOMAIN Limits |-> buckets'[j]]
         /\ \A j \in DOMAIN Limits : \A k \in DOMAIN buckets'[j] : buckets'[j][k] \in BucketRow
         /\ admitted' = [j \in DOMAIN Limits |-> admitted'[j]]
         /\ \A j \in DOMAIN Limits : admitted'[j] \in [Keys[j] -> Nat]
<1> DEFINE at == proc[p].at
           limit == Limits[l]
           m == buckets[l]
           answer == allow(limit, m, key, at)
           base == limit.burst * restarts
           gap == Gap(l)
           per == Per(l)
<1>1. /\ limit.rps \in Nat /\ limit.burst \in Nat \ {0} /\ limit.idle \in Nat
      /\ MaxDelay \in Nat /\ gap \in Nat /\ gap = limit.idle - MaxDelay
      /\ per \in Nat /\ gap * limit.rps <= per /\ limit.burst <= per
      /\ now \in Nat /\ restarts \in Nat /\ base \in Nat
  <2>1. now \in Nat /\ restarts \in Nat
    BY DEF AccessInv, AccessTypeOK
  <2>2. base \in Nat
    BY <2>1, Periods, NatProduct
  <2> QED
    BY <2>1, <2>2, Periods DEF Gap
<1>2. at \in Nat /\ at <= now /\ now - at <= MaxDelay
  BY ReadTime
<1>3. /\ buckets' = [buckets EXCEPT ![l] = answer.buckets]
      /\ admitted' = IF answer.ok THEN [admitted EXCEPT ![l][key] = @ + 1] ELSE admitted
  BY DEF Charge
<1>4. /\ admitted[l] \in [Keys[l] -> Nat] /\ admitted[l][key] \in Nat
      /\ \A k \in DOMAIN m : m[k] \in BucketRow
      /\ DOMAIN buckets = DOMAIN Limits /\ DOMAIN admitted = DOMAIN Limits
  BY DEF AccessInv, AccessTypeOK
<1>5. \A k \in Keys[l] : Account(l, k)
  BY DEF AccessInv, Accounts
<1> HIDE DEF answer
<1>6. /\ buckets'[l] = answer.buckets /\ \A j \in DOMAIN Limits \ {l} : buckets'[j] = buckets[j]
      /\ buckets' = [j \in DOMAIN Limits |-> buckets'[j]]
  BY <1>3, <1>4
<1>7. /\ \A j \in DOMAIN Limits \ {l} : admitted'[j] = admitted[j]
      /\ \A k \in Keys[l] \ {key} : admitted'[l][k] = admitted[l][k]
      /\ admitted'[l][key] = IF answer.ok THEN admitted[l][key] + 1 ELSE admitted[l][key]
      /\ admitted' = [j \in DOMAIN Limits |-> admitted'[j]]
      /\ admitted'[l] \in [Keys[l] -> Nat]
  <2>1. CASE answer.ok
    <3> DEFINE row == [admitted[l] EXCEPT ![key] = @ + 1]
    <3>1. /\ row \in [Keys[l] -> Nat] /\ row[key] = admitted[l][key] + 1
          /\ \A k \in Keys[l] \ {key} : row[k] = admitted[l][k]
      BY <1>4
    <3>2. admitted' = [admitted EXCEPT ![l] = row]
      BY <1>3, <2>1
    <3> HIDE DEF row
    <3> QED
      BY <1>4, <2>1, <3>1, <3>2
  <2>2. CASE ~answer.ok
    BY <1>3, <1>4, <2>2 DEF AccessInv, AccessTypeOK
  <2> QED
    BY <2>1, <2>2
<1>8. /\ key \in DOMAIN answer.buckets /\ DOMAIN answer.buckets \subseteq DOMAIN m \cup {key}
      /\ \A k \in DOMAIN answer.buckets \ {key} : answer.buckets[k] = m[k]
      /\ \A k \in DOMAIN m \ {key} :
           k \notin DOMAIN answer.buckets => ~(at - m[k].last <= limit.idle)
  <2> HIDE DEF at, limit, m
  <2>1. LET after == allow(limit, m, key, at).buckets
        IN  /\ key \in DOMAIN after /\ DOMAIN after \subseteq DOMAIN m \cup {key}
            /\ \A k \in DOMAIN after \ {key} : after[k] = m[k]
            /\ \A k \in DOMAIN m \ {key} :
                 k \notin DOMAIN after => ~(at - m[k].last <= limit.idle)
    BY OtherBuckets, Zenon
  <2> QED
    BY <2>1 DEF answer
<1>9. LET b == answer.buckets[key]
      IN  /\ b \in BucketRow
          /\ b.last = at \/ (key \in DOMAIN m /\ b.last = m[key].last)
          /\ answer.ok \in BOOLEAN
          /\ answer.ok => gap * (admitted[l][key] + 1 + b.tokens) <= gap * (base + limit.burst) + per * b.last
          /\ ~answer.ok => gap * (admitted[l][key] + b.tokens) <= gap * (base + limit.burst) + per * b.last
  <2>1. key \in DOMAIN m =>
          /\ m[key] \in BucketRow
          /\ gap * (admitted[l][key] + m[key].tokens) <= gap * (base + limit.burst) + per * m[key].last
    BY <1>4, <1>5 DEF Account
  <2>2. key \notin DOMAIN m => gap * admitted[l][key] <= gap * base + per * at
    BY <1>5 DEF Account
  <2> DEFINE n == admitted[l][key]
  <2> HIDE DEF base, at, m, limit, gap, per, n
  <2>3. /\ limit.rps \in Nat /\ limit.burst \in Nat \ {0} /\ gap * limit.rps <= per
        /\ at \in Nat /\ n \in Nat /\ base \in Nat /\ gap \in Nat /\ per \in Nat
    BY <1>1, <1>2, <1>4 DEF n
  <2>4. /\ key \in DOMAIN m =>
             /\ m[key] \in BucketRow
             /\ gap * (n + m[key].tokens) <= gap * (base + limit.burst) + per * m[key].last
        /\ key \notin DOMAIN m => gap * n <= gap * base + per * at
    BY <2>1, <2>2 DEF n
  <2>5. LET a == allow(limit, m, key, at)
            b == a.buckets[key]
        IN  /\ b \in BucketRow
            /\ b.last = at \/ (key \in DOMAIN m /\ b.last = m[key].last)
            /\ a.ok \in BOOLEAN
            /\ a.ok => gap * (n + 1 + b.tokens) <= gap * (base + limit.burst) + per * b.last
            /\ ~a.ok => gap * (n + b.tokens) <= gap * (base + limit.burst) + per * b.last
    BY <2>3, <2>4, ChargedBucket, Zenon
  <2> QED
    BY <2>5 DEF answer, n
<1>10. Account(l, key)'
  <2>1. answer.buckets[key].last <= now
    BY <1>2, <1>5, <1>9 DEF Account
  <2>2. gap * (admitted'[l][key] + answer.buckets[key].tokens)
          <= gap * (base + limit.burst) + per * answer.buckets[key].last
    BY <1>7, <1>9
  <2> QED
    BY <1>6, <1>8, <2>1, <2>2 DEF Account
<1>11. ASSUME NEW k \in Keys[l] \ {key} PROVE Account(l, k)'
  <2>1. Account(l, k) /\ admitted'[l][k] = admitted[l][k] /\ admitted[l][k] \in Nat
    BY <1>4, <1>5, <1>7
  <2>2. CASE k \in DOMAIN answer.buckets
    <3>1. buckets'[l][k] = m[k] /\ k \in DOMAIN m /\ k \in DOMAIN buckets'[l]
      BY <1>6, <1>8, <2>2
    <3> QED
      BY <2>1, <3>1 DEF Account
  <2>3. CASE k \notin DOMAIN answer.buckets /\ k \notin DOMAIN m
    BY <1>6, <2>1, <2>3 DEF Account
  <2>4. CASE k \notin DOMAIN answer.buckets /\ k \in DOMAIN m
    <3> DEFINE n == admitted[l][k]
               last == m[k].last
    <3>1. /\ last \in Nat /\ m[k].tokens \in Nat /\ n \in Nat
          /\ gap * (n + m[k].tokens) <= gap * (base + limit.burst) + per * last
          /\ ~(at - last <= limit.idle)
      BY <1>4, <1>8, <2>1, <2>4 DEF Account, BucketRow
    <3>2. ASSUME NEW t \in Nat, now - t <= MaxDelay PROVE gap * n <= gap * base + per * t
      <4> DEFINE tokens == m[k].tokens
      <4> HIDE DEF n, last, base, at, limit, gap, per, tokens
      <4>1. /\ last \in Nat /\ tokens \in Nat /\ n \in Nat
            /\ gap * (n + tokens) <= gap * (base + limit.burst) + per * last
            /\ ~(at - last <= limit.idle)
        BY <3>1 DEF tokens
      <4>2. last + gap <= t
        BY <1>1, <1>2, <3>2, <4>1
      <4>3. per * (last + gap) <= per * t /\ per * (last + gap) = per * last + per * gap
            /\ per * last \in Int /\ per * gap \in Int /\ per * t \in Int
        BY <1>1, <4>1, <4>2, RateMonotone, Products
      <4>4. gap * n <= gap * (n + tokens)
        BY <1>1, <4>1, RateMonotone
      <4>5. gap * (base + limit.burst) = gap * base + gap * limit.burst
            /\ gap * base \in Int /\ gap * limit.burst \in Int
        BY <1>1, Products
      <4>6. gap * limit.burst <= gap * per
        BY <1>1, RateMonotone
      <4>7. gap * per = per * gap /\ gap * n \in Int /\ gap * (n + tokens) \in Int
        BY <1>1, <4>1, Products
      <4> QED
        BY <4>1, <4>3, <4>4, <4>5, <4>6, <4>7
    <3>3. gap * n <= gap * base + per * now
      BY <1>1, <3>2
    <3>4. \A q \in Proc : proc[q].pc \in Pending => gap * n <= gap * base + per * proc[q].at
      BY <3>2, ReadTime
    <3> QED
      BY <1>6, <2>1, <2>4, <3>3, <3>4 DEF Account
  <2> QED
    BY <2>2, <2>3, <2>4
<1>12. ASSUME NEW j \in DOMAIN Limits \ {l}, NEW k \in Keys[j] PROVE Account(j, k)'
  <2>1. Account(j, k) /\ admitted'[j] = admitted[j] /\ buckets'[j] = buckets[j]
    BY <1>6, <1>7 DEF AccessInv, Accounts
  <2> QED
    BY <2>1 DEF Account
<1>13. \A j \in DOMAIN Limits : \A k \in DOMAIN buckets'[j] : buckets'[j][k] \in BucketRow
  <2>1. \A k \in DOMAIN buckets'[l] : buckets'[l][k] \in BucketRow
    BY <1>4, <1>6, <1>8, <1>9
  <2> QED
    BY <1>6, <2>1 DEF AccessInv, AccessTypeOK
<1>14. \A j \in DOMAIN Limits : admitted'[j] \in [Keys[j] -> Nat]
  BY <1>7 DEF AccessInv, AccessTypeOK
<1> QED
  BY <1>6, <1>7, <1>10, <1>11, <1>12, <1>13, <1>14 DEF Accounts

-----------------------------------------------------------------------------
(* The steps                                                                *)

\* What a client presents is nothing, a token it has, or a guess.
LEMMA PresentedCredential ==
  ASSUME NEW route, sessions \subseteq Session, NEW cred \in Credential(route) \cup {NoToken}
  PROVE  cred \in Presented /\ (cred.kind = "session" => cred.session \in sessions)
<1>1. NoToken.kind = "none" /\ NoToken \in Presented
  BY DEF NoToken, Presented
<1>2. ASSUME NEW t \in {o.token : o \in Operator} \cup {"guess"},
             cred = [kind |-> "operator", token |-> t]
      PROVE  cred \in Presented /\ cred.kind = "operator"
  BY <1>2 DEF Presented
<1>3. ASSUME NEW s \in sessions, cred = [kind |-> "session", session |-> s]
      PROVE  cred \in Presented /\ cred.session \in sessions
  BY <1>3 DEF Presented
<1> QED
  BY <1>1, <1>2, <1>3 DEF Credential

\* A request arrives with a credential somebody can hold (httpapi, the route table).
LEMMA ArriveInv ==
  ASSUME AccessInv, NEW p \in Proc, Arrive(p)
  PROVE  AccessInv'
<1>1. PICK addr \in Addr, route \in Requested \cap routes :
      \E path \in IF route \in ownRoutes \cup {"challenge"} THEN Agent ELSE {NoToken},
         cred \in IF route \in publicRoutes \cup authRoutes THEN {NoToken} ELSE Credential(route),
         sig \in IF route = "verify" THEN Signature ELSE {NoToken} :
        Goto(p, [pc |-> "address", route |-> route, addr |-> addr, path |-> path,
                 cred |-> cred, sig |-> sig, at |-> now])
  BY DEF Arrive
<1>2. PICK path \in IF route \in ownRoutes \cup {"challenge"} THEN Agent ELSE {NoToken},
           cred \in IF route \in publicRoutes \cup authRoutes THEN {NoToken} ELSE Credential(route),
           sig \in IF route = "verify" THEN Signature ELSE {NoToken} :
        Goto(p, [pc |-> "address", route |-> route, addr |-> addr, path |-> path,
                 cred |-> cred, sig |-> sig, at |-> now])
  BY <1>1
<1> DEFINE g == [pc |-> "address", route |-> route, addr |-> addr, path |-> path,
                 cred |-> cred, sig |-> sig, at |-> now]
<1>3. /\ cred \in Credential(route) \cup {NoToken} /\ path \in Agent \cup {NoToken}
      /\ sig \in Signature \cup {NoToken} /\ now \in Nat /\ sessions \subseteq Session
      /\ route = "challenge" => path \in Agent
      /\ route = "verify" => sig \in Signature
  BY DEF AccessInv, AccessTypeOK
<1>4. cred \in Presented /\ (cred.kind = "session" => cred.session \in sessions)
  BY <1>3, PresentedCredential
<1>5. /\ g \in Request /\ g.pc = "address" /\ g.route = route /\ g.path = path /\ g.cred = cred
      /\ g.sig = sig /\ g.at = now
  BY <1>3, <1>4 DEF Request, Arrived
<1>6. Goto(p, g)
  BY <1>2
<1> HIDE DEF g
<1>7. MaxDelay \in Nat
  BY AccessAssumption
<1>8. Carries(g, sessions, now)
  BY <1>3, <1>4, <1>5, <1>7 DEF Carries, Pending
<1> QED
  BY <1>5, <1>6, <1>8, QuietStep, CallsKept DEF Arrive

\* The mux: behind which gate a route ends up.
LEMMA Gates ==
  ASSUME NEW route \in routes
  PROVE  /\ Gate(route) \in {"operator", "session", "challenge", "redeem", "call"}
         /\ Gate(route) = "operator" => route \in adminRoutes
         /\ Gate(route) = "session" => route \notin adminRoutes
         /\ Gate(route) = "challenge" => route = "challenge"
         /\ Gate(route) = "redeem" => route = "verify"
  BY DEF Gate, adminRoutes, ownRoutes, sessionRoutes

\* A charged request goes on behind its gate, or ends.
LEMMA ChargedStep ==
  ASSUME AccessInv, NEW p \in Proc, NEW g \in Request, Goto(p, g), proc[p].pc \in Pending,
         NEW l \in DOMAIN Limits, NEW key \in Keys[l], Charge(l, key, proc[p].at),
         g.pc \notin Pending \cup {"verify"}, Carries(g, sessions, now),
         UNCHANGED << challenges, sessions, lastCall, now, restarts >>
  PROVE  AccessInv'
<1>1. /\ proc' \in [Proc -> Request] /\ proc'[p] = g
      /\ \A q \in Proc \ {p} : proc'[q] = proc[q]
      /\ \A q \in Proc : Carries(proc'[q], sessions', now')
  BY Moves
<1>2. Redemptions' /\ OneSessionPerChallenge'
  BY <1>1, RedemptionsKept
<1>3. CallsAreAttributable'
  BY CallsKept
<1>4. \A q \in Proc : proc'[q].pc \in Pending => proc[q].pc \in Pending /\ proc'[q] = proc[q]
  BY <1>1
<1>5. /\ Accounts'
      /\ buckets' = [j \in DOMAIN Limits |-> buckets'[j]]
      /\ \A j \in DOMAIN Limits : \A k \in DOMAIN buckets'[j] : buckets'[j][k] \in BucketRow
      /\ admitted' = [j \in DOMAIN Limits |-> admitted'[j]]
      /\ \A j \in DOMAIN Limits : admitted'[j] \in [Keys[j] -> Nat]
  BY <1>4, ChargeKeepsAccounts
<1>6. AccessTypeOK'
  BY <1>1, <1>5 DEF AccessInv, AccessTypeOK
<1> QED
  BY <1>1, <1>2, <1>3, <1>5, <1>6 DEF AccessInv

\* The limit per address charges one bucket and lets the request on or refuses it
\* (ServeHTTP).
LEMMA ServeHTTPInv ==
  ASSUME AccessInv, NEW p \in Proc, ServeHTTP(p)
  PROVE  AccessInv'
<1> DEFINE h == proc[p]
           g == [pc |-> Gate(h.route), route |-> h.route, path |-> h.path, cred |-> h.cred,
                 sig |-> h.sig, at |-> IF h.route \in authRoutes THEN now ELSE 0]
<1>1. h.pc = "address" /\ h \in Arrived /\ Carries(h, sessions, now) /\ now \in Nat
      /\ h.pc \in Pending
  BY Shape DEF ServeHTTP, AccessInv, AccessTypeOK, Pending
<1>2. /\ h.route \in routes /\ h.addr \in Addr /\ h.path \in Agent \cup {NoToken}
      /\ h.cred \in Presented /\ h.sig \in Signature \cup {NoToken}
  BY <1>1 DEF Arrived
<1>3. "ip" \in DOMAIN Limits /\ h.addr \in Keys["ip"]
  BY <1>2, AccessAssumption DEF Keys
<1>4. /\ Charge("ip", h.addr, h.at)
      /\ UNCHANGED << challenges, sessions, lastCall, now, restarts >>
      /\ Goto(p, Idle) \/ Goto(p, g)
  BY DEF ServeHTTP
<1>5. CASE Goto(p, Idle)
  BY <1>1, <1>3, <1>4, <1>5, IdleCarries, ChargedStep DEF Pending
<1>6. CASE Goto(p, g)
  <2>1. Gate(h.route) \in {"operator", "session", "challenge", "redeem", "call"}
    BY <1>2, Gates
  <2>2. /\ g \in Request /\ g.pc = Gate(h.route) /\ g.route = h.route /\ g.path = h.path
        /\ g.cred = h.cred /\ g.sig = h.sig
    BY <1>1, <1>2, <2>1 DEF Request, Gated
  <2> HIDE DEF g
  <2>3. Carries(g, sessions, now)
    BY <1>1, <1>2, <2>1, <2>2, Gates DEF Carries, Pending
  <2> QED
    BY <1>1, <1>3, <1>4, <1>6, <2>1, <2>2, <2>3, ChargedStep DEF Pending
<1> QED
  BY <1>4, <1>5, <1>6

\* The limit per agent charges the bucket of the agent the gate proved (agentLimit).
LEMMA agentLimitInv ==
  ASSUME AccessInv, NEW p \in Proc, agentLimit(p)
  PROVE  AccessInv'
<1> DEFINE h == proc[p]
           g == [h EXCEPT !.pc = "handle"]
<1>1. h.pc = "agent" /\ h \in Named /\ Carries(h, sessions, now) /\ h.pc \in Pending
      /\ h.caller \in Agent
  BY Shape DEF agentLimit, AccessInv, AccessTypeOK, Named, Pending
<1>2. "agent" \in DOMAIN Limits /\ h.caller \in Keys["agent"]
  BY <1>1, AccessAssumption DEF Keys
<1>3. /\ Charge("agent", h.caller, h.at)
      /\ UNCHANGED << challenges, sessions, lastCall, now, restarts >>
      /\ Goto(p, Idle) \/ Goto(p, g)
  BY DEF agentLimit
<1>4. CASE Goto(p, Idle)
  BY <1>1, <1>2, <1>3, <1>4, IdleCarries, ChargedStep DEF Pending
<1>5. CASE Goto(p, g)
  <2>1. /\ g \in Request /\ g.pc = "handle" /\ g.route = h.route /\ g.cred = h.cred
        /\ g.caller = h.caller
    BY <1>1 DEF Request, Named
  <2> HIDE DEF g
  <2>2. Carries(g, sessions, now)
    BY <1>1, <2>1 DEF Carries, Pending
  <2> QED
    BY <1>1, <1>2, <1>3, <1>5, <2>1, <2>2, ChargedStep DEF Pending
<1> QED
  BY <1>3, <1>4, <1>5

\* A session that has not expired names the agent the call will be made as.
LEMMA authedInv ==
  ASSUME AccessInv, NEW p \in Proc, authed(p)
  PROVE  AccessInv'
<1> DEFINE h == proc[p]
<1>1. h.pc = "session" /\ h \in Gated /\ Carries(h, sessions, now) /\ now \in Nat
      /\ UNCHANGED << challenges, sessions, buckets, lastCall, admitted, now, restarts >>
  BY Shape DEF authed, AccessInv, AccessTypeOK
<1>2. CASE Finish(p)
  BY <1>1, <1>2, IdleCarries, QuietStep, CallsKept DEF Finish, Pending
<1>3. ASSUME NEW a \in Authenticate(h.cred),
             Goto(p, [pc |-> "agent", route |-> h.route, path |-> h.path, cred |-> h.cred,
                      caller |-> a, at |-> now])
      PROVE  AccessInv'
  <2> DEFINE g == [pc |-> "agent", route |-> h.route, path |-> h.path, cred |-> h.cred,
                   caller |-> a, at |-> now]
  <2>1. h.cred.kind = "session" /\ a = h.cred.session.agent
    BY DEF Authenticate
  <2>2. h.cred.session \in Session
    BY <1>1, <2>1 DEF Carries, AccessInv, AccessTypeOK
  <2>3. a \in Agent /\ h.route \in routes /\ h.path \in Agent \cup {NoToken} /\ h.cred \in Presented
    BY <1>1, <2>1, <2>2 DEF Session, Gated
  <2>4. /\ g \in Request /\ g.pc = "agent" /\ g.route = h.route /\ g.cred = h.cred
        /\ g.caller = a /\ g.at = now
    BY <1>1, <2>3 DEF Request, Named
  <2>5. Goto(p, g) /\ MaxDelay \in Nat
    BY <1>3, AccessAssumption
  <2> HIDE DEF g
  <2>6. Carries(g, sessions, now)
    BY <1>1, <2>1, <2>4, <2>5 DEF Carries, Pending
  <2> QED
    BY <1>1, <2>4, <2>5, <2>6, QuietStep, CallsKept
<1> QED
  BY <1>2, <1>3 DEF authed

\* An operator acts under the name its token is configured for.
LEMMA adminActorInv ==
  ASSUME AccessInv, NEW p \in Proc, adminActor(p)
  PROVE  AccessInv'
<1> DEFINE h == proc[p]
<1>1. /\ h.pc = "operator" /\ h.route \in adminRoutes /\ Goto(p, Idle)
      /\ UNCHANGED << challenges, sessions, buckets, admitted, now, restarts >>
  BY DEF adminActor, Finish, AccessInv, Carries
<1>2. CallsAreAttributable'
  <2>1. CASE UNCHANGED lastCall
    BY <1>1, <2>1, CallsKept
  <2>2. ASSUME NEW name \in requireAdmin(h.cred), lastCall' = {Call(h.route, name, NoToken, h.cred)}
        PROVE  CallsAreAttributable'
    <3>1. PICK o \in Operator : o.token = h.cred.token /\ o.name = name
      BY DEF requireAdmin
    <3>2. [name |-> name, token |-> h.cred.token] \in Operator
      BY <3>1, AccessAssumption
    <3> DEFINE c == Call(h.route, name, NoToken, h.cred)
    <3>3. c.route = h.route /\ c.actor = name /\ c.cred = h.cred /\ lastCall' = {c}
      BY <2>2 DEF Call
    <3> HIDE DEF c
    <3> QED
      BY <1>1, <3>2, <3>3 DEF CallsAreAttributable
  <2> QED
    BY <2>1, <2>2 DEF adminActor
<1> QED
  BY <1>1, <1>2, IdleCarries, QuietStep DEF Pending

\* An agent's handler acts under its session's agent, on its own path only.
LEMMA handleInv ==
  ASSUME AccessInv, NEW p \in Proc, handle(p)
  PROVE  AccessInv'
<1> DEFINE h == proc[p]
           c == Call(h.route, h.caller, h.path, h.cred)
<1>1. /\ h.pc = "handle" /\ h.route \notin adminRoutes /\ Goto(p, Idle)
      /\ UNCHANGED << challenges, sessions, buckets, admitted, now, restarts >>
      /\ h.cred.session \in sessions /\ h.caller = h.cred.session.agent
  BY DEF handle, Finish, AccessInv, Carries
<1>2. h.cred.session.signer = h.caller
  BY <1>1 DEF AccessInv, OneSessionPerChallenge
<1>3. CallsAreAttributable'
  <2>1. CASE UNCHANGED lastCall
    BY <1>1, <2>1, CallsKept
  <2>2. CASE requireOwnAgent(h) /\ lastCall' = {c}
    <3>1. c.route = h.route /\ c.actor = h.caller /\ c.target = h.path /\ c.cred = h.cred
      BY DEF Call
    <3> HIDE DEF c
    <3> QED
      BY <1>1, <1>2, <2>2, <3>1 DEF CallsAreAttributable, requireOwnAgent
  <2> QED
    BY <2>1, <2>2 DEF handle
<1> QED
  BY <1>1, <1>3, IdleCarries, QuietStep DEF Pending

\* Public reads and abandoned requests end.
LEMMA endsInv ==
  ASSUME AccessInv, NEW p \in Proc, publicRead(p) \/ Abandon(p)
  PROVE  AccessInv'
  BY IdleCarries, QuietStep, CallsKept DEF publicRead, Abandon, Finish, Pending

\* A step that writes the challenges or the sessions.
LEMMA AuthStep ==
  ASSUME AccessInv, NEW p \in Proc, NEW g \in Request, Goto(p, g), g.pc \notin Pending,
         challenges' \in [ChallengeID -> Row], sessions' \subseteq Session,
         sessions \subseteq sessions', Carries(g, sessions', now),
         Redemptions', OneSessionPerChallenge',
         UNCHANGED << buckets, lastCall, admitted, now, restarts >>
  PROVE  AccessInv'
<1>1. /\ proc' \in [Proc -> Request] /\ proc'[p] = g
      /\ \A q \in Proc \ {p} : proc'[q] = proc[q]
      /\ \A q \in Proc : Carries(proc'[q], sessions', now')
  BY Moves
<1>2. Accounts'
  BY <1>1, AccountsKept
<1>3. CallsAreAttributable'
  BY CallsKept
<1>4. AccessTypeOK'
  BY <1>1 DEF AccessInv, AccessTypeOK
<1> QED
  BY <1>1, <1>2, <1>3, <1>4 DEF AccessInv

\* A new challenge takes an identifier nobody was issued.
LEMMA IssueChallengeInv ==
  ASSUME AccessInv, NEW p \in Proc, IssueChallenge(p)
  PROVE  AccessInv'
<1> DEFINE h == proc[p]
           row == [agent |-> h.path, expires |-> h.at + ChallengeTTL, consumed |-> FALSE]
<1>1. PICK c \in ChallengeID : /\ challenges[c].agent = NoToken
                               /\ challenges' = [challenges EXCEPT ![c] = row]
  BY DEF IssueChallenge
<1>2. /\ h.pc = "challenge" /\ h \in Gated /\ h.path \in Agent /\ Goto(p, Idle)
      /\ UNCHANGED << sessions, buckets, lastCall, admitted, now, restarts >>
      /\ challenges \in [ChallengeID -> Row] /\ sessions \subseteq Session
  BY Shape DEF IssueChallenge, Finish, AccessInv, AccessTypeOK, Carries
<1>3. row \in Row /\ ~row.consumed
  BY <1>2, AccessAssumption DEF Row, Gated
<1> HIDE DEF row
<1>4. /\ challenges' \in [ChallengeID -> Row] /\ challenges'[c] = row
      /\ \A d \in ChallengeID \ {c} : challenges'[d] = challenges[d]
  BY <1>1, <1>2, <1>3
<1>5. ~challenges[c].consumed
  BY <1>1 DEF AccessInv, Redemptions
<1>6. \A s \in sessions : s.challenge \in ChallengeID \ {c}
  BY <1>2, <1>5 DEF AccessInv, Redemptions, Session
<1>7. OneSessionPerChallenge'
  BY <1>2, <1>4, <1>6 DEF AccessInv, OneSessionPerChallenge
<1>8. proc'[p] = Idle /\ Idle.pc = "idle" /\ \A q \in Proc \ {p} : proc'[q] = proc[q]
  BY <1>2, IdleCarries DEF AccessInv, AccessTypeOK, Goto
<1>9. \A q \in Proc : proc[q].pc = "verify" => proc[q].sig.over \in ChallengeID \ {c}
  BY <1>5 DEF AccessInv, Redemptions, Carries, Signature
<1>10. Redemptions'
  BY <1>2, <1>3, <1>4, <1>6, <1>8, <1>9 DEF AccessInv, Redemptions
<1> QED
  BY <1>2, <1>4, <1>7, <1>8, <1>10, IdleCarries, AuthStep DEF Pending

\* Consuming is one transaction, so of several redemptions of a challenge one goes
\* on to the signature.
LEMMA ConsumeChallengeInv ==
  ASSUME AccessInv, NEW p \in Proc, ConsumeChallenge(p)
  PROVE  AccessInv'
<1> DEFINE h == proc[p]
           c == h.sig.over
           g == [h EXCEPT !.pc = "verify"]
<1>1. /\ h.pc = "redeem" /\ h \in Gated /\ h.sig \in Signature /\ Carries(h, sessions, now)
      /\ UNCHANGED << sessions, buckets, lastCall, admitted, now, restarts >>
      /\ challenges \in [ChallengeID -> Row] /\ sessions \subseteq Session
  BY Shape DEF ConsumeChallenge, AccessInv, AccessTypeOK, Carries
<1>2. c \in ChallengeID
  BY <1>1 DEF Signature
<1>3. CASE ~Consumable(c, h.at)
  BY <1>1, <1>3, IdleCarries, QuietStep, CallsKept DEF ConsumeChallenge, Finish, Pending
<1>4. CASE Consumable(c, h.at)
  <2>1. challenges' = [challenges EXCEPT ![c].consumed = TRUE] /\ Goto(p, g)
    BY <1>4 DEF ConsumeChallenge
  <2>2. challenges[c].agent # NoToken /\ ~challenges[c].consumed
    BY <1>4 DEF Consumable
  <2>3. /\ g \in Request /\ g.pc = "verify" /\ g.sig = h.sig /\ g.cred = h.cred
    BY <1>1 DEF Request, Gated
  <2> HIDE DEF g
  <2>4. /\ challenges' \in [ChallengeID -> Row]
        /\ challenges'[c].consumed /\ challenges'[c].agent = challenges[c].agent
        /\ \A d \in ChallengeID \ {c} : challenges'[d] = challenges[d]
    BY <1>1, <1>2, <2>1 DEF Row
  <2>5. proc'[p] = g /\ \A q \in Proc \ {p} : proc'[q] = proc[q]
    BY <2>1 DEF AccessInv, AccessTypeOK, Goto
  <2>6. \A s \in sessions : s.challenge \in ChallengeID \ {c}
    BY <1>1, <2>2 DEF AccessInv, Redemptions, Session
  <2>7. \A q \in Proc : proc[q].pc = "verify" => proc[q].sig.over \in ChallengeID \ {c}
    BY <2>2 DEF AccessInv, Redemptions, Carries, Signature
  <2>8. OneSessionPerChallenge'
    BY <1>1, <2>4, <2>6 DEF AccessInv, OneSessionPerChallenge
  <2>9. Redemptions'
    <3>1. \A d \in ChallengeID : challenges'[d].consumed => challenges'[d].agent # NoToken
      BY <2>2, <2>4 DEF AccessInv, Redemptions
    <3>2. \A s \in sessions' : challenges'[s.challenge].consumed
      BY <1>1, <2>4, <2>6 DEF AccessInv, Redemptions
    <3>3. ASSUME NEW q \in Proc, proc'[q].pc = "verify"
          PROVE  /\ challenges'[proc'[q].sig.over].consumed
                 /\ \A s \in sessions' : s.challenge # proc'[q].sig.over
                 /\ \A r \in Proc \ {q} :
                      proc'[r].pc = "verify" => proc'[r].sig.over # proc'[q].sig.over
      <4>1. CASE q = p
        BY <1>1, <2>3, <2>4, <2>5, <2>6, <2>7, <4>1
      <4>2. CASE q # p
        BY <1>1, <2>3, <2>4, <2>5, <2>7, <3>3, <4>2 DEF AccessInv, Redemptions
      <4> QED
        BY <4>1, <4>2
    <3> QED
      BY <3>1, <3>2, <3>3 DEF Redemptions
  <2>10. Carries(g, sessions, now)
    BY <1>1, <2>3 DEF Carries, Pending
  <2> QED
    BY <1>1, <2>1, <2>3, <2>4, <2>8, <2>9, <2>10, AuthStep DEF Pending
<1> QED
  BY <1>3, <1>4

\* The one that goes on issues the challenge's only session, on its agent's
\* signature.
LEMMA issueSessionInv ==
  ASSUME AccessInv, NEW p \in Proc, issueSession(p)
  PROVE  AccessInv'
<1> DEFINE h == proc[p]
           c == h.sig.over
           s == [agent |-> challenges[c].agent, challenge |-> c, signer |-> h.sig.key,
                 expires |-> now + SessionTTL]
<1>1. /\ h.pc = "verify" /\ h.sig \in Signature /\ Goto(p, Idle)
      /\ UNCHANGED << challenges, buckets, lastCall, admitted, now, restarts >>
      /\ challenges \in [ChallengeID -> Row] /\ sessions \subseteq Session /\ now \in Nat
  BY DEF issueSession, Finish, AccessInv, AccessTypeOK, Carries
<1>2. c \in ChallengeID /\ h.sig.key \in Agent
  BY <1>1 DEF Signature
<1>3. CASE h.sig.key # challenges[c].agent
  <2>1. UNCHANGED sessions
    BY <1>3 DEF issueSession
  <2> QED
    BY <1>1, <2>1, IdleCarries, QuietStep, CallsKept DEF Pending
<1>4. CASE h.sig.key = challenges[c].agent
  <2>1. sessions' = sessions \cup {s}
    BY <1>4 DEF issueSession
  <2>2. s \in Session /\ s.agent = challenges[c].agent /\ s.challenge = c /\ s.signer = s.agent
    BY <1>1, <1>2, <1>4, AccessAssumption DEF Session
  <2> HIDE DEF s
  <2>3. /\ challenges[c].consumed /\ \A t \in sessions : t.challenge # c
        /\ \A q \in Proc \ {p} : proc[q].pc = "verify" => proc[q].sig.over # c
    BY <1>1 DEF AccessInv, Redemptions
  <2>4. proc'[p] = Idle /\ Idle.pc = "idle" /\ \A q \in Proc \ {p} : proc'[q] = proc[q]
    BY <1>1, IdleCarries DEF AccessInv, AccessTypeOK, Goto
  <2>5. OneSessionPerChallenge'
    BY <1>1, <2>1, <2>2, <2>3 DEF AccessInv, OneSessionPerChallenge
  <2>6. Redemptions'
    BY <1>1, <2>1, <2>2, <2>3, <2>4 DEF AccessInv, Redemptions
  <2>7. sessions' \subseteq Session /\ sessions \subseteq sessions'
    BY <1>1, <2>1, <2>2
  <2> QED
    BY <1>1, <2>4, <2>5, <2>6, <2>7, IdleCarries, AuthStep DEF Pending
<1> QED
  BY <1>3, <1>4

\* A restart forgets the buckets and everybody who was to be charged: a key
\* gains one burst.
LEMMA RestartInv ==
  ASSUME AccessInv, Restart
  PROVE  AccessInv'
<1>1. /\ restarts \in Nat /\ restarts' = restarts + 1 /\ now \in Nat
      /\ buckets' = [l \in DOMAIN Limits |-> << >>] /\ proc' = [p \in Proc |-> Idle]
      /\ UNCHANGED << challenges, sessions, lastCall, admitted, now >>
  BY DEF Restart, AccessInv, AccessTypeOK
<1>2. \A p \in Proc : proc'[p] = Idle
  BY <1>1
<1>3. Idle \in Request /\ Idle.pc = "idle" /\ Carries(Idle, sessions, now)
  BY IdleCarries
<1>4. AccessTypeOK'
  <2>1. \A l \in DOMAIN Limits : buckets'[l] = << >>
    BY <1>1
  <2>2. \A l \in DOMAIN Limits : DOMAIN buckets'[l] = {}
    BY <2>1
  <2>3. buckets' = [l \in DOMAIN Limits |-> buckets'[l]]
    BY <1>1
  <2> QED
    BY <1>1, <1>3, <2>2, <2>3 DEF AccessInv, AccessTypeOK
<1>5. Redemptions' /\ OneSessionPerChallenge'
  BY <1>1, <1>2, <1>3 DEF AccessInv, Redemptions, OneSessionPerChallenge
<1>6. ASSUME NEW l \in DOMAIN Limits, NEW k \in Keys[l] PROVE Account(l, k)'
  <2>1. Gap(l) * admitted[l][k] <= Gap(l) * (Limits[l].burst * restarts + Limits[l].burst) + Per(l) * now
    BY Covered
  <2>2. Limits[l].burst * restarts' = Limits[l].burst * restarts + Limits[l].burst
    BY <1>1, Periods, OneMore
  <2>3. Gap(l) * admitted[l][k] <= Gap(l) * (Limits[l].burst * restarts') + Per(l) * now
    BY <2>1, <2>2
  <2>4. buckets'[l] = << >>
    BY <1>1
  <2>5. k \notin DOMAIN buckets'[l]
    BY <2>4
  <2>6. \A p \in Proc : proc'[p].pc \notin Pending
    BY <1>2, <1>3 DEF Pending
  <2>7. admitted'[l][k] = admitted[l][k] /\ now' = now
    BY <1>1
  <2> QED
    BY <2>3, <2>5, <2>6, <2>7 DEF Account
<1>7. CallsAreAttributable'
  BY <1>1, CallsKept
<1> QED
  BY <1>1, <1>2, <1>3, <1>4, <1>5, <1>6, <1>7 DEF AccessInv, Accounts

\* Time passes only while every time read for a limiter is recent.
LEMMA TickInv ==
  ASSUME AccessInv, Tick
  PROVE  AccessInv'
<1>1. /\ now \in Nat /\ now' = now + 1 /\ now' \in Nat
      /\ UNCHANGED << challenges, sessions, buckets, lastCall, admitted, restarts, proc >>
  BY DEF Tick, AccessInv, AccessTypeOK
<1>2. ASSUME NEW p \in Proc PROVE Carries(proc[p], sessions, now + 1)
  <2>1. proc[p].pc \in Pending =>
          proc[p].at \in Nat /\ proc[p].at <= now /\ now - proc[p].at < MaxDelay /\ MaxDelay \in Nat
    BY ReadTime, AccessAssumption DEF Tick, Pending
  <2>2. Carries(proc[p], sessions, now)
    BY DEF AccessInv
  <2> QED
    BY <1>1, <2>1, <2>2 DEF Carries
<1>3. AccessTypeOK' /\ Redemptions' /\ OneSessionPerChallenge' /\ CallsAreAttributable'
  BY <1>1 DEF AccessInv, AccessTypeOK, Redemptions, OneSessionPerChallenge, CallsAreAttributable
<1>4. ASSUME NEW l \in DOMAIN Limits, NEW k \in Keys[l] PROVE Account(l, k)'
  <2> DEFINE per == Per(l)
             left == Gap(l) * admitted[l][k]
             right == Gap(l) * (Limits[l].burst * restarts)
  <2>1. per \in Nat /\ left \in Int /\ right \in Int /\ Account(l, k)
    <3>1. /\ Gap(l) \in Nat /\ per \in Nat /\ Limits[l].burst \in Nat
          /\ admitted[l][k] \in Nat /\ restarts \in Nat /\ Account(l, k)
      BY Periods DEF AccessInv, AccessTypeOK, Accounts
    <3>2. Limits[l].burst * restarts \in Nat
      BY <3>1, NatProduct
    <3> QED
      BY <3>1, <3>2, NatProduct
  <2>2. per * now <= per * (now + 1) /\ per * now \in Nat /\ per * (now + 1) \in Nat
    BY <1>1, <2>1, RateMonotone, NatProduct
  <2>3. k \in DOMAIN buckets[l] => buckets[l][k].last \in Nat
    BY DEF AccessInv, AccessTypeOK, BucketRow
  <2>4. k \in DOMAIN buckets[l] => buckets[l][k].last <= now + 1
    BY <1>1, <2>1, <2>3 DEF Account
  <2>5. k \notin DOMAIN buckets[l] => left <= right + per * (now + 1)
    <3>1. k \notin DOMAIN buckets[l] => left <= right + per * now
      BY <2>1 DEF Account
    <3> HIDE DEF per, left, right
    <3> QED
      BY <2>1, <2>2, <3>1
  <2> QED
    BY <1>1, <2>1, <2>4, <2>5 DEF Account
<1> QED
  BY <1>1, <1>2, <1>3, <1>4 DEF AccessInv, Accounts

-----------------------------------------------------------------------------

\* The invariant holds before the first request and every step keeps it.
THEOREM AccessInvariant == AccessSpec => []AccessInv
<1>1. AccessInit => AccessInv
  <2> SUFFICES ASSUME AccessInit PROVE AccessInv
    OBVIOUS
  <2>1. Idle \in Request /\ Idle.pc = "idle" /\ Carries(Idle, sessions, now)
    BY IdleCarries
  <2>2. \A p \in Proc : proc[p] = Idle
    BY DEF AccessInit
  <2>3. /\ \A l \in DOMAIN Limits : buckets[l] = << >>
        /\ buckets = [l \in DOMAIN Limits |-> buckets[l]]
    BY DEF AccessInit
  <2>4. \A l \in DOMAIN Limits : DOMAIN buckets[l] = {}
    BY <2>3
  <2>5. /\ \A l \in DOMAIN Limits : admitted[l] = [k \in Keys[l] |-> 0]
        /\ admitted = [l \in DOMAIN Limits |-> admitted[l]]
    BY DEF AccessInit
  <2>6. \A l \in DOMAIN Limits : admitted[l] \in [Keys[l] -> Nat]
    BY <2>5
  <2>7. challenges \in [ChallengeID -> Row] /\ \A c \in ChallengeID : ~challenges[c].consumed
    BY DEF AccessInit, Row
  <2>8. AccessTypeOK
    BY <2>1, <2>3, <2>4, <2>5, <2>6, <2>7 DEF AccessInit, AccessTypeOK
  <2>9. Redemptions /\ OneSessionPerChallenge /\ CallsAreAttributable
    BY <2>1, <2>2, <2>7
       DEF AccessInit, Redemptions, OneSessionPerChallenge, CallsAreAttributable
  <2>10. ASSUME NEW l \in DOMAIN Limits, NEW k \in Keys[l] PROVE Account(l, k)
    <3>1. admitted[l][k] = 0 /\ k \notin DOMAIN buckets[l] /\ now = 0 /\ restarts = 0
      BY <2>4, <2>5 DEF AccessInit
    <3>2. /\ Limits[l].burst * restarts = 0 /\ Per(l) * now = 0
          /\ Gap(l) * admitted[l][k] = 0 /\ Gap(l) * (Limits[l].burst * restarts) = 0
      BY <3>1, Periods
    <3> QED
      BY <2>1, <2>2, <3>1, <3>2 DEF Account, Pending
  <2> QED
    BY <2>1, <2>2, <2>8, <2>9, <2>10 DEF AccessInv, Accounts
<1>2. AccessInv /\ [AccessNext]_accessVars => AccessInv'
  <2> SUFFICES ASSUME AccessInv, [AccessNext]_accessVars PROVE AccessInv'
    OBVIOUS
  <2>1. ASSUME NEW p \in Proc,
               \/ Arrive(p) \/ ServeHTTP(p) \/ authed(p) \/ agentLimit(p) \/ adminActor(p)
               \/ handle(p) \/ publicRead(p) \/ IssueChallenge(p) \/ ConsumeChallenge(p)
               \/ issueSession(p) \/ Abandon(p)
        PROVE  AccessInv'
    BY <2>1, ArriveInv, ServeHTTPInv, authedInv, agentLimitInv, adminActorInv, handleInv, endsInv,
       IssueChallengeInv, ConsumeChallengeInv, issueSessionInv
  <2>2. CASE Restart
    BY <2>2, RestartInv
  <2>3. CASE Tick
    BY <2>3, TickInv
  <2>4. CASE UNCHANGED accessVars
    <3>1. AccessTypeOK' /\ Redemptions' /\ OneSessionPerChallenge' /\ CallsAreAttributable'
      BY <2>4 DEF accessVars, AccessInv, AccessTypeOK, Redemptions, OneSessionPerChallenge,
         CallsAreAttributable
    <3>2. Accounts' /\ \A p \in Proc : Carries(proc'[p], sessions', now')
      BY <2>4 DEF accessVars, AccessInv, Accounts, Account
    <3> QED
      BY <3>1, <3>2 DEF AccessInv
  <2> QED
    BY <2>1, <2>2, <2>3, <2>4 DEF AccessNext
<1> QED
  BY <1>1, <1>2, PTL DEF AccessSpec

\* A challenge yields at most one session, for its agent and on its agent's
\* signature, however redemptions race, retry and are abandoned (auth.go Redeem,
\* store ConsumeChallenge).
THEOREM SessionsAreUnique == AccessSpec => []OneSessionPerChallenge
<1>1. AccessInv => OneSessionPerChallenge
  BY DEF AccessInv
<1> QED
  BY <1>1, AccessInvariant, PTL

\* Every call a handler makes is under a name somebody proved to hold (server.go
\* authed, requireOwnAgent, requireAdmin).
THEOREM CallersAreProven == AccessSpec => []CallsAreAttributable
<1>1. AccessInv => CallsAreAttributable
  BY DEF AccessInv
<1> QED
  BY <1>1, AccessInvariant, PTL

\* Over any history and under any configuration a key is let through at most its
\* burst per start and, for the time that passed, its rate or one burst per idle
\* period, whichever is more, although the clock is read before the lock is taken
\* and idle buckets are dropped (ratelimit.go allow, evictLocked).
THEOREM RateIsKept == AccessSpec => []RateHolds
<1>1. AccessInv => RateHolds
  <2> SUFFICES ASSUME AccessInv, NEW l \in DOMAIN Limits, NEW k \in Keys[l]
               PROVE  Gap(l) * admitted[l][k]
                        <= Gap(l) * (Limits[l].burst * (1 + restarts)) + Per(l) * now
    BY DEF RateHolds, Gap, Per
  <2>1. Gap(l) * admitted[l][k] <= Gap(l) * (Limits[l].burst * restarts + Limits[l].burst) + Per(l) * now
    BY Covered
  <2>2. Limits[l].burst \in Nat /\ restarts \in Nat
    BY Periods DEF AccessInv, AccessTypeOK
  <2>3. Limits[l].burst * (1 + restarts) = Limits[l].burst * restarts + Limits[l].burst
    BY <2>2
  <2> QED
    BY <2>1, <2>3
<1> QED
  BY <1>1, AccessInvariant, PTL
=============================================================================
