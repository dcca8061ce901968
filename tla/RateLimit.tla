------------------------------ MODULE RateLimit ------------------------------
(***************************************************************************)
(* The token bucket per key of internal/httpapi/ratelimit.go, as a function *)
(* of the map of buckets.  Tokens are whole and one unit of time refills    *)
(* limit.rps of them.                                                       *)
(***************************************************************************)
EXTENDS Integers, FiniteSets

\* Eviction that forgets a bucket however recently it was used.
evictLocked_All(limit, buckets, at) == << >>

\* A full map drops the buckets nobody touched for a while; one that is still
\* full afterwards grows all the same.
evictLocked(limit, buckets, at) ==
  [k \in {j \in DOMAIN buckets : at - buckets[j].last <= limit.idle} |-> buckets[k]]

Smaller(a, b) == IF a < b THEN a ELSE b
Larger(a, b) == IF a < b THEN b ELSE a

\* The bucket a request at time "at" draws on; time read earlier than the last
\* refill adds nothing.
Bucket(limit, buckets, key, at) ==
  IF key \notin DOMAIN buckets THEN [tokens |-> limit.burst, last |-> at]
  ELSE LET b == buckets[key]
       IN  IF at <= b.last THEN b
           ELSE [tokens |-> Smaller(limit.burst, b.tokens + (at - b.last) * limit.rps),
                 last |-> at]

\* allow: the map with the key's bucket charged, and whether a token was there.
allow(limit, buckets, key, at) ==
  LET kept == IF key \notin DOMAIN buckets /\ Cardinality(DOMAIN buckets) >= limit.maxKeys
              THEN evictLocked(limit, buckets, at) ELSE buckets
      b == Bucket(limit, buckets, key, at)
      ok == b.tokens >= 1
      charged == IF ok THEN [b EXCEPT !.tokens = @ - 1] ELSE b
  IN  [ok |-> ok,
       buckets |-> [k \in DOMAIN kept \cup {key} |-> IF k = key THEN charged ELSE kept[k]]]

\* How long a refused caller is told to wait.
RetryAfter(limit, tokens) == IF limit.rps <= 0 THEN 3600 ELSE (1 - tokens) \div limit.rps + 1
=============================================================================
