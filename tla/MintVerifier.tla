----------------------------- MODULE MintVerifier -----------------------------
(***************************************************************************)
(* The check of a governed mint before a settlement is built from it,       *)
(* internal/settlement/mints.go, for one mint: a cached observation, and    *)
(* one shared read of the chain when there is no fresh one.  The read is    *)
(* detached from the caller that leads it; callers may give up at any time. *)
(***************************************************************************)
EXTENDS Naturals, FiniteSets

CONSTANTS
  Caller,
  TTL,           \* how long an observation is reused, and the timeout of a read
  MaxTime        \* bound for TLC

ASSUME MintAssumption == TTL \in Nat \ {0}

VARIABLES
  cache,         \* at most one observation
  inflight,      \* the caller whose read the others wait for, if any
  drifts,        \* driftCounter
  caller,
  now

mintVars == << cache, inflight, drifts, caller, now >>

\* Every hard invariant holds; they hold and a pin drifted; one of them fails.
Reading == {"sound", "drifted", "wrong"}
Unreachable == "unreachable"
Cancelled == "cancelled"

Idle == [pc |-> "idle"]
Becomes(c, h) == caller' = [caller EXCEPT ![c] = h]

\* What a caller leaves with: the verdict, the moment the chain was looked at for
\* it, the moment the caller asked, and whether its context had ended.
Answer(h, verdict, sampled) ==
  [pc |-> "answered", verdict |-> verdict, sampled |-> sampled, at |-> h.at, gone |-> h.gone]

-----------------------------------------------------------------------------

Verify(c) ==
  /\ caller[c] = Idle
  /\ Becomes(c, [pc |-> "lookup", at |-> now, gone |-> FALSE])
  /\ UNCHANGED << cache, inflight, drifts, now >>

\* Fresh that counts from the last use of the observation.
Fresh_Slides(obs, at) == cache # {}

Fresh(obs, at) == at < obs.at + TTL

\* observe, under the mutex: a fresh observation, or a call to wait for, or a call
\* of one's own.
observe(c) ==
  LET h == caller[c]
      hit == {obs \in cache : Fresh(obs, h.at)}
  IN  /\ h.pc = "lookup"
      /\ \/ \E obs \in hit : /\ Becomes(c, Answer(h, obs.reading, obs.sampled))
                             /\ UNCHANGED inflight
         \/ /\ hit = {}
            /\ \E leader \in inflight :
                 Becomes(c, [pc |-> "waiting", at |-> h.at, gone |-> h.gone, leader |-> leader])
            /\ UNCHANGED inflight
         \/ /\ hit = {} /\ inflight = {}
            /\ inflight' = {c}
            /\ Becomes(c, [pc |-> "reading", at |-> h.at, gone |-> h.gone, since |-> now])
      /\ UNCHANGED << cache, drifts, now >>

\* The node looks at the account at some moment of the read; its issuer may have
\* rotated an authority, or it may have stopped being the token priced.
sample(c) ==
  /\ caller[c].pc = "reading"
  /\ \E reading \in Reading :
       Becomes(c, [pc |-> "sampled", at |-> caller[c].at, gone |-> caller[c].gone,
                since |-> caller[c].since, reading |-> reading, sampled |-> now])
  /\ UNCHANGED << cache, inflight, drifts, now >>

\* fetch: the answer arrives, or the read fails; only then is the clock read.
fetch(c) ==
  LET h == caller[c]
  IN  /\ h.pc \in {"reading", "sampled"}
      /\ \/ h.pc = "sampled" /\ Becomes(c, [h EXCEPT !.pc = "returned", !.since = now])
         \/ Becomes(c, [pc |-> "returned", at |-> h.at, gone |-> h.gone, since |-> now,
                     reading |-> Unreachable, sampled |-> now])
      /\ UNCHANGED << cache, inflight, drifts, now >>

\* The read comes back with the leader's cancellation for its error.
store_Poisoned(c) ==
  LET h == caller[c]
      got == IF h.gone THEN Cancelled ELSE h.reading
  IN  /\ h.pc = "returned"
      /\ inflight' = inflight \ {c}
      /\ cache' = IF got \in Reading
                  THEN {[reading |-> got, sampled |-> h.sampled, at |-> h.since]} ELSE cache
      /\ drifts' = IF got = "drifted" THEN drifts + 1 ELSE drifts
      /\ Becomes(c, [h EXCEPT !.pc = "publish", !.reading = got])
      /\ UNCHANGED now

\* Under the mutex again: the flight is over, and what was read is kept.
store(c) ==
  LET h == caller[c]
  IN  /\ h.pc = "returned"
      /\ inflight' = inflight \ {c}
      /\ cache' = IF h.reading \in Reading
                  THEN {[reading |-> h.reading, sampled |-> h.sampled, at |-> h.since]} ELSE cache
      /\ drifts' = IF h.reading = "drifted" THEN drifts + 1 ELSE drifts
      /\ Becomes(c, [h EXCEPT !.pc = "publish"])
      /\ UNCHANGED now

\* publish that forgets its waiters when the read failed.
publish_OnlyReadings(c) ==
  LET h == caller[c]
  IN  /\ h.pc = "publish"
      /\ caller' = [w \in Caller |->
                      IF w = c THEN Answer(h, IF h.gone THEN Cancelled ELSE h.reading, h.sampled)
                      ELSE IF caller[w].pc = "waiting" /\ caller[w].leader = c /\ h.reading \in Reading
                      THEN [Answer(caller[w], h.reading, h.sampled) EXCEPT !.pc = "woken"]
                      ELSE caller[w]]
      /\ UNCHANGED << cache, inflight, drifts, now >>

\* Waiters are woken with what the read found; only then does the leader look at
\* its own context.
publish(c) ==
  LET h == caller[c]
  IN  /\ h.pc = "publish"
      /\ caller' = [w \in Caller |->
                      IF w = c THEN Answer(h, IF h.gone THEN Cancelled ELSE h.reading, h.sampled)
                      ELSE IF caller[w].pc = "waiting" /\ caller[w].leader = c
                      THEN [Answer(caller[w], h.reading, h.sampled) EXCEPT !.pc = "woken"]
                      ELSE caller[w]]
      /\ UNCHANGED << cache, inflight, drifts, now >>

\* The select of a waiter: what was published, or its own context, whichever is
\* there (either, when both are).
wait(c) ==
  LET h == caller[c]
  IN  /\ \/ h.pc = "woken" /\ Becomes(c, [h EXCEPT !.pc = "answered"])
         \/ h.pc \in {"waiting", "woken"} /\ h.gone /\ Becomes(c, Answer(h, Cancelled, now))
      /\ UNCHANGED << cache, inflight, drifts, now >>

Return(c) ==
  /\ caller[c].pc = "answered"
  /\ Becomes(c, Idle)
  /\ UNCHANGED << cache, inflight, drifts, now >>

\* A caller's context ends while it is inside Verify.
GiveUp(c) ==
  /\ caller[c].pc \notin {"idle", "answered"}
  /\ ~caller[c].gone
  /\ Becomes(c, [caller[c] EXCEPT !.gone = TRUE])
  /\ UNCHANGED << cache, inflight, drifts, now >>

-----------------------------------------------------------------------------

\* A read is abandoned at its timeout, whoever led it, and taking the mutex with
\* its answer takes no time to speak of.
Tick ==
  /\ now < MaxTime
  /\ \A c \in Caller : /\ caller[c].pc \in {"reading", "sampled"} => now < caller[c].since + TTL
                       /\ caller[c].pc # "returned"
  /\ now' = now + 1
  /\ UNCHANGED << cache, inflight, drifts, caller >>

MintInit ==
  /\ cache = {} /\ inflight = {}
  /\ drifts = 0
  /\ caller = [c \in Caller |-> Idle]
  /\ now = 0

\* What happens by itself once a caller has asked.
Step(c) == observe(c) \/ sample(c) \/ fetch(c) \/ store(c) \/ publish(c) \/ wait(c) \/ Return(c)

MintNext ==
  \/ \E c \in Caller : Verify(c) \/ Step(c) \/ GiveUp(c)
  \/ Tick

\* Goroutines are scheduled, and a read of the chain ends, by its timeout at latest.
MintSpec == MintInit /\ [][MintNext]_mintVars /\ \A c \in Caller : WF_mintVars(Step(c))

-----------------------------------------------------------------------------

\* The reuse window and the read's timeout compose, and nothing else adds to the
\* age of a verdict: no caller is told what the chain said two windows before it
\* asked, whichever read answered it (observe, fetch).
FreshVerdict ==
  \A c \in Caller : caller[c].pc = "answered" => caller[c].at < caller[c].sampled + 2 * TTL

\* "A caller that walks away cannot poison the buyers sharing its flight": only a
\* caller whose own context ended is told that it was cancelled.
NotPoisoned ==
  \A c \in Caller : caller[c].pc = "answered" /\ caller[c].verdict = Cancelled => caller[c].gone

\* Every caller leaves, also one that waits for a leader that gave up or whose read
\* failed.
EveryCallerAnswered == \A c \in Caller : caller[c].pc # "idle" ~> caller[c].pc = "idle"
=============================================================================
