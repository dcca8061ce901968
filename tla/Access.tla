-------------------------------- MODULE Access --------------------------------
(***************************************************************************)
(* Who may call what: the HTTP layer of internal/httpapi (server.go,        *)
(* ratelimit.go, limits.go, settlement.go) with the challenges and sessions *)
(* of internal/auth and their table in the store.  What a call then does is *)
(* the subject of the other modules; here it is an entry of a log, under    *)
(* the name the handler passes on.  A request a read refuses ends there.    *)
(***************************************************************************)
EXTENDS RateLimit

CONSTANTS
  Agent, Addr,
  Operator,       \* [name, token] of each configured operator credential
  Proc,
  ChallengeID,
  Requested,      \* the routes clients call
  Limits,         \* [ip, agent], each with rps, burst, idle and maxKeys
  ChallengeTTL, SessionTTL,
  MaxDelay,       \* how stale a time read before a lock may be once the lock is held
  MaxTime, MaxRequests, MaxRestarts    \* bounds for TLC

NoToken == [kind |-> "none"]

\* Both limiters are on; a rate may be any, 0 included (Config.Validate).  The idle
\* period is a constant of the program, and no request sleeps through one between
\* reading the clock and taking the lock.
ASSUME AccessAssumption ==
  /\ DOMAIN Limits = {"ip", "agent"}
  /\ \A l \in DOMAIN Limits :
       /\ Limits[l].rps \in Nat /\ Limits[l].burst \in Nat \ {0} /\ Limits[l].idle \in Nat
       /\ MaxDelay < Limits[l].idle
  /\ {ChallengeTTL, SessionTTL, MaxDelay} \subseteq Nat
  /\ NoToken \notin Agent
  /\ \A o \in Operator : o = [name |-> o.name, token |-> o.token]
  /\ \A o, q \in Operator : o.name = q.name \/ o.token = q.token => o = q

VARIABLES
  challenges,   \* table auth_challenges
  sessions,     \* the tokens issued; the service keeps none of them
  buckets,      \* the two limiters' maps
  lastCall,     \* the last call a handler made, as whom
  admitted,     \* how many requests each key of each limiter was let through
  now, requests, restarts,
  proc

accessVars == << challenges, sessions, buckets, lastCall, admitted, now, requests, restarts, proc >>

Idle == [pc |-> "idle"]
Goto(p, h) == proc' = [proc EXCEPT ![p] = h]
Finish(p) == Goto(p, Idle)

-----------------------------------------------------------------------------
(* The routes, by what stands in front of the handler                       *)

adminRoutes ==
  IF Operator = {} THEN {}
  ELSE {"retire", "restore", "get retirement", "probe", "resolve", "get admin trade"}

\* The two that write to an agent named in the path.
ownRoutes == {"put card", "publish offer"}

sessionRoutes ==
  {"close offer", "create trade", "get trade", "negotiate", "accept", "record", "cancel",
   "dispute", "build settlement", "get settlement", "confirm", "get limits", "put limits",
   "get tessera"}

publicRoutes ==
  {"agent card", "health", "list agents", "get agent", "get card attestation", "agent offers",
   "search offers", "get offer", "get offer attestation", "get capabilities", "list tokens",
   "ledger", "ledger head", "receipts", "metrics", "agp route", "agp table"}

authRoutes == {"challenge", "verify"}

routes == adminRoutes \cup ownRoutes \cup sessionRoutes \cup publicRoutes \cup authRoutes

-----------------------------------------------------------------------------
(* ServeHTTP                                                                *)

\* What a client can present where a session or an operator's token is asked for;
\* everything else fails alike, and one kind is never taken for the other.
Credential(route) ==
  IF route \in adminRoutes
  THEN {[kind |-> "operator", token |-> t] : t \in {o.token : o \in Operator} \cup {"guess"}}
  ELSE {NoToken} \cup {[kind |-> "session", session |-> s] : s \in sessions}

\* The key a client signs with and the challenge it answers.
Signature == [key : Agent, over : ChallengeID]

\* Only what the route reads of a request is chosen.
Arrive(p) ==
  /\ proc[p] = Idle
  /\ requests < MaxRequests
  /\ requests' = requests + 1
  /\ \E addr \in Addr, route \in Requested \cap routes :
     \E path \in IF route \in ownRoutes \cup {"challenge"} THEN Agent ELSE {NoToken},
        cred \in IF route \in publicRoutes \cup authRoutes THEN {NoToken} ELSE Credential(route),
        sig \in IF route = "verify" THEN Signature ELSE {NoToken} :
       Goto(p, [pc |-> "address", route |-> route, addr |-> addr, path |-> path,
                cred |-> cred, sig |-> sig, at |-> now])
  /\ UNCHANGED << challenges, sessions, buckets, lastCall, admitted, now, restarts >>

\* The clock was read by whoever asked; the map is only touched under the lock.
Charge(l, key, at) ==
  LET answer == allow(Limits[l], buckets[l], key, at)
  IN  /\ buckets' = [buckets EXCEPT ![l] = answer.buckets]
      /\ admitted' = IF answer.ok THEN [admitted EXCEPT ![l][key] = @ + 1] ELSE admitted

Allowed(l, key, at) == allow(Limits[l], buckets[l], key, at).ok

\* Which gate the mux puts a route behind.
Gate(route) ==
  CASE route \in adminRoutes -> "operator"
    [] route \in ownRoutes \cup sessionRoutes -> "session"
    [] route = "challenge" -> "challenge"
    [] route = "verify" -> "redeem"
    [] OTHER -> "call"

ServeHTTP(p) ==
  LET h == proc[p]
  IN  /\ h.pc = "address"
      /\ Charge("ip", h.addr, h.at)
      /\ Goto(p, IF ~Allowed("ip", h.addr, h.at) THEN Idle
                 ELSE [pc |-> Gate(h.route), route |-> h.route, path |-> h.path, cred |-> h.cred,
                       sig |-> h.sig, at |-> IF h.route \in authRoutes THEN now ELSE 0])
      /\ UNCHANGED << challenges, sessions, lastCall, now, requests, restarts >>

-----------------------------------------------------------------------------
(* authed, requireAdmin and the handlers                                    *)

\* A session token is checked against the clock alone.
Authenticate(cred) ==
  IF cred.kind = "session" /\ now < cred.session.expires THEN {cred.session.agent} ELSE {}

authed(p) ==
  LET h == proc[p]
      caller == Authenticate(h.cred)
  IN  /\ h.pc = "session"
      /\ \/ caller = {} /\ Finish(p)
         \/ \E a \in caller : Goto(p, [pc |-> "agent", route |-> h.route, path |-> h.path,
                                       cred |-> h.cred, caller |-> a, at |-> now])
      /\ UNCHANGED << challenges, sessions, buckets, lastCall, admitted, now, requests, restarts >>

agentLimit(p) ==
  LET h == proc[p]
  IN  /\ h.pc = "agent"
      /\ Charge("agent", h.caller, h.at)
      /\ Goto(p, IF Allowed("agent", h.caller, h.at) THEN [h EXCEPT !.pc = "handle"] ELSE Idle)
      /\ UNCHANGED << challenges, sessions, lastCall, now, requests, restarts >>

\* The name comes from the credential that matched.
requireAdmin(cred) ==
  IF cred.kind # "operator" THEN {} ELSE {o.name : o \in {q \in Operator : q.token = cred.token}}

Call(route, actor, target, cred) == [route |-> route, actor |-> actor, target |-> target, cred |-> cred]

\* An operator's handler acts under its credential's name.
adminActor(p) ==
  LET h == proc[p]
  IN  /\ h.pc = "operator"
      /\ IF requireAdmin(h.cred) = {} THEN UNCHANGED lastCall
         ELSE \E name \in requireAdmin(h.cred) : lastCall' = {Call(h.route, name, NoToken, h.cred)}
      /\ Finish(p)
      /\ UNCHANGED << challenges, sessions, buckets, admitted, now, requests, restarts >>

\* The handlers of the own routes that take the agent from the path.
handle_TrustsPath(p) ==
  LET h == proc[p]
  IN  /\ h.pc = "handle"
      /\ lastCall' = {Call(h.route, IF h.route \in ownRoutes THEN h.path ELSE h.caller,
                                   h.path, h.cred)}
      /\ Finish(p)
      /\ UNCHANGED << challenges, sessions, buckets, admitted, now, requests, restarts >>

\* requireOwnAgent refuses a path that names somebody else.
requireOwnAgent(h) == h.route \in ownRoutes => h.path = h.caller

\* A session's handler acts under the session's agent.
handle(p) ==
  LET h == proc[p]
  IN  /\ h.pc = "handle"
      /\ lastCall' = IF requireOwnAgent(h) THEN {Call(h.route, h.caller, h.path, h.cred)} ELSE lastCall
      /\ Finish(p)
      /\ UNCHANGED << challenges, sessions, buckets, admitted, now, requests, restarts >>

\* A public read changes nothing.
publicRead(p) ==
  /\ proc[p].pc = "call"
  /\ Finish(p)
  /\ UNCHANGED << challenges, sessions, buckets, lastCall, admitted, now, requests, restarts >>

-----------------------------------------------------------------------------
(* internal/auth                                                            *)

IssueChallenge(p) ==
  /\ proc[p].pc = "challenge"
  /\ \E c \in ChallengeID :
       /\ challenges[c].agent = NoToken
       /\ challenges' = [challenges EXCEPT ![c] =
            [agent |-> proc[p].path, expires |-> proc[p].at + ChallengeTTL, consumed |-> FALSE]]
  /\ Finish(p)
  /\ UNCHANGED << sessions, buckets, lastCall, admitted, now, requests, restarts >>

\* ConsumeChallenge that does not look whether it was consumed.
Consumable_Again(c, at) == challenges[c].agent # NoToken /\ at < challenges[c].expires

Consumable(c, at) ==
  challenges[c].agent # NoToken /\ ~challenges[c].consumed /\ at < challenges[c].expires

\* Redeem uses the challenge up, in one transaction, before it looks at the
\* signature ...
ConsumeChallenge(p) ==
  LET h == proc[p]
      c == h.sig.over
  IN  /\ h.pc = "redeem"
      /\ IF Consumable(c, h.at)
         THEN /\ challenges' = [challenges EXCEPT ![c].consumed = TRUE]
              /\ Goto(p, [h EXCEPT !.pc = "verify"])
         ELSE Finish(p) /\ UNCHANGED challenges
      /\ UNCHANGED << sessions, buckets, lastCall, admitted, now, requests, restarts >>

\* ... which must be the challenged agent's, over that challenge.
issueSession(p) ==
  LET h == proc[p]
      c == h.sig.over
  IN  /\ h.pc = "verify"
      /\ sessions' = IF h.sig.key = challenges[c].agent
                     THEN sessions \cup {[agent |-> challenges[c].agent, challenge |-> c, signer |-> h.sig.key,
                                          expires |-> now + SessionTTL]}
                     ELSE sessions
      /\ Finish(p)
      /\ UNCHANGED << challenges, buckets, lastCall, admitted, now, requests, restarts >>

-----------------------------------------------------------------------------

\* A request timeout or a cancelled client ends a handler between two steps.
Abandon(p) ==
  /\ proc[p].pc \in {"agent", "handle", "redeem", "verify"}
  /\ Finish(p)
  /\ UNCHANGED << challenges, sessions, buckets, lastCall, admitted, now, requests, restarts >>

\* The buckets are the only state of this layer that a restart loses: challenges
\* are stored, and a session is verified from the configured secret.
Restart ==
  /\ restarts < MaxRestarts
  /\ restarts' = restarts + 1
  /\ buckets' = [l \in DOMAIN Limits |-> << >>]
  /\ proc' = [p \in Proc |-> Idle]
  /\ UNCHANGED << challenges, sessions, lastCall, admitted, now, requests >>

Tick ==
  /\ now < MaxTime
  /\ \A p \in Proc : proc[p].pc \in {"address", "agent", "redeem"} => now - proc[p].at < MaxDelay
  /\ now' = now + 1
  /\ UNCHANGED << challenges, sessions, buckets, lastCall, admitted, requests, restarts, proc >>

Keys == [ip |-> Addr, agent |-> Agent]

AccessInit ==
  /\ challenges = [c \in ChallengeID |-> [agent |-> NoToken, expires |-> 0, consumed |-> FALSE]]
  /\ sessions = {}
  /\ buckets = [l \in DOMAIN Limits |-> << >>]
  /\ lastCall = {}
  /\ admitted = [l \in DOMAIN Limits |-> [k \in Keys[l] |-> 0]]
  /\ now = 0 /\ requests = 0 /\ restarts = 0
  /\ proc = [p \in Proc |-> Idle]

AccessNext ==
  \/ \E p \in Proc :
       \/ Arrive(p) \/ ServeHTTP(p) \/ authed(p) \/ agentLimit(p) \/ adminActor(p) \/ handle(p)
       \/ publicRead(p) \/ IssueChallenge(p) \/ ConsumeChallenge(p) \/ issueSession(p) \/ Abandon(p)
  \/ Restart
  \/ Tick

AccessSpec == AccessInit /\ [][AccessNext]_accessVars

-----------------------------------------------------------------------------
(* Properties                                                               *)

\* However redemptions race, retry and are abandoned, a challenge yields at most
\* one session, for the agent it was issued to and only on that agent's signature
\* (auth.go Redeem, ConsumeChallenge).
OneSessionPerChallenge ==
  \A s \in sessions :
    /\ s.signer = s.agent
    /\ s.agent = challenges[s.challenge].agent
    /\ \A t \in sessions : t.challenge = s.challenge => t = s

\* Whatever a service is called as, somebody proved to be: an agent by a session
\* its own key was redeemed for, and never on another agent's path; an operator by
\* the token configured under that name (authed, requireOwnAgent, requireAdmin).
CallsAreAttributable ==
  \A c \in lastCall :
    IF c.route \in adminRoutes
    THEN [name |-> c.actor, token |-> c.cred.token] \in Operator
    ELSE /\ c.cred.session \in sessions
         /\ c.cred.session.signer = c.actor
         /\ c.route \in ownRoutes => c.target = c.actor

\* What a key can draw over one idle period: its rate, or a new burst if its bucket
\* was dropped meanwhile, whichever is more.
PerIdle(limit) == Larger((limit.idle - MaxDelay) * limit.rps, limit.burst)

\* Over any history one key of one limiter is let through at most its burst, once
\* per start of the process, and for the time that passed its rate, or one burst
\* per idle period where the rate is lower than that: the clock is read before the
\* lock is taken, and idle buckets are dropped full or not (allow, evictLocked).
RateHolds ==
  \A l \in DOMAIN Limits : \A k \in Keys[l] :
    LET idle == Limits[l].idle - MaxDelay
    IN  idle * admitted[l][k] <=
          idle * (Limits[l].burst * (1 + restarts)) + PerIdle(Limits[l]) * now

=============================================================================
