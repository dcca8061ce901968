-------------------------------- MODULE Spend --------------------------------
(***************************************************************************)
(* The spending caps of one buyer over several trades: checkSpend and its   *)
(* three callers in internal/trade, the query and the opt-in row of         *)
(* internal/store/limits.go, and PUT /v1/limits of internal/httpapi.        *)
(* Create holds reserveMu from the cap read to the insert; Record and       *)
(* BuildSettlement check the cap without it.  A call its first read refuses *)
(* changes nothing and is not a step.                                       *)
(***************************************************************************)
EXTENDS Limits, TradeRules, FiniteSets

CONSTANTS
  TradeID,
  Proc, NoProc,
  Prices,        \* [amount, mint] of the offers the buyer may take up
  Policy,        \* the deployment's caps, ceilings, window and rates
  Asks,          \* caps an agent may ask for; a field is a set of at most one amount
  MaxTime,       \* bounds for TLC: the clock, and how many checks and raises begin
  MaxChecks, MaxRaises

\* The price an offer, a trade or a handler carries.
Price(row) == [amount |-> row.amount, mint |-> row.mint]

ASSUME SpendAssumption ==
  /\ NoProc \notin Proc
  /\ IsFiniteSet(TradeID)
  /\ Policy.window \in Nat
  /\ \A price \in Prices : price.amount \in DecimalAmount /\ Price(price) = price
  /\ \A m \in DOMAIN Policy.rates : /\ Policy.rates[m].decimals \in Nat
                                    /\ Policy.rates[m].usd \in DecimalAmount
  /\ {Policy.perTrade, Policy.perDay, Policy.ceilingPerTrade, Policy.ceilingPerDay} \subseteq DecimalAmount
  /\ Validate(Policy)
  /\ Asks \subseteq [perTrade : SUBSET DecimalAmount, perDay : SUBSET DecimalAmount]

VARIABLES
  trades,      \* table trades: state, price and created_at of the buyer's trades
  commits,     \* table trade_events: target and created_at of the entries into a committed
               \* state, the only ones the query joins
  optIn,       \* the buyer's row of agent_limits, if any
  reserveMu,   \* who holds the mutex
  now,
  checks, raises,
  proc

spendVars == << trades, commits, optIn, reserveMu, now, checks, raises, proc >>

Idle == [pc |-> "idle"]
NoTrade == [state |-> "none"]
Exists(t) == trades[t].state # "none"

committedStates == {"settlement_pending", "recorded", "settled", "disputed"}
releasedStates == {"cancelled", "resolved"}

-----------------------------------------------------------------------------
(* store/limits.go                                                          *)

\* engaged_at: created_at, or the first entry into a committed state if later.
EngagedAt(t) ==
  LET times == {e.at : e \in commits[t]}
      first == IF times = {} THEN 0 ELSE CHOOSE m \in times : \A n \in times : m <= n
  IN  IF first > trades[t].createdAt THEN first ELSE trades[t].createdAt

\* The ids of the rows the query answers; "since" is inclusive.
CommittedSpendSince(since, exclude) ==
  {t \in TradeID \ exclude :
     /\ Exists(t)
     /\ EngagedAt(t) >= since
     /\ trades[t].state \notin releasedStates}

\* What each price is worth to the caps.
Worth == [price \in Prices |-> USDValue(Policy.rates, price.amount, price.mint)]
TradeValue(t) == Worth[Price(trades[t])]

-----------------------------------------------------------------------------
(* Service.checkSpend: one read of the opt-in, then one of the rows         *)

Goto(p, handler) == proc' = [proc EXCEPT ![p] = handler]

\* Create's deferred unlock; the other callers do not hold the mutex.
Unlock(p) == reserveMu' = IF reserveMu = p THEN NoProc ELSE reserveMu

Refuse(p) == Goto(p, Idle) /\ Unlock(p)

checkTrade(p) ==
  LET h == proc[p]
      caps == Effective(Policy, optIn)
      value == Worth[Price(h)]
  IN  /\ h.pc = "caps"
      /\ IF value < 0 \/ value > CapMicro(caps.perTrade)
         THEN Refuse(p)
         ELSE /\ Goto(p, [h EXCEPT !.pc = "rows", !.value = value, !.perDay = CapMicro(caps.perDay)])
              /\ UNCHANGED reserveMu
      /\ UNCHANGED << trades, commits, optIn, now, checks, raises >>

committedSpend(first, exclude) ==
  SumSpend(first, [t \in CommittedSpendSince(now - Policy.window, exclude) |-> TradeValue(t)])

checkDay(p) ==
  LET h == proc[p]
      committed == committedSpend(h.value, h.exclude)
  IN  /\ h.pc = "rows"
      /\ IF committed < 0 \/ committed > h.perDay
         THEN Refuse(p)
         ELSE Goto(p, [h EXCEPT !.pc = "write", !.checkedAt = now]) /\ UNCHANGED reserveMu
      /\ UNCHANGED << trades, commits, optIn, now, checks, raises >>

Checking(op, t, state, price, exclude) ==
  [pc |-> "caps", op |-> op, trade |-> t, from |-> state, amount |-> price.amount,
   mint |-> price.mint, exclude |-> exclude, value |-> 0, perDay |-> 0, checkedAt |-> 0]

Begin(p) == proc[p] = Idle /\ checks < MaxChecks /\ checks' = checks + 1

-----------------------------------------------------------------------------
(* The three callers                                                        *)

\* Create that does not take reserveMu.
Create_Unlocked(p) ==
  /\ Begin(p)
  /\ \E price \in Prices : Goto(p, Checking("create", NoProc, "none", price, {}))
  /\ UNCHANGED << trades, commits, optIn, reserveMu, now, raises >>

Create(p) ==
  /\ Begin(p)
  /\ reserveMu = NoProc
  /\ reserveMu' = p
  /\ \E price \in Prices : Goto(p, Checking("create", NoProc, "none", price, {}))
  /\ UNCHANGED << trades, commits, optIn, now, raises >>

\* The row's time was read after the check and before the insert.
CreateTrade(p) ==
  LET h == proc[p]
  IN  /\ h.pc = "write" /\ h.op = "create"
      /\ \E t \in TradeID, at \in h.checkedAt .. now :
           /\ ~Exists(t)
           /\ trades' = [trades EXCEPT ![t] = [state |-> "proposed", amount |-> h.amount,
                                               mint |-> h.mint, createdAt |-> at]]
      /\ Goto(p, Idle) /\ Unlock(p)
      /\ UNCHANGED << commits, optIn, now, checks, raises >>

\* Record of an accepted trade, up to its check.
Record(p, t) ==
  /\ Begin(p)
  /\ trades[t].state = "accepted"
  /\ Goto(p, Checking("record", t, "accepted", trades[t], {t}))
  /\ UNCHANGED << trades, commits, optIn, reserveMu, now, raises >>

\* BuildSettlement of an accepted trade or of one whose transaction lapsed.
BuildSettlement(p, t) ==
  /\ Begin(p)
  /\ trades[t].state \in {"accepted", "settlement_pending"}
  /\ Goto(p, Checking("settlement_pending", t, trades[t].state, trades[t], {t}))
  /\ UNCHANGED << trades, commits, optIn, reserveMu, now, raises >>

\* apply: the state, if the trade is still where the handler saw it, ...
SetTradeState(p) ==
  LET h == proc[p]
      to == IF h.op = "record" THEN "recorded" ELSE h.op
      moves == h.from = "accepted" /\ trades[h.trade].state = h.from
  IN  /\ h.pc = "write" /\ h.op # "create"
      /\ trades' = IF moves THEN [trades EXCEPT ![h.trade].state = to] ELSE trades
      /\ Goto(p, IF moves THEN [pc |-> "event", trade |-> h.trade, to |-> to] ELSE Idle)
      /\ UNCHANGED << commits, optIn, reserveMu, now, checks, raises >>

\* ... then its event, in a statement of its own.
AppendTradeEvent(p) ==
  LET h == proc[p]
  IN  /\ h.pc = "event"
      /\ commits' = [commits EXCEPT ![h.trade] = @ \cup {[to |-> h.to, at |-> now]}]
      /\ Goto(p, Idle)
      /\ UNCHANGED << trades, optIn, reserveMu, now, checks, raises >>

\* A cancelled request or a failed statement ends the call wherever it is.
Abort(p) ==
  /\ proc[p] # Idle
  /\ Refuse(p)
  /\ UNCHANGED << trades, commits, optIn, now, checks, raises >>

\* Every other handler's transition; module Trade has their steps.
TradeMoves(t, to) ==
  /\ Exists(t)
  /\ canTransition(trades[t].state, to)
  /\ to \notin {"recorded", "settlement_pending"}
  /\ trades' = [trades EXCEPT ![t].state = to]
  /\ commits' = IF to \in committedStates
                THEN [commits EXCEPT ![t] = @ \cup {[to |-> to, at |-> now]}] ELSE commits
  /\ UNCHANGED << optIn, reserveMu, now, checks, raises, proc >>

-----------------------------------------------------------------------------
(* Raising a cap                                                            *)

\* An absent field stands for the cap in force when the handler read it.
handlePutLimits(p) ==
  /\ proc[p] = Idle
  /\ raises < MaxRaises
  /\ raises' = raises + 1
  /\ \E ask \in Asks :
       LET caps == Effective(Policy, optIn)
           field(f) == IF ask[f] = {} THEN caps[f] ELSE CHOOSE a \in ask[f] : TRUE
           wanted == [perTrade |-> field("perTrade"), perDay |-> field("perDay")]
       IN  Check(Policy, wanted) /\ Goto(p, [pc |-> "raise", caps |-> wanted])
  /\ UNCHANGED << trades, commits, optIn, reserveMu, now, checks >>

AtLeast(asked, default) == IF IsZero(asked) \/ Cmp(asked, default) < 0 THEN default ELSE asked

\* RaiseLimits that stores the request as it came.
RaiseLimits_NoFloor(p) ==
  /\ proc[p].pc = "raise"
  /\ optIn' = {proc[p].caps}
  /\ Goto(p, Idle)
  /\ UNCHANGED << trades, commits, reserveMu, now, checks, raises >>

RaiseLimits(p) ==
  LET caps == [perTrade |-> AtLeast(proc[p].caps.perTrade, Policy.perTrade),
               perDay |-> AtLeast(proc[p].caps.perDay, Policy.perDay)]
  IN  /\ proc[p].pc = "raise"
      /\ optIn' = IF Check(Policy, caps) THEN {caps} ELSE optIn
      /\ Goto(p, Idle)
      /\ UNCHANGED << trades, commits, reserveMu, now, checks, raises >>

-----------------------------------------------------------------------------

Tick ==
  /\ now < MaxTime
  /\ now' = now + 1
  /\ UNCHANGED << trades, commits, optIn, reserveMu, checks, raises, proc >>

SpendInit ==
  /\ trades = [t \in TradeID |-> NoTrade]
  /\ commits = [t \in TradeID |-> {}]
  /\ optIn = {}
  /\ reserveMu = NoProc
  /\ now = Policy.window
  /\ checks = 0 /\ raises = 0
  /\ proc = [p \in Proc |-> Idle]

SpendNext ==
  \/ \E p \in Proc :
       \/ checkTrade(p) \/ checkDay(p) \/ CreateTrade(p) \/ SetTradeState(p)
       \/ AppendTradeEvent(p) \/ RaiseLimits(p)
       \/ Create(p) \/ Abort(p) \/ handlePutLimits(p)
       \/ \E t \in TradeID : Record(p, t) \/ BuildSettlement(p, t)
  \/ \E t \in TradeID, to \in TradeState : TradeMoves(t, to)
  \/ Tick

SpendSpec == SpendInit /\ [][SpendNext]_spendVars

-----------------------------------------------------------------------------
(* Properties                                                               *)

\* However Creates, opt-ins and aborts interleave, the trades a buyer opened
\* within one window of each other and has not been released from never add up
\* to more than the deployment's ceiling for a day, if it has one (trade.go Create:
\* the budget is read and taken under one lock).
ReservationsWithinCap ==
  ~IsZero(Policy.ceilingPerDay) =>
  \A t \in TradeID :
    LET since == trades[t].createdAt - Policy.window
        together == {u \in TradeID : /\ Exists(u)
                                     /\ trades[u].state \notin releasedStates
                                     /\ trades[u].createdAt \in since .. trades[t].createdAt}
    IN  Exists(t) /\ trades[t].state \notin releasedStates =>
          SumFunction([u \in together |-> TradeValue(u)]) <= CapMicro(Policy.ceilingPerDay)

\* Whatever an agent asks for, and whichever of two requests is stored last, the
\* caps in force stay between the deployment's defaults and its ceilings, and what
\* is stored is worth what is in force (RaiseLimits, Policy.Check): an agent that
\* asks for 1.0 where the default is 1 stores 1.0 and is held to 1.
CapsInForce ==
  LET caps == Effective(Policy, optIn)
  IN  /\ Cmp(caps.perTrade, Policy.perTrade) >= 0 /\ Cmp(caps.perDay, Policy.perDay) >= 0
      /\ Check(Policy, caps)
      /\ \A row \in optIn : /\ Cmp(row.perTrade, caps.perTrade) = 0
                            /\ Cmp(row.perDay, caps.perDay) = 0

=============================================================================
