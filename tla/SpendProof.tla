------------------------------ MODULE SpendProof ------------------------------
(***************************************************************************)
(* The caps in force and the reservations made under them, for any policy   *)
(* that Validate accepts, any prices, requests to raise a cap and trades,   *)
(* and any overlap of them.  The arithmetic is AlgorithmsProof's.           *)
(***************************************************************************)
EXTENDS Spend, AlgorithmsProof

-----------------------------------------------------------------------------
(* The caps                                                                 *)

\* A stored cap is the default, or a non-zero amount that is not below it, and
\* Check let it through.
CapStored(own, default, ceiling) ==
  /\ own \in DecimalAmount
  /\ own = default \/ (~IsZero(own) /\ Cmp(own, default) >= 0)
  /\ toMicro(own) >= 0
  /\ IsZero(ceiling) \/ Cmp(own, ceiling) <= 0

OptInStored ==
  \A row \in optIn : /\ CapStored(row.perTrade, Policy.perTrade, Policy.ceilingPerTrade)
                     /\ CapStored(row.perDay, Policy.perDay, Policy.ceilingPerDay)

\* A handler of PUT /v1/limits between its read and RaiseLimits.
RaisePending(p) ==
  proc[p].pc = "raise" => proc[p].caps \in [perTrade : DecimalAmount, perDay : DecimalAmount]

SpendInv ==
  /\ proc = [p \in Proc |-> proc[p]]
  /\ \A p \in Proc : RaisePending(p)
  /\ optIn = {} \/ \E row \in optIn : optIn = {row}
  /\ OptInStored

\* The cap in force for a stored one: at least the default, no more than the
\* ceiling, and worth what is stored (Policy.Effective).
LEMMA RaisedCap ==
  ASSUME NEW default \in DecimalAmount, NEW ceiling \in DecimalAmount, toMicro(default) >= 0,
         BoundOK(ceiling, default), NEW own, CapStored(own, default, ceiling)
  PROVE  LET cap == Raised(own, default)
         IN  /\ cap \in DecimalAmount
             /\ Cmp(cap, default) >= 0 /\ Cmp(own, cap) = 0
             /\ toMicro(cap) >= 0
             /\ IsZero(ceiling) \/ Cmp(cap, ceiling) <= 0
<1>1. own \in DecimalAmount
  BY DEF CapStored
<1>2. Cmp(own, default) \in {-1, 0, 1} /\ Cmp(own, own) = 0 /\ Cmp(default, default) = 0
  BY <1>1, CmpAntisymmetric
<1>3. /\ Cmp(ceiling, default) \in {-1, 0, 1}
      /\ Cmp(default, ceiling) = 0 - Cmp(ceiling, default)
  BY CmpAntisymmetric
<1>4. CASE ~IsZero(own) /\ Cmp(own, default) > 0
  <2>1. Raised(own, default) = own
    BY <1>4 DEF Raised
  <2> QED
    BY <1>1, <1>2, <1>4, <2>1 DEF CapStored
<1>5. CASE ~(~IsZero(own) /\ Cmp(own, default) > 0)
  <2>1. Raised(own, default) = default
    BY <1>5 DEF Raised
  <2>2. Cmp(own, default) = 0
    BY <1>2, <1>5 DEF CapStored
  <2>3. IsZero(ceiling) \/ Cmp(default, ceiling) <= 0
    BY <1>3 DEF BoundOK
  <2> QED
    BY <1>2, <2>1, <2>2, <2>3
<1> QED
  BY <1>4, <1>5

\* A deployment's own default is a cap as RaiseLimits stores them (Validate).
LEMMA DefaultCap ==
  ASSUME NEW default \in DecimalAmount, NEW ceiling \in DecimalAmount, toMicro(default) >= 0,
         BoundOK(ceiling, default)
  PROVE  CapStored(default, default, ceiling)
<1>1. /\ Cmp(ceiling, default) \in {-1, 0, 1}
      /\ Cmp(default, ceiling) = 0 - Cmp(ceiling, default)
  BY CmpAntisymmetric
<1> QED
  BY <1>1 DEF CapStored, BoundOK

\* What the policy of a deployment that started satisfies (Validate).
LEMMA PolicyOK ==
  /\ Policy.perTrade \in DecimalAmount /\ Policy.ceilingPerTrade \in DecimalAmount
  /\ Policy.perDay \in DecimalAmount /\ Policy.ceilingPerDay \in DecimalAmount
  /\ toMicro(Policy.perTrade) >= 0 /\ BoundOK(Policy.ceilingPerTrade, Policy.perTrade)
  /\ toMicro(Policy.perDay) >= 0 /\ BoundOK(Policy.ceilingPerDay, Policy.perDay)
  BY SpendAssumption DEF Validate

\* The caps in force, from the row that is stored or from none.
LEMMA CapsFollow ==
  ASSUME SpendInv
  PROVE  /\ CapsInForce
         /\ Effective(Policy, optIn) \in [perTrade : DecimalAmount, perDay : DecimalAmount]
<1> DEFINE caps == Effective(Policy, optIn)
<1>1. CASE optIn = {}
  <2>1. caps = [perTrade |-> Policy.perTrade, perDay |-> Policy.perDay]
    BY <1>1 DEF Effective
  <2>2. /\ CapStored(Policy.perTrade, Policy.perTrade, Policy.ceilingPerTrade)
        /\ CapStored(Policy.perDay, Policy.perDay, Policy.ceilingPerDay)
    BY PolicyOK, DefaultCap
  <2>3. Cmp(Policy.perTrade, Policy.perTrade) = 0 /\ Cmp(Policy.perDay, Policy.perDay) = 0
    BY PolicyOK, CmpAntisymmetric
  <2>4. caps.perTrade = Policy.perTrade /\ caps.perDay = Policy.perDay
    BY <2>1
  <2>5. caps \in [perTrade : DecimalAmount, perDay : DecimalAmount]
    BY <2>1, PolicyOK
  <2> HIDE DEF caps
  <2>6. Check(Policy, caps)
    BY <2>2, <2>4 DEF Check, CapStored
  <2>7. /\ Cmp(caps.perTrade, Policy.perTrade) >= 0 /\ Cmp(caps.perDay, Policy.perDay) >= 0
    BY <2>3, <2>4
  <2> QED
    BY <1>1, <2>5, <2>6, <2>7 DEF CapsInForce, caps
<1>2. ASSUME NEW row \in optIn, optIn = {row}
      PROVE  CapsInForce /\ caps \in [perTrade : DecimalAmount, perDay : DecimalAmount]
  <2>1. (CHOOSE r \in optIn : TRUE) = row
    BY <1>2
  <2>2. caps = [perTrade |-> Raised(row.perTrade, Policy.perTrade),
                perDay |-> Raised(row.perDay, Policy.perDay)]
    BY <1>2, <2>1 DEF Effective
  <2>3. /\ CapStored(row.perTrade, Policy.perTrade, Policy.ceilingPerTrade)
        /\ CapStored(row.perDay, Policy.perDay, Policy.ceilingPerDay)
    BY DEF SpendInv, OptInStored
  <2> DEFINE t == Raised(row.perTrade, Policy.perTrade)
             d == Raised(row.perDay, Policy.perDay)
  <2>4. /\ t \in DecimalAmount /\ Cmp(t, Policy.perTrade) >= 0 /\ Cmp(row.perTrade, t) = 0
        /\ toMicro(t) >= 0 /\ (IsZero(Policy.ceilingPerTrade) \/ Cmp(t, Policy.ceilingPerTrade) <= 0)
    BY <2>3, PolicyOK, RaisedCap
  <2>5. /\ d \in DecimalAmount /\ Cmp(d, Policy.perDay) >= 0 /\ Cmp(row.perDay, d) = 0
        /\ toMicro(d) >= 0 /\ (IsZero(Policy.ceilingPerDay) \/ Cmp(d, Policy.ceilingPerDay) <= 0)
    BY <2>3, PolicyOK, RaisedCap
  <2> HIDE DEF t, d
  <2>6. caps = [perTrade |-> t, perDay |-> d]
    BY <2>2 DEF t, d
  <2>7. caps.perTrade = t /\ caps.perDay = d /\ caps \in [perTrade : DecimalAmount, perDay : DecimalAmount]
    BY <2>4, <2>5, <2>6
  <2> HIDE DEF caps
  <2>8. Check(Policy, caps)
    BY <2>4, <2>5, <2>7 DEF Check
  <2> QED
    BY <1>2, <2>4, <2>5, <2>7, <2>8 DEF CapsInForce, caps
<1> QED
  BY <1>1, <1>2 DEF SpendInv

\* A handler that does not hold a request to raise a cap.
LEMMA SpendGoto ==
  ASSUME SpendInv, NEW p \in Proc, NEW g, Goto(p, g), optIn' = optIn,
         proc'[p] = g => RaisePending(p)'
  PROVE  SpendInv'
<1>1. /\ proc'[p] = g /\ \A q \in Proc \ {p} : proc'[q] = proc[q]
      /\ proc' = [q \in Proc |-> proc'[q]]
  BY DEF SpendInv, Goto
<1>2. \A q \in Proc : RaisePending(q)'
  BY <1>1 DEF SpendInv, RaisePending
<1> QED
  BY <1>1, <1>2 DEF SpendInv, OptInStored

\* The floor that RaiseLimits puts under a request, once Check let it through.
LEMMA FlooredCap ==
  ASSUME NEW asked \in DecimalAmount, NEW default \in DecimalAmount, NEW ceiling,
         LET cap == AtLeast(asked, default)
         IN  toMicro(cap) >= 0 /\ (IsZero(ceiling) \/ Cmp(cap, ceiling) <= 0)
  PROVE  CapStored(AtLeast(asked, default), default, ceiling)
<1>1. Cmp(asked, default) \in {-1, 0, 1}
  BY CmpAntisymmetric
<1>2. \/ AtLeast(asked, default) = default
      \/ /\ AtLeast(asked, default) = asked
         /\ ~IsZero(asked) /\ Cmp(asked, default) >= 0
  BY <1>1 DEF AtLeast
<1> QED
  BY <1>2 DEF CapStored

\* RaiseLimits stores caps that Check lets through, or leaves the row alone.
LEMMA RaiseLimitsInv ==
  ASSUME SpendInv, NEW p \in Proc, RaiseLimits(p)
  PROVE  SpendInv'
<1> PICK asked : asked = proc[p].caps
  OBVIOUS
<1> DEFINE t == AtLeast(asked.perTrade, Policy.perTrade)
           d == AtLeast(asked.perDay, Policy.perDay)
           caps == [perTrade |-> t, perDay |-> d]
<1>1. asked.perTrade \in DecimalAmount /\ asked.perDay \in DecimalAmount
  <2>1. asked \in [perTrade : DecimalAmount, perDay : DecimalAmount]
    BY DEF SpendInv, RaisePending, RaiseLimits
  <2> QED
    BY <2>1
<1>2. optIn' = (IF Check(Policy, caps) THEN {caps} ELSE optIn) /\ Goto(p, Idle)
  BY DEF RaiseLimits
<1>3. proc' = [q \in Proc |-> proc'[q]] /\ \A q \in Proc : RaisePending(q)'
  <2>1. proc'[p] = Idle /\ \A q \in Proc \ {p} : proc'[q] = proc[q]
    BY <1>2 DEF SpendInv, Goto
  <2>2. proc' = [q \in Proc |-> proc'[q]]
    BY <1>2 DEF SpendInv, Goto
  <2>3. \A q \in Proc : RaisePending(q)'
    BY <2>1 DEF SpendInv, RaisePending, Idle
  <2> QED
    BY <2>2, <2>3
<1>4. CASE optIn' = optIn
  BY <1>3, <1>4 DEF SpendInv, OptInStored
<1>5. CASE Check(Policy, caps) /\ optIn' = {caps}
  <2>1. caps.perTrade = t /\ caps.perDay = d
    OBVIOUS
  <2>2. /\ toMicro(t) >= 0 /\ (IsZero(Policy.ceilingPerTrade) \/ Cmp(t, Policy.ceilingPerTrade) <= 0)
        /\ toMicro(d) >= 0 /\ (IsZero(Policy.ceilingPerDay) \/ Cmp(d, Policy.ceilingPerDay) <= 0)
    <3> HIDE DEF caps, t, d
    <3> QED
      BY <1>5, <2>1 DEF Check
  <2>3. CapStored(t, Policy.perTrade, Policy.ceilingPerTrade) /\ CapStored(d, Policy.perDay, Policy.ceilingPerDay)
    BY <1>1, <2>2, PolicyOK, FlooredCap
  <2> HIDE DEF caps, t, d
  <2>4. OptInStored'
    BY <1>5, <2>1, <2>3 DEF OptInStored, CapStored
  <2> QED
    BY <1>3, <1>5, <2>4 DEF SpendInv
<1> QED
  BY <1>2, <1>4, <1>5

\* PUT /v1/limits: an absent field stands for the cap in force.
LEMMA handlePutLimitsInv ==
  ASSUME SpendInv, NEW p \in Proc, handlePutLimits(p)
  PROVE  SpendInv'
<1> PICK caps : caps = Effective(Policy, optIn)
  OBVIOUS
<1>1. PICK ask \in Asks :
        LET field(f) == IF ask[f] = {} THEN caps[f] ELSE CHOOSE a \in ask[f] : TRUE
            wanted == [perTrade |-> field("perTrade"), perDay |-> field("perDay")]
        IN  Goto(p, [pc |-> "raise", caps |-> wanted])
  BY DEF handlePutLimits
<1> DEFINE field(f) == IF ask[f] = {} THEN caps[f] ELSE CHOOSE a \in ask[f] : TRUE
           wanted == [perTrade |-> field("perTrade"), perDay |-> field("perDay")]
           g == [pc |-> "raise", caps |-> wanted]
<1>2. caps \in [perTrade : DecimalAmount, perDay : DecimalAmount]
  BY CapsFollow
<1>3. ask \in [perTrade : SUBSET DecimalAmount, perDay : SUBSET DecimalAmount]
  BY <1>1, SpendAssumption
<1>4. field("perTrade") \in DecimalAmount /\ field("perDay") \in DecimalAmount
  BY <1>2, <1>3
<1>5. wanted \in [perTrade : DecimalAmount, perDay : DecimalAmount]
  <2> HIDE DEF field
  <2> QED
    BY <1>4
<1>6. Goto(p, g) /\ optIn' = optIn
  BY <1>1 DEF handlePutLimits
<1> HIDE DEF wanted
<1>7. ASSUME proc'[p] = g PROVE RaisePending(p)'
  BY <1>5, <1>7 DEF RaisePending
<1> HIDE DEF g
<1> QED
  BY <1>6, <1>7, SpendGoto

\* A handler that answers holds no request.
LEMMA SpendReturn ==
  ASSUME SpendInv, NEW p \in Proc, Goto(p, Idle), optIn' = optIn
  PROVE  SpendInv'
<1>1. ASSUME proc'[p] = Idle PROVE RaisePending(p)'
  BY <1>1 DEF RaisePending, Idle
<1> QED
  BY <1>1, SpendGoto

\* The two reads of checkSpend carry the handler on or refuse it.
LEMMA checkTradeInv ==
  ASSUME SpendInv, NEW p \in Proc, checkTrade(p)
  PROVE  SpendInv'
<1> PICK h : h = proc[p]
  OBVIOUS
<1> PICK caps : caps = Effective(Policy, optIn)
  OBVIOUS
<1> DEFINE g == [h EXCEPT !.pc = "rows", !.value = Worth[Price(h)], !.perDay = CapMicro(caps.perDay)]
<1>1. Goto(p, Idle) \/ Goto(p, g)
  BY DEF checkTrade, Refuse
<1>2. optIn' = optIn /\ h.pc = "caps"
  BY DEF checkTrade
<1>3. ASSUME proc'[p] = g PROVE RaisePending(p)'
  BY <1>2, <1>3 DEF RaisePending
<1> HIDE DEF g
<1> QED
  BY <1>1, <1>2, <1>3, SpendGoto, SpendReturn

\* The day cap, on the rows of the window.
LEMMA checkDayInv ==
  ASSUME SpendInv, NEW p \in Proc, checkDay(p)
  PROVE  SpendInv'
<1> PICK h : h = proc[p]
  OBVIOUS
<1> PICK at : at = now
  OBVIOUS
<1> DEFINE g == [h EXCEPT !.pc = "write", !.checkedAt = at]
<1>1. Goto(p, Idle) \/ Goto(p, g)
  BY DEF checkDay, Refuse
<1>2. optIn' = optIn /\ h.pc = "rows"
  BY DEF checkDay
<1>3. ASSUME proc'[p] = g PROVE RaisePending(p)'
  BY <1>2, <1>3 DEF RaisePending
<1> HIDE DEF g
<1> QED
  BY <1>1, <1>2, <1>3, SpendGoto, SpendReturn

\* The three callers begin with a check that asks for no cap.
LEMMA CheckingInv ==
  ASSUME SpendInv, NEW p \in Proc, NEW op, NEW t, NEW state, NEW price, NEW exclude,
         Goto(p, Checking(op, t, state, price, exclude)), optIn' = optIn
  PROVE  SpendInv'
<1> DEFINE g == Checking(op, t, state, price, exclude)
<1>1. ASSUME proc'[p] = g PROVE RaisePending(p)'
  BY <1>1 DEF RaisePending, Checking
<1> HIDE DEF g
<1> QED
  BY <1>1, SpendGoto DEF g

\* Create, Record and BuildSettlement up to their first read.
LEMMA BeginInv ==
  ASSUME SpendInv, NEW p \in Proc,
         Create(p) \/ \E t \in TradeID : Record(p, t) \/ BuildSettlement(p, t)
  PROVE  SpendInv'
<1>1. CASE Create(p)
  <2>1. PICK price : Goto(p, Checking("create", NoProc, "none", price, {}))
    BY <1>1 DEF Create
  <2>2. optIn' = optIn
    BY <1>1 DEF Create
  <2> QED
    BY <2>1, <2>2, CheckingInv
<1>2. ASSUME NEW t \in TradeID, Record(p, t) PROVE SpendInv'
  <2> PICK row : row = trades[t]
    OBVIOUS
  <2>1. Goto(p, Checking("record", t, "accepted", row, {t})) /\ optIn' = optIn
    BY <1>2 DEF Record
  <2> QED
    BY <2>1, CheckingInv
<1>3. ASSUME NEW t \in TradeID, BuildSettlement(p, t) PROVE SpendInv'
  <2> PICK row : row = trades[t]
    OBVIOUS
  <2> PICK state : state = trades[t].state
    OBVIOUS
  <2>1. Goto(p, Checking("settlement_pending", t, state, row, {t})) /\ optIn' = optIn
    BY <1>3 DEF BuildSettlement
  <2> QED
    BY <2>1, CheckingInv
<1> QED
  BY <1>1, <1>2, <1>3

\* apply moves the trade and goes on to its event, or gives up.
LEMMA SetTradeStateInv ==
  ASSUME SpendInv, NEW p \in Proc, SetTradeState(p)
  PROVE  SpendInv'
<1> PICK h : h = proc[p]
  OBVIOUS
<1> PICK to : to = IF h.op = "record" THEN "recorded" ELSE h.op
  OBVIOUS
<1> DEFINE g == [pc |-> "event", trade |-> h.trade, to |-> to]
<1>1. Goto(p, Idle) \/ Goto(p, g)
  BY DEF SetTradeState
<1>2. optIn' = optIn
  BY DEF SetTradeState
<1>3. ASSUME proc'[p] = g PROVE RaisePending(p)'
  BY <1>3 DEF RaisePending
<1> HIDE DEF g
<1> QED
  BY <1>1, <1>2, <1>3, SpendGoto, SpendReturn

\* A step of nobody's handler and of no cap.
LEMMA SpendStutter ==
  ASSUME SpendInv, optIn' = optIn, proc' = proc
  PROVE  SpendInv'
  BY DEF SpendInv, OptInStored, RaisePending

\* Every step keeps the invariant.
LEMMA SpendNextInv == SpendInv /\ [SpendNext]_spendVars => SpendInv'
<1> SUFFICES ASSUME SpendInv, [SpendNext]_spendVars PROVE SpendInv'
  OBVIOUS
<1>1. ASSUME NEW p \in Proc, CreateTrade(p) \/ AppendTradeEvent(p) \/ Abort(p) PROVE SpendInv'
  <2>1. Goto(p, Idle) /\ optIn' = optIn
    BY <1>1 DEF CreateTrade, AppendTradeEvent, Abort, Refuse
  <2> QED
    BY <2>1, SpendReturn
<1>2. ASSUME NEW t \in TradeID, NEW to \in TradeState, TradeMoves(t, to) PROVE SpendInv'
  BY <1>2, SpendStutter DEF TradeMoves
<1>3. CASE Tick
  BY <1>3, SpendStutter DEF Tick
<1>4. CASE UNCHANGED spendVars
  BY <1>4, SpendStutter DEF spendVars
<1> QED
  BY <1>1, <1>2, <1>3, <1>4, checkTradeInv, checkDayInv, SetTradeStateInv, RaiseLimitsInv,
     BeginInv, handlePutLimitsInv DEF SpendNext

\* A stored opt-in passed Policy.Check with its floors, and a pending request is
\* well formed.
THEOREM SpendInvariant == SpendSpec => []SpendInv
<1>1. SpendInit => SpendInv
  BY DEF SpendInit, SpendInv, RaisePending, OptInStored, Idle
<1> QED
  BY <1>1, SpendNextInv, PTL DEF SpendSpec

\* Whatever an agent asks for, and whichever of two requests is stored last, the
\* caps in force stay between the deployment's defaults and its ceilings
\* (handlePutLimits, RaiseLimits, Policy.Effective, Policy.Check).
THEOREM CapsStayInForce == SpendSpec => []CapsInForce
<1> QED
  BY SpendInvariant, CapsFollow, PTL

-----------------------------------------------------------------------------
(* The reservations                                                         *)

\* A row of the buyer's trades, and what a call of checkSpend carries.
TradeRow == [state : TradeState, amount : {price.amount : price \in Prices},
             mint : {price.mint : price \in Prices}, createdAt : Nat]
CheckCall == [pc : {"caps", "rows", "write"}, op : {"create", "record", "settlement_pending"},
              trade : TradeID \cup {NoProc}, from : TradeState \cup {"none"},
              amount : {price.amount : price \in Prices}, mint : {price.mint : price \in Prices},
              exclude : SUBSET TradeID, value : Int, perDay : Int, checkedAt : Nat]

\* The trades the buyer is still held to, opened at a time or after it.
Live(t) == Exists(t) /\ trades[t].state \notin releasedStates
LiveSince(since) == {t \in TradeID : Live(t) /\ trades[t].createdAt >= since}
Reserved(S) == SumFunction([t \in S |-> TradeValue(t)])

WithinCeiling(n) == ~IsZero(Policy.ceilingPerDay) => n <= CapMicro(Policy.ceilingPerDay)

\* A call of Create holds the mutex; past its first read it has a price the caps
\* let through, and past its second one room for it.
CreateReserves(p) ==
  LET h == proc[p]
  IN  h.pc \in {"caps", "rows", "write"} =>
      /\ h \in CheckCall /\ Price(h) \in Prices
      /\ h.op # "create" => h.trade \in TradeID
      /\ h.op = "create" =>
           /\ reserveMu = p /\ h.exclude = {}
           /\ h.pc # "caps" => /\ h.value = Worth[Price(h)] /\ h.value \in 0 .. MaxUint
                               /\ WithinCeiling(h.perDay)
           /\ h.pc = "write" => WithinCeiling(h.value + Reserved(LiveSince(h.checkedAt - Policy.window)))

EventPending(p) == proc[p].pc = "event" => proc[p].trade \in TradeID /\ proc[p].to \in TradeState

ReserveInv ==
  /\ now \in Nat
  /\ trades \in [TradeID -> TradeRow \cup {NoTrade}]
  /\ commits \in [TradeID -> SUBSET [to : TradeState, at : Nat]]
  /\ \A t \in TradeID : Exists(t) => Price(trades[t]) \in Prices /\ TradeValue(t) >= 0
  /\ \A p \in Proc : CreateReserves(p) /\ EventPending(p)
  /\ ReservationsWithinCap

\* Every price of the market has a value or an error for one.
LEMMA WorthInt ==
  ASSUME NEW price \in Prices
  PROVE  Worth[price] \in Int
<1>1. Worth[price] = USDValue(Policy.rates, price.amount, price.mint)
  BY DEF Worth
<1>2. CASE price.mint \notin DOMAIN Policy.rates
  BY <1>1, <1>2 DEF USDValue, NoRate
<1>3. CASE price.mint \in DOMAIN Policy.rates
  <2> PICK rate : rate = Policy.rates[price.mint]
    OBVIOUS
  <2>1. rate.decimals \in Nat /\ rate.usd \in DecimalAmount /\ price.amount \in DecimalAmount
    BY <1>3, SpendAssumption
  <2> DEFINE units == BaseUnits(price.amount, rate.decimals)
             perToken == toMicro(rate.usd)
  <2>2. units \in Int
    BY <2>1, UnitsInt
  <2>3. perToken \in Int
    BY <2>1, UnitsInt, LimitsAssumption DEF toMicro, CapInvalid
  <2>4. USDValue(Policy.rates, price.amount, price.mint) =
          CASE units < 0 -> units
             [] units >= 0 /\ perToken < 0 -> perToken
             [] units >= 0 /\ perToken = 0 -> RateInvalid
             [] OTHER -> scaleToUSD(units, perToken)
    BY <1>3 DEF USDValue
  <2> HIDE DEF units, perToken
  <2>5. scaleToUSD(units, perToken) \in Int
    <3>1. units * perToken \in Int
      BY <2>2, <2>3
    <3> PICK product \in Int : product = units * perToken
      BY <3>1
    <3> PICK scale \in Nat \ {0} : scale = Pow10(USDScale)
      BY LimitsAssumption, Powers
    <3>2. product \div scale \in Int /\ MaxUint \in Int
      BY LimitsAssumption
    <3> QED
      BY <3>2 DEF scaleToUSD
  <2> QED
    BY <1>1, <2>2, <2>3, <2>4, <2>5 DEF RateInvalid
<1> QED
  BY <1>2, <1>3

\* A trade that committed did so no earlier than it was opened.
LEMMA EngagedAfterCreated ==
  ASSUME NEW t \in TradeID, trades[t].createdAt \in Nat, commits[t] \in SUBSET [to : TradeState, at : Nat]
  PROVE  EngagedAt(t) \in Nat /\ EngagedAt(t) >= trades[t].createdAt
<1> DEFINE times == {e.at : e \in commits[t]}
           first == IF times = {} THEN 0 ELSE CHOOSE m \in times : \A n \in times : m <= n
<1>1. times \subseteq Nat
  OBVIOUS
<1>2. first \in Nat
  <2> HIDE DEF times
  <2>1. CASE times = {}
    BY <2>1
  <2>2. CASE times # {}
    <3>1. \E m \in times : \A n \in times : m <= n
      BY <1>1, <2>2, NatMin
    <3> QED
      BY <1>1, <2>2, <3>1
  <2> QED
    BY <2>1, <2>2
<1>3. EngagedAt(t) = IF first > trades[t].createdAt THEN first ELSE trades[t].createdAt
  BY DEF EngagedAt
<1> HIDE DEF first
<1> QED
  BY <1>2, <1>3

\* The rows' values as one function.
Values == [t \in TradeID |-> IF Exists(t) THEN TradeValue(t) ELSE 0]

\* What a set of trades reserves is the sum of their values.
LEMMA ReservedTotal ==
  ASSUME ReserveInv
  PROVE  /\ Values \in [TradeID -> Nat]
         /\ \A S \in SUBSET {t \in TradeID : Exists(t)} :
              Reserved(S) = SumFunction([t \in S |-> Values[t]])
<1>1. ASSUME NEW t \in TradeID, Exists(t) PROVE TradeValue(t) \in Nat
  <2>1. TradeValue(t) \in Int
    BY <1>1, WorthInt DEF ReserveInv, TradeValue
  <2> QED
    BY <1>1, <2>1 DEF ReserveInv
<1>2. Values \in [TradeID -> Nat]
  BY <1>1 DEF Values
<1>3. ASSUME NEW S \in SUBSET {t \in TradeID : Exists(t)} PROVE Reserved(S) = SumFunction([t \in S |-> Values[t]])
  <2>1. \A t \in S : Values[t] = TradeValue(t)
    BY DEF Values
  <2>2. [t \in S |-> TradeValue(t)] = [t \in S |-> Values[t]]
    BY <2>1
  <2> QED
    BY <2>2 DEF Reserved
<1> QED
  BY <1>2, <1>3

\* More trades reserve no less.
LEMMA ReservedMonotone ==
  ASSUME ReserveInv, NEW T \in SUBSET {t \in TradeID : Exists(t)}, NEW S \in SUBSET T
  PROVE  Reserved(S) \in Int /\ Reserved(T) \in Int /\ Reserved(S) <= Reserved(T)
<1> DEFINE f == Values
<1>1. f \in [TradeID -> Nat] /\ f \in [TradeID -> Int] /\ IsFiniteSet(TradeID)
  BY ReservedTotal, SpendAssumption
<1>2. /\ Reserved(S) = SumFunction([t \in S |-> f[t]])
      /\ Reserved(T) = SumFunction([t \in T |-> f[t]])
  BY ReservedTotal
<1>3. S \in SUBSET TradeID /\ T \in SUBSET TradeID
  OBVIOUS
<1> HIDE DEF f
<1>4. SumFunction([t \in S |-> f[t]]) \in Int /\ SumFunction([t \in T |-> f[t]]) \in Int
  BY <1>1, <1>3, SumInt
<1>5. SumFunction([t \in S |-> f[t]]) <= SumFunction([t \in T |-> f[t]])
  BY <1>1, <1>3, SumMonotone
<1> QED
  BY <1>2, <1>4, <1>5

Together(t) == {u \in TradeID : Live(u) /\ trades[u].createdAt \in (trades[t].createdAt - Policy.window) .. trades[t].createdAt}

\* The trades that share a window with one are opened since the window of its start.
LEMMA TogetherWithin ==
  ReservationsWithinCap <=> \A t \in TradeID : Live(t) => WithinCeiling(Reserved(Together(t)))
<1>1. ASSUME NEW t \in TradeID
      PROVE  Together(t) = {u \in TradeID : /\ Exists(u)
                                     /\ trades[u].state \notin releasedStates
                                     /\ trades[u].createdAt \in (trades[t].createdAt - Policy.window) .. trades[t].createdAt}
  BY DEF Together, Live
<1> QED
  BY <1>1 DEF ReservationsWithinCap, WithinCeiling, Reserved, Live

\* A ceiling that is set is a number of units.
LEMMA CeilingInt == ~IsZero(Policy.ceilingPerDay) => CapMicro(Policy.ceilingPerDay) \in Nat
  BY PolicyOK, MicroUnits DEF BoundOK, CapMicro

\* Less of the same stays within the ceiling.
LEMMA WithinLess ==
  ASSUME NEW m \in Int, NEW n \in Int, m <= n, WithinCeiling(n)
  PROVE  WithinCeiling(m)
  BY CeilingInt DEF WithinCeiling

\* A step that opens no trade, changes no price and brings back no released trade.
RowsKept ==
  /\ trades' \in [TradeID -> TradeRow \cup {NoTrade}]
  /\ \A t \in TradeID : /\ Exists(t)' <=> Exists(t)
                        /\ Exists(t) => /\ trades'[t].amount = trades[t].amount
                                        /\ trades'[t].mint = trades[t].mint
                                        /\ trades'[t].createdAt = trades[t].createdAt
                        /\ Live(t)' => Live(t)

\* The row of a trade that exists.
LEMMA RowFacts ==
  ASSUME ReserveInv, NEW t \in TradeID, Exists(t)
  PROVE  trades[t] \in TradeRow /\ trades[t].createdAt \in Nat
<1>1. trades[t] \in TradeRow
  BY DEF ReserveInv, Exists, NoTrade
<1> QED
  BY <1>1 DEF TradeRow

\* Such a step reserves no more, over any window.
LEMMA KeptReserved ==
  ASSUME ReserveInv, RowsKept
  PROVE  /\ \A t \in TradeID : Exists(t) => TradeValue(t)' = TradeValue(t) /\ Price(trades[t])' = Price(trades[t])
         /\ \A S \in SUBSET {t \in TradeID : Exists(t)} : Reserved(S)' = Reserved(S)
         /\ \A since \in Int : /\ LiveSince(since)' \subseteq LiveSince(since)
                               /\ Reserved(LiveSince(since))' \in Int
                               /\ Reserved(LiveSince(since)) \in Int
                               /\ Reserved(LiveSince(since))' <= Reserved(LiveSince(since))
<1>1. ASSUME NEW t \in TradeID, Exists(t)
      PROVE  TradeValue(t)' = TradeValue(t) /\ Price(trades[t])' = Price(trades[t])
  <2>1. Price(trades[t])' = Price(trades[t])
    BY <1>1 DEF RowsKept, Price
  <2> QED
    BY <2>1 DEF TradeValue, Worth
<1>2. ASSUME NEW S \in SUBSET {t \in TradeID : Exists(t)} PROVE Reserved(S)' = Reserved(S)
  <2>1. \A t \in S : TradeValue(t)' = TradeValue(t)
    BY <1>1
  <2>2. [t \in S |-> TradeValue(t)'] = [t \in S |-> TradeValue(t)]
    BY <2>1
  <2> QED
    BY <2>2 DEF Reserved
<1>3. ASSUME NEW since \in Int
      PROVE  /\ LiveSince(since)' \subseteq LiveSince(since)
             /\ Reserved(LiveSince(since))' \in Int
             /\ Reserved(LiveSince(since)) \in Int
             /\ Reserved(LiveSince(since))' <= Reserved(LiveSince(since))
  <2> PICK S : S = LiveSince(since)'
    OBVIOUS
  <2> PICK T : T = LiveSince(since)
    OBVIOUS
  <2>1. S \subseteq T
    BY DEF LiveSince, RowsKept, Live
  <2>2. T \in SUBSET {t \in TradeID : Exists(t)}
    BY DEF LiveSince, Live
  <2>3. Reserved(S) \in Int /\ Reserved(T) \in Int /\ Reserved(S) <= Reserved(T)
    BY <2>1, <2>2, ReservedMonotone
  <2>4. Reserved(LiveSince(since))' = Reserved(S)'
    BY DEF Reserved
  <2>5. Reserved(S)' = Reserved(S)
    BY <1>2, <2>1, <2>2
  <2> QED
    BY <2>1, <2>3, <2>4, <2>5
<1> QED
  BY <1>1, <1>2, <1>3

\* Such a step keeps what is reserved within the cap.
LEMMA KeptWithinCap ==
  ASSUME ReserveInv, RowsKept
  PROVE  ReservationsWithinCap'
<1>1. ASSUME NEW t \in TradeID, Live(t)' PROVE WithinCeiling(Reserved(Together(t)))'
  <2>1. Live(t) /\ Exists(t) /\ trades'[t].createdAt = trades[t].createdAt
    BY <1>1 DEF RowsKept, Live
  <2> PICK S : S = Together(t)'
    OBVIOUS
  <2> PICK T : T = Together(t)
    OBVIOUS
  <2>2. S \subseteq T
    BY <2>1 DEF Together, RowsKept, Live
  <2>3. T \in SUBSET {u \in TradeID : Exists(u)}
    BY DEF Together, Live
  <2>4. Reserved(S) \in Int /\ Reserved(T) \in Int /\ Reserved(S) <= Reserved(T)
    BY <2>2, <2>3, ReservedMonotone
  <2>5. Reserved(S)' = Reserved(S)
    BY <2>2, <2>3, KeptReserved
  <2>6. WithinCeiling(Reserved(T))
    BY <2>1, TogetherWithin DEF ReserveInv
  <2>7. WithinCeiling(Reserved(S))
    BY <2>4, <2>6, WithinLess
  <2>8. Reserved(Together(t))' = Reserved(S)'
    BY DEF Reserved
  <2> QED
    BY <2>5, <2>7, <2>8 DEF WithinCeiling
<1>2. (ReservationsWithinCap <=> \A t \in TradeID : Live(t) => WithinCeiling(Reserved(Together(t))))'
  BY TogetherWithin, PTL
<1> QED
  BY <1>1, <1>2

\* Such a step takes nothing from another call of Create.
LEMMA KeptHandler ==
  ASSUME ReserveInv, RowsKept, NEW q \in Proc, proc'[q] = proc[q], reserveMu = q => reserveMu' = q
  PROVE  CreateReserves(q)' /\ EventPending(q)'
<1> PICK h : h = proc[q]
  OBVIOUS
<1>1. CreateReserves(q) /\ EventPending(q)
  BY DEF ReserveInv
<1>2. EventPending(q)'
  BY <1>1 DEF EventPending
<1>3. ASSUME h.pc = "write", h.op = "create"
      PROVE  WithinCeiling(h.value + Reserved(LiveSince(h.checkedAt - Policy.window)))'
  <2>1. WithinCeiling(h.value + Reserved(LiveSince(h.checkedAt - Policy.window))) /\ h \in CheckCall
    BY <1>1, <1>3 DEF CreateReserves
  <2>2. h.value \in Int /\ h.checkedAt \in Nat
    BY <2>1 DEF CheckCall
  <2> PICK since \in Int : since = h.checkedAt - Policy.window
    BY <2>2, SpendAssumption
  <2>3. /\ Reserved(LiveSince(since))' \in Int /\ Reserved(LiveSince(since)) \in Int
        /\ Reserved(LiveSince(since))' <= Reserved(LiveSince(since))
    BY KeptReserved
  <2> PICK m \in Int : m = Reserved(LiveSince(since))'
    BY <2>3
  <2> PICK n \in Int : n = Reserved(LiveSince(since))
    BY <2>3
  <2>4. WithinCeiling(h.value + n) /\ m <= n
    BY <2>1, <2>3
  <2>5. h.value + m <= h.value + n /\ h.value + m \in Int /\ h.value + n \in Int
    BY <2>2, <2>4
  <2>6. WithinCeiling(h.value + m)
    BY <2>4, <2>5, WithinLess
  <2> QED
    BY <2>6 DEF WithinCeiling
<1>4. CreateReserves(q)'
  <2>1. WithinCeiling(h.perDay)' <=> WithinCeiling(h.perDay)
    BY DEF WithinCeiling
  <2> QED
    BY <1>1, <1>3, <2>1 DEF CreateReserves, Worth
<1> QED
  BY <1>2, <1>4

\* A step of one handler that keeps the rows keeps the invariant.
LEMMA ReserveStep ==
  ASSUME ReserveInv, RowsKept, now' \in Nat,
         commits' \in [TradeID -> SUBSET [to : TradeState, at : Nat]],
         \A q \in Proc : \/ proc'[q] = proc[q] /\ (reserveMu = q => reserveMu' = q)
                         \/ CreateReserves(q)' /\ EventPending(q)'
  PROVE  ReserveInv'
<1>1. \A q \in Proc : CreateReserves(q)' /\ EventPending(q)'
  BY KeptHandler
<1>2. \A t \in TradeID : Exists(t)' => Price(trades[t])' \in Prices /\ TradeValue(t)' >= 0
  BY KeptReserved DEF ReserveInv, RowsKept
<1>3. ReservationsWithinCap' /\ trades' \in [TradeID -> TradeRow \cup {NoTrade}]
  BY KeptWithinCap DEF RowsKept
<1> QED
  BY <1>1, <1>2, <1>3 DEF ReserveInv

\* A step that leaves the tables alone keeps the rows.
LEMMA SameRows ==
  ASSUME ReserveInv, trades' = trades
  PROVE  RowsKept
  BY DEF RowsKept, ReserveInv, Exists, Live

\* A handler that goes on while the tables stay as they are.
LEMMA ReserveGoto ==
  ASSUME SpendInv, ReserveInv, NEW p \in Proc, NEW g, Goto(p, g),
         trades' = trades, commits' = commits, now' = now,
         reserveMu' = reserveMu \/ Unlock(p) \/ reserveMu = NoProc,
         proc'[p] = g => CreateReserves(p)' /\ EventPending(p)'
  PROVE  ReserveInv'
<1>1. proc'[p] = g /\ \A q \in Proc \ {p} : proc'[q] = proc[q]
  BY DEF SpendInv, Goto
<1>2. \A q \in Proc \ {p} : reserveMu = q => reserveMu' = q
  BY SpendAssumption DEF Unlock
<1>3. now' \in Nat /\ commits' \in [TradeID -> SUBSET [to : TradeState, at : Nat]]
  BY DEF ReserveInv
<1> QED
  BY <1>1, <1>2, <1>3, SameRows, ReserveStep

\* A handler that returns.
LEMMA ReserveReturn ==
  ASSUME SpendInv, ReserveInv, NEW p \in Proc, Goto(p, Idle),
         trades' = trades, commits' = commits, now' = now, reserveMu' = reserveMu \/ Unlock(p)
  PROVE  ReserveInv'
<1>1. ASSUME proc'[p] = Idle PROVE CreateReserves(p)' /\ EventPending(p)'
  BY <1>1 DEF CreateReserves, EventPending, Idle
<1> QED
  BY <1>1, ReserveGoto

\* The opening of the three callers.
LEMMA BeginReserves ==
  ASSUME SpendInv, ReserveInv, NEW p \in Proc,
         Create(p) \/ \E t \in TradeID : Record(p, t) \/ BuildSettlement(p, t)
  PROVE  ReserveInv'
<1>1. CASE Create(p)
  <2>1. PICK price \in Prices : Goto(p, Checking("create", NoProc, "none", price, {}))
    BY <1>1 DEF Create
  <2> DEFINE g == Checking("create", NoProc, "none", price, {})
  <2>2. /\ trades' = trades /\ commits' = commits /\ now' = now
        /\ reserveMu = NoProc /\ reserveMu' = p
    BY <1>1 DEF Create
  <2>3. g \in CheckCall /\ g.op = "create" /\ g.pc = "caps" /\ Price(g) = Price(price) /\ g.exclude = {}
    BY DEF Checking, CheckCall, Price
  <2>4. Price(price) \in Prices
    BY SpendAssumption
  <2> HIDE DEF g
  <2>5. ASSUME proc'[p] = g PROVE CreateReserves(p)' /\ EventPending(p)'
    BY <2>2, <2>3, <2>4, <2>5 DEF CreateReserves, EventPending
  <2>6. Goto(p, g)
    BY <2>1 DEF g
  <2> QED
    BY <2>2, <2>5, <2>6, ReserveGoto
<1>2. ASSUME NEW t \in TradeID, NEW op \in {"record", "settlement_pending"}, trades[t].state \in TradeState,
             Goto(p, Checking(op, t, trades[t].state, trades[t], {t})),
             trades' = trades, commits' = commits, now' = now, reserveMu' = reserveMu
      PROVE  ReserveInv'
  <2> PICK row : row = trades[t]
    OBVIOUS
  <2> DEFINE g == Checking(op, t, row.state, row, {t})
  <2>1. row \in TradeRow
    BY <1>2 DEF ReserveInv, NoTrade, TradeState
  <2>2. /\ g \in CheckCall /\ g.op # "create" /\ g.trade = t /\ g.pc = "caps"
        /\ Price(g) = Price(row)
    BY <2>1 DEF Checking, CheckCall, TradeRow, Price
  <2>5. Price(row) \in Prices
    BY <1>2 DEF ReserveInv, Exists, TradeState
  <2> HIDE DEF g
  <2>3. ASSUME proc'[p] = g PROVE CreateReserves(p)' /\ EventPending(p)'
    BY <2>2, <2>3, <2>5 DEF CreateReserves, EventPending
  <2>4. Goto(p, g)
    BY <1>2 DEF g
  <2> QED
    BY <1>2, <2>3, <2>4, ReserveGoto
<1>3. ASSUME NEW t \in TradeID, Record(p, t) PROVE ReserveInv'
  BY <1>2, <1>3 DEF Record, TradeState
<1>4. ASSUME NEW t \in TradeID, BuildSettlement(p, t) PROVE ReserveInv'
  BY <1>2, <1>4 DEF BuildSettlement, TradeState
<1> QED
  BY <1>1, <1>3, <1>4

\* The first read of checkSpend: the price and the caps.
LEMMA checkTradeReserves ==
  ASSUME SpendInv, ReserveInv, NEW p \in Proc, checkTrade(p)
  PROVE  ReserveInv'
<1> PICK h : h = proc[p]
  OBVIOUS
<1> PICK caps : caps = Effective(Policy, optIn)
  OBVIOUS
<1> PICK value : value = Worth[Price(h)]
  OBVIOUS
<1> PICK perDay : perDay = CapMicro(caps.perDay)
  OBVIOUS
<1> DEFINE g == [h EXCEPT !.pc = "rows", !.value = value, !.perDay = perDay]
<1>1. h.pc = "caps" /\ trades' = trades /\ commits' = commits /\ now' = now
  BY DEF checkTrade
<1>2. \/ Goto(p, Idle) /\ Unlock(p)
      \/ /\ Goto(p, g) /\ reserveMu' = reserveMu
         /\ ~(value < 0) /\ ~(value > CapMicro(caps.perTrade))
  BY DEF checkTrade, Refuse
<1>3. CASE Goto(p, Idle) /\ Unlock(p)
  BY <1>1, <1>3, ReserveReturn
<1>4. CASE /\ Goto(p, g) /\ reserveMu' = reserveMu
           /\ ~(value < 0) /\ ~(value > CapMicro(caps.perTrade))
  <2>1. CreateReserves(p) /\ h \in CheckCall /\ Price(h) \in Prices
    BY <1>1 DEF ReserveInv, CreateReserves
  <2>2. /\ caps.perTrade \in DecimalAmount /\ caps.perDay \in DecimalAmount
        /\ toMicro(caps.perTrade) >= 0 /\ toMicro(caps.perDay) >= 0
        /\ IsZero(Policy.ceilingPerDay) \/ Cmp(caps.perDay, Policy.ceilingPerDay) <= 0
    BY CapsFollow DEF CapsInForce, Check
  <2>3. /\ toMicro(caps.perTrade) \in Nat /\ toMicro(caps.perTrade) <= MaxUint
        /\ toMicro(caps.perDay) \in Nat
    BY <2>2, MicroUnits
  <2>4. value \in 0 .. MaxUint
    <3>1. value \in Int
      BY <2>1, WorthInt
    <3> QED
      BY <1>4, <2>3, <3>1, LimitsAssumption DEF CapMicro
  <2>5. perDay \in Int /\ WithinCeiling(perDay)
    <3>1. ASSUME ~IsZero(Policy.ceilingPerDay) PROVE toMicro(caps.perDay) <= toMicro(Policy.ceilingPerDay)
      <4>1. toMicro(Policy.ceilingPerDay) >= 0
        BY <3>1, PolicyOK DEF BoundOK
      <4> QED
        BY <2>2, <3>1, <4>1, PolicyOK, CmpMicro
    <3> QED
      BY <2>3, <3>1 DEF WithinCeiling, CapMicro
  <2>6. value \in Int
    BY <2>4
  <2>7. /\ g \in CheckCall /\ g.pc = "rows" /\ g.op = h.op /\ g.trade = h.trade /\ g.exclude = h.exclude
        /\ g.value = value /\ g.perDay = perDay /\ Price(g) = Price(h)
    BY <2>1, <2>5, <2>6 DEF CheckCall, Price
  <2> HIDE DEF g
  <2>8. ASSUME proc'[p] = g PROVE CreateReserves(p)' /\ EventPending(p)'
    <3>1. h.op = "create" => reserveMu' = p /\ g.exclude = {}
      BY <1>1, <1>4, <2>1, <2>7 DEF CreateReserves
    <3>2. g.op # "create" => g.trade \in TradeID
      BY <1>1, <2>1, <2>7 DEF CreateReserves
    <3>3. WithinCeiling(g.perDay)' /\ g.value = Worth[Price(g)]'
      BY <2>5, <2>7 DEF WithinCeiling, Worth
    <3> QED
      BY <2>1, <2>4, <2>7, <2>8, <3>1, <3>2, <3>3 DEF CreateReserves, EventPending
  <2> QED
    BY <1>1, <1>4, <2>8, ReserveGoto
<1> QED
  BY <1>2, <1>3, <1>4

\* What the query sums covers every trade opened within the window.
LEMMA QueryCovers ==
  ASSUME ReserveInv
  PROVE  LiveSince(now - Policy.window) \subseteq CommittedSpendSince(now - Policy.window, {})
<1> SUFFICES ASSUME NEW t \in LiveSince(now - Policy.window)
             PROVE  t \in CommittedSpendSince(now - Policy.window, {})
  OBVIOUS
<1>1. t \in TradeID /\ Exists(t) /\ trades[t].state \notin releasedStates /\ trades[t].createdAt >= now - Policy.window
  BY DEF LiveSince, Live
<1>2. trades[t].createdAt \in Nat /\ commits[t] \in SUBSET [to : TradeState, at : Nat]
  BY <1>1, RowFacts DEF ReserveInv
<1>3. EngagedAt(t) \in Nat /\ EngagedAt(t) >= trades[t].createdAt
  BY <1>1, <1>2, EngagedAfterCreated
<1>4. now - Policy.window \in Int
  BY SpendAssumption DEF ReserveInv
<1>5. EngagedAt(t) >= now - Policy.window
  BY <1>1, <1>2, <1>3, <1>4
<1> QED
  BY <1>1, <1>5 DEF CommittedSpendSince

\* The second read of checkSpend: the sum, under the lock for a new trade.
LEMMA checkDayReserves ==
  ASSUME SpendInv, ReserveInv, NEW p \in Proc, checkDay(p)
  PROVE  ReserveInv'
<1> PICK h : h = proc[p]
  OBVIOUS
<1> PICK at : at = now
  OBVIOUS
<1> PICK committed : committed = committedSpend(h.value, h.exclude)
  OBVIOUS
<1> DEFINE g == [h EXCEPT !.pc = "write", !.checkedAt = at]
<1>1. h.pc = "rows" /\ trades' = trades /\ commits' = commits /\ now' = now
  BY DEF checkDay
<1>2. \/ Goto(p, Idle) /\ Unlock(p)
      \/ Goto(p, g) /\ reserveMu' = reserveMu /\ ~(committed < 0) /\ ~(committed > h.perDay)
  BY DEF checkDay, Refuse
<1>3. CASE Goto(p, Idle) /\ Unlock(p)
  BY <1>1, <1>3, ReserveReturn
<1>4. CASE Goto(p, g) /\ reserveMu' = reserveMu /\ ~(committed < 0) /\ ~(committed > h.perDay)
  <2>1. CreateReserves(p) /\ h \in CheckCall /\ Price(h) \in Prices
    BY <1>1 DEF ReserveInv, CreateReserves
  <2>2. at \in Nat
    BY DEF ReserveInv
  <2>3. /\ g \in CheckCall /\ g.pc = "write" /\ g.op = h.op /\ g.trade = h.trade /\ g.exclude = h.exclude
        /\ g.value = h.value /\ g.perDay = h.perDay /\ g.checkedAt = at /\ Price(g) = Price(h)
    BY <2>1, <2>2 DEF CheckCall, Price
  <2> HIDE DEF g
  <2>4. ASSUME h.op = "create" PROVE WithinCeiling(h.value + Reserved(LiveSince(at - Policy.window)))
    <3>1. /\ h.value \in 0 .. MaxUint /\ h.exclude = {} /\ WithinCeiling(h.perDay)
          /\ h.perDay \in Int /\ h.value \in Int
      BY <1>1, <2>1, <2>4 DEF CreateReserves, CheckCall
    <3> DEFINE T == CommittedSpendSince(at - Policy.window, {})
               S == LiveSince(at - Policy.window)
               f == [t \in T |-> TradeValue(t)]
    <3>2. S \subseteq T /\ T \in SUBSET {t \in TradeID : Exists(t)}
      BY QueryCovers DEF CommittedSpendSince
    <3>3. committed = SumSpend(h.value, f)
      BY <3>1 DEF committedSpend, SumSpend
    <3> HIDE DEF T, S
    <3>4. IsFiniteSet(T)
      BY <3>2, FS_Subset, SpendAssumption
    <3>5. f \in [T -> Int]
      <4>1. \A t \in T : TradeValue(t) \in Int
        BY <3>2, WorthInt DEF ReserveInv, TradeValue
      <4> QED
        BY <4>1
    <3>6. [t \in T |-> f[t]] = f
      OBVIOUS
    <3>7. SumFunction(f) = Reserved(T)
      BY DEF Reserved
    <3> HIDE DEF f
    <3>8. Reserved(S) \in Int /\ Reserved(T) \in Int /\ Reserved(S) <= Reserved(T)
      BY <3>2, ReservedMonotone
    <3>9. committed \in Int
      <4>1. PICK k : IsSpendTable(k, T, f, h.value)
        BY <3>1, <3>4, <3>5, SpendTable
      <4>2. T \in SUBSET T
        OBVIOUS
      <4> QED
        BY <3>3, <4>1, <4>2 DEF IsSpendTable
    <3>10. committed >= 0 /\ committed <= h.perDay
      BY <1>4, <3>1, <3>9
    <3>11. committed = h.value + Reserved(T)
      BY <3>1, <3>3, <3>4, <3>5, <3>6, <3>7, <3>10, SpendIsSum
    <3>12. h.value + Reserved(S) \in Int /\ h.value + Reserved(S) <= h.perDay
      BY <3>1, <3>8, <3>10, <3>11
    <3>13. WithinCeiling(h.value + Reserved(S))
      BY <3>1, <3>12, WithinLess
    <3> QED
      BY <3>13 DEF S
  <2>5. ASSUME proc'[p] = g PROVE CreateReserves(p)' /\ EventPending(p)'
    <3>1. h.op = "create" => /\ reserveMu' = p /\ g.exclude = {} /\ g.value = Worth[Price(g)]' /\ g.value \in 0 .. MaxUint
                             /\ WithinCeiling(g.perDay)
      BY <1>1, <1>4, <2>1, <2>3 DEF CreateReserves, Worth
    <3>2. g.op # "create" => g.trade \in TradeID
      BY <1>1, <2>1, <2>3 DEF CreateReserves
    <3>3. WithinCeiling(g.perDay)' <=> WithinCeiling(g.perDay)
      BY DEF WithinCeiling
    <3>4. h.op = "create" => WithinCeiling(g.value + Reserved(LiveSince(g.checkedAt - Policy.window)))'
      <4>1. Reserved(LiveSince(at - Policy.window))' = Reserved(LiveSince(at - Policy.window))
        BY <1>1 DEF Reserved, LiveSince, Live, Exists, TradeValue, Worth
      <4> QED
        BY <2>3, <2>4, <4>1 DEF WithinCeiling
    <3> QED
      BY <2>1, <2>3, <2>5, <3>1, <3>2, <3>3, <3>4 DEF CreateReserves, EventPending
  <2> QED
    BY <1>1, <1>4, <2>5, ReserveGoto
<1> QED
  BY <1>2, <1>3, <1>4

\* The insert of a new trade, under the lock that covered the sum.
LEMMA CreateTradeReserves ==
  ASSUME SpendInv, ReserveInv, NEW p \in Proc, CreateTrade(p)
  PROVE  ReserveInv'
<1> PICK h : h = proc[p]
  OBVIOUS
<1>1. h.pc = "write" /\ h.op = "create" /\ Goto(p, Idle) /\ commits' = commits /\ now' = now
  BY DEF CreateTrade
<1>2. PICK n \in TradeID, at \in h.checkedAt .. now :
        /\ ~Exists(n)
        /\ trades' = [trades EXCEPT ![n] = [state |-> "proposed", amount |-> h.amount,
                                            mint |-> h.mint, createdAt |-> at]]
  BY DEF CreateTrade
<1>3. /\ h \in CheckCall /\ reserveMu = p /\ Price(h) \in Prices
      /\ h.value = Worth[Price(h)] /\ h.value \in 0 .. MaxUint
      /\ WithinCeiling(h.value + Reserved(LiveSince(h.checkedAt - Policy.window)))
  BY <1>1 DEF ReserveInv, CreateReserves
<1>4. h.checkedAt \in Nat /\ at \in Nat /\ at >= h.checkedAt /\ h.value \in Nat
  BY <1>3, LimitsAssumption DEF CheckCall, ReserveInv
<1>5. trades \in [TradeID -> TradeRow \cup {NoTrade}]
  BY DEF ReserveInv
<1>6. /\ trades'[n].state = "proposed" /\ trades'[n].createdAt = at /\ Price(trades[n])' = Price(h)
      /\ trades'[n] \in TradeRow
  BY <1>2, <1>3, <1>4, <1>5 DEF CheckCall, TradeRow, Price, TradeState
<1>7. \A t \in TradeID \ {n} : trades'[t] = trades[t]
  BY <1>2, <1>5
<1>8. trades' \in [TradeID -> TradeRow \cup {NoTrade}]
  BY <1>2, <1>5, <1>6
<1>9. TradeValue(n)' = h.value /\ \A t \in TradeID \ {n} : TradeValue(t)' = TradeValue(t)
  BY <1>3, <1>6, <1>7 DEF TradeValue, Worth, Price
<1>10. \A t \in TradeID : Exists(t)' => Price(trades[t])' \in Prices /\ TradeValue(t)' >= 0
  BY <1>3, <1>4, <1>6, <1>7, <1>9 DEF ReserveInv, Exists, Price
<1>11. ASSUME NEW q \in Proc PROVE CreateReserves(q)' /\ EventPending(q)'
  <2>1. CASE q = p
    <3>1. proc'[q] = Idle
      BY <1>1, <2>1 DEF SpendInv, Goto
    <3> QED
      BY <3>1 DEF CreateReserves, EventPending, Idle
  <2>2. CASE q # p
    <3>1. proc'[q] = proc[q]
      BY <1>1, <2>2 DEF SpendInv, Goto
    <3>2. CreateReserves(q) /\ EventPending(q)
      BY DEF ReserveInv
    <3>3. proc[q].pc \in {"caps", "rows", "write"} => proc[q].op # "create"
      BY <1>3, <2>2, <3>2 DEF CreateReserves
    <3> QED
      BY <3>1, <3>2, <3>3 DEF CreateReserves, EventPending
  <2> QED
    BY <2>1, <2>2
<1>12. ASSUME NEW t \in TradeID, Live(t)' PROVE WithinCeiling(Reserved(Together(t)))'
  <2> PICK T : T = Together(t)'
    OBVIOUS
  <2> DEFINE R == T \ {n}
  <2>1. T \subseteq TradeID /\ (\A u \in T : Exists(u)') /\ n \notin R
    BY DEF Together, Live
  <2>2. \A u \in R : u \in TradeID /\ Live(u) /\ Exists(u) /\ TradeValue(u)' = TradeValue(u)
                     /\ trades'[u] = trades[u] /\ trades[u].createdAt \in Nat
    BY <1>7, <1>9, RowFacts DEF Together, Live, Exists
  <2>3. R \in SUBSET {u \in TradeID : Exists(u)}
    BY <2>2
  <2>4. Reserved(R)' = Reserved(R)
    <3>1. [u \in R |-> TradeValue(u)'] = [u \in R |-> TradeValue(u)]
      BY <2>2
    <3> QED
      BY <3>1 DEF Reserved
  <2>5. Reserved(Together(t))' = Reserved(T)'
    BY DEF Reserved
  <2>6. CASE n \notin T
    <3>1. t # n
      BY <1>4, <1>6, <1>12, <2>6, SpendAssumption DEF Together
    <3>2. Live(t) /\ T = R /\ trades'[t] = trades[t]
      BY <1>7, <1>12, <2>6, <3>1 DEF Live, Exists
    <3>3. T = Together(t)
      BY <1>7, <2>2, <2>6, <3>2, <1>2 DEF Together, Live, Exists
    <3>4. WithinCeiling(Reserved(T))
      BY <3>2, <3>3, TogetherWithin DEF ReserveInv
    <3> QED
      BY <2>4, <2>5, <3>2, <3>4 DEF WithinCeiling
  <2>7. CASE n \in T
    <3> PICK S : S = LiveSince(h.checkedAt - Policy.window)
      OBVIOUS
    <3>1. R \subseteq S
      <4> SUFFICES ASSUME NEW u \in R PROVE u \in S
        OBVIOUS
      <4>1. /\ trades'[t].createdAt \in Nat
            /\ at <= trades'[t].createdAt
            /\ trades[u].createdAt >= trades'[t].createdAt - Policy.window
        <5>1. trades'[t] \in TradeRow
          BY <1>8, <1>12 DEF Live, Exists, NoTrade
        <5>2. trades'[t].createdAt \in Nat
          BY <5>1 DEF TradeRow
        <5>3. /\ trades'[n].createdAt \in (trades'[t].createdAt - Policy.window) .. trades'[t].createdAt
              /\ trades'[u].createdAt \in (trades'[t].createdAt - Policy.window) .. trades'[t].createdAt
          BY <2>7 DEF Together
        <5> QED
          BY <1>4, <1>6, <2>2, <5>2, <5>3, SpendAssumption
      <4>2. trades[u].createdAt >= h.checkedAt - Policy.window
        BY <1>4, <2>2, <4>1, SpendAssumption
      <4> QED
        BY <2>2, <4>2 DEF LiveSince
    <3>2. S \in SUBSET {u \in TradeID : Exists(u)}
      BY DEF LiveSince, Live
    <3>3. Reserved(R) \in Int /\ Reserved(S) \in Int /\ Reserved(R) <= Reserved(S)
      BY <3>1, <3>2, ReservedMonotone
    <3>4. Reserved(T)' = h.value + Reserved(R)'
      <4> DEFINE f == [u \in T |-> TradeValue(u)']
      <4>1. f \in [T -> Int]
        <5>1. \A u \in T : TradeValue(u)' \in Int
          <6>1. \A u \in R : TradeValue(u) \in Int
            BY <2>2, WorthInt DEF ReserveInv, TradeValue
          <6> QED
            BY <1>4, <1>9, <2>2, <6>1
        <5> QED
          BY <5>1
      <4>2. IsFiniteSet(T)
        BY <2>1, FS_Subset, SpendAssumption
      <4>3. f[n] = h.value
        BY <1>9, <2>7
      <4>4. [u \in T |-> f[u]] = [u \in T |-> TradeValue(u)'] /\ [u \in T \ {n} |-> f[u]] = [u \in R |-> TradeValue(u)']
        OBVIOUS
      <4>5. T \in SUBSET T
        OBVIOUS
      <4> HIDE DEF f
      <4>6. SumFunction([u \in T |-> f[u]]) = f[n] + SumFunction([u \in T \ {n} |-> f[u]])
        <5>1. PICK k : IsSumTable(k, T, f)
          BY <4>1, <4>2, SumTable
        <5>2. k[T] = f[n] + k[T \ {n}] /\ T \ {n} \in SUBSET T
          BY <2>7, <4>5, <5>1 DEF IsSumTable
        <5>3. SumFunction([u \in T |-> f[u]]) = k[T]
          BY <4>5, <5>1 DEF IsSumTable
        <5>4. SumFunction([u \in T \ {n} |-> f[u]]) = k[T \ {n}]
          BY <5>1, <5>2 DEF IsSumTable
        <5> QED
          BY <5>2, <5>3, <5>4
      <4> QED
        BY <4>3, <4>4, <4>6 DEF Reserved
    <3>5. WithinCeiling(h.value + Reserved(S))
      BY <1>3
    <3>6. WithinCeiling(h.value + Reserved(R))
      BY <1>4, <3>3, <3>5, WithinLess
    <3> QED
      BY <2>4, <2>5, <3>4, <3>6 DEF WithinCeiling
  <2> QED
    BY <2>6, <2>7
<1>13. ReservationsWithinCap'
  <2>1. (ReservationsWithinCap <=> \A t \in TradeID : Live(t) => WithinCeiling(Reserved(Together(t))))'
    BY TogetherWithin, PTL
  <2> QED
    BY <1>12, <2>1
<1> QED
  BY <1>1, <1>8, <1>10, <1>11, <1>13 DEF ReserveInv

\* A released trade stays released: canTransition answers no from there.
LEMMA MovedRows ==
  ASSUME ReserveInv, NEW t \in TradeID, trades[t].state \in TradeState \ releasedStates, NEW to \in TradeState,
         trades' = [trades EXCEPT ![t].state = to]
  PROVE  RowsKept
<1>1. trades \in [TradeID -> TradeRow \cup {NoTrade}] /\ Exists(t)
  BY DEF ReserveInv, Exists, TradeState
<1>2. trades[t] \in TradeRow
  BY <1>1, RowFacts
<1>3. trades'[t] = [trades[t] EXCEPT !.state = to] /\ \A u \in TradeID \ {t} : trades'[u] = trades[u]
  BY <1>1
<1>4. /\ trades'[t] \in TradeRow /\ trades'[t].state = to /\ trades'[t].amount = trades[t].amount
      /\ trades'[t].mint = trades[t].mint /\ trades'[t].createdAt = trades[t].createdAt
  BY <1>2, <1>3 DEF TradeRow
<1>5. trades' \in [TradeID -> TradeRow \cup {NoTrade}]
  BY <1>1, <1>4
<1>6. to # "none"
  BY DEF TradeState
<1>7. ASSUME NEW u \in TradeID
      PROVE  /\ Exists(u)' <=> Exists(u)
             /\ Exists(u) => /\ trades'[u].amount = trades[u].amount
                             /\ trades'[u].mint = trades[u].mint
                             /\ trades'[u].createdAt = trades[u].createdAt
             /\ Live(u)' => Live(u)
  <2>1. CASE u = t
    BY <1>1, <1>4, <1>6, <2>1 DEF Exists, Live
  <2>2. CASE u # t
    BY <1>3, <2>2 DEF Exists, Live
  <2> QED
    BY <2>1, <2>2
<1> QED
  BY <1>5, <1>7 DEF RowsKept

\* The move of a trade by Record or BuildSettlement.
LEMMA SetTradeStateReserves ==
  ASSUME SpendInv, ReserveInv, NEW p \in Proc, SetTradeState(p)
  PROVE  ReserveInv'
<1> PICK h : h = proc[p]
  OBVIOUS
<1> PICK to : to = IF h.op = "record" THEN "recorded" ELSE h.op
  OBVIOUS
<1> DEFINE g == [pc |-> "event", trade |-> h.trade, to |-> to]
<1>1. /\ h.pc = "write" /\ h.op # "create" /\ commits' = commits /\ now' = now /\ reserveMu' = reserveMu
      /\ \/ trades' = trades /\ Goto(p, Idle)
         \/ /\ trades[h.trade].state = "accepted"
            /\ trades' = [trades EXCEPT ![h.trade].state = to]
            /\ Goto(p, g)
  BY DEF SetTradeState
<1>2. h \in CheckCall /\ h.trade \in TradeID
  BY <1>1 DEF ReserveInv, CreateReserves
<1>3. to \in TradeState
  BY <1>1, <1>2 DEF CheckCall, TradeState
<1>4. CASE trades' = trades /\ Goto(p, Idle)
  BY <1>1, <1>4, ReserveReturn
<1>5. CASE /\ trades[h.trade].state = "accepted"
           /\ trades' = [trades EXCEPT ![h.trade].state = to] /\ Goto(p, g)
  <2>1. RowsKept
    <3>1. trades[h.trade].state \in TradeState \ releasedStates
      BY <1>5 DEF TradeState, releasedStates
    <3> QED
      BY <1>2, <1>3, <1>5, <3>1, MovedRows
  <2>2. proc'[p] = g /\ \A q \in Proc \ {p} : proc'[q] = proc[q]
    BY <1>5 DEF SpendInv, Goto
  <2>3. CreateReserves(p)' /\ EventPending(p)'
    BY <1>2, <1>3, <2>2 DEF CreateReserves, EventPending
  <2>4. now' \in Nat /\ commits' \in [TradeID -> SUBSET [to : TradeState, at : Nat]]
    BY <1>1 DEF ReserveInv
  <2> HIDE DEF g
  <2> QED
    BY <1>1, <2>1, <2>2, <2>3, <2>4, ReserveStep
<1> QED
  BY <1>1, <1>4, <1>5

\* The event that says when a trade engaged its buyer.
LEMMA AppendTradeEventReserves ==
  ASSUME SpendInv, ReserveInv, NEW p \in Proc, AppendTradeEvent(p)
  PROVE  ReserveInv'
<1> PICK h : h = proc[p]
  OBVIOUS
<1>1. /\ h.pc = "event" /\ Goto(p, Idle) /\ trades' = trades /\ now' = now /\ reserveMu' = reserveMu
      /\ commits' = [commits EXCEPT ![h.trade] = @ \cup {[to |-> h.to, at |-> now]}]
  BY DEF AppendTradeEvent
<1>2. [to |-> h.to, at |-> now] \in [to : TradeState, at : Nat]
  BY <1>1 DEF ReserveInv, EventPending
<1>3. commits' \in [TradeID -> SUBSET [to : TradeState, at : Nat]]
  BY <1>1, <1>2 DEF ReserveInv
<1>4. proc'[p] = Idle /\ \A q \in Proc \ {p} : proc'[q] = proc[q]
  BY <1>1 DEF SpendInv, Goto
<1>5. CreateReserves(p)' /\ EventPending(p)'
  BY <1>4 DEF CreateReserves, EventPending, Idle
<1>6. RowsKept /\ now' \in Nat
  BY <1>1, SameRows DEF ReserveInv
<1> QED
  BY <1>1, <1>3, <1>4, <1>5, <1>6, ReserveStep

\* The moves of other handlers.
LEMMA TradeMovesReserves ==
  ASSUME SpendInv, ReserveInv, NEW t \in TradeID, NEW to \in TradeState, TradeMoves(t, to)
  PROVE  ReserveInv'
<1>1. /\ Exists(t) /\ to \in transitions[trades[t].state]
      /\ trades' = [trades EXCEPT ![t].state = to]
      /\ now' = now /\ reserveMu' = reserveMu /\ proc' = proc
  BY DEF TradeMoves, canTransition
<1>2. trades[t].state \in TradeState
  BY <1>1, RowFacts DEF TradeRow
<1>3. trades[t].state \notin releasedStates
  BY <1>1, <1>2 DEF transitions, TradeState, releasedStates
<1>4. RowsKept
  BY <1>1, <1>2, <1>3, MovedRows
<1>5. commits' \in [TradeID -> SUBSET [to : TradeState, at : Nat]]
  <2>1. [to |-> to, at |-> now] \in [to : TradeState, at : Nat]
    BY DEF ReserveInv
  <2> PICK e \in [to : TradeState, at : Nat] : e = [to |-> to, at |-> now]
    BY <2>1
  <2>2. commits' = commits \/ commits' = [commits EXCEPT ![t] = @ \cup {e}]
    BY DEF TradeMoves
  <2> QED
    BY <2>2 DEF ReserveInv
<1>6. now' \in Nat
  BY <1>1 DEF ReserveInv
<1> QED
  BY <1>1, <1>4, <1>5, <1>6, ReserveStep

\* Every step keeps the reservations.
LEMMA ReserveNextInv == SpendInv /\ ReserveInv /\ [SpendNext]_spendVars => ReserveInv'
<1> SUFFICES ASSUME SpendInv, ReserveInv, [SpendNext]_spendVars PROVE ReserveInv'
  OBVIOUS
<1>1. ASSUME NEW p \in Proc, Abort(p) \/ RaiseLimits(p) PROVE ReserveInv'
  <2>1. /\ Goto(p, Idle) /\ trades' = trades /\ commits' = commits /\ now' = now
        /\ reserveMu' = reserveMu \/ Unlock(p)
    BY <1>1 DEF Abort, Refuse, RaiseLimits
  <2> QED
    BY <2>1, ReserveReturn
<1>2. ASSUME NEW p \in Proc, handlePutLimits(p) PROVE ReserveInv'
  <2>1. /\ trades' = trades /\ commits' = commits /\ now' = now /\ reserveMu' = reserveMu
        /\ \E wanted : Goto(p, [pc |-> "raise", caps |-> wanted])
    BY <1>2 DEF handlePutLimits
  <2> PICK wanted : Goto(p, [pc |-> "raise", caps |-> wanted])
    BY <2>1
  <2> DEFINE g == [pc |-> "raise", caps |-> wanted]
  <2>2. ASSUME proc'[p] = g PROVE CreateReserves(p)' /\ EventPending(p)'
    BY <2>2 DEF CreateReserves, EventPending
  <2> HIDE DEF g
  <2> QED
    BY <2>1, <2>2, ReserveGoto DEF g
<1>3. CASE Tick
  <2>1. /\ trades' = trades /\ commits' = commits /\ reserveMu' = reserveMu /\ proc' = proc
        /\ now' = now + 1
    BY <1>3 DEF Tick
  <2>2. now' \in Nat /\ commits' \in [TradeID -> SUBSET [to : TradeState, at : Nat]] /\ RowsKept
    BY <2>1, SameRows DEF ReserveInv
  <2> QED
    BY <2>1, <2>2, ReserveStep
<1>4. CASE UNCHANGED spendVars
  <2>1. /\ trades' = trades /\ commits' = commits /\ reserveMu' = reserveMu /\ proc' = proc
        /\ now' = now
    BY <1>4 DEF spendVars
  <2>2. now' \in Nat /\ commits' \in [TradeID -> SUBSET [to : TradeState, at : Nat]] /\ RowsKept
    BY <2>1, SameRows DEF ReserveInv
  <2> QED
    BY <2>1, <2>2, ReserveStep
<1> QED
  BY <1>1, <1>2, <1>3, <1>4, checkTradeReserves, checkDayReserves, CreateTradeReserves,
     SetTradeStateReserves, AppendTradeEventReserves, TradeMovesReserves, BeginReserves DEF SpendNext

\* The invariant of the reservations holds, for any trades, prices and handlers
\* (Create under its mutex, checkSpend, CommittedSpendSince).
THEOREM ReserveInvariant == SpendSpec => []ReserveInv
<1>1. SpendInit => ReserveInv
  <2> SUFFICES ASSUME SpendInit PROVE ReserveInv
    OBVIOUS
  <2>1. now \in Nat /\ commits \in [TradeID -> SUBSET [to : TradeState, at : Nat]]
    BY SpendAssumption DEF SpendInit
  <2>2. trades \in [TradeID -> TradeRow \cup {NoTrade}] /\ \A t \in TradeID : ~Exists(t)
    BY DEF SpendInit, Exists, NoTrade
  <2>3. \A p \in Proc : CreateReserves(p) /\ EventPending(p)
    BY DEF SpendInit, CreateReserves, EventPending, Idle
  <2>4. ReservationsWithinCap
    BY <2>2 DEF ReservationsWithinCap
  <2> QED
    BY <2>1, <2>2, <2>3, <2>4 DEF ReserveInv
<1> QED
  BY <1>1, SpendInvariant, ReserveNextInv, PTL DEF SpendSpec

\* The live trades of any window are worth no more than the day's ceiling, however
\* creates, events, checks and raises overlap (checkSpend, reserveMu).
THEOREM ReservationsStayWithinCap == SpendSpec => []ReservationsWithinCap
<1>1. ReserveInv => ReservationsWithinCap
  BY DEF ReserveInv
<1> QED
  BY <1>1, ReserveInvariant, PTL
=============================================================================
