------------------------------ MODULE TradeProof ------------------------------
(***************************************************************************)
(* The safety of the off-chain trade service for any set of handlers, any  *)
(* deadlines, any clock and any number of aborts: TradeInv is inductive,   *)
(* the service implements the contract of module TradeContract, and an     *)
(* acceptance holds until its deadline.                                    *)
(***************************************************************************)
EXTENDS Trade, TLAPS

\* A handler in flight, as TradeTypeOK types it.
HandlerType ==
  [ op : Op, pc : Pc, agent : Party, seen : TradeState, to : TradeState,
    event : EventType, listed : Nat, current : Nat,
    signature : Sigs \cup { NoSig } ]

\* The states that only an accepted trade can reach.
Agreed == { "accepted", "settlement_pending", "recorded", "settled", "disputed",
            "resolved" }

\* Nothing leads out of a booked trade.
LEMMA BookedIsFinal ==
  ASSUME NEW from \in TradeState, NEW to, canTransition(from, to)
  PROVE  from \notin { "recorded", "settled" } /\ to \in TradeState
BY DEF canTransition, transitions, TradeState

\* Acceptance is the only way into the agreed states.
LEMMA AcceptanceIsTheGate ==
  ASSUME NEW from \in TradeState, NEW to \in Agreed, canTransition(from, to)
  PROVE  to = "accepted" \/ from \in Agreed
BY DEF canTransition, transitions, TradeState, Agreed

\* A sequence that holds something is not the empty one.
LEMMA EmptyIsEmpty == \A s : s = << >> => Len(s) = 0
OBVIOUS

\* A row appended to a table.
LEMMA AppendRow ==
  ASSUME NEW S, NEW s \in Seq(S), NEW x \in S
  PROVE  /\ Append(s, x) \in Seq(S)
         /\ Append(s, x) # << >>
         /\ s = << >> => Append(s, x)[1] = x
<1>1. /\ Append(s, x) \in Seq(S) /\ Len(Append(s, x)) = Len(s) + 1 /\ Len(s) \in Nat
      /\ Append(s, x)[Len(s) + 1] = x
  OBVIOUS
<1>2. Append(s, x) # << >>
  BY <1>1, EmptyIsEmpty
<1>3. s = << >> => Len(s) = 0
  OBVIOUS
<1> QED
  BY <1>1, <1>2, <1>3

\* An idle handler, and one just begun, have their type.
LEMMA HandlerTypes ==
  ASSUME trade.state \in TradeState
  PROVE  /\ Idle \in HandlerType /\ Idle.pc = "idle"
         /\ \A op \in Op, pc \in Pc :
              /\ Handler(op, pc) \in HandlerType
              /\ Handler(op, pc).pc = pc
              /\ Handler(op, pc).seen = trade.state
BY DEF Idle, Handler, HandlerType, Party, TradeState, EventType, Op, Pc

\* So has one about to apply a transition.
LEMMA ApplyingType ==
  ASSUME NEW h \in HandlerType, NEW to \in TradeState, NEW event \in EventType
  PROVE  /\ Applying(h, to, event) \in HandlerType
         /\ Applying(h, to, event).pc = "set_state"
         /\ Applying(h, to, event).seen = h.seen
         /\ Applying(h, to, event).to = to
BY DEF Applying, HandlerType, Pc

\* The invariant holds of a freshly proposed trade.
LEMMA TradeInitInv == ASSUME TradeInit PROVE TradeInv
<1> DEFINE Event == [ type : EventType, from : TradeState \cup { "" }, to : TradeState ]
           e == [ type |-> "proposed", from |-> "", to |-> "proposed" ]
<1>n. /\ now = 1 /\ trade = [ state |-> "proposed", updatedAt |-> 1 ]
      /\ acceptances = [ a \in Party |-> 0 ] /\ events = << e >> /\ offer = "open"
      /\ requests = << >> /\ entries = << >> /\ receipts = << >>
      /\ proc = [ p \in Procs |-> Idle ] /\ aborts = 0
  BY DEF TradeInit, StoreInit
<1>e. e \in Event
  BY DEF TradeState, EventType
<1> HIDE DEF e
<1>1. trade.state = "proposed" /\ trade.state \in TradeState
  BY <1>n DEF TradeState
<1>2. \A p \in Procs : proc[p] = Idle /\ proc[p].pc = "idle"
  BY <1>n, <1>1, HandlerTypes
<1>3. StoreType
  <2>1. trade \in [ state : TradeState, updatedAt : Nat ] /\ acceptances \in [ Party -> Nat ]
    BY <1>n DEF TradeState
  <2>2. ASSUME NEW S, NEW x \in S PROVE << x >> \in Seq(S)
    BY <2>2
  <2>3. events \in Seq(Event)
    BY <1>n, <1>e, <2>2, Zenon
  <2>4. \A S : << >> \in Seq(S)
    OBVIOUS
  <2>5. requests \in Seq(Request) /\ entries \in Seq([ state : TradeState ])
        /\ receipts \in Seq(Receipt)
    BY <1>n, <2>4, Zenon
  <2>6. now \in Nat \ {0} /\ offer \in { "open", "closed" }
    BY <1>n
  <2> QED
    BY <2>1, <2>3, <2>5, <2>6 DEF StoreType
<1>4. TradeTypeOK
  BY <1>n, <1>1, <1>3, HandlerTypes DEF TradeTypeOK, HandlerType
<1>5. BothAgreed /\ EntryMatchesOutcome /\ TesseraAnchored /\ HandlerInv
  BY <1>n, <1>1, <1>2 DEF BothAgreed, EntryMatchesOutcome, TesseraAnchored, HandlerInv, At
<1> QED
  BY <1>4, <1>5 DEF TradeInv

\* Where a handler that writes neither the trade nor its books can go.
Quiet(h) ==
  \/ h.pc \in { "idle", "accept", "count", "event", "reread", "create", "list", "sign",
               "fetch", "last_fetch", "withdraw", "confirm", "supersede", "reconcile", "lapse" }
  \/ h.pc \in { "live", "deadline" } /\ canTransition(h.seen, "cancelled")
  \/ /\ h.pc = "set_state"
     /\ canTransition(h.seen, h.to)
     /\ h.to = "accepted" => tradeAcceptances = Party
  \/ /\ h.pc = "append"
     /\ trade.state = h.seen
     /\ h.seen \in { "recorded", "settled" }

\* A step of one handler that leaves the trade and its books alone.
LEMMA TradeQuiet ==
  ASSUME TradeInv,
         UNCHANGED << trade, entries, receipts, offer >>,
         StoreType', aborts' \in Nat,
         tradeAcceptances \subseteq tradeAcceptances',
         NEW p \in Procs, NEW h \in HandlerType,
         proc' = [ proc EXCEPT ![p] = h ],
         Quiet(h)
  PROVE  TradeInv'
<1>t. proc \in [ Procs -> HandlerType ] /\ h.pc \in Pc
  BY DEF TradeInv, TradeTypeOK, HandlerType
<1>p. /\ proc' \in [ Procs -> HandlerType ] /\ proc'[p] = h
      /\ \A q \in Procs : q # p => proc'[q] = proc[q]
  BY <1>t
<1>a. tradeAcceptances' \subseteq Party
  BY DEF tradeAcceptances, Party
<1>b. tradeAcceptances = Party => tradeAcceptances' = Party
  BY <1>a DEF tradeAcceptances, Party
<1>1. TradeTypeOK'
  BY <1>p DEF TradeTypeOK, HandlerType
<1>2. BothAgreed'
  BY <1>b DEF TradeInv, BothAgreed
<1>3. EntryMatchesOutcome'
  BY DEF TradeInv, EntryMatchesOutcome
<1>4. \A q \in Procs : proc'[q].pc \in { "receipt", "close" } => proc'[q] = proc[q]
  BY <1>p DEF Quiet
<1>5. TesseraAnchored'
  BY <1>4 DEF TradeInv, TesseraAnchored, At
<1>6. HandlerInv'
  <2> SUFFICES ASSUME NEW q \in Procs
      PROVE /\ proc'[q].pc = "set_state" =>
                 /\ canTransition(proc'[q].seen, proc'[q].to)
                 /\ proc'[q].to = "accepted" => tradeAcceptances' = Party
            /\ proc'[q].pc \in { "live", "deadline" } => canTransition(proc'[q].seen, "cancelled")
            /\ proc'[q].pc = "append" => /\ trade.state = proc'[q].seen
                                         /\ proc'[q].seen \in { "recorded", "settled" }
            /\ proc'[q].pc = "receipt" => \A o \in Procs : proc'[o].pc = "receipt" => o = q
            /\ proc'[q].pc = "close" => receipts # << >>
    BY DEF HandlerInv, At, canTransition, transitions, Party
  <2>1. CASE q = p
    BY <2>1, <1>p, <1>b DEF Quiet
  <2>2. CASE q # p
    BY <2>2, <1>p, <1>b, <1>4 DEF TradeInv, HandlerInv, At
  <2> QED
    BY <2>1, <2>2
<1> QED
  BY <1>1, <1>2, <1>3, <1>5, <1>6 DEF TradeInv

\* A step that only moves one handler on.
LEMMA TradeRead ==
  ASSUME TradeInv, UNCHANGED << now, db, aborts >>,
         NEW p \in Procs, NEW h \in HandlerType,
         proc' = [ proc EXCEPT ![p] = h ], Quiet(h)
  PROVE  TradeInv'
<1>1. StoreType' /\ aborts' \in Nat
  BY DEF TradeInv, TradeTypeOK, StoreType, db
<1>2. tradeAcceptances \subseteq tradeAcceptances'
  BY DEF tradeAcceptances, db
<1> QED
  BY <1>1, <1>2, TradeQuiet DEF db

\* The rows of the transitions table the handlers name.
LEMMA Table ==
  /\ canTransition("proposed", "negotiating") /\ canTransition("disputed", "resolved")
  /\ \A s \in { "proposed", "negotiating", "accepted" } : canTransition(s, "cancelled")
BY DEF canTransition, transitions, TradeState

\* A handler that moves on to another statement keeps everything else.
LEMMA GotoType ==
  ASSUME NEW h \in HandlerType, NEW pc \in Pc
  PROVE  /\ [ h EXCEPT !.pc = pc ] \in HandlerType
         /\ [ h EXCEPT !.pc = pc ].pc = pc
         /\ [ h EXCEPT !.pc = pc ].seen = h.seen
         /\ [ h EXCEPT !.pc = pc ].to = h.to
BY DEF HandlerType

\* Every call a party, the operator or the sweeper begins keeps the invariant.
LEMMA TradeBeginInv ==
  ASSUME TradeInv, NEW p \in Procs, TradeCall(p) \/ Sweep(p)
  PROVE  TradeInv'
<1>t. trade.state \in TradeState
  BY DEF TradeInv, TradeTypeOK, StoreType
<1>c. "cancelled" \in TradeState /\ "negotiating" \in TradeState /\ "disputed" \in TradeState
      /\ "resolved" \in TradeState /\ "recorded" \in TradeState /\ "expired" \in EventType
      /\ TradeState \subseteq EventType
  BY DEF TradeState, EventType
<1>o. /\ "set_state" \in Pc /\ "accept" \in Pc /\ "live" \in Pc
      /\ { "negotiate", "accept", "cancel", "dispute", "resolve", "record", "sweep" } \subseteq Op
  BY DEF Pc, Op
<1>1. ASSUME NEW op \in Op, NEW to \in TradeState, NEW event \in EventType,
             canTransition(trade.state, to), to # "accepted",
             Begin(p, Applying(Handler(op, "set_state"), to, event)),
             UNCHANGED << now, db, aborts >>
      PROVE  TradeInv'
  <2> DEFINE h == Applying(Handler(op, "set_state"), to, event)
  <2>1. Handler(op, "set_state") \in HandlerType /\ Handler(op, "set_state").seen = trade.state
    BY <1>1, <1>t, <1>o, HandlerTypes
  <2>2. h \in HandlerType /\ h.pc = "set_state" /\ h.seen = trade.state /\ h.to = to
    BY <1>1, <2>1, ApplyingType
  <2>3. proc' = [ proc EXCEPT ![p] = h ]
    BY <1>1 DEF Begin
  <2> HIDE DEF h
  <2>4. Quiet(h)
    BY <1>1, <2>2 DEF Quiet
  <2> QED
    BY <1>1, <2>2, <2>3, <2>4, TradeRead
<1>2. CASE BeginNegotiation(p)
  BY <1>1, <1>2, <1>c, <1>o, Table DEF BeginNegotiation
<1>3. CASE Dispute(p)
  BY <1>1, <1>3, <1>c, <1>o DEF Dispute
<1>4. CASE Resolve(p)
  BY <1>1, <1>4, <1>c, <1>o, Table DEF Resolve
<1>5. CASE Record(p)
  BY <1>1, <1>5, <1>c, <1>o DEF Record
<1>6. CASE ExpireAccepted(p) \/ ExpireOpen(p)
  BY <1>1, <1>6, <1>c, <1>o, Table DEF ExpireAccepted, ExpireOpen
<1>7. CASE Cancel(p)
  <2> DEFINE h == Handler("cancel", "live")
  <2>1. h \in HandlerType /\ h.pc = "live" /\ h.seen = trade.state
    BY <1>t, <1>o, HandlerTypes
  <2>2. /\ proc' = [ proc EXCEPT ![p] = h ] /\ UNCHANGED << now, db, aborts >>
        /\ canTransition(trade.state, "cancelled")
    BY <1>7 DEF Cancel, Begin
  <2> HIDE DEF h
  <2>3. Quiet(h)
    BY <2>1, <2>2 DEF Quiet
  <2> QED
    BY <2>1, <2>2, <2>3, TradeRead
<1>8. ASSUME NEW agent \in Party, Accept(p, agent) PROVE TradeInv'
  <2> DEFINE g == Handler("accept", "accept")
             h == [ g EXCEPT !.agent = agent ]
  <2>1. g \in HandlerType /\ g.pc = "accept"
    BY <1>t, <1>o, HandlerTypes
  <2>2. proc' = [ proc EXCEPT ![p] = h ] /\ UNCHANGED << now, db, aborts >>
    BY <1>8 DEF Accept, Begin
  <2> HIDE DEF g
  <2>3. h \in HandlerType /\ h.pc = "accept"
    BY <2>1, <1>8 DEF HandlerType
  <2> HIDE DEF h
  <2>4. Quiet(h)
    BY <2>3 DEF Quiet
  <2> QED
    BY <2>2, <2>3, <2>4, TradeRead
<1> QED
  BY <1>2, <1>3, <1>4, <1>5, <1>6, <1>7, <1>8 DEF TradeCall, Sweep

\* The compare-and-set of applyAs.
LEMMA applyAsInv ==
  ASSUME TradeInv, NEW p \in Procs, applyAs(p)
  PROVE  TradeInv'
<1>t. /\ proc \in [ Procs -> HandlerType ] /\ proc[p] \in HandlerType
      /\ proc[p].to \in TradeState /\ proc[p].seen \in TradeState /\ now \in Nat
  BY DEF TradeInv, TradeTypeOK, StoreType, HandlerType
<1>o. "event" \in Pc /\ "reread" \in Pc
  BY DEF Pc
<1>1. CASE trade.state # proc[p].seen
  <2> DEFINE h == [ proc[p] EXCEPT !.pc = "reread" ]
  <2>1. h \in HandlerType /\ h.pc = "reread"
    BY <1>t, <1>o, GotoType
  <2>2. proc' = [ proc EXCEPT ![p] = h ] /\ UNCHANGED << now, db, aborts >>
    BY <1>1, <1>t DEF applyAs, SetTradeState, Goto, db
  <2> HIDE DEF h
  <2>3. Quiet(h)
    BY <2>1 DEF Quiet
  <2> QED
    BY <2>1, <2>2, <2>3, TradeRead
<1>2. CASE trade.state = proc[p].seen
  <2> DEFINE h == [ proc[p] EXCEPT !.pc = "event" ]
  <2>1. h \in HandlerType /\ h.pc = "event"
    BY <1>t, <1>o, GotoType
  <2>n. /\ proc' = [ proc EXCEPT ![p] = h ]
        /\ trade' = [ state |-> proc[p].to, updatedAt |-> now ]
        /\ UNCHANGED << now, acceptances, events, requests, entries, receipts, offer, aborts >>
    BY <1>2, <1>t DEF applyAs, Goto, SetTradeState
  <2> HIDE DEF h
  <2>p. /\ proc' \in [ Procs -> HandlerType ] /\ proc'[p].pc = "event"
        /\ \A q \in Procs : q # p => proc'[q] = proc[q]
    BY <1>t, <2>1, <2>n
  <2>c. /\ canTransition(trade.state, proc[p].to)
        /\ proc[p].to = "accepted" => tradeAcceptances = Party
    BY <1>2 DEF applyAs, TradeInv, HandlerInv
  <2>f. trade.state \notin { "recorded", "settled" } /\ entries = << >>
    BY <1>2, <1>t, <2>c, BookedIsFinal DEF TradeInv, EntryMatchesOutcome
  <2>2. TradeTypeOK'
    BY <1>t, <2>n, <2>p DEF TradeInv, TradeTypeOK, StoreType, HandlerType
  <2>3. BothAgreed'
    <3>1. tradeAcceptances' = tradeAcceptances
      BY <2>n DEF tradeAcceptances
    <3>2. proc[p].to \in Agreed => proc[p].to = "accepted" \/ trade.state \in Agreed
      BY <1>2, <1>t, <2>c, AcceptanceIsTheGate
    <3> QED
      BY <2>n, <2>c, <3>1, <3>2 DEF TradeInv, BothAgreed, Agreed
  <2>4. EntryMatchesOutcome'
    BY <2>n, <2>f DEF EntryMatchesOutcome
  <2>5. TesseraAnchored'
    BY <2>n, <2>p DEF TradeInv, TesseraAnchored, At
  <2>6. HandlerInv'
    <3>1. tradeAcceptances' = tradeAcceptances
      BY <2>n DEF tradeAcceptances
    <3>2. \A q \in Procs : proc'[q].pc # "append"
      BY <2>p, <2>f DEF TradeInv, HandlerInv, At
    <3> QED
      BY <2>n, <2>p, <3>1, <3>2 DEF TradeInv, HandlerInv, At, canTransition, transitions, Party
  <2> QED
    BY <2>2, <2>3, <2>4, <2>5, <2>6 DEF TradeInv
<1> QED
  BY <1>1, <1>2

\* Statements that write an event or an acceptance, or only read.
LEMMA TradeReadStepsInv ==
  ASSUME TradeInv, NEW p \in Procs,
         \/ appendEvent(p) \/ reread(p) \/ acceptInsert(p) \/ acceptCount(p)
         \/ cancelLive(p) \/ cancelDeadline(p) \/ Abort(p)
  PROVE  TradeInv'
<1>t. /\ StoreType /\ aborts \in Nat /\ trade.state \in TradeState
      /\ proc \in [ Procs -> HandlerType ] /\ proc[p] \in HandlerType
      /\ proc[p].seen \in TradeState /\ proc[p].to \in TradeState
      /\ proc[p].event \in EventType /\ proc[p].agent \in Party
  BY DEF TradeInv, TradeTypeOK, StoreType, HandlerType
<1>o. { "reread", "count", "deadline", "append" } \subseteq Pc
      /\ "cancelled" \in TradeState /\ "accepted" \in TradeState /\ TradeState \subseteq EventType
  BY DEF Pc, TradeState, EventType
<1>i. Idle \in HandlerType /\ Quiet(Idle)
  BY <1>t, HandlerTypes DEF Quiet
<1>r. ASSUME Return(p), UNCHANGED << now, db >>, aborts' \in Nat PROVE TradeInv'
  <2>1. StoreType' /\ tradeAcceptances \subseteq tradeAcceptances'
    BY <1>t, <1>r DEF StoreType, tradeAcceptances, db
  <2> QED
    BY <1>r, <1>i, <2>1, TradeQuiet DEF Return, db
<1>a. ASSUME NEW g \in HandlerType, g.seen \in TradeState, NEW to \in TradeState,
             canTransition(g.seen, to), to = "accepted" => tradeAcceptances = Party,
             Continue(p, Applying(g, to, to)), UNCHANGED << now, db, aborts >>
      PROVE  TradeInv'
  <2> DEFINE h == Applying(g, to, to)
  <2>1. h \in HandlerType /\ h.pc = "set_state" /\ h.seen = g.seen /\ h.to = to
    BY <1>a, <1>o, ApplyingType
  <2>2. proc' = [ proc EXCEPT ![p] = h ]
    BY <1>a DEF Continue
  <2> HIDE DEF h
  <2>3. Quiet(h)
    BY <1>a, <2>1 DEF Quiet
  <2> QED
    BY <1>a, <2>1, <2>2, <2>3, TradeRead
<1>1. CASE appendEvent(p)
  <2> DEFINE h == [ proc[p] EXCEPT !.pc = "reread" ]
             Event == [ type : EventType, from : TradeState \cup { "" }, to : TradeState ]
             e == [ type |-> proc[p].event, from |-> proc[p].seen, to |-> proc[p].to ]
  <2>1. h \in HandlerType /\ h.pc = "reread"
    BY <1>t, <1>o, GotoType
  <2>2. /\ proc' = [ proc EXCEPT ![p] = h ] /\ events' = Append(events, e)
        /\ UNCHANGED << now, trade, acceptances, requests, entries, receipts, offer, aborts >>
    BY <1>1, <1>t DEF appendEvent, Goto, AppendTradeEvent
  <2>3. e \in Event
    BY <1>t
  <2>s. events \in Seq(Event)
    BY <1>t DEF StoreType
  <2> HIDE DEF h, e, Event
  <2>4. events' \in Seq(Event)
    BY <2>s, <2>2, <2>3
  <2>5. StoreType'
    BY <1>t, <2>2, <2>4 DEF StoreType, Event
  <2>6. tradeAcceptances \subseteq tradeAcceptances' /\ Quiet(h)
    BY <2>1, <2>2 DEF tradeAcceptances, Quiet
  <2> QED
    BY <1>t, <2>1, <2>2, <2>5, <2>6, TradeQuiet
<1>2. CASE reread(p)
  <2>1. CASE Return(p)
    BY <1>2, <2>1, <1>r, <1>t DEF reread
  <2>2. CASE ~ Return(p)
    <3> DEFINE h == [ proc[p] EXCEPT !.pc = "append", !.seen = trade.state ]
    <3>1. h \in HandlerType /\ h.pc = "append" /\ h.seen = trade.state
      BY <1>t, <1>o DEF HandlerType
    <3>2. /\ proc' = [ proc EXCEPT ![p] = h ] /\ UNCHANGED << now, db, aborts >>
          /\ trade.state \in { "recorded", "settled" }
      BY <1>2, <2>2 DEF reread, Continue
    <3> HIDE DEF h
    <3>3. Quiet(h)
      BY <3>1, <3>2 DEF Quiet
    <3> QED
      BY <3>1, <3>2, <3>3, TradeRead
  <2> QED
    BY <2>1, <2>2
<1>3. CASE acceptInsert(p)
  <2>1. CASE AddTradeAcceptance(proc[p].agent) /\ Goto(p, "count")
    <3> DEFINE h == [ proc[p] EXCEPT !.pc = "count" ]
    <3>1. h \in HandlerType /\ h.pc = "count"
      BY <1>t, <1>o, GotoType
    <3>2. /\ proc' = [ proc EXCEPT ![p] = h ]
          /\ acceptances' = [ acceptances EXCEPT ![proc[p].agent] = now ]
          /\ UNCHANGED << now, trade, events, requests, entries, receipts, offer, aborts >>
      BY <1>3, <2>1, <1>t DEF acceptInsert, Goto, AddTradeAcceptance
    <3> HIDE DEF h
    <3>3. StoreType'
      BY <1>t, <3>2 DEF StoreType
    <3>4. tradeAcceptances \subseteq tradeAcceptances'
      BY <1>t, <3>2 DEF StoreType, tradeAcceptances
    <3>5. Quiet(h)
      BY <3>1 DEF Quiet
    <3> QED
      BY <1>t, <3>1, <3>2, <3>3, <3>4, <3>5, TradeQuiet
  <2>2. CASE Return(p) /\ UNCHANGED acceptances
    BY <1>3, <2>2, <1>r, <1>t DEF acceptInsert, db
  <2> QED
    BY <1>3, <2>1, <2>2 DEF acceptInsert
<1>4. CASE acceptCount(p)
  <2> DEFINE g == [ proc[p] EXCEPT !.seen = trade.state ]
  <2>1. g \in HandlerType /\ g.seen = trade.state
    BY <1>t DEF HandlerType
  <2> HIDE DEF g
  <2>2. CASE Return(p)
    BY <1>4, <2>2, <1>r, <1>t DEF acceptCount
  <2>3. CASE /\ tradeAcceptances = Party /\ canTransition(trade.state, "accepted")
             /\ Continue(p, Applying(g, "accepted", "accepted"))
    BY <1>4, <2>1, <2>3, <1>a, <1>t, <1>o DEF acceptCount
  <2> QED
    BY <1>4, <2>2, <2>3 DEF acceptCount, g
<1>5. CASE cancelLive(p)
  <2>1. canTransition(proc[p].seen, "cancelled")
    BY <1>5 DEF cancelLive, At, TradeInv, HandlerInv
  <2>2. CASE Return(p)
    BY <1>5, <2>2, <1>r, <1>t DEF cancelLive
  <2>3. CASE Goto(p, "deadline")
    <3> DEFINE h == [ proc[p] EXCEPT !.pc = "deadline" ]
    <3>1. h \in HandlerType /\ h.pc = "deadline" /\ h.seen = proc[p].seen
      BY <1>t, <1>o, GotoType
    <3>2. proc' = [ proc EXCEPT ![p] = h ] /\ UNCHANGED << now, db, aborts >>
      BY <1>5, <2>3, <1>t DEF cancelLive, Goto
    <3> HIDE DEF h
    <3>3. Quiet(h)
      BY <2>1, <3>1 DEF Quiet
    <3> QED
      BY <3>1, <3>2, <3>3, TradeRead
  <2>4. CASE Continue(p, Applying(proc[p], "cancelled", "cancelled"))
    BY <1>5, <2>1, <2>4, <1>a, <1>t, <1>o DEF cancelLive
  <2> QED
    BY <1>5, <2>2, <2>3, <2>4 DEF cancelLive
<1>6. CASE cancelDeadline(p)
  <2>1. canTransition(proc[p].seen, "cancelled")
    BY <1>6 DEF cancelDeadline, At, TradeInv, HandlerInv
  <2>2. CASE Return(p)
    BY <1>6, <2>2, <1>r, <1>t DEF cancelDeadline
  <2>3. CASE Continue(p, Applying(proc[p], "cancelled", "cancelled"))
    BY <1>6, <2>1, <2>3, <1>a, <1>t, <1>o DEF cancelDeadline
  <2> QED
    BY <1>6, <2>2, <2>3 DEF cancelDeadline
<1>7. CASE Abort(p)
  BY <1>7, <1>r, <1>t DEF Abort
<1> QED
  BY <1>1, <1>2, <1>3, <1>4, <1>5, <1>6, <1>7

\* The handler that reaches the ledger first writes the one entry.
LEMMA ledgerAppendInv ==
  ASSUME TradeInv, NEW p \in Procs, ledgerAppend(p)
  PROVE  TradeInv'
<1>t. /\ StoreType /\ aborts \in Nat /\ trade.state \in TradeState
      /\ proc \in [ Procs -> HandlerType ] /\ proc[p] \in HandlerType
      /\ proc[p].seen \in TradeState
  BY DEF TradeInv, TradeTypeOK, StoreType, HandlerType
<1>1. CASE Return(p) /\ UNCHANGED entries
  <2>1. UNCHANGED << now, db, aborts >> /\ proc' = [ proc EXCEPT ![p] = Idle ]
    BY <1>1 DEF ledgerAppend, Return, db
  <2>2. Idle \in HandlerType /\ Quiet(Idle)
    BY <1>t, HandlerTypes DEF Quiet
  <2> QED
    BY <2>1, <2>2, TradeRead
<1>2. CASE AppendLedgerEntry(proc[p].seen) /\ Goto(p, "receipt")
  <2> DEFINE h == [ proc[p] EXCEPT !.pc = "receipt" ]
             e == [ state |-> proc[p].seen ]
  <2>1. h \in HandlerType /\ h.pc = "receipt"
    BY <1>t, GotoType DEF Pc
  <2>n. /\ proc' = [ proc EXCEPT ![p] = h ]
        /\ entries = << >> /\ entries' = Append(entries, e)
        /\ UNCHANGED << now, trade, acceptances, events, requests, receipts, offer, aborts >>
    BY <1>2, <1>t DEF ledgerAppend, AppendLedgerEntry, Goto
  <2> HIDE DEF h
  <2>p. /\ proc' \in [ Procs -> HandlerType ] /\ proc'[p].pc = "receipt"
        /\ \A q \in Procs : q # p => proc'[q] = proc[q]
    BY <1>t, <2>1, <2>n
  <2>e. /\ entries' \in Seq([ state : TradeState ]) /\ entries' # << >>
        /\ entries'[1].state = proc[p].seen
    <3>1. e \in [ state : TradeState ] /\ e.state = proc[p].seen
      BY <1>t
    <3> HIDE DEF e
    <3>2. entries \in Seq([ state : TradeState ]) /\ Len(entries) = 0
      BY <1>t, <2>n DEF StoreType
    <3>3. entries' \in Seq([ state : TradeState ]) /\ Len(entries') = 1 /\ entries'[1] = e
      BY <2>n, <3>1, <3>2
    <3>4. entries' # << >>
      BY <3>3, EmptyIsEmpty
    <3>5. entries'[1].state = proc[p].seen
      BY <3>1, <3>3
    <3> QED
      BY <3>3, <3>4, <3>5
  <2>s. trade.state = proc[p].seen /\ proc[p].seen \in { "recorded", "settled" }
    BY DEF TradeInv, HandlerInv, ledgerAppend
  <2>r. receipts = << >> /\ \A q \in Procs : proc[q].pc # "receipt"
    BY <2>n DEF TradeInv, TesseraAnchored, At
  <2>a. tradeAcceptances' = tradeAcceptances
    BY <2>n DEF tradeAcceptances
  <2>2. TradeTypeOK'
    BY <1>t, <2>n, <2>p, <2>e DEF TradeTypeOK, StoreType, HandlerType
  <2>3. BothAgreed' /\ EntryMatchesOutcome'
    BY <2>n, <2>a, <2>e, <2>s DEF TradeInv, BothAgreed, EntryMatchesOutcome
  <2>4. TesseraAnchored'
    BY <2>n, <2>p, <2>e, <2>r DEF TradeInv, TesseraAnchored, At
  <2>5. HandlerInv'
    BY <2>n, <2>p, <2>r, <2>a
    DEF TradeInv, HandlerInv, At, canTransition, transitions, Party
  <2> QED
    BY <2>2, <2>3, <2>4, <2>5 DEF TradeInv
<1> QED
  BY <1>1, <1>2 DEF ledgerAppend

\* A tessera, with whatever signature and cluster it names.
LEMMA ReceiptInv ==
  ASSUME TradeInv, NEW p \in Procs, At(p, "receipt"), Goto(p, "close"),
         NEW sig \in Sigs \cup { NoSig }, NEW c \in Clusters \cup { "" },
         SaveReceipt(proc[p].seen, sig, c),
         UNCHANGED << now, trade, acceptances, events, requests, entries, offer, aborts >>
  PROVE  TradeInv'
<1>t. /\ StoreType /\ aborts \in Nat /\ trade.state \in TradeState
      /\ proc \in [ Procs -> HandlerType ] /\ proc[p] \in HandlerType
      /\ proc[p].seen \in TradeState
  BY DEF TradeInv, TradeTypeOK, StoreType, HandlerType
<1> DEFINE h == [ proc[p] EXCEPT !.pc = "close" ]
           x == [ state |-> proc[p].seen, signature |-> sig, cluster |-> c ]
<1>1. h \in HandlerType /\ h.pc = "close"
  BY <1>t, GotoType DEF Pc
<1>n. /\ proc' = [ proc EXCEPT ![p] = h ] /\ proc[p].pc = "receipt"
      /\ receipts' = Append(receipts, x)
  BY <1>t DEF SaveReceipt, Goto, At
<1>x. x \in Receipt
  BY <1>t DEF Receipt
<1> HIDE DEF h, x
<1>p. /\ proc' \in [ Procs -> HandlerType ] /\ proc'[p].pc = "close"
      /\ \A q \in Procs : q # p => proc'[q] = proc[q]
  BY <1>t, <1>1, <1>n
<1>e. receipts' \in Seq(Receipt) /\ receipts' # << >>
  <2>1. receipts \in Seq(Receipt)
    BY <1>t DEF StoreType
  <2> QED
    BY <1>n, <1>x, <2>1, AppendRow, Zenon
<1>r. entries # << >> /\ \A q \in Procs : proc'[q].pc # "receipt"
  BY <1>n, <1>p DEF TradeInv, TesseraAnchored, HandlerInv, At
<1>a. tradeAcceptances' = tradeAcceptances
  BY DEF tradeAcceptances
<1>2. TradeTypeOK'
  BY <1>t, <1>n, <1>p, <1>e DEF TradeTypeOK, StoreType, HandlerType
<1>3. BothAgreed' /\ EntryMatchesOutcome'
  BY <1>n, <1>a DEF TradeInv, BothAgreed, EntryMatchesOutcome
<1>4. TesseraAnchored'
  BY <1>n, <1>e, <1>r DEF TesseraAnchored, At
<1>5. HandlerInv'
  BY <1>n, <1>p, <1>e, <1>r, <1>a
  DEF TradeInv, HandlerInv, At, canTransition, transitions, Party
<1> QED
  BY <1>2, <1>3, <1>4, <1>5 DEF TradeInv

\* The tessera, and the offer that is closed after it.
LEMMA TradeBooksInv ==
  ASSUME TradeInv, NEW p \in Procs, recordReceipt(p) \/ closeOffer(p)
  PROVE  TradeInv'
<1>t. /\ StoreType /\ aborts \in Nat /\ trade.state \in TradeState
      /\ proc \in [ Procs -> HandlerType ] /\ proc[p] \in HandlerType
  BY DEF TradeInv, TradeTypeOK, StoreType, HandlerType
<1>1. CASE recordReceipt(p)
  BY <1>1, ReceiptInv DEF recordReceipt
<1>2. CASE closeOffer(p)
  <2>i. Idle \in HandlerType /\ Idle.pc = "idle"
    BY <1>t, HandlerTypes
  <2>n. /\ proc' = [ proc EXCEPT ![p] = Idle ] /\ proc[p].pc = "close" /\ offer' = "closed"
        /\ UNCHANGED << now, trade, acceptances, events, requests, entries, receipts, aborts >>
    BY <1>2 DEF closeOffer, Return, At
  <2>p. /\ proc' \in [ Procs -> HandlerType ] /\ proc'[p].pc = "idle"
        /\ \A q \in Procs : q # p => proc'[q] = proc[q]
    BY <1>t, <2>i, <2>n
  <2>a. tradeAcceptances' = tradeAcceptances
    BY <2>n DEF tradeAcceptances
  <2>1. TradeTypeOK'
    BY <1>t, <2>n, <2>p DEF TradeTypeOK, StoreType, HandlerType
  <2>2. BothAgreed' /\ EntryMatchesOutcome'
    BY <2>n, <2>a DEF TradeInv, BothAgreed, EntryMatchesOutcome
  <2>3. TesseraAnchored'
    BY <2>n, <2>p DEF TradeInv, TesseraAnchored, HandlerInv, At
  <2>4. HandlerInv'
    BY <2>n, <2>p, <2>a
    DEF TradeInv, HandlerInv, At, canTransition, transitions, Party
  <2> QED
    BY <2>1, <2>2, <2>3, <2>4 DEF TradeInv
<1> QED
  BY <1>1, <1>2

\* The clock moves nothing else.
LEMMA TradeClock ==
  ASSUME TradeInv, UNCHANGED << db, proc, aborts >>, now' \in Nat \ {0}
  PROVE  TradeInv'
<1>1. TradeTypeOK'
  BY DEF TradeInv, TradeTypeOK, StoreType, db
<1>2. tradeAcceptances' = tradeAcceptances
  BY DEF tradeAcceptances, db
<1>3. BothAgreed' /\ EntryMatchesOutcome' /\ TesseraAnchored'
  BY <1>2 DEF TradeInv, BothAgreed, EntryMatchesOutcome, TesseraAnchored, At, db
<1>4. HandlerInv'
  BY <1>2 DEF TradeInv, HandlerInv, At, canTransition, transitions, Party, db
<1> QED
  BY <1>1, <1>3, <1>4 DEF TradeInv

\* Every step of the service keeps the invariant.
LEMMA TradeNextInv == ASSUME TradeInv, [TradeNext]_tradeVars PROVE TradeInv'
<1>1. ASSUME UNCHANGED << db, proc, aborts >>, now' \in Nat \ {0} PROVE TradeInv'
  BY <1>1, TradeClock
<1>2. now \in Nat \ {0}
  BY DEF TradeInv, TradeTypeOK, StoreType
<1>3. CASE Tick
  BY <1>1, <1>2, <1>3 DEF Tick
<1>4. CASE UNCHANGED tradeVars
  BY <1>1, <1>2, <1>4 DEF tradeVars
<1>5. ASSUME NEW p \in Procs, TradeCall(p) \/ Sweep(p) \/ TradeStep(p) \/ Abort(p)
      PROVE TradeInv'
  BY <1>5, TradeBeginInv, applyAsInv, TradeReadStepsInv, ledgerAppendInv, TradeBooksInv
  DEF TradeStep
<1> QED
  BY <1>3, <1>4, <1>5 DEF TradeNext

-----------------------------------------------------------------------------
\* The trade service keeps its invariant whatever handlers race or are aborted
\* (trade.go: applyAs, Accept, Cancel, Dispute, Resolve, Record and the sweeper).
THEOREM TradeInvariant == TradeSpec => []TradeInv
<1>1. TradeInit => TradeInv
  BY TradeInitInv
<1>2. TradeInv /\ [TradeNext]_tradeVars => TradeInv'
  BY TradeNextInv
<1> QED
  BY <1>1, <1>2, PTL DEF TradeSpec

\* Both parties agreed to every trade that is accepted, delivered or disputed.
THEOREM TradeBothAgreed == TradeSpec => []BothAgreed
<1>1. TradeInv => BothAgreed
  BY DEF TradeInv
<1> QED
  BY <1>1, TradeInvariant, PTL

\* The ledger anchors only a trade that was delivered, in the state it was
\* delivered in (trade.go Record, ledger.Record).
THEOREM TradeBooksSound == TradeSpec => []EntryMatchesOutcome
<1>1. TradeInv => EntryMatchesOutcome
  BY DEF TradeInv
<1> QED
  BY <1>1, TradeInvariant, PTL

\* Entry, tessera and closed offer exist in this order, and two handlers of one
\* trade are never both signing (ledger.Record, Service.Record).
THEOREM TradeTesseraAnchored == TradeSpec => []TesseraAnchored
<1>1. TradeInv => TesseraAnchored
  BY DEF TradeInv
<1> QED
  BY <1>1, TradeInvariant, PTL

-----------------------------------------------------------------------------
(* The contract and the commitment                                          *)

\* A step that leaves these rows alone changes nothing the parties see.
LEMMA ContractStutter ==
  ASSUME UNCHANGED << trade, acceptances, entries, receipts >>
  PROVE  UNCHANGED Contract!contractVars
<1>1. tradeAcceptances' = tradeAcceptances
  BY DEF tradeAcceptances
<1>2. tesseraStage' = tesseraStage
  BY DEF tesseraStage
<1> QED
  BY <1>1, <1>2 DEF Contract!contractVars

\* The compare-and-set moves the trade along the table of the row itself.
LEMMA applyAsContract ==
  ASSUME TradeInv, NEW p \in Procs, applyAs(p)
  PROVE  Contract!Move \/ UNCHANGED Contract!contractVars
<1>1. CASE UNCHANGED trade
  BY <1>1, ContractStutter DEF applyAs
<1>2. CASE SetTradeState(proc[p].seen, proc[p].to)
  <2>1. /\ trade.state = proc[p].seen /\ trade'.state = proc[p].to
        /\ UNCHANGED << acceptances, entries, receipts >>
    BY <1>2 DEF applyAs, SetTradeState
  <2>2. /\ canTransition(trade.state, trade'.state)
        /\ trade'.state = "accepted" => tradeAcceptances = Party
    BY <2>1 DEF TradeInv, HandlerInv, applyAs, At
  <2>3. Contract!canTransition(trade.state, trade'.state) /\ trade'.state \in Contract!TradeState
    BY <2>1, <2>2 DEF TradeInv, TradeTypeOK, canTransition, transitions, TradeState,
       Contract!canTransition, Contract!transitions, Contract!TradeState
  <2>4. UNCHANGED << tradeAcceptances, tesseraStage >>
    BY <2>1 DEF tradeAcceptances, tesseraStage
  <2> QED
    BY <2>2, <2>3, <2>4 DEF Contract!Move
<1> QED
  BY <1>1, <1>2 DEF applyAs

\* An acceptance is an agreement of one more party.
LEMMA acceptContract ==
  ASSUME TradeInv, NEW p \in Procs, acceptInsert(p)
  PROVE  Contract!Agree \/ UNCHANGED Contract!contractVars
<1>1. CASE UNCHANGED acceptances
  BY <1>1, ContractStutter DEF acceptInsert
<1>2. CASE AddTradeAcceptance(proc[p].agent)
  <2> DEFINE a == proc[p].agent
  <2>1. a \in Party /\ acceptances \in [ Party -> Nat ] /\ now # 0
    BY DEF TradeInv, TradeTypeOK, StoreType
  <2>2. acceptances[a] = 0 /\ acceptances' = [ acceptances EXCEPT ![a] = now ]
    BY <1>2 DEF AddTradeAcceptance
  <2> HIDE DEF a
  <2>3. a \notin tradeAcceptances /\ tradeAcceptances' = tradeAcceptances \cup { a }
    BY <2>1, <2>2 DEF tradeAcceptances
  <2>4. UNCHANGED << trade, tesseraStage >>
    BY DEF acceptInsert, tesseraStage
  <2> QED
    BY <2>1, <2>3, <2>4 DEF Contract!Agree
<1> QED
  BY <1>1, <1>2 DEF acceptInsert

\* The entry and the receipt take the tessera one stage further each.
LEMMA booksContract ==
  ASSUME TradeInv, NEW p \in Procs, ledgerAppend(p) \/ recordReceipt(p)
  PROVE  Contract!Issue \/ UNCHANGED Contract!contractVars
<1>1. CASE UNCHANGED << entries, receipts >>
  BY <1>1, ContractStutter DEF ledgerAppend, recordReceipt
<1>2. CASE ledgerAppend(p) /\ AppendLedgerEntry(proc[p].seen)
  <2>1. entries = << >> /\ receipts' = receipts /\ UNCHANGED << trade, acceptances >>
        /\ entries' = Append(entries, [ state |-> proc[p].seen ])
    BY <1>2 DEF ledgerAppend, AppendLedgerEntry
  <2>2. receipts = << >> /\ trade.state \in { "recorded", "settled" }
    BY <1>2, <2>1 DEF TradeInv, TesseraAnchored, HandlerInv, ledgerAppend
  <2>3. entries' # << >>
    <3>1. Len(entries) = 0 /\ entries \in Seq([ state : TradeState ])
      BY <2>1 DEF TradeInv, TradeTypeOK, StoreType
    <3>2. [ state |-> proc[p].seen ] \in [ state : TradeState ]
      BY DEF TradeInv, TradeTypeOK
    <3>3. Len(entries') = 1
      BY <2>1, <3>1, <3>2
    <3> QED
      BY <3>3, EmptyIsEmpty
  <2>4. tesseraStage = "none" /\ tesseraStage' = "anchored"
    BY <2>1, <2>2, <2>3 DEF tesseraStage
  <2>5. tradeAcceptances' = tradeAcceptances
    BY <2>1 DEF tradeAcceptances
  <2> QED
    BY <2>1, <2>2, <2>4, <2>5 DEF Contract!Issue
<1>3. CASE recordReceipt(p)
  <2> DEFINE r == [ state |-> proc[p].seen, signature |-> NoSig, cluster |-> "" ]
  <2>1. receipts = << >> /\ entries' = entries /\ UNCHANGED << trade, acceptances >>
        /\ receipts' = Append(receipts, r)
    BY <1>3 DEF recordReceipt, SaveReceipt
  <2>2. entries # << >> /\ trade.state \in { "recorded", "settled" }
    BY <1>3 DEF TradeInv, TesseraAnchored, EntryMatchesOutcome, recordReceipt
  <2>3. receipts' # << >>
    <3>1. Len(receipts) = 0 /\ receipts \in Seq(Receipt)
      BY <2>1 DEF TradeInv, TradeTypeOK, StoreType
    <3>2. r \in Receipt
      BY DEF TradeInv, TradeTypeOK, Receipt
    <3> HIDE DEF r
    <3>3. Len(receipts') = 1
      BY <2>1, <3>1, <3>2
    <3> QED
      BY <3>3, EmptyIsEmpty
  <2>4. tesseraStage = "anchored" /\ tesseraStage' = "signed"
    BY <2>1, <2>2, <2>3 DEF tesseraStage
  <2>5. tradeAcceptances' = tradeAcceptances
    BY <2>1 DEF tradeAcceptances
  <2> QED
    BY <2>1, <2>2, <2>4, <2>5 DEF Contract!Issue
<1> QED
  BY <1>1, <1>2, <1>3 DEF ledgerAppend

\* Every step of the service is a step of the contract or changes nothing the
\* parties see.
LEMMA ContractStep ==
  ASSUME TradeInv, [TradeNext]_tradeVars
  PROVE  [Contract!ContractNext]_(Contract!contractVars)
<1>1. CASE UNCHANGED db
  BY <1>1, ContractStutter DEF db
<1>2. ASSUME NEW p \in Procs, TradeCall(p) \/ Sweep(p) \/ Abort(p) PROVE UNCHANGED db
  BY <1>2 DEF TradeCall, Sweep, Abort, BeginNegotiation, Accept, Cancel, Dispute, Resolve,
     Record, ExpireAccepted, ExpireOpen
<1>3. ASSUME NEW p \in Procs, TradeStep(p)
      PROVE  [Contract!ContractNext]_(Contract!contractVars)
  <2>1. CASE appendEvent(p) \/ reread(p) \/ acceptCount(p) \/ cancelLive(p)
             \/ cancelDeadline(p) \/ closeOffer(p)
    <3>1. UNCHANGED << trade, acceptances, entries, receipts >>
      BY <2>1 DEF appendEvent, reread, acceptCount, cancelLive, cancelDeadline, closeOffer, db
    <3> QED
      BY <3>1, ContractStutter
  <2>2. CASE applyAs(p)
    BY <2>2, applyAsContract DEF Contract!ContractNext
  <2>3. CASE acceptInsert(p)
    BY <2>3, acceptContract DEF Contract!ContractNext
  <2>4. CASE ledgerAppend(p) \/ recordReceipt(p)
    BY <2>4, booksContract DEF Contract!ContractNext
  <2> QED
    BY <1>3, <2>1, <2>2, <2>3, <2>4 DEF TradeStep
<1>4. Tick \/ UNCHANGED tradeVars => UNCHANGED db
  BY DEF Tick, tradeVars
<1> QED
  BY <1>1, <1>2, <1>3, <1>4 DEF TradeNext

\* A freshly proposed trade is a fresh contract.
LEMMA ContractStart == ASSUME TradeInit PROVE Contract!ContractInit
<1>1. trade.state = "proposed" /\ entries = << >> /\ acceptances = [ a \in Party |-> 0 ]
  BY DEF TradeInit, StoreInit
<1>2. tradeAcceptances = {} /\ tesseraStage = "none"
  BY <1>1 DEF tradeAcceptances, tesseraStage
<1> QED
  BY <1>1, <1>2 DEF Contract!ContractInit

\* The service implements the contract: stale reads, lost compare-and-sets and
\* aborted handlers of trade.go never show the parties anything the contract
\* does not allow.
THEOREM TradeImplementsContract == TradeSpec => ImplementsContract
<1>1. TradeInit => Contract!ContractInit
  BY ContractStart
<1>2. TradeInv /\ [TradeNext]_tradeVars => [Contract!ContractNext]_(Contract!contractVars)
  BY ContractStep
<1> QED
  BY <1>1, <1>2, TradeInvariant, PTL DEF TradeSpec, ImplementsContract, Contract!ContractSpec

-----------------------------------------------------------------------------
\* The commitment of an accepted trade is over for one of the parties.
CommitmentLapsed ==
  \E a \in Party : acceptances[a] # 0 /\ now >= acceptances[a] + AcceptTTL

\* A handler about to cancel a trade that it saw accepted.
Withdraws(h) == h.pc = "set_state" /\ h.seen = "accepted" /\ h.to = "cancelled"

\* The invariant behind CommitmentHolds: a handler holds the verdict "past the
\* deadline" only if it is true, and what it read then cannot become false.
DeadlineInv == \A p \in Procs : Withdraws(proc[p]) => CommitmentLapsed

\* TradeAcceptance is one of the acceptances, so a deadline that passed is one
\* counted from an acceptance.
LEMMA PastDeadlineLapsed ==
  ASSUME TradeInv, pastDeadline
  PROVE  CommitmentLapsed
<1>1. acceptances \in [ Party -> Nat ] /\ tradeAcceptances # {}
  BY DEF TradeInv, TradeTypeOK, StoreType, pastDeadline
<1>2. \E a \in tradeAcceptances : \A b \in tradeAcceptances : acceptances[a] <= acceptances[b]
  BY <1>1 DEF tradeAcceptances, Party
<1>3. \E a \in tradeAcceptances : TradeAcceptance = acceptances[a]
  <2> DEFINE S == { acceptances[a] : a \in tradeAcceptances }
             least(t) == \A b \in tradeAcceptances : t <= acceptances[b]
  <2>1. \E t \in S : least(t)
    BY <1>2
  <2>2. TradeAcceptance = CHOOSE t \in S : least(t)
    BY DEF TradeAcceptance
  <2>3. TradeAcceptance \in S
    BY <2>1, <2>2
  <2> QED
    BY <2>3
<1> QED
  BY <1>3 DEF pastDeadline, acceptanceDeadline, CommitmentLapsed, tradeAcceptances

\* A lapsed commitment stays lapsed: the clock goes on and no acceptance is
\* given a later time.
LEMMA LapsedStays ==
  ASSUME TradeInv, CommitmentLapsed, now' \in Nat, now <= now',
         \A a \in Party : acceptances[a] # 0 => acceptances'[a] = acceptances[a]
  PROVE  CommitmentLapsed'
<1>1. now \in Nat /\ acceptances \in [ Party -> Nat ]
  BY DEF TradeInv, TradeTypeOK, StoreType
<1>2. PICK a \in Party : acceptances[a] # 0 /\ now >= acceptances[a] + AcceptTTL
  BY DEF CommitmentLapsed
<1>3. acceptances'[a] # 0 /\ now' >= acceptances'[a] + AcceptTTL
  BY <1>1, <1>2, TradeAssumption
<1> QED
  BY <1>3 DEF CommitmentLapsed, Party

\* A step of one handler keeps the invariant if what it is about to do does.
LEMMA DeadlineKept ==
  ASSUME TradeInv, DeadlineInv, now' = now,
         \A a \in Party : acceptances[a] # 0 => acceptances'[a] = acceptances[a],
         NEW p \in Procs, NEW h, proc' = [ proc EXCEPT ![p] = h ],
         Withdraws(h) => CommitmentLapsed
  PROVE  DeadlineInv'
<1>t. now \in Nat /\ proc \in [ Procs -> HandlerType ]
  BY DEF TradeInv, TradeTypeOK, StoreType, HandlerType
<1>1. now' \in Nat /\ now <= now' /\ \A q \in Procs : q # p => proc'[q] = proc[q]
  BY <1>t
<1>2. proc'[p] = h
  BY <1>t
<1>3. ASSUME NEW q \in Procs, Withdraws(proc'[q]) PROVE CommitmentLapsed
  BY <1>1, <1>2, <1>3 DEF DeadlineInv
<1>4. CommitmentLapsed => CommitmentLapsed'
  BY <1>1, LapsedStays
<1> QED
  BY <1>3, <1>4 DEF DeadlineInv, Withdraws

\* Every step of the service keeps the invariant.
LEMMA DeadlineNext ==
  ASSUME TradeInv, DeadlineInv, [TradeNext]_tradeVars
  PROVE  DeadlineInv'
<1>t. /\ now \in Nat /\ acceptances \in [ Party -> Nat ] /\ trade.state \in TradeState
      /\ proc \in [ Procs -> HandlerType ]
  BY DEF TradeInv, TradeTypeOK, StoreType, HandlerType
<1>1. CASE Tick \/ UNCHANGED tradeVars
  <2>1. now' \in Nat /\ now <= now' /\ acceptances' = acceptances /\ proc' = proc
    BY <1>1, <1>t DEF Tick, tradeVars, db
  <2>2. CommitmentLapsed => CommitmentLapsed'
    BY <2>1, LapsedStays
  <2> QED
    BY <2>1, <2>2 DEF DeadlineInv, Withdraws
<1>2. ASSUME NEW p \in Procs, TradeCall(p) \/ Sweep(p) \/ TradeStep(p) \/ Abort(p)
      PROVE  DeadlineInv'
  <2>t. proc[p] \in HandlerType /\ proc[p].seen \in TradeState
    BY <1>t DEF HandlerType
  <2>o. /\ { "event", "reread", "count", "deadline", "receipt", "close", "append" } \subseteq Pc
        /\ { "accepted", "cancelled", "negotiating", "disputed", "resolved", "recorded" }
             \subseteq TradeState
        /\ TradeState \subseteq EventType /\ "expired" \in EventType
        /\ { "set_state", "live", "accept" } \subseteq Pc
        /\ { "negotiate", "accept", "cancel", "dispute", "resolve", "record", "sweep" } \subseteq Op
    BY DEF Pc, TradeState, EventType, Op
  <2>g. ASSUME NEW pc \in Pc, pc # "set_state", Goto(p, pc), now' = now,
               \A a \in Party : acceptances[a] # 0 => acceptances'[a] = acceptances[a]
        PROVE  DeadlineInv'
    <3> DEFINE h == [ proc[p] EXCEPT !.pc = pc ]
    <3>1. h.pc # "set_state" /\ proc' = [ proc EXCEPT ![p] = h ]
      BY <2>g, <2>t, <1>t, GotoType DEF Goto
    <3> HIDE DEF h
    <3> QED
      BY <2>g, <3>1, DeadlineKept DEF Withdraws
  <2>r. ASSUME Return(p), now' = now, acceptances' = acceptances PROVE DeadlineInv'
    BY <2>r, DeadlineKept, HandlerTypes, <1>t DEF Withdraws, Return
  <2>b. ASSUME NEW g \in HandlerType, NEW to \in TradeState, NEW event \in EventType,
               g.seen \in TradeState,
               proc' = [ proc EXCEPT ![p] = Applying(g, to, event) ],
               g.seen = "accepted" /\ to = "cancelled" => CommitmentLapsed,
               now' = now, acceptances' = acceptances
        PROVE  DeadlineInv'
    <3> DEFINE h == Applying(g, to, event)
    <3>1. h.seen = g.seen /\ h.to = to
      BY <2>b, ApplyingType
    <3> HIDE DEF h
    <3>2. Withdraws(h) => CommitmentLapsed
      BY <2>b, <3>1 DEF Withdraws
    <3> QED
      BY <2>b, <3>2, DeadlineKept DEF h
  <2>h. \A op \in Op, pc \in Pc : /\ Handler(op, pc) \in HandlerType
                                  /\ Handler(op, pc).pc = pc
                                  /\ Handler(op, pc).seen = trade.state
    BY <1>t, HandlerTypes
  <2>1. CASE BeginNegotiation(p) \/ Dispute(p) \/ Resolve(p) \/ Record(p)
    BY <2>1, <2>b, <2>h, <2>o, <1>t DEF BeginNegotiation, Dispute, Resolve, Record, Begin, db
  <2>2. CASE ExpireAccepted(p)
    <3> DEFINE g == Handler("sweep", "set_state")
    <3>1. g \in HandlerType /\ g.seen \in TradeState /\ "cancelled" \in TradeState
          /\ "expired" \in EventType
      BY <2>h, <2>o, <1>t
    <3>2. /\ proc' = [ proc EXCEPT ![p] = Applying(g, "cancelled", "expired") ]
          /\ now' = now /\ acceptances' = acceptances
      BY <2>2 DEF ExpireAccepted, Begin, db
    <3>3. CommitmentLapsed
      BY <2>2, PastDeadlineLapsed DEF ExpireAccepted
    <3> HIDE DEF g
    <3> QED
      BY <3>1, <3>2, <3>3, <2>b
  <2>3. CASE ExpireOpen(p)
    <3> DEFINE g == Handler("sweep", "set_state")
    <3>1. g \in HandlerType /\ g.seen \in TradeState /\ "cancelled" \in TradeState
          /\ "expired" \in EventType
      BY <2>h, <2>o, <1>t
    <3>2. /\ proc' = [ proc EXCEPT ![p] = Applying(g, "cancelled", "expired") ]
          /\ now' = now /\ acceptances' = acceptances
      BY <2>3 DEF ExpireOpen, Begin, db
    <3>3. g.seen # "accepted"
      BY <2>3, <2>h, <2>o DEF ExpireOpen
    <3> HIDE DEF g
    <3> QED
      BY <3>1, <3>2, <3>3, <2>b
  <2>4. CASE Cancel(p)
    <3> DEFINE g == Handler("cancel", "live")
    <3>1. g.pc = "live"
      BY <2>h, <2>o
    <3>2. /\ proc' = [ proc EXCEPT ![p] = g ] /\ now' = now /\ acceptances' = acceptances
      BY <2>4 DEF Cancel, Begin, db
    <3> HIDE DEF g
    <3> QED
      BY <3>1, <3>2, DeadlineKept DEF Withdraws
  <2>5. ASSUME NEW agent \in Party, Accept(p, agent) PROVE DeadlineInv'
    <3> DEFINE g == Handler("accept", "accept")
               h == [ g EXCEPT !.agent = agent ]
    <3>1. g \in HandlerType /\ g.pc = "accept"
      BY <2>h, <2>o
    <3>2. /\ proc' = [ proc EXCEPT ![p] = h ] /\ now' = now /\ acceptances' = acceptances
      BY <2>5 DEF Accept, Begin, db
    <3> HIDE DEF g
    <3>3. h.pc = "accept"
      BY <3>1 DEF HandlerType
    <3> HIDE DEF h
    <3> QED
      BY <3>2, <3>3, DeadlineKept DEF Withdraws
  <2>6. CASE applyAs(p)
    BY <2>6, <2>g, <2>o DEF applyAs
  <2>7. CASE appendEvent(p)
    BY <2>7, <2>g, <2>o DEF appendEvent
  <2>8. CASE reread(p)
    <3>1. CASE Return(p)
      BY <2>8, <3>1, <2>r DEF reread, db
    <3>2. CASE ~ Return(p)
      <4> DEFINE h == [ proc[p] EXCEPT !.pc = "append", !.seen = trade.state ]
      <4>1. h.pc = "append"
        BY <2>t DEF HandlerType
      <4>2. proc' = [ proc EXCEPT ![p] = h ] /\ now' = now /\ acceptances' = acceptances
        BY <2>8, <3>2 DEF reread, Continue, db
      <4> HIDE DEF h
      <4> QED
        BY <4>1, <4>2, DeadlineKept DEF Withdraws
    <3> QED
      BY <3>1, <3>2
  <2>9. CASE acceptInsert(p)
    <3>1. CASE AddTradeAcceptance(proc[p].agent) /\ Goto(p, "count")
      <4>1. \A a \in Party : acceptances[a] # 0 => acceptances'[a] = acceptances[a]
        BY <3>1, <1>t DEF AddTradeAcceptance
      <4> QED
        BY <2>9, <3>1, <4>1, <2>g, <2>o DEF acceptInsert
    <3>2. CASE Return(p) /\ UNCHANGED acceptances
      BY <2>9, <3>2, <2>r DEF acceptInsert
    <3> QED
      BY <2>9, <3>1, <3>2 DEF acceptInsert
  <2>10. CASE acceptCount(p)
    <3> DEFINE g == [ proc[p] EXCEPT !.seen = trade.state ]
    <3>1. g \in HandlerType /\ g.seen = trade.state
      BY <2>t, <1>t DEF HandlerType
    <3> HIDE DEF g
    <3>2. CASE Return(p)
      BY <2>10, <3>2, <2>r DEF acceptCount, db
    <3>3. CASE proc' = [ proc EXCEPT ![p] = Applying(g, "accepted", "accepted") ]
      BY <2>10, <3>1, <3>3, <2>b, <2>o, <1>t DEF acceptCount, db
    <3> QED
      BY <2>10, <3>2, <3>3 DEF acceptCount, Continue, g
  <2>11. CASE cancelLive(p)
    <3>1. CASE Return(p)
      BY <2>11, <3>1, <2>r DEF cancelLive, db
    <3>2. CASE Goto(p, "deadline")
      BY <2>11, <3>2, <2>g, <2>o DEF cancelLive, db
    <3>3. CASE /\ proc[p].seen # "accepted"
               /\ Continue(p, Applying(proc[p], "cancelled", "cancelled"))
      BY <2>11, <3>3, <2>b, <2>o, <2>t DEF cancelLive, Continue, db
    <3> QED
      BY <2>11, <3>1, <3>2, <3>3 DEF cancelLive
  <2>12. CASE cancelDeadline(p)
    <3>1. CASE Return(p)
      BY <2>12, <3>1, <2>r DEF cancelDeadline, db
    <3>2. CASE pastDeadline /\ Continue(p, Applying(proc[p], "cancelled", "cancelled"))
      BY <2>12, <3>2, <2>b, <2>o, <2>t, PastDeadlineLapsed DEF cancelDeadline, Continue, db
    <3> QED
      BY <2>12, <3>1, <3>2 DEF cancelDeadline
  <2>13. CASE ledgerAppend(p)
    BY <2>13, <2>g, <2>r, <2>o DEF ledgerAppend
  <2>14. CASE recordReceipt(p)
    BY <2>14, <2>g, <2>o DEF recordReceipt
  <2>15. CASE closeOffer(p)
    BY <2>15, <2>r DEF closeOffer
  <2>16. CASE Abort(p)
    BY <2>16, <2>r DEF Abort, db
  <2> QED
    BY <1>2, <2>1, <2>2, <2>3, <2>4, <2>5, <2>6, <2>7, <2>8, <2>9, <2>10, <2>11, <2>12,
       <2>13, <2>14, <2>15, <2>16 DEF TradeCall, Sweep, TradeStep
<1> QED
  BY <1>1, <1>2 DEF TradeNext

\* Only the compare-and-set takes an accepted trade to cancelled.
LEMMA CommitmentStep ==
  ASSUME TradeInv, DeadlineInv, [TradeNext]_tradeVars,
         trade.state = "accepted", trade'.state = "cancelled"
  PROVE  CommitmentLapsed
<1>1. trade' # trade
  OBVIOUS
<1>2. PICK p \in Procs : applyAs(p) /\ SetTradeState(proc[p].seen, proc[p].to)
  BY <1>1 DEF TradeNext, tradeVars, Tick, TradeCall, Sweep, Abort, TradeStep, db,
     BeginNegotiation, Accept, Cancel, Dispute, Resolve, Record, ExpireAccepted, ExpireOpen,
     applyAs, appendEvent, reread, acceptInsert, acceptCount, cancelLive, cancelDeadline,
     ledgerAppend, recordReceipt, closeOffer
<1>3. Withdraws(proc[p])
  BY <1>2 DEF applyAs, At, SetTradeState, Withdraws
<1> QED
  BY <1>3 DEF DeadlineInv

\* Acceptance is a commitment until its deadline: no interleaving of Cancel, the
\* sweeper and the Accept calls cancels an accepted trade before AcceptTTL has
\* passed since an acceptance (trade.go: Cancel, acceptanceDeadline,
\* ExpireAccepted).
THEOREM TradeCommitmentHolds == TradeSpec => CommitmentHolds
<1>1. TradeInit => DeadlineInv
  <2> SUFFICES ASSUME TradeInit PROVE DeadlineInv
    OBVIOUS
  <2>1. trade.state = "proposed" /\ \A p \in Procs : proc[p] = Idle
    BY DEF TradeInit, StoreInit
  <2>2. Idle.pc # "set_state"
    BY <2>1, HandlerTypes DEF TradeState
  <2> QED
    BY <2>1, <2>2 DEF DeadlineInv, Withdraws
<1>2. TradeInv /\ DeadlineInv /\ [TradeNext]_tradeVars => DeadlineInv'
  BY DeadlineNext
<1>3. TradeInv /\ DeadlineInv /\ [TradeNext]_tradeVars
      => [ trade.state = "accepted" /\ trade'.state = "cancelled"
           => \E a \in Party : acceptances[a] # 0 /\ now >= acceptances[a] + AcceptTTL ]_tradeVars
  BY CommitmentStep DEF CommitmentLapsed
<1> QED
  BY <1>1, <1>2, <1>3, TradeInvariant, PTL DEF TradeSpec, CommitmentHolds
=============================================================================
