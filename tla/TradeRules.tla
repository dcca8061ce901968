----------------------------- MODULE TradeRules -----------------------------
(***************************************************************************)
(* The constant part of the trade state machine: the states of             *)
(* internal/domain and the transitions table of internal/trade.            *)
(***************************************************************************)

TradeState ==
  { "proposed", "negotiating", "accepted", "settlement_pending", "recorded",
    "settled", "disputed", "resolved", "cancelled" }

\* The event a transition logs is named after the state it enters; only the
\* sweeper and the reconciler override it, with "expired".
EventType == TradeState \cup { "expired" }

transitions ==
  [ from \in TradeState |->
      CASE from = "proposed"           -> { "negotiating", "cancelled" }
        [] from = "negotiating"        -> { "accepted", "cancelled" }
        [] from = "accepted"           -> { "settlement_pending", "recorded",
                                            "disputed", "cancelled" }
        [] from = "settlement_pending" -> { "settled", "disputed", "cancelled" }
        [] from = "disputed"           -> { "resolved" }
        [] OTHER                       -> {} ]

canTransition(from, to) == to \in transitions[from]
=============================================================================
