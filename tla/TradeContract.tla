---------------------------- MODULE TradeContract ----------------------------
(***************************************************************************)
(* What a trade promises its two parties, whatever the service does to     *)
(* keep it: the state moves only along the transitions table, it becomes   *)
(* accepted only when both have agreed, agreement is never withdrawn, and  *)
(* a tessera exists only for a trade that was recorded or settled, anchored *)
(* in the ledger before it is signed and never taken back.                 *)
(***************************************************************************)
EXTENDS TradeRules

CONSTANT Party

VARIABLES state, agreed, tessera

contractVars == << state, agreed, tessera >>

ContractInit ==
  /\ state = "proposed"
  /\ agreed = {}
  /\ tessera = "none"

Move ==
  /\ \E to \in TradeState :
       /\ canTransition(state, to)
       /\ to = "accepted" => agreed = Party
       /\ state' = to
  /\ UNCHANGED << agreed, tessera >>

Agree ==
  /\ \E a \in Party : a \notin agreed /\ agreed' = agreed \cup { a }
  /\ UNCHANGED << state, tessera >>

Issue ==
  /\ state \in { "recorded", "settled" }
  /\ \/ tessera = "none" /\ tessera' = "anchored"
     \/ tessera = "anchored" /\ tessera' = "signed"
  /\ UNCHANGED << state, agreed >>

ContractNext == Move \/ Agree \/ Issue

ContractSpec == ContractInit /\ [][ContractNext]_contractVars
=============================================================================
