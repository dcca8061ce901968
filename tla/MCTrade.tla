------------------------------- MODULE MCTrade -------------------------------
(* Off-chain trades: two agents' requests, the operator, and the sweeper.     *)
EXTENDS Trade, TLC

CONSTANTS p1, p2, sweeper

\* Two requests in flight at once, of any kind, beside the sweeper.
AllOps ==
  [ p \in Procs |->
      IF p = sweeper THEN { "sweep" }
      ELSE { "negotiate", "accept", "cancel", "dispute", "resolve", "record" } ]

\* The two requests are interchangeable.
Symmetry == Permutations({ p1, p2 })
=============================================================================
