------------------------------- MODULE MCAccess -------------------------------
EXTENDS Access, TLC

CONSTANTS p1, p2, a1, a2, x1, x2, c1

MCOperator == {[name |-> "ann", token |-> "x"], [name |-> "operator", token |-> "y"]}

\* One route behind each gate.
MCRequested == {"retire", "put card", "health", "challenge", "verify"}

\* A fixed quota per address and a rate per agent.
MCLimits ==
  [ip |-> [rps |-> 0, burst |-> 1, idle |-> 2, maxKeys |-> 1],
   agent |-> [rps |-> 1, burst |-> 1, idle |-> 2, maxKeys |-> 1]]

Symmetric == Permutations(Proc) \cup Permutations(Agent) \cup Permutations(Addr)
=============================================================================
