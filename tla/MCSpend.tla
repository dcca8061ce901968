------------------------------- MODULE MCSpend -------------------------------
EXTENDS Spend, TLC

CONSTANTS p1, p2, t1, t2, t3

Amount(n) == [integer |-> << n >>, fraction |-> <<>>]
\* 1.0: the value of Amount(1), written differently.
OneNought == [integer |-> << 1 >>, fraction |-> << 0 >>]

\* A mint at par and one that has no rate on this deployment.
MCPrices == {[amount |-> Amount(n), mint |-> m] : n \in {1, 2}, m \in {"usdc"}}
              \cup {[amount |-> Amount(1), mint |-> "unpriced"]}

MCPolicy ==
  [perTrade |-> Amount(1), perDay |-> Amount(2), window |-> 1,
   ceilingPerTrade |-> Amount(2), ceilingPerDay |-> Amount(3),
   rates |-> [m \in {"usdc"} |-> [decimals |-> 1, usd |-> Amount(1)]]]

\* One cap, the other, or both; zero and more than the ceiling are refused.
MCAsks ==
  {[perTrade |-> a, perDay |-> {}] : a \in {{}, {Amount(0)}, {OneNought}, {Amount(2)}}}
  \cup {[perTrade |-> {}, perDay |-> b] : b \in {{Amount(1)}, {Amount(3)}, {Amount(4)}}}
  \cup {[perTrade |-> {Amount(2)}, perDay |-> {Amount(3)}]}

\* Three families, for the state space: every check beside one raise, some of each,
\* and every raise beside one check.  What was begun before left nothing behind.
MCInit ==
  /\ trades = [t \in TradeID |-> NoTrade]
  /\ commits = [t \in TradeID |-> {}]
  /\ optIn = {}
  /\ reserveMu = NoProc
  /\ now = Policy.window
  /\ \/ checks = 0 /\ raises = MaxRaises - 1
     \/ checks = MaxChecks - 2 /\ raises = MaxRaises - 2
     \/ checks = MaxChecks - 1 /\ raises = 0
  /\ proc = [p \in Proc |-> Idle]

MCSpec == MCInit /\ [][SpendNext]_spendVars

Symmetric == Permutations(Proc) \cup Permutations(TradeID)
=============================================================================
