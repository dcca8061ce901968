------------------------------ MODULE MCLedger ------------------------------
(* Three handlers complete three trades over two key rotations.               *)
EXTENDS Ledger, TLC

CONSTANTS r1, r2, r3, t1, t2, t3, k1, k2, k3

\* Handlers, trades and keys are interchangeable.
Symmetry == Permutations({ r1, r2, r3 }) \cup Permutations({ t1, t2, t3 })
            \cup Permutations({ k1, k2, k3 })
=============================================================================
