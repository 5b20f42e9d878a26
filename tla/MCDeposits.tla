------------------------------ MODULE MCDeposits ------------------------------
(***************************************************************************)
(* Deposits and threads of the deposit detector. Every property is a       *)
(* safety property, so that the symmetry of both sets may be used.         *)
(***************************************************************************)
EXTENDS DepositDetector, TLC

CONSTANTS d1, d2, t1, t2

\* Three notices tell of a deposit, push its key out and tell of it again; two
\* openings drain a queue that a death has brought back.
MCBudgets == {[notices |-> 3, opens |-> 0, kills |-> 1], [notices |-> 2, opens |-> 2, kills |-> 2]}
TwoNotices == {[notices |-> 2, opens |-> 0, kills |-> 0]}

Symmetry == Permutations({d1, d2}) \cup Permutations({t1, t2})

===============================================================================
