------------------------------ MODULE IdealCredit ------------------------------
(***************************************************************************)
(* What the credit system promises its members: a deposit becomes credit   *)
(* once, in one step that adds exactly its amount to one balance; any      *)
(* other change of a balance is one member's and never leaves it negative; *)
(* a deposit that was decided is never decided again.                      *)
(*                                                                         *)
(* It promises less of a loose deposit, which may be credited or closed    *)
(* once more, and of an administrator's own account, where the credit of a *)
(* deposit may take an older balance for the last one.                     *)
(***************************************************************************)
EXTENDS Integers

CONSTANTS Members, Deposits, Amount, InitialBalance

VARIABLES
  money, stage,
  loose,        \* the deposits of which less is promised
  own           \* the members who have served themselves

idealVars == <<money, stage>>

Init ==
  /\ money = InitialBalance
  /\ stage \in [Deposits -> {"new", "open", "closed"}]

Register(d) ==
  /\ stage[d] = "new"
  /\ \E s \in {"open", "closed"} : stage' = [stage EXCEPT ![d] = s]
  /\ UNCHANGED money

Credit(m, d) ==
  /\ stage[d] = "open" \/ d \in loose
  /\ stage' = [stage EXCEPT ![d] = "credited"]
  /\ money' \in [Members -> Nat]
  /\ \A n \in Members \ {m} : money'[n] = money[n]
  /\ m \in own \/ money'[m] = money[m] + Amount[d]

\* Closing without credit; parking an inactive member's deposits closes several.
Close ==
  /\ \E D \in SUBSET Deposits :
       /\ \A d \in D : stage[d] = "open" \/ d \in loose
       /\ \E s \in [D -> {"open", "closed"}] :
            stage' = [d \in Deposits |-> IF d \in D THEN s[d] ELSE stage[d]]
  /\ UNCHANGED money

\* A payment, or an administrator's recharge or deduction.
Adjust(m) ==
  /\ money' \in [Members -> Nat]
  /\ \A n \in Members \ {m} : money'[n] = money[n]
  /\ UNCHANGED stage

Next ==
  \/ \E m \in Members : Adjust(m)
  \/ \E m \in Members, d \in Deposits : Credit(m, d)
  \/ \E d \in Deposits : Register(d)
  \/ Close

Spec == Init /\ [][Next]_idealVars
================================================================================
