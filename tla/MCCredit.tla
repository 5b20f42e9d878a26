-------------------------------- MODULE MCCredit --------------------------------
(***************************************************************************)
(* Instances of CreditService for TLC: a member and an administrator, one  *)
(* deposit, up to three requests.  What they ask for depends on the scene: *)
(* everything that changes a balance, everything that decides a deposit,   *)
(* two administrators on each other's accounts, or a refuted statement.    *)
(***************************************************************************)
EXTENDS CreditService, TLC

CONSTANTS kim, adm, d1, Scenes

MCMembers == {kim, adm}
MCAdmins == {adm}
MCAmount == [d \in Deposits |-> 2]
MCOwner == [d \in Deposits |-> kim]
MCBalance == [m \in Members |-> IF m = kim THEN 3 ELSE 2]
Symmetry == Permutations(Requests) \cup Permutations(Workers)

\* Request bodies.
Boot == [op |-> "boot", member |-> NoMember, admin |-> NoMember, deposit |-> NoDeposit,
         amount |-> 0, force |-> FALSE, to |-> "ACTIVE"]
Pay(m, n, f) == [Boot EXCEPT !.op = "pay", !.member = m, !.amount = n, !.force = f]
Claim(m, d) == [Boot EXCEPT !.op = "claim", !.member = m, !.deposit = d]
Resolve(a, m, d) == [Boot EXCEPT !.op = "resolve", !.member = m, !.deposit = d, !.admin = a]
Recharge(a, m, n) == [Boot EXCEPT !.op = "recharge", !.member = m, !.amount = n, !.admin = a]
Deduct(a, m, n) == [Boot EXCEPT !.op = "deduct", !.member = m, !.amount = n, !.admin = a]
SetStatus(a, m, s) == [Boot EXCEPT !.op = "status", !.member = m, !.to = s, !.admin = a]
Decide(op, a, d) == [Boot EXCEPT !.op = op, !.deposit = d, !.admin = a]
Deny(m, d) == [Boot EXCEPT !.op = "deny", !.member = m, !.deposit = d]

\* Everything that can happen to a member's balance, and an administrator who
\* serves himself.
BalanceJobs ==
  {Pay(kim, 2, FALSE), Pay(kim, 2, TRUE), Pay(kim, 0, FALSE), Recharge(adm, kim, 1),
   Deduct(adm, kim, 2), SetStatus(adm, kim, "SUSPENDED"),
   SetStatus(adm, kim, "INACTIVE"), SetStatus(adm, kim, "ACTIVE"), Resolve(adm, kim, d1),
   Claim(kim, d1), Deduct(adm, adm, 1)}

\* Everything that can happen to a deposit; the others start a worker, pay.
DepositJobs ==
  {Claim(kim, d1), Resolve(adm, kim, d1), Decide("other", adm, d1),
   Decide("delete", adm, d1), Decide("register", adm, d1), Deny(kim, d1),
   SetStatus(adm, kim, "INACTIVE"), SetStatus(adm, kim, "ACTIVE"), Boot,
   Pay(kim, 2, FALSE)}

\* Two administrators who work on each other's accounts and deposits; an empty
\* payment and a deduction beyond the balance are refused.
CrossJobs ==
  {Recharge(adm, kim, 1), Recharge(kim, adm, 1), Deduct(adm, kim, 1), Resolve(kim, adm, d1),
   Claim(kim, d1), Pay(kim, 1, TRUE), SetStatus(adm, kim, "ACTIVE"), Deny(kim, d1),
   Decide("register", adm, d1), Pay(kim, 0, TRUE), Deduct(adm, kim, 9)}

\* The interleavings that refute a statement.
TwoClaims == {Claim(kim, d1)}
RefusedPayment == {Pay(kim, 0, FALSE), Claim(kim, d1)}
TwoTaps == {Pay(kim, 1, FALSE)}

JobsOf == [balance |-> BalanceJobs, deposit |-> DepositJobs, cross |-> CrossJobs,
           claims |-> TwoClaims, refusal |-> RefusedPayment, taps |-> TwoTaps]
MCJobs == UNION {JobsOf[s] : s \in Scenes}

VARIABLE scene

MCInit == Init /\ scene \in Scenes
MCNext == Next /\ (\A r \in Requests : job'[r] \in JobsOf[scene] \cup {NoJob}) /\ UNCHANGED scene
MCSpec == MCInit /\ [][MCNext]_<<vars, scene>>
MCFairSpec == MCSpec /\ HandlersEnd

=================================================================================
