------------------------------- MODULE MCMember -------------------------------
(***************************************************************************)
(* In a behaviour the lists or the member's first page are in use and the  *)
(* other stands still; nobody activates an account (MCActivation).         *)
(* Lists: two owners, three tables, pages of two rows; rows 3 and 4, of one*)
(* owner, have one time; the last two rows come while somebody reads.      *)
(* Page: two members, three deposits, of which one is the second member's. *)
(***************************************************************************)
EXTENDS MemberApp

CONSTANTS kim, lee
VARIABLES part

MCOf == [r \in Rows |-> IF r \in {2, 6} THEN lee ELSE kim]
MCTable == [r \in Rows |-> IF r \in {1, 5} THEN "bank" ELSE IF r \in {3, 7} THEN "admin" ELSE "payment"]
MCTime == [r \in Rows |-> IF r > 3 THEN r - 1 ELSE r]
MCDay == [r \in Rows |-> 1 + r \div 3]
MCOwner == [d \in Deposits |-> IF d = 3 THEN lee ELSE kim]

Nobody ==
  [who |-> None, waits |-> {}, link |-> FALSE, calls |-> 1, login |-> 0, decide |-> 0, fault |-> 0, drop |-> 0]
Kim == [Nobody EXCEPT !.who = kim, !.waits = {1}]
\* One kind of trouble at a time: an answer lost with two deposits; sockets that drop
\* with a login, a lost answer or a decision; the link; two answers out of order; two
\* members; a decision with two deposits.
MCPlans ==
  {Nobody, [Kim EXCEPT !.waits = {1, 2}, !.fault = 1],
   [Kim EXCEPT !.waits = {}, !.login = 1, !.drop = 1, !.fault = 1], [Kim EXCEPT !.drop = 1, !.decide = 1],
   [Kim EXCEPT !.link = TRUE], [Kim EXCEPT !.calls = 2, !.decide = 1],
   [Nobody EXCEPT !.waits = {1, 3}, !.login = 2], [Kim EXCEPT !.waits = {1, 2}, !.decide = 1]}

\* Nobody activates an account.
MCBudgets ==
  {[edits |-> 0, asks |-> 0, guesses |-> 0, faults |-> 0, logouts |-> 0, crossings |-> 0]}

MCInit ==
  /\ Init /\ H!Init /\ L!Init
  /\ part = IF plan = Nobody THEN "lists" ELSE "home"
  /\ part = "lists" \/ (kind = "member" /\ owner = kim)
MCNext ==
  /\ UNCHANGED <<part, vars>>
  /\ \/ part = "lists" /\ L!Next /\ UNCHANGED homeVars
     \/ part = "home" /\ H!HomeNext /\ UNCHANGED listVars
ReadsLists(A) == part = "lists" /\ A
MCSpec ==
  /\ MCInit /\ [][MCNext]_<<part, vars, homeVars, listVars>>
  /\ WF_listVars(ReadsLists(L!Scroll)) /\ WF_listVars(ReadsLists(L!Hear))
  /\ WF_listVars(ReadsLists(L!Serve)) /\ H!HomeFairness

===============================================================================
