------------------------- MODULE CreditService_proofs -------------------------
(***************************************************************************)
(* Theorems about CreditService for every set of members, deposits,        *)
(* requests, workers and jobs.                                             *)
(***************************************************************************)
EXTENDS CreditService, TLAPS

\* A request that has arrived has a body and a worker, and is authenticated only
\* when its endpoint asks for it.
Routed ==
  \A r \in Requests :
    /\ pc[r] # "idle" => job[r] \in Jobs /\ at[r] \in Workers
    /\ pc[r] = "auth" => job[r].op \notin {"pay", "deny", "boot"}

TypeInv == ServiceTypeOK /\ Routed

\* Where match_new_deposit puts a deposit is a row.
LEMMA MatchedType ==
  ASSUME NEW d \in Deposits, NEW s PROVE Matched(d, s) \in DepositRow
<1> Owner[d] \in Members \cup {NoMember} BY CreditDbAssumption
<1> QED BY DEF Matched, DepositRow, DepositStatuses

\* The job of a request that is not idle has the fields its operation needs.
LEMMA JobFields ==
  ASSUME NEW j \in Jobs
  PROVE  /\ j.amount \in Nat /\ j.force \in BOOLEAN /\ j.to \in Statuses
         /\ j.member \in Members \cup {NoMember} /\ j.deposit \in Deposits \cup {NoDeposit}
         /\ j.op \in {"pay", "claim", "resolve", "recharge", "deduct", "status", "deny"}
              => j.member \in Members
         /\ j.op \in {"claim", "resolve", "register", "other", "delete", "deny"}
              => j.deposit \in Deposits
         /\ j.op \in {"resolve", "recharge", "deduct", "status", "register", "other", "delete"}
              => j.admin \in Members
<1> j \in JobType BY CreditDbAssumption
<1> QED BY CreditDbAssumption DEF JobType

\* An entry in the ledger.
LEMMA BookType ==
  ASSUME DbTypeOK, NEW r \in Requests, NEW m \in Members, NEW b \in Int, NEW delta \in Int,
         NEW kind \in {"PAY", "PAY_FAILED", "BANK", "MANUAL"},
         NEW dep \in Deposits \cup {NoDeposit}, NEW forced \in BOOLEAN,
         Book(r, m, b, delta, kind, dep, forced)
  PROVE  balance' \in [Members -> Int] /\ ledger' \in [Members -> Seq(Entry)]
<1> DEFINE e == [kind |-> kind, delta |-> delta, after |-> b + delta,
                 dep |-> dep, forced |-> forced, by |-> r]
<1>1. e \in Entry BY DEF Entry
<1>2. Append(ledger[m], e) \in Seq(Entry) BY <1>1 DEF DbTypeOK
<1> HIDE DEF e
<1>3. ledger' = [ledger EXCEPT ![m] = Append(@, e)] BY DEF Book, e
<1> QED BY <1>2, <1>3 DEF Book, DbTypeOK

\* What the end of a handler does to the loops, the locks and the phases.
LEMMA EndType ==
  ASSUME ServiceTypeOK, NEW r \in Requests, NEW phase \in Phases, End(r, phase)
  PROVE  /\ pc' \in [Requests -> Phases]
         /\ loop' \in [Workers -> Requests \cup {NoRequest}]
         /\ lock' \in [Members -> Requests \cup {NoRequest}]
BY DEF ServiceTypeOK, DbTypeOK, End, Go, ReleaseAll

\* Deposits parked by an inactivation or by a worker's start remain rows.
LEMMA WriteParkedType ==
  ASSUME TypeInv, NEW r \in Requests, pc[r] # "idle",
         job[r].op \in {"status", "boot"}, WriteParked(r)
  PROVE  bank' \in [Deposits -> DepositRow] /\ status' \in [Members -> Statuses]
<1> DEFINE P == seen[r].parks
<1>1. job[r] \in Jobs BY DEF TypeInv, Routed
<1>2. Parked(P, seen[r].who) \in [Deposits -> DepositRow]
  <2>1. bank \in [Deposits -> DepositRow] BY DEF TypeInv, ServiceTypeOK, DbTypeOK
  <2>2. Owner \in [Deposits -> Members \cup {NoMember}] BY CreditDbAssumption
  <2> QED BY <2>1, <2>2 DEF Parked, DepositRow, DepositStatuses
<1>3. bank' \in [Deposits -> DepositRow]
  BY <1>2 DEF WriteParked, TypeInv, ServiceTypeOK, DbTypeOK
<1>4. status' \in [Members -> Statuses]
  <2>1. job[r].to \in Statuses BY <1>1, JobFields
  <2>2. status \in [Members -> Statuses] BY DEF TypeInv, ServiceTypeOK, DbTypeOK
  <2>3. \/ status' = status
        \/ status' = [status EXCEPT ![job[r].member] = IF seen[r].st = job[r].to THEN @
                                                      ELSE job[r].to]
    BY DEF WriteParked
  <2> QED BY <2>1, <2>2, <2>3
<1> QED BY <1>3, <1>4

\* A step of a request that has arrived leaves everyone's route alone.
LEMMA RouteKept ==
  ASSUME TypeInv, NEW r \in Requests, pc[r] # "idle", NEW phase, Go(r, phase), phase # "auth",
         UNCHANGED <<job, at>>
  PROVE  Routed'
BY DEF TypeInv, ServiceTypeOK, Routed, Go

\* What a session may load.
LEMMA SeeType ==
  ASSUME ServiceTypeOK, NEW r \in Requests, NEW s \in SeenType, See(r, s)
  PROVE  seen' \in [Requests -> SeenType]
BY DEF ServiceTypeOK, See

-------------------------------------------------------------------------------
LEMMA TypeInit == Init => TypeInv
<1> SUFFICES ASSUME Init PROVE TypeInv OBVIOUS
<1>1. DbTypeOK
  <2>1. [m \in Members |-> <<>>] \in [Members -> Seq(Entry)] OBVIOUS
  <2> QED BY <2>1, CreditDbAssumption DEF Init, DbInit, DbTypeOK
<1>2. Unseen \in SeenType
  BY DEF Unseen, SeenType, Unregistered, DepositRow, DepositStatuses, Statuses
<1>3. ServiceTypeOK /\ Routed BY <1>1, <1>2 DEF Init, ServiceTypeOK, Routed, Phases
<1> QED BY <1>3 DEF TypeInv

\* A step that loads rows, waits for a lock or enters the loop.
LEMMA LoadType ==
  ASSUME TypeInv, NEW r \in Requests, pc[r] # "idle", NEW phase \in Phases \ {"auth"}, Go(r, phase),
         seen' = seen \/ \E s \in SeenType : See(r, s),
         loop' = loop \/ EnterLoop(r),
         lock' = lock \/ \E m \in Members : Acquire(r, m),
         UNCHANGED <<tables, routing>>
  PROVE  TypeInv'
<1>1. Routed' BY RouteKept DEF routing
<1>2. seen' \in [Requests -> SeenType] BY SeeType DEF TypeInv, ServiceTypeOK
<1>3. loop' \in [Workers -> Requests \cup {NoRequest}]
  BY DEF TypeInv, ServiceTypeOK, EnterLoop
<1>4. lock' \in [Members -> Requests \cup {NoRequest}]
  BY DEF TypeInv, ServiceTypeOK, DbTypeOK, Acquire
<1>5. pc' \in [Requests -> Phases] BY DEF TypeInv, ServiceTypeOK, Go
<1> QED BY <1>1, <1>2, <1>3, <1>4, <1>5 DEF TypeInv, ServiceTypeOK, DbTypeOK, tables, routing

\* A step that ends a handler: what is left to show is what it writes.
LEMMA CommitType ==
  ASSUME TypeInv, NEW r \in Requests, pc[r] # "idle", NEW phase \in {"done", "items"}, End(r, phase),
         UNCHANGED <<job, at, seen>>, up' \subseteq Workers,
         balance' \in [Members -> Int], status' \in [Members -> Statuses],
         ledger' \in [Members -> Seq(Entry)], bank' \in [Deposits -> DepositRow],
         itemized' \subseteq Requests, recent' \in [Members -> BOOLEAN]
  PROVE  TypeInv'
<1>1. Routed' BY RouteKept DEF End
<1>2. phase \in Phases BY DEF Phases
<1>3. pc' \in [Requests -> Phases] /\ loop' \in [Workers -> Requests \cup {NoRequest}]
      /\ lock' \in [Members -> Requests \cup {NoRequest}]
  BY <1>2, EndType DEF TypeInv
<1> QED BY <1>1, <1>3 DEF TypeInv, ServiceTypeOK, DbTypeOK

LEMMA HandlerBusy == \A r \in Requests : TypeInv /\ Handler(r) => pc[r] # "idle"
<1> SUFFICES ASSUME NEW r \in Requests, TypeInv, Handler(r) PROVE pc[r] # "idle" OBVIOUS
<1>1. CASE DeadlockVictim(r)
  <2>1. \E q \in Requests : WaitsFor(r, q) BY <1>1 DEF DeadlockVictim, Circle, RowWaits
  <2> QED BY <2>1 DEF WaitsFor, Runs
<1>2. CASE ~DeadlockVictim(r)
  BY <1>2 DEF TypeInv, Handler, Runs, UserAuth, AdminAuth, PayCheck, PayLock, PayRefuse, PayShort,
     PaySuccess, PayItems, AdminRefuse, Close, ClaimRead, ClaimLock, ClaimCommit, ResolveRead,
     AdminLock, ResolveCommit, AdjustStart, RechargeCommit, DeductCommit, CloseRead, OtherCommit,
     DeleteCommit, DenyCommit, RegisterRead, RegisterCommit, StatusRead, StatusFlush,
     StatusCommit, BootRead, BootCommit
<1> QED BY <1>1, <1>2

\* The steps of the handlers up to their commits.
Reads(r) ==
  \/ UserAuth(r) \/ AdminAuth(r) \/ PayCheck(r) \/ PayLock(r)
  \/ ClaimRead(r) \/ ClaimLock(r) \/ ResolveRead(r) \/ AdminLock(r)
  \/ AdjustStart(r) \/ CloseRead(r) \/ RegisterRead(r)
  \/ StatusRead(r) \/ StatusFlush(r) \/ BootRead(r)

\* A session takes a balance from the database or keeps the one it has.
Loads(r) ==
  seen' = seen \/ \E s \in SeenType :
    /\ See(r, s)
    /\ s.bal = seen[r].bal \/ \E m \in Members : s.bal = balance[m]

LEMMA ReadFields ==
  ASSUME TypeInv, NEW r \in Requests, pc[r] # "idle"
  PROVE  /\ job[r] \in Jobs /\ seen[r] \in SeenType
         /\ bank \in [Deposits -> DepositRow] /\ balance \in [Members -> Int]
         /\ status \in [Members -> Statuses]
         /\ job[r].op \in {"claim", "resolve", "recharge", "deduct", "status", "pay"}
              => job[r].member \in Members
         /\ job[r].op \in {"claim", "resolve", "register", "other", "delete", "deny"}
              => job[r].deposit \in Deposits
         /\ job[r].op \in {"resolve", "recharge", "deduct", "status", "register", "other", "delete"}
              => job[r].admin \in Members
<1>1. /\ job[r] \in Jobs /\ seen[r] \in SeenType
      /\ bank \in [Deposits -> DepositRow] /\ balance \in [Members -> Int]
      /\ status \in [Members -> Statuses]
  BY DEF TypeInv, Routed, ServiceTypeOK, DbTypeOK
<1> QED BY <1>1, JobFields

LEMMA LoadStep ==
  ASSUME TypeInv, NEW r \in Requests, pc[r] # "idle", Reads(r) PROVE Loads(r)
<1>a. /\ job[r] \in Jobs /\ seen[r] \in SeenType
      /\ bank \in [Deposits -> DepositRow] /\ balance \in [Members -> Int]
      /\ status \in [Members -> Statuses]
      /\ job[r].op \in {"claim", "resolve", "recharge", "deduct", "status", "pay"}
           => job[r].member \in Members
      /\ job[r].op \in {"claim", "resolve", "register", "other", "delete", "deny"}
           => job[r].deposit \in Deposits
      /\ job[r].op \in {"resolve", "recharge", "deduct", "status", "register", "other", "delete"}
           => job[r].admin \in Members
  BY ReadFields
<1>1. CASE UserAuth(r) \/ PayCheck(r) \/ AdjustStart(r)
  BY <1>1 DEF Loads, UserAuth, PayCheck, AdjustStart
<1>2. CASE AdminAuth(r) \/ PayLock(r) \/ ClaimLock(r) \/ AdminLock(r)
  <2>1. seen' = seen \/ \E m \in Members :
          See(r, [seen[r] EXCEPT !.bal = balance[m], !.st = status[m]])
    <3>1. CASE AdminAuth(r)
      <4>1. job[r].op \in {"resolve", "recharge", "deduct", "status", "register", "other", "delete"}
        <5>1. job[r].op \in Ops BY <1>a, CreditDbAssumption DEF JobType
        <5> QED BY <3>1, <5>1 DEF AdminAuth, Ops, TypeInv, Routed
      <4> QED BY <3>1, <4>1, <1>a DEF AdminAuth
    <3>2. CASE PayLock(r) BY <3>2, <1>a DEF PayLock, Runs
    <3>3. CASE ClaimLock(r) BY <3>3, <1>a DEF ClaimLock, Runs
    <3>4. CASE AdminLock(r) BY <3>4, <1>a DEF AdminLock
    <3> QED BY <1>2, <3>1, <3>2, <3>3, <3>4
  <2>2. ASSUME NEW m \in Members
        PROVE  LET s == [seen[r] EXCEPT !.bal = balance[m], !.st = status[m]]
               IN  s \in SeenType /\ s.bal = balance[m]
    BY <1>a DEF SeenType
  <2> QED BY <2>1, <2>2 DEF Loads
<1>3. CASE ClaimRead(r) \/ ResolveRead(r) \/ CloseRead(r)
  <2>1. job[r].deposit \in Deposits
    BY <1>3, <1>a DEF ClaimRead, ResolveRead, CloseRead, Runs
  <2> DEFINE s == [seen[r] EXCEPT !.row = bank[job[r].deposit]]
  <2>2. s \in SeenType /\ s.bal = seen[r].bal
    BY <1>a, <2>1 DEF SeenType
  <2> QED BY <1>3, <2>2 DEF Loads, ClaimRead, ResolveRead, CloseRead, Decline
<1>4. CASE RegisterRead(r)
  <2> DEFINE d == job[r].deposit
  <2>1. d \in Deposits BY <1>4, <1>a DEF RegisterRead, Runs
  <2>2. Matched(d, StatusOf(status, Owner[d])) \in DepositRow BY <2>1, MatchedType
  <2> DEFINE s == [seen[r] EXCEPT !.row = Matched(d, StatusOf(status, Owner[d]))]
  <2>3. s \in SeenType /\ s.bal = seen[r].bal
    BY <1>a, <2>2 DEF SeenType
  <2> QED BY <1>4, <2>3 DEF Loads, RegisterRead, Decline
<1>5. CASE StatusRead(r)
  <2> DEFINE s == [seen[r] EXCEPT !.st = status[job[r].member]]
  <2>1. s \in SeenType /\ s.bal = seen[r].bal
    BY <1>5, <1>a DEF StatusRead, Runs, SeenType
  <2> QED BY <1>5, <2>1 DEF Loads, StatusRead, Decline
<1>6. CASE StatusFlush(r) \/ BootRead(r)
  <2>1. [d \in Deposits |-> bank[d].who] \in [Deposits -> Members \cup {NoMember}]
    BY <1>a DEF DepositRow
  <2>2. \A M : Parkable(M) \subseteq Deposits BY DEF Parkable
  <2>3. ASSUME NEW P \in SUBSET Deposits
        PROVE  LET s == [seen[r] EXCEPT !.parks = P, !.who = [d \in Deposits |-> bank[d].who]]
               IN  s \in SeenType /\ s.bal = seen[r].bal
    BY <1>a, <2>1 DEF SeenType
  <2>4. \E P \in SUBSET Deposits :
          See(r, [seen[r] EXCEPT !.parks = P, !.who = [d \in Deposits |-> bank[d].who]])
    <3>1. CASE StatusFlush(r)
      <4> DEFINE P == IF job[r].to = "INACTIVE" /\ (seen[r].st # job[r].to \/ status[job[r].member] = "INACTIVE")
                      THEN Parkable({job[r].member}) ELSE {}
      <4>1. P \in SUBSET Deposits BY <2>2
      <4>2. See(r, [seen[r] EXCEPT !.parks = P, !.who = [d \in Deposits |-> bank[d].who]])
        BY <3>1 DEF StatusFlush
      <4> QED BY <4>1, <4>2
    <3>2. CASE BootRead(r) BY <3>2, <2>2 DEF BootRead
    <3> QED BY <1>6, <3>1, <3>2
  <2> QED BY <2>3, <2>4 DEF Loads
<1> QED BY <1>1, <1>2, <1>3, <1>4, <1>5, <1>6 DEF Reads


LEMMA ReadType ==
  ASSUME TypeInv, NEW r \in Requests, pc[r] # "idle", Reads(r) PROVE TypeInv'
<1>a. job[r].op \in {"claim", "resolve", "recharge", "deduct", "status", "pay"}
        => job[r].member \in Members
  BY ReadFields
<1>1. \E phase \in Phases \ {"auth"} : Go(r, phase)
  BY DEF Reads, Decline, Phases, UserAuth, AdminAuth, PayCheck, PayLock, ClaimRead, ClaimLock, ResolveRead, AdminLock,
         AdjustStart, CloseRead, RegisterRead, StatusRead, StatusFlush, BootRead
<1>2. seen' = seen \/ \E s \in SeenType : See(r, s)
  BY LoadStep DEF Loads
<1>3. loop' = loop \/ EnterLoop(r)
  BY DEF Reads, Decline, UserAuth, AdminAuth, PayCheck, PayLock, ClaimRead, ClaimLock, ResolveRead, AdminLock,
         AdjustStart, CloseRead, RegisterRead, StatusRead, StatusFlush, BootRead
<1>4. lock' = lock \/ \E m \in Members : Acquire(r, m)
  BY <1>a DEF Reads, Decline, dbVars, Runs, UserAuth, AdminAuth, PayCheck, PayLock, ClaimRead, ClaimLock, ResolveRead, AdminLock,
         AdjustStart, CloseRead, RegisterRead, StatusRead, StatusFlush, BootRead
<1>5. UNCHANGED <<tables, routing>>
  BY DEF Reads, Decline, dbVars, tables, routing, UserAuth, AdminAuth, PayCheck, PayLock, ClaimRead, ClaimLock, ResolveRead, AdminLock,
         AdjustStart, CloseRead, RegisterRead, StatusRead, StatusFlush, BootRead
<1> QED BY <1>1, <1>2, <1>3, <1>4, <1>5, LoadType

\* The steps of the handlers that end a transaction.
Ends(r) ==
  \/ PayShort(r) \/ PaySuccess(r) \/ PayItems(r)
  \/ ClaimCommit(r) \/ ResolveCommit(r) \/ RechargeCommit(r) \/ DeductCommit(r)
  \/ OtherCommit(r) \/ DeleteCommit(r) \/ DenyCommit(r) \/ RegisterCommit(r)
  \/ StatusCommit(r) \/ BootCommit(r) \/ DeadlockVictim(r)

\* A refusal, and the end of its transaction.
Quits(r) == PayRefuse(r) \/ AdminRefuse(r) \/ Close(r)

LEMMA QuitEffect ==
  ASSUME TypeInv, NEW r \in Requests, Quits(r)
  PROVE  /\ UNCHANGED <<tables, job, at, up, seen>>
         /\ Go(r, pc'[r]) /\ pc'[r] \in {"closing", "done"}
         /\ lock' = lock \/ ReleaseAll({r})
         /\ \/ loop' = loop
            \/ loop' = [w \in Workers |-> IF loop[w] = r THEN NoRequest ELSE loop[w]]
BY DEF Quits, PayRefuse, AdminRefuse, Close, Refuse, Go, routing, TypeInv, ServiceTypeOK

LEMMA QuitType ==
  ASSUME TypeInv, NEW r \in Requests, pc[r] # "idle", Quits(r)
  PROVE  TypeInv'
<1>1. Routed' BY QuitEffect, RouteKept
<1>2. pc' \in [Requests -> Phases]
  BY QuitEffect DEF TypeInv, ServiceTypeOK, Go, Phases
<1>3. loop' \in [Workers -> Requests \cup {NoRequest}]
  BY QuitEffect DEF TypeInv, ServiceTypeOK
<1>4. lock' \in [Members -> Requests \cup {NoRequest}]
  BY QuitEffect DEF TypeInv, ServiceTypeOK, DbTypeOK, ReleaseAll
<1> QED BY <1>1, <1>2, <1>3, <1>4, QuitEffect DEF TypeInv, ServiceTypeOK, DbTypeOK, tables

LEMMA EndingType ==
  ASSUME TypeInv, NEW r \in Requests, pc[r] # "idle", Ends(r)
  PROVE  TypeInv'
<1>a. /\ job[r] \in Jobs /\ at[r] \in Workers
      /\ seen[r] \in SeenType /\ seen[r].bal \in Int /\ seen[r].row \in DepositRow
      /\ balance \in [Members -> Int] /\ status \in [Members -> Statuses]
      /\ ledger \in [Members -> Seq(Entry)] /\ bank \in [Deposits -> DepositRow]
      /\ itemized \subseteq Requests /\ recent \in [Members -> BOOLEAN] /\ up \subseteq Workers
  BY DEF TypeInv, Routed, ServiceTypeOK, DbTypeOK, SeenType
<1>b. /\ job[r].amount \in Nat /\ job[r].force \in BOOLEAN
      /\ job[r].member \in Members \cup {NoMember}
      /\ job[r].op \in {"claim", "resolve", "recharge", "deduct", "status", "pay"} => job[r].member \in Members
      /\ job[r].op \in {"claim", "resolve", "register", "other", "delete", "deny"} => job[r].deposit \in Deposits
  BY <1>a, JobFields
<1>c. \A d \in Deposits : Amount[d] \in Int BY CreditDbAssumption
<1>d. DbTypeOK BY DEF TypeInv, ServiceTypeOK
<1> USE DEF tables, routing
<1>2. CASE PayShort(r)
  <2>1. balance' \in [Members -> Int] /\ ledger' \in [Members -> Seq(Entry)]
    <3>1. Book(r, job[r].member, seen[r].bal, 0, "PAY_FAILED", NoDeposit, job[r].force)
      BY <1>2 DEF PayShort
    <3>2. job[r].member \in Members BY <1>2, <1>b DEF PayShort, Runs
    <3>3. 0 \in Int BY <1>b
    <3>4. seen[r].bal \in Int /\ job[r].force \in BOOLEAN /\ DbTypeOK
          /\ "PAY_FAILED" \in {"PAY", "PAY_FAILED", "BANK", "MANUAL"}
          /\ NoDeposit \in Deposits \cup {NoDeposit}
      BY <1>a, <1>b, <1>d
    <3> QED BY <3>1, <3>2, <3>3, <3>4, BookType, Zenon
  <2> QED BY <2>1, <1>2, <1>a, CommitType DEF PayShort
<1>3. CASE PaySuccess(r)
  <2>1. balance' \in [Members -> Int] /\ ledger' \in [Members -> Seq(Entry)]
    <3>1. Book(r, job[r].member, seen[r].bal, -job[r].amount, "PAY", NoDeposit, job[r].force)
      BY <1>3 DEF PaySuccess
    <3>2. job[r].member \in Members BY <1>3, <1>b DEF PaySuccess, Runs
    <3>3. -job[r].amount \in Int BY <1>b
    <3>4. seen[r].bal \in Int /\ job[r].force \in BOOLEAN /\ DbTypeOK
          /\ "PAY" \in {"PAY", "PAY_FAILED", "BANK", "MANUAL"}
          /\ NoDeposit \in Deposits \cup {NoDeposit}
      BY <1>a, <1>b, <1>d
    <3> QED BY <3>1, <3>2, <3>3, <3>4, BookType, Zenon
  <2>2. recent' \in [Members -> BOOLEAN] BY <1>3, <1>a DEF PaySuccess
  <2> QED BY <2>1, <2>2, <1>3, <1>a, CommitType DEF PaySuccess
<1>4. CASE PayItems(r)
  <2>1. Routed' BY <1>4, RouteKept DEF PayItems
  <2>2. pc' \in [Requests -> Phases] BY <1>4 DEF PayItems, Go, Phases, TypeInv, ServiceTypeOK
  <2> QED BY <2>1, <2>2, <1>4 DEF PayItems, TypeInv, ServiceTypeOK, DbTypeOK
<1>5. CASE ClaimCommit(r)
  <2>1. balance' \in [Members -> Int] /\ ledger' \in [Members -> Seq(Entry)]
    BY <1>5, <1>a, <1>b, <1>c, <1>d, BookType DEF ClaimCommit, Runs
  <2>2. bank' \in [Deposits -> DepositRow]
    <3> DEFINE d == job[r].deposit
    <3>1. bank' = bank \/ bank' = [bank EXCEPT ![d] = [@ EXCEPT !.st = "CREDITED"]]
      BY <1>5 DEF ClaimCommit
    <3>2. d \in Deposits BY <1>5, <1>b DEF ClaimCommit, Runs
    <3>3. [bank[d] EXCEPT !.st = "CREDITED"] \in DepositRow
      BY <3>2, <1>a DEF DepositRow, DepositStatuses
    <3> QED BY <3>1, <3>2, <3>3, <1>a
  <2> QED BY <2>1, <2>2, <1>5, <1>a, CommitType DEF ClaimCommit
<1>6. CASE ResolveCommit(r)
  <2>1. balance' \in [Members -> Int] /\ ledger' \in [Members -> Seq(Entry)]
    BY <1>6, <1>a, <1>b, <1>c, <1>d, BookType DEF ResolveCommit, Runs
  <2>2. bank' \in [Deposits -> DepositRow]
    <3> DEFINE d == job[r].deposit
    <3>1. d \in Deposits /\ job[r].member \in Members BY <1>6, <1>b DEF ResolveCommit, Runs
    <3>2. bank' = bank \/ bank' = [bank EXCEPT ![d] = Resolved(@, seen[r].row, job[r].member)]
      BY <1>6 DEF ResolveCommit
    <3>3. Resolved(bank[d], seen[r].row, job[r].member) \in DepositRow
      <4>1. bank[d].who \in Members \cup {NoMember} BY <3>1, <1>a DEF DepositRow
      <4> DEFINE b == bank[d].denied /\ ~seen[r].row.denied
      <4>2. b \in BOOLEAN BY Zenon
      <4>3. Resolved(bank[d], seen[r].row, job[r].member) =
              [st |-> "CREDITED_MANUAL", denied |-> b,
               who |-> IF seen[r].row.who = job[r].member THEN bank[d].who ELSE job[r].member]
        BY Zenon DEF Resolved
      <4> HIDE DEF b
      <4> QED BY <3>1, <4>1, <4>2, <4>3 DEF DepositRow, DepositStatuses
    <3> QED BY <3>1, <3>2, <3>3, <1>a
  <2> QED BY <2>1, <2>2, <1>6, <1>a, CommitType DEF ResolveCommit
<1>7. CASE RechargeCommit(r)
  <2>1. balance' \in [Members -> Int] /\ ledger' \in [Members -> Seq(Entry)]
    <3>1. Book(r, job[r].member, seen[r].bal, job[r].amount, "MANUAL", NoDeposit, FALSE)
      BY <1>7 DEF RechargeCommit
    <3>2. job[r].member \in Members BY <1>7, <1>b DEF RechargeCommit, Runs
    <3>3. job[r].amount \in Int BY <1>b
    <3> QED BY <3>1, <3>2, <3>3, <1>a, <1>b, <1>d, BookType
  <2> QED BY <2>1, <1>7, <1>a, CommitType DEF RechargeCommit
<1>8. CASE DeductCommit(r)
  <2>1. balance' \in [Members -> Int] /\ ledger' \in [Members -> Seq(Entry)]
    <3>1. Book(r, job[r].member, seen[r].bal, -job[r].amount, "MANUAL", NoDeposit, FALSE)
      BY <1>8 DEF DeductCommit
    <3>2. job[r].member \in Members BY <1>8, <1>b DEF DeductCommit, Runs
    <3>3. -job[r].amount \in Int BY <1>b
    <3> QED BY <3>1, <3>2, <3>3, <1>a, <1>b, <1>d, BookType
  <2> QED BY <2>1, <1>8, <1>a, CommitType DEF DeductCommit
<1>9. CASE OtherCommit(r) \/ DeleteCommit(r) \/ DenyCommit(r)
  <2>1. bank' \in [Deposits -> DepositRow]
    <3> DEFINE d == job[r].deposit
    <3>1. d \in Deposits BY <1>9, <1>b DEF OtherCommit, DeleteCommit, DenyCommit, Runs
    <3>2. \E row \in DepositRow : CloseWith(r, row)
      <4>1. [bank[d] EXCEPT !.st = "OTHER", !.denied = FALSE] \in DepositRow
        BY <3>1, <1>a DEF DepositRow, DepositStatuses
      <4>2. [Unregistered EXCEPT !.st = "DELETED"] \in DepositRow
        BY DEF Unregistered, DepositRow, DepositStatuses
      <4>3. [st |-> "ERROR", who |-> NoMember, denied |-> TRUE] \in DepositRow
        BY DEF DepositRow, DepositStatuses
      <4> QED BY <1>9, <4>1, <4>2, <4>3 DEF OtherCommit, DeleteCommit, DenyCommit
    <3> QED BY <3>2, <1>a DEF CloseWith
  <2> QED BY <2>1, <1>9, <1>a, CommitType DEF OtherCommit, DeleteCommit, DenyCommit, CloseWith
<1>10. CASE RegisterCommit(r)
  <2>1. bank' \in [Deposits -> DepositRow]
    BY <1>10, <1>a DEF RegisterCommit
  <2> QED BY <2>1, <1>10, <1>a, CommitType DEF RegisterCommit
<1>11. CASE StatusCommit(r)
  <2>1. bank' \in [Deposits -> DepositRow] /\ status' \in [Members -> Statuses]
    BY <1>11, WriteParkedType DEF StatusCommit, Runs
  <2> QED BY <2>1, <1>11, <1>a, CommitType DEF StatusCommit
<1>12. CASE BootCommit(r)
  <2>1. bank' \in [Deposits -> DepositRow] /\ status' \in [Members -> Statuses]
    BY <1>12, WriteParkedType DEF BootCommit, Runs
  <2> QED BY <2>1, <1>12, <1>a, CommitType DEF BootCommit
<1>13. CASE DeadlockVictim(r)
  BY <1>13, <1>a, CommitType DEF DeadlockVictim
<1> QED BY <1>2, <1>3, <1>4, <1>5, <1>6, <1>7, <1>8, <1>9, <1>10, <1>11, <1>12, <1>13
   DEF Ends

LEMMA HandlerType ==
  ASSUME TypeInv, NEW r \in Requests, Handler(r) PROVE TypeInv'
<1>1. pc[r] # "idle" BY HandlerBusy
<1> QED BY <1>1, ReadType, EndingType, QuitType DEF Handler, Reads, Ends, Quits

LEMMA TypeStep == TypeInv /\ [Next]_vars => TypeInv'
<1> SUFFICES ASSUME TypeInv, [Next]_vars PROVE TypeInv' OBVIOUS
<1>1. ASSUME NEW r \in Requests, NEW w \in Workers, NEW j \in Jobs, Arrive(r, w, j)
      PROVE  TypeInv'
  <2>1. Routed' BY <1>1, CreditDbAssumption DEF Arrive, Go, TypeInv, ServiceTypeOK, Routed
  <2> QED BY <1>1, <2>1 DEF Arrive, Go, TypeInv, ServiceTypeOK, DbTypeOK, dbVars, Phases
<1>2. ASSUME NEW r \in Requests, Handler(r) PROVE TypeInv'
  BY <1>2, HandlerType
<1>3. ASSUME NEW m \in Members, WindowPasses(m) PROVE TypeInv'
  BY <1>3 DEF WindowPasses, TypeInv, ServiceTypeOK, DbTypeOK, Routed, routing
<1>4. ASSUME NEW w \in Workers, Crash(w) PROVE TypeInv'
  <2>1. lock' \in [Members -> Requests \cup {NoRequest}]
    BY <1>4 DEF Crash, ReleaseAll, TypeInv, ServiceTypeOK, DbTypeOK
  <2> QED BY <1>4, <2>1 DEF Crash, TypeInv, ServiceTypeOK, DbTypeOK, Routed, Phases, tables
<1>5. CASE UNCHANGED vars
  BY <1>5 DEF vars, serviceVars, dbVars, TypeInv, ServiceTypeOK, DbTypeOK, Routed
<1> QED BY <1>1, <1>2, <1>3, <1>4, <1>5 DEF Next

\* Type correctness: every table, session and lock of the running system holds
\* what its columns and fields may hold.
THEOREM TypeCorrect == Spec => []TypeOK
<1>1. Init => crossed \subseteq Deposits BY DEF Init
<1>2. crossed \subseteq Deposits /\ [Next]_vars => (crossed \subseteq Deposits)'
  BY DEF Next, Crossing, vars
<1>3. TypeInv /\ crossed \subseteq Deposits => TypeOK BY DEF TypeInv, TypeOK
<1> QED BY <1>1, <1>2, <1>3, TypeInit, TypeStep, PTL DEF Spec

-------------------------------------------------------------------------------
MoneyOps == {"pay", "claim", "resolve", "recharge", "deduct"}
Kinds == {"PAY", "PAY_FAILED", "BANK", "MANUAL"}

\* r books an amount that leaves the balance its session holds at zero or more.
Writes(r) ==
  \E delta \in Int, kind \in Kinds, dep \in Deposits \cup {NoDeposit}, forced \in BOOLEAN :
    /\ Book(r, job[r].member, seen[r].bal, delta, kind, dep, forced)
    /\ seen[r].bal >= 0 => seen[r].bal + delta >= 0
    /\ kind = "PAY" => Go(r, "items")

\* Balances change where a handler of MoneyOps commits, and nowhere else.
LEMMA EndEffect ==
  ASSUME TypeInv, NEW r \in Requests, pc[r] # "idle", Ends(r)
  PROVE  \/ UNCHANGED <<balance, ledger>>
         \/ Writes(r) /\ pc[r] = "commit" /\ job[r].op \in MoneyOps
<1>a. job[r] \in Jobs /\ job[r].amount \in Nat /\ job[r].force \in BOOLEAN /\ seen[r].bal \in Int
  BY JobFields DEF TypeInv, Routed, ServiceTypeOK, SeenType
<1>b. job[r].op \in {"claim", "resolve"} => Amount[job[r].deposit] \in Nat /\ job[r].deposit \in Deposits
  BY <1>a, JobFields, CreditDbAssumption
<1>1. CASE PayShort(r)
  <2>1. Book(r, job[r].member, seen[r].bal, 0, "PAY_FAILED", NoDeposit, job[r].force)
    BY <1>1 DEF PayShort
  <2>2. /\ seen[r].bal >= 0 => seen[r].bal + 0 >= 0
        /\ 0 \in Int /\ "PAY_FAILED" \in Kinds /\ "PAY_FAILED" # "PAY"
    BY <1>a DEF Kinds
  <2>3. Writes(r) BY <2>1, <2>2, <1>a, Zenon DEF Writes
  <2> QED BY <2>3, <1>1 DEF PayShort, Runs, MoneyOps
<1>2. CASE PaySuccess(r)
  <2>1. Book(r, job[r].member, seen[r].bal, -job[r].amount, "PAY", NoDeposit, job[r].force)
        /\ Go(r, "items")
    BY <1>2 DEF PaySuccess, End
  <2>2. (seen[r].bal >= 0 => seen[r].bal + (-job[r].amount) >= 0) /\ -job[r].amount \in Int
    BY <1>2, <1>a DEF PaySuccess
  <2>3. Writes(r) BY <2>1, <2>2, <1>a, Zenon DEF Writes, Kinds
  <2> QED BY <2>3, <1>2 DEF PaySuccess, Runs, MoneyOps
<1>3. CASE ClaimCommit(r) \/ ResolveCommit(r)
  <2> DEFINE amount == Amount[job[r].deposit]
  <2>1. /\ pc[r] = "commit" /\ job[r].op \in {"claim", "resolve"}
        /\ \/ UNCHANGED <<balance, ledger>>
           \/ Book(r, job[r].member, seen[r].bal, amount, "BANK", job[r].deposit, FALSE)
    BY <1>3 DEF ClaimCommit, ResolveCommit, Runs
  <2>2. (seen[r].bal >= 0 => seen[r].bal + amount >= 0) /\ amount \in Int
    BY <2>1, <1>a, <1>b
  <2>3. CASE Book(r, job[r].member, seen[r].bal, amount, "BANK", job[r].deposit, FALSE)
    BY <2>1, <2>2, <2>3, <1>b, Zenon DEF Writes, Kinds, MoneyOps
  <2> QED BY <2>1, <2>3
<1>4. CASE RechargeCommit(r)
  <2>1. (seen[r].bal >= 0 => seen[r].bal + job[r].amount >= 0) /\ job[r].amount \in Int BY <1>a
  <2>2. CASE Book(r, job[r].member, seen[r].bal, job[r].amount, "MANUAL", NoDeposit, FALSE)
    <3>1. Writes(r) BY <2>1, <2>2, Zenon DEF Writes, Kinds
    <3> QED BY <3>1, <1>4 DEF RechargeCommit, Runs, MoneyOps
  <2> QED BY <2>2, <1>4 DEF RechargeCommit
<1>5. CASE DeductCommit(r)
  <2>1. Book(r, job[r].member, seen[r].bal, -job[r].amount, "MANUAL", NoDeposit, FALSE)
    BY <1>5 DEF DeductCommit
  <2>2. ~(seen[r].bal < job[r].amount) BY <1>5 DEF DeductCommit, AdminRefuses, Runs
  <2>3. /\ seen[r].bal >= 0 => seen[r].bal + (-job[r].amount) >= 0
        /\ -job[r].amount \in Int /\ "MANUAL" \in Kinds /\ "MANUAL" # "PAY"
    BY <2>2, <1>a DEF Kinds
  <2>4. Writes(r) BY <2>1, <2>3, Zenon DEF Writes
  <2> QED BY <2>4, <1>5 DEF DeductCommit, Runs, MoneyOps
<1>6. CASE PayItems(r) \/ OtherCommit(r) \/ DeleteCommit(r) \/ DenyCommit(r)
           \/ RegisterCommit(r) \/ StatusCommit(r) \/ BootCommit(r) \/ DeadlockVictim(r)
  BY <1>6 DEF PayItems, OtherCommit, DeleteCommit, DenyCommit, CloseWith,
       RegisterCommit, StatusCommit, BootCommit, DeadlockVictim, tables
<1> QED BY <1>1, <1>2, <1>3, <1>4, <1>5, <1>6 DEF Ends

\* No session holds a negative balance, no row does.
NonNegative == BalanceNonNegative /\ \A r \in Requests : seen[r].bal >= 0

LEMMA NonNegativeStep == TypeInv /\ NonNegative /\ [Next]_vars => NonNegative'
<1> SUFFICES ASSUME TypeInv, NonNegative, [Next]_vars PROVE NonNegative' OBVIOUS
<1>a. balance \in [Members -> Int] /\ seen \in [Requests -> SeenType]
  BY DEF TypeInv, ServiceTypeOK, DbTypeOK
<1>1. ASSUME UNCHANGED <<balance, seen>> PROVE NonNegative'
  BY <1>1 DEF NonNegative, BalanceNonNegative
<1>2. ASSUME NEW r \in Requests, Handler(r) PROVE NonNegative'
  <2>1. pc[r] # "idle" BY <1>2, HandlerBusy
  <2>2. CASE Reads(r)
    <3>1. balance' = balance
      BY <2>2 DEF Reads, tables, dbVars, UserAuth, AdminAuth, PayCheck, PayLock, ClaimRead,
           ClaimLock, ResolveRead, AdminLock, AdjustStart, CloseRead, RegisterRead, StatusRead,
           StatusFlush, BootRead
    <3>2. Loads(r) BY <2>1, <2>2, LoadStep
    <3> QED BY <3>1, <3>2, <1>a DEF Loads, See, NonNegative, BalanceNonNegative
  <2>3. CASE Ends(r)
    <3>1. seen' = seen
      BY <2>3 DEF Ends, tables, routing, PayShort, PaySuccess, PayItems, ClaimCommit,
           ResolveCommit, RechargeCommit, DeductCommit, OtherCommit, DeleteCommit, DenyCommit,
           CloseWith, RegisterCommit, StatusCommit, BootCommit, DeadlockVictim
    <3>2. CASE Writes(r)
      BY <3>1, <3>2, <1>a DEF Writes, Book, NonNegative, BalanceNonNegative
    <3> QED BY <3>1, <3>2, <2>1, <2>3, <1>1, EndEffect
  <2>4. CASE Quits(r) BY <2>4, <1>1, QuitEffect DEF tables
  <2> QED BY <1>2, <2>2, <2>3, <2>4 DEF Handler, Reads, Ends, Quits
<1> QED BY <1>1, <1>2 DEF Next, Arrive, WindowPasses, Crash, dbVars, tables, vars, serviceVars

\* No balance is ever negative, whatever requests run at the same time, on
\* however many workers, and wherever one of them dies.
THEOREM BalancesNonNegative == Spec => []BalanceNonNegative
<1>1. Init => NonNegative
  BY CreditDbAssumption DEF Init, DbInit, NonNegative, BalanceNonNegative, Unseen
<1>2. NonNegative => BalanceNonNegative BY DEF NonNegative
<1> QED BY <1>1, <1>2, TypeInit, TypeStep, NonNegativeStep, PTL DEF Spec

-------------------------------------------------------------------------------
\* A handler's step touches its own request, takes at most one free row lock,
\* and gives back none but its own.
LEMMA Frame ==
  ASSUME TypeInv, NEW r \in Requests, Handler(r)
  PROVE  /\ job' = job
         /\ \A q \in Requests \ {r} : pc'[q] = pc[q] /\ seen'[q] = seen[q]
         /\ \/ lock' = lock
            \/ \E m \in Members : Acquire(r, m)
            \/ ReleaseAll({r}) /\ pc'[r] # "commit"
<1>a. /\ pc \in [Requests -> Phases] /\ seen \in [Requests -> SeenType]
      /\ pc[r] # "idle"
  BY HandlerBusy DEF TypeInv, ServiceTypeOK
<1>b. job[r].op \in {"claim", "resolve", "recharge", "deduct", "status", "pay"}
        => job[r].member \in Members
  BY <1>a, ReadFields
<1>1. CASE Reads(r)
  <2>1. seen' = seen \/ \E s \in SeenType : See(r, s) BY <1>1, <1>a, LoadStep DEF Loads
  <2>2. \E phase : Go(r, phase)
    BY <1>1 DEF Reads, Decline, UserAuth, AdminAuth, PayCheck, PayLock, ClaimRead, ClaimLock,
         ResolveRead, AdminLock, AdjustStart, CloseRead, RegisterRead, StatusRead, StatusFlush,
         BootRead
  <2>3. job' = job
    BY <1>1 DEF Reads, routing, UserAuth, AdminAuth, PayCheck, PayLock, ClaimRead, ClaimLock,
         ResolveRead, AdminLock, AdjustStart, CloseRead, RegisterRead, StatusRead, StatusFlush,
         BootRead
  <2>4. lock' = lock \/ \E m \in Members : Acquire(r, m)
    BY <1>1, <1>b DEF Reads, Decline, dbVars, Runs, UserAuth, AdminAuth, PayCheck, PayLock,
         ClaimRead, ClaimLock, ResolveRead, AdminLock, AdjustStart, CloseRead, RegisterRead,
         StatusRead, StatusFlush, BootRead
  <2> QED BY <2>1, <2>2, <2>3, <2>4, <1>a DEF Go, See
<1>2. CASE PayItems(r)
  BY <1>2, <1>a DEF PayItems, Go, routing
<1>3. CASE Ends(r) /\ ~PayItems(r)
  <2>1. \E phase \in {"done", "items"} : End(r, phase)
    BY <1>3 DEF Ends, PayShort, PaySuccess, ClaimCommit, ResolveCommit,
         RechargeCommit, DeductCommit, OtherCommit, DeleteCommit, DenyCommit, CloseWith,
         RegisterCommit, StatusCommit, BootCommit, DeadlockVictim
  <2>2. job' = job /\ seen' = seen
    BY <1>3 DEF Ends, routing, PayShort, PaySuccess, ClaimCommit, ResolveCommit,
         RechargeCommit, DeductCommit, OtherCommit, DeleteCommit, DenyCommit, CloseWith,
         RegisterCommit, StatusCommit, BootCommit, DeadlockVictim
  <2> QED BY <2>1, <2>2, <1>a DEF End, Go
<1>4. CASE Quits(r) BY <1>4, <1>a, QuitEffect DEF Go
<1> QED BY <1>1, <1>2, <1>3, <1>4 DEF Handler, Reads, Ends, Quits

\* A request that has begun is never idle again and keeps its body.
LEMMA StartedStep ==
  ASSUME TypeInv, [Next]_vars, NEW r \in Requests, pc[r] # "idle"
  PROVE  pc'[r] # "idle" /\ job'[r] = job[r]
<1>a. pc \in [Requests -> Phases] /\ job \in [Requests -> Jobs \cup {NoJob}]
  BY DEF TypeInv, ServiceTypeOK
<1>1. ASSUME NEW q \in Requests, NEW w \in Workers, NEW j \in Jobs, Arrive(q, w, j)
      PROVE  pc'[r] # "idle" /\ job'[r] = job[r]
  BY <1>1, <1>a DEF Arrive, Go
<1>2. ASSUME NEW q \in Requests, Handler(q) PROVE pc'[r] # "idle" /\ job'[r] = job[r]
  <2>1. job' = job BY <1>2, Frame
  <2>2. CASE q # r BY <1>2, <2>1, <2>2, Frame
  <2>3. CASE q = r
    <3>1. \E phase \in Phases \ {"idle"} : Go(r, phase)
      <4>1. CASE Reads(r)
        BY <4>1 DEF Reads, Decline, Phases, UserAuth, AdminAuth, PayCheck, PayLock, ClaimRead,
           ClaimLock, ResolveRead, AdminLock, AdjustStart, CloseRead, RegisterRead, StatusRead,
           StatusFlush, BootRead
      <4>2. CASE Ends(r)
        BY <4>2 DEF Ends, End, Phases, PayShort, PaySuccess, PayItems, ClaimCommit, ResolveCommit,
           RechargeCommit, DeductCommit, OtherCommit, DeleteCommit, DenyCommit, CloseWith,
           RegisterCommit, StatusCommit, BootCommit, DeadlockVictim
      <4>3. CASE Quits(r) BY <4>3, QuitEffect DEF Phases
      <4> QED BY <1>2, <2>3, <4>1, <4>2, <4>3 DEF Handler, Reads, Ends, Quits
    <3> QED BY <2>1, <2>3, <3>1, <1>a DEF Go
  <2> QED BY <2>2, <2>3
<1>3. CASE \E m \in Members : WindowPasses(m) BY <1>3 DEF WindowPasses, routing
<1>4. CASE \E w \in Workers : Crash(w) BY <1>4, <1>a DEF Crash
<1>5. CASE UNCHANGED vars BY <1>5 DEF vars, serviceVars
<1> QED BY <1>1, <1>2, <1>3, <1>4, <1>5 DEF Next

LEMMA SelfServedStep == ASSUME TypeInv, [Next]_vars PROVE SelfServed \subseteq SelfServed'
<1> SUFFICES ASSUME NEW m \in SelfServed PROVE m \in SelfServed' OBVIOUS
<1>1. PICK r \in Requests : pc[r] # "idle" /\ SelfService(job[r]) /\ job[r].member = m
  BY DEF SelfServed
<1>2. pc'[r] # "idle" /\ job'[r] = job[r] BY <1>1, StartedStep
<1> QED BY <1>1, <1>2 DEF SelfServed

\* A request about to commit holds its member's row, and its session the row's
\* balance, unless an administrator serves himself.
Holds(r) == pc[r] = "commit" /\ job[r].op \in MoneyOps
Held ==
  \A r \in Requests : Holds(r) =>
    /\ job[r].member \in Members /\ lock[job[r].member] = r
    /\ SelfService(job[r]) \/ seen[r].bal = balance[job[r].member]

\* A request reaches its commit by locking its member's row.
LEMMA LockFirst ==
  ASSUME TypeInv, NEW r \in Requests, Handler(r), Holds(r)'
  PROVE  /\ job[r].member \in Members /\ lock'[job[r].member] = r
         /\ SelfService(job[r]) \/ seen'[r].bal = balance'[job[r].member]
<1>a. /\ pc \in [Requests -> Phases] /\ seen \in [Requests -> SeenType]
      /\ lock \in [Members -> Requests \cup {NoRequest}]
      /\ pc[r] # "idle" /\ job' = job
  BY HandlerBusy, Frame DEF TypeInv, ServiceTypeOK, DbTypeOK
<1>b. job[r] \in Jobs /\ job[r].op \in MoneyOps /\ job[r].member \in Members
  BY <1>a, ReadFields DEF Holds, MoneyOps
<1>1. PayLock(r) \/ ClaimLock(r) \/ AdminLock(r)
  <2>1. pc'[r] = "commit" BY DEF Holds
  <2>2. CASE Ends(r)
    BY <2>1, <2>2, <1>a DEF Ends, End, Go, PayShort, PaySuccess, PayItems, ClaimCommit,
         ResolveCommit, RechargeCommit, DeductCommit, OtherCommit, DeleteCommit, DenyCommit,
         CloseWith, RegisterCommit, StatusCommit, BootCommit, DeadlockVictim
  <2>3. CASE UserAuth(r) \/ AdminAuth(r) \/ PayCheck(r) \/ ClaimRead(r) \/ ResolveRead(r)
             \/ AdjustStart(r) \/ StatusRead(r)
    BY <2>1, <2>3, <1>a DEF Go, Decline, UserAuth, AdminAuth, PayCheck, ClaimRead, ResolveRead,
         AdjustStart, StatusRead
  <2>4. CASE CloseRead(r) \/ RegisterRead(r) \/ StatusFlush(r) \/ BootRead(r)
    BY <2>4, <1>b DEF CloseRead, RegisterRead, StatusFlush, BootRead, Runs, MoneyOps
  <2>5. CASE Quits(r) BY <2>1, <2>5, QuitEffect
  <2> QED BY <2>2, <2>3, <2>4, <2>5 DEF Handler, Ends, Quits
<1>2. /\ Acquire(r, job[r].member) /\ balance' = balance
      /\ \/ SelfService(job[r])
         \/ seen' = [seen EXCEPT ![r] = [seen[r] EXCEPT !.bal = balance[job[r].member],
                                                        !.st = status[job[r].member]]]
  BY <1>1, <1>b DEF PayLock, ClaimLock, AdminLock, See, tables, SelfService
<1> QED BY <1>2, <1>a, <1>b DEF Acquire, SeenType

LEMMA HeldStep == TypeInv /\ Held /\ [Next]_vars => Held'
<1> SUFFICES ASSUME TypeInv, Held, [Next]_vars PROVE Held' OBVIOUS
<1>a. /\ pc \in [Requests -> Phases] /\ lock \in [Members -> Requests \cup {NoRequest}]
      /\ balance \in [Members -> Int] /\ NoRequest \notin Requests
      /\ at \in [Requests -> Workers \cup {NoWorker}]
  BY CreditDbAssumption DEF TypeInv, ServiceTypeOK, DbTypeOK
<1>1. ASSUME NEW r \in Requests, NEW w \in Workers, NEW j \in Jobs, Arrive(r, w, j)
      PROVE  Held'
  <2>1. \A q \in Requests : Holds(q)' => q # r
    BY <1>1, <1>a DEF Arrive, Go, Holds
  <2> QED BY <1>1, <1>a, <2>1 DEF Arrive, Go, Held, Holds, dbVars, TypeInv, ServiceTypeOK
<1>2. ASSUME NEW r \in Requests, Handler(r) PROVE Held'
  <2> SUFFICES ASSUME NEW q \in Requests, Holds(q)'
               PROVE  /\ job'[q].member \in Members /\ lock'[job'[q].member] = q
                      /\ SelfService(job'[q]) \/ seen'[q].bal = balance'[job'[q].member]
    BY DEF Held
  <2>1. CASE q = r BY <1>2, <2>1, LockFirst, Frame
  <2>2. CASE q # r
    <3> DEFINE m == job[q].member
    <3>1. Holds(q) /\ job' = job /\ seen'[q] = seen[q]
      BY <1>2, <2>2, Frame DEF Holds
    <3>2. /\ m \in Members /\ lock[m] = q
          /\ SelfService(job[q]) \/ seen[q].bal = balance[m]
      BY <3>1 DEF Held
    <3>3. lock'[m] = q
      BY <1>2, <2>2, <3>2, <1>a, Frame DEF Acquire, ReleaseAll
    <3>4. balance'[m] = balance[m]
      <4>1. CASE Reads(r)
        BY <4>1 DEF Reads, tables, dbVars, UserAuth, AdminAuth, PayCheck, PayLock, ClaimRead,
           ClaimLock, ResolveRead, AdminLock, AdjustStart, CloseRead, RegisterRead, StatusRead,
           StatusFlush, BootRead
      <4>2. CASE Ends(r)
        <5>1. CASE UNCHANGED <<balance, ledger>> BY <5>1
        <5>2. CASE Writes(r) /\ pc[r] = "commit" /\ job[r].op \in MoneyOps
          <6>1. lock[job[r].member] = r BY <5>2 DEF Held, Holds
          <6>2. m # job[r].member BY <6>1, <3>2, <2>2
          <6> QED BY <5>2, <6>2, <3>2, <1>a DEF Writes, Book
        <5> QED BY <4>2, <1>2, <5>1, <5>2, HandlerBusy, EndEffect
      <4>3. CASE Quits(r) BY <4>3, QuitEffect DEF tables
      <4> QED BY <1>2, <4>1, <4>2, <4>3 DEF Handler, Reads, Ends, Quits
    <3> QED BY <3>1, <3>2, <3>3, <3>4
  <2> QED BY <2>1, <2>2
<1>3. ASSUME NEW w \in Workers, Crash(w) PROVE Held'
  BY <1>3, <1>a DEF Crash, ReleaseAll, tables, Held, Holds
<1>4. ASSUME NEW m \in Members, WindowPasses(m) PROVE Held'
  BY <1>4 DEF WindowPasses, Held, Holds, routing
<1>5. CASE UNCHANGED vars
  BY <1>5 DEF vars, serviceVars, dbVars, Held, Holds
<1> QED BY <1>1, <1>2, <1>3, <1>4, <1>5 DEF Next

-------------------------------------------------------------------------------
\* The balance before row i of the ledger l of member m.
Before(l, m, i) == IF i = 1 THEN InitialBalance[m] ELSE l[i - 1].after
Chained(l, b, m) ==
  /\ \A i \in 1..Len(l) : l[i].after = Before(l, m, i) + l[i].delta
  /\ b = Before(l, m, Len(l) + 1)

LEMMA LedgerChainChained ==
  LedgerChain <=> \A m \in Members \ SelfServed : Chained(ledger[m], balance[m], m)
BY DEF LedgerChain, Chained, Before

\* A row booked on the last balance continues the chain.
LEMMA ChainAppend ==
  ASSUME NEW l \in Seq(Entry), NEW m \in Members, NEW b \in Int, NEW e \in Entry,
         Chained(l, b, m), e.after = b + e.delta
  PROVE  Chained(Append(l, e), e.after, m)
<1> DEFINE k == Append(l, e)
<1>1. /\ Len(k) = Len(l) + 1 /\ Len(l) \in Nat /\ k[Len(l) + 1] = e
      /\ \A i \in 1..Len(l) : k[i] = l[i]
  OBVIOUS
<1> HIDE DEF k
<1>2. \A i \in 1..(Len(l) + 1) : Before(k, m, i) = Before(l, m, i)
  BY <1>1 DEF Before
<1>3. k[Len(l) + 1].after = Before(k, m, Len(l) + 1) + k[Len(l) + 1].delta
  BY <1>1, <1>2 DEF Chained
<1>4. \A i \in 1..Len(k) : k[i].after = Before(k, m, i) + k[i].delta
  BY <1>1, <1>2, <1>3 DEF Chained
<1>5. e.after = Before(k, m, Len(k) + 1)
  BY <1>1 DEF Before
<1> QED BY <1>4, <1>5 DEF Chained, k

LEMMA LedgerChainStep ==
  TypeInv /\ Held /\ LedgerChain /\ [Next]_vars => LedgerChain'
<1> SUFFICES ASSUME TypeInv, Held, LedgerChain, [Next]_vars,
                    NEW n \in Members, n \notin SelfServed'
             PROVE  Chained(ledger'[n], balance'[n], n)
  BY DEF LedgerChain, Chained, Before
<1>a. /\ balance \in [Members -> Int] /\ ledger \in [Members -> Seq(Entry)]
      /\ seen \in [Requests -> SeenType]
  BY DEF TypeInv, ServiceTypeOK, DbTypeOK
<1>b. n \notin SelfServed /\ Chained(ledger[n], balance[n], n)
  BY SelfServedStep, LedgerChainChained
<1>1. ASSUME UNCHANGED <<balance, ledger>> PROVE Chained(ledger'[n], balance'[n], n)
  BY <1>1, <1>b
<1>2. ASSUME NEW r \in Requests, Writes(r), pc[r] = "commit", job[r].op \in MoneyOps
      PROVE  Chained(ledger'[n], balance'[n], n)
  <2> DEFINE m == job[r].member
  <2>1. m \in Members /\ (n = m => seen[r].bal = balance[m])
    BY <1>2, <1>b DEF Held, Holds, SelfServed
  <2>2. PICK delta \in Int, kind \in Kinds, dep \in Deposits \cup {NoDeposit}, forced \in BOOLEAN :
          Book(r, m, seen[r].bal, delta, kind, dep, forced)
    BY <1>2 DEF Writes
  <2>3. CASE n # m
    <3>1. balance'[n] = balance[n] /\ ledger'[n] = ledger[n] BY <2>2, <2>3, <1>a DEF Book
    <3> QED BY <3>1, <1>b
  <2>4. CASE n = m
    <3> DEFINE e == [kind |-> kind, delta |-> delta, after |-> balance[m] + delta,
                     dep |-> dep, forced |-> forced, by |-> r]
    <3>1. e \in Entry /\ e.after = balance[m] + e.delta
      BY <2>1, <1>a DEF Entry, Kinds
    <3>2. /\ balance' = [balance EXCEPT ![m] = balance[m] + delta]
          /\ ledger' = [ledger EXCEPT ![m] = Append(@, e)]
      BY <2>1, <2>2, <2>4 DEF Book
    <3>3. e.after = balance[m] + delta OBVIOUS
    <3> HIDE DEF e
    <3>4. Chained(Append(ledger[m], e), e.after, m)
      BY <2>1, <2>4, <3>1, <1>a, <1>b, ChainAppend
    <3>5. balance'[n] = e.after /\ ledger'[n] = Append(ledger[m], e)
      BY <2>1, <2>4, <3>2, <3>3, <1>a
    <3> QED BY <2>4, <3>4, <3>5
  <2> QED BY <2>3, <2>4
<1>3. ASSUME NEW r \in Requests, Handler(r) PROVE Chained(ledger'[n], balance'[n], n)
  <2>1. CASE Reads(r)
    BY <2>1, <1>1 DEF Reads, tables, dbVars, UserAuth, AdminAuth, PayCheck, PayLock, ClaimRead,
       ClaimLock, ResolveRead, AdminLock, AdjustStart, CloseRead, RegisterRead, StatusRead,
       StatusFlush, BootRead
  <2>2. CASE Ends(r) BY <2>2, <1>1, <1>2, <1>3, HandlerBusy, EndEffect
  <2>3. CASE Quits(r) BY <2>3, <1>1, QuitEffect DEF tables
  <2> QED BY <1>3, <2>1, <2>2, <2>3 DEF Handler, Reads, Ends, Quits
<1> QED BY <1>1, <1>3 DEF Next, Arrive, WindowPasses, Crash, dbVars, tables, vars, serviceVars

\* No update of a balance is lost on any number of workers: every booked row of a
\* member starts from the balance the row before it left, and the last one left
\* his balance, unless he is an administrator who recharged, deducted from or
\* resolved a deposit to his own account.
THEOREM NoLostUpdate == Spec => []LedgerChain
<1>1. Init => Held BY DEF Init, Held, Holds
<1>2. Init => LedgerChain
  BY CreditDbAssumption DEF Init, DbInit, LedgerChain
<1> QED BY <1>1, <1>2, TypeInit, TypeStep, HeldStep, LedgerChainStep, PTL DEF Spec

-------------------------------------------------------------------------------
\* A commit that serves its member only if he is active.
Serves(r) == pc[r] = "commit" /\ job[r].op \in {"pay", "resolve", "recharge"}

\* An administrator's account is not closed, and who acts was active when he was
\* authenticated.
AdminsActive == \A a \in Admins : status[a] = "ACTIVE"
ActsActive(r) ==
  pc[r] \in {"queued", "lock"} /\ job[r].op \in {"resolve", "recharge"} => seen[r].st = "ACTIVE"
\* What a session that is about to commit knows of its member's status is so, because it
\* holds his row.
ServesKnown(r) ==
  Serves(r) => /\ job[r].member \in Members /\ lock[job[r].member] = r
               /\ seen[r].st = status[job[r].member]
\* A change of a status spares the administrators, and holds the row it will write.
ChangeFits(r) ==
  job[r].op = "status" =>
    /\ pc[r] \in {"lock", "commit"} => job[r].member \notin Admins \/ job[r].to = "ACTIVE"
    /\ pc[r] = "commit" /\ seen[r].st # job[r].to => lock[job[r].member] = r

StatusInv ==
  AdminsActive /\ \A r \in Requests : ActsActive(r) /\ ServesKnown(r) /\ ChangeFits(r)

\* A status changes where a change of it commits, and nowhere else.
LEMMA StatusEffect ==
  ASSUME TypeInv, NEW r \in Requests, Handler(r)
  PROVE  \/ status' = status
         \/ /\ Runs(r, "status", "commit") /\ seen[r].st # job[r].to
            /\ job[r].member \in Members
            /\ status' = [status EXCEPT ![job[r].member] = job[r].to]
<1>a. pc[r] # "idle" /\ status \in [Members -> Statuses] BY HandlerBusy DEF TypeInv, ServiceTypeOK, DbTypeOK
<1>1. CASE Reads(r)
  BY <1>1 DEF Reads, tables, dbVars, UserAuth, AdminAuth, PayCheck, PayLock, ClaimRead,
     ClaimLock, ResolveRead, AdminLock, AdjustStart, CloseRead, RegisterRead, StatusRead,
     StatusFlush, BootRead
<1>2. CASE StatusCommit(r)
  <2>1. job[r].member \in Members BY <1>2, <1>a, ReadFields DEF StatusCommit, Runs
  <2> QED BY <1>2, <1>a, <2>1 DEF StatusCommit, Runs, WriteParked
<1>3. CASE BootCommit(r)
  BY <1>3 DEF BootCommit, Runs, WriteParked
<1>4. CASE Ends(r) /\ ~StatusCommit(r) /\ ~BootCommit(r)
  BY <1>4 DEF Ends, PayShort, PaySuccess, PayItems, ClaimCommit, ResolveCommit,
     RechargeCommit, DeductCommit, OtherCommit, DeleteCommit, DenyCommit, CloseWith,
     RegisterCommit, DeadlockVictim, tables
<1>5. CASE Quits(r) BY <1>5, QuitEffect DEF tables
<1> QED BY <1>1, <1>2, <1>3, <1>4, <1>5 DEF Handler, Reads, Ends, Quits

\* A handler's own step.
LEMMA StatusOwn ==
  ASSUME TypeInv, StatusInv, NEW r \in Requests, Handler(r)
  PROVE  ActsActive(r)' /\ ServesKnown(r)' /\ ChangeFits(r)'
<1>a. /\ pc \in [Requests -> Phases] /\ seen \in [Requests -> SeenType]
      /\ lock \in [Members -> Requests \cup {NoRequest}]
      /\ pc[r] # "idle" /\ job' = job
  BY HandlerBusy, Frame DEF TypeInv, ServiceTypeOK, DbTypeOK
<1>b. /\ job[r] \in Jobs
      /\ job[r].op \in {"pay", "resolve", "recharge", "status"} => job[r].member \in Members
      /\ job[r].op \in {"resolve", "recharge"} => job[r].admin \in Admins
  BY <1>a, ReadFields, CreditDbAssumption
<1>c. AdminsActive /\ ActsActive(r) /\ ServesKnown(r) /\ ChangeFits(r) BY DEF StatusInv
<1>1. CASE Ends(r)
  <2>1. pc'[r] \in {"done", "items"}
    BY <1>1, <1>a DEF Ends, End, Go, PayShort, PaySuccess, PayItems, ClaimCommit,
       ResolveCommit, RechargeCommit, DeductCommit, OtherCommit, DeleteCommit, DenyCommit,
       CloseWith, RegisterCommit, StatusCommit, BootCommit, DeadlockVictim
  <2> QED BY <2>1 DEF ActsActive, ServesKnown, Serves, ChangeFits
<1>2. CASE UserAuth(r) \/ PayCheck(r) \/ ClaimRead(r) \/ ClaimLock(r) \/ CloseRead(r)
           \/ RegisterRead(r) \/ BootRead(r)
  <2>1. job[r].op \in {"pay", "claim", "other", "delete", "deny", "register", "boot"}
        /\ (job[r].op = "pay" => pc'[r] # "commit")
    BY <1>2, <1>a DEF UserAuth, PayCheck, ClaimRead, ClaimLock, CloseRead, RegisterRead,
       BootRead, Runs, Go
  <2> QED BY <2>1, <1>a DEF ActsActive, ServesKnown, Serves, ChangeFits
<1>3. CASE AdminAuth(r)
  <2>1. pc'[r] \in {"queued", "done"} BY <1>3, <1>a DEF AdminAuth, Go
  <2> DEFINE a == job[r].admin
  <2>2. ASSUME pc'[r] = "queued" PROVE seen'[r].st = "ACTIVE"
    <3>1. pc' = [pc EXCEPT ![r] = "done"] => pc'[r] = "done" BY <1>a
    <3>2. status[a] = "ACTIVE" /\ See(r, [seen[r] EXCEPT !.bal = balance[a], !.st = status[a]])
      BY <1>3, <2>2, <3>1 DEF AdminAuth, Go
    <3> QED BY <3>2, <1>a DEF See, SeenType
  <2> QED BY <2>1, <2>2 DEF ActsActive, ServesKnown, Serves, ChangeFits
<1>4. CASE ResolveRead(r) \/ AdjustStart(r)
  <2>1. /\ job[r].op \in {"resolve", "recharge", "deduct"} /\ pc[r] = "queued"
        /\ pc'[r] \in {"lock", "done"} /\ seen'[r].st = seen[r].st
    BY <1>4, <1>a DEF ResolveRead, AdjustStart, Runs, Go, See, Decline, SeenType
  <2> QED BY <2>1, <1>a, <1>c DEF ActsActive, ServesKnown, Serves, ChangeFits
<1>5. CASE PayLock(r) \/ AdminLock(r)
  <2> DEFINE m == job[r].member
  <2>1. /\ job[r].op \in {"pay", "resolve", "recharge", "deduct"} /\ pc[r] = "lock"
        /\ pc'[r] = "commit" /\ Acquire(r, m) /\ status' = status
    BY <1>5, <1>a DEF PayLock, AdminLock, Runs, Go, tables
  <2>2. ASSUME job[r].op # "deduct" PROVE seen'[r].st = status[m]
    <3>1. CASE seen' = seen /\ m = job[r].admin /\ job[r].op # "pay"
      BY <3>1, <2>1, <2>2, <1>b, <1>c DEF ActsActive, AdminsActive
    <3>2. CASE See(r, [seen[r] EXCEPT !.bal = balance[m], !.st = status[m]])
      BY <3>2, <1>a DEF See, SeenType
    <3> QED BY <1>5, <3>1, <3>2, <2>1 DEF PayLock, AdminLock, Runs
  <2>3. m \in Members => lock'[m] = r BY <2>1, <1>a DEF Acquire
  <2> QED BY <2>1, <2>2, <2>3, <1>a, <1>b DEF ActsActive, ServesKnown, Serves, ChangeFits
<1>6. CASE StatusRead(r)
  <2>1. /\ job[r].op = "status" /\ pc'[r] \in {"lock", "done"}
        /\ pc'[r] = "lock" => job[r].member \notin Admins \/ job[r].to = "ACTIVE"
    BY <1>6, <1>a DEF StatusRead, Runs, Go, Decline
  <2> QED BY <2>1, <1>a DEF ActsActive, ServesKnown, Serves, ChangeFits
<1>7. CASE StatusFlush(r)
  <2>1. /\ job[r].op = "status" /\ pc[r] = "lock" /\ pc'[r] = "commit"
        /\ seen'[r].st = seen[r].st
        /\ seen[r].st # job[r].to => Acquire(r, job[r].member)
    BY <1>7, <1>a DEF StatusFlush, Runs, Go, See, SeenType
  <2>2. seen[r].st # job[r].to => lock'[job[r].member] = r BY <2>1, <1>a, <1>b DEF Acquire
  <2> QED BY <2>1, <2>2, <1>a, <1>c DEF ActsActive, ServesKnown, Serves, ChangeFits
<1>8. CASE Quits(r)
  BY <1>8, <1>a, QuitEffect DEF ActsActive, ServesKnown, Serves, ChangeFits
<1> QED BY <1>1, <1>2, <1>3, <1>4, <1>5, <1>6, <1>7, <1>8 DEF Handler, Ends, Quits

LEMMA StatusStep == TypeInv /\ StatusInv /\ [Next]_vars => StatusInv'
<1> SUFFICES ASSUME TypeInv, StatusInv, [Next]_vars PROVE StatusInv' OBVIOUS
<1>a. /\ pc \in [Requests -> Phases] /\ lock \in [Members -> Requests \cup {NoRequest}]
      /\ status \in [Members -> Statuses] /\ NoRequest \notin Requests
      /\ Admins \subseteq Members
  BY CreditDbAssumption DEF TypeInv, ServiceTypeOK, DbTypeOK
<1>1. ASSUME NEW r \in Requests, NEW w \in Workers, NEW j \in Jobs, Arrive(r, w, j)
      PROVE  StatusInv'
  <2>1. /\ \A q \in Requests \ {r} : pc'[q] = pc[q] /\ job'[q] = job[q]
        /\ UNCHANGED <<status, lock, seen>>
    BY <1>1, <1>a DEF Arrive, Go, dbVars, TypeInv, ServiceTypeOK
  <2>2. /\ pc'[r] \in {"check", "queued", "auth"} /\ job'[r] = j
        /\ pc'[r] = "queued" => j.op \in {"deny", "boot"}
    BY <1>1, <1>a DEF Arrive, Go, TypeInv, ServiceTypeOK
  <2>3. ActsActive(r)' /\ ServesKnown(r)' /\ ChangeFits(r)'
    BY <2>2 DEF ActsActive, ServesKnown, Serves, ChangeFits
  <2>4. ASSUME NEW q \in Requests \ {r} PROVE ActsActive(q)' /\ ServesKnown(q)' /\ ChangeFits(q)'
    BY <2>1 DEF StatusInv, ActsActive, ServesKnown, Serves, ChangeFits
  <2> QED BY <2>1, <2>3, <2>4 DEF StatusInv, AdminsActive
<1>2. ASSUME NEW r \in Requests, Handler(r) PROVE StatusInv'
  <2>1. AdminsActive'
    <3>1. CASE status' = status BY <3>1 DEF StatusInv, AdminsActive
    <3>2. CASE status' # status
      <4>1. /\ Runs(r, "status", "commit") /\ job[r].member \in Members
            /\ status' = [status EXCEPT ![job[r].member] = job[r].to]
        BY <3>2, <1>2, StatusEffect
      <4>2. job[r].member \notin Admins \/ job[r].to = "ACTIVE"
        BY <4>1 DEF StatusInv, ChangeFits, Runs
      <4> QED BY <4>1, <4>2, <1>a DEF StatusInv, AdminsActive
    <3> QED BY <3>1, <3>2
  <2>2. ASSUME NEW q \in Requests \ {r} PROVE ActsActive(q)' /\ ServesKnown(q)' /\ ChangeFits(q)'
    <3>1. pc'[q] = pc[q] /\ seen'[q] = seen[q] /\ job' = job BY <1>2, Frame
    <3>2. \A m \in Members : lock[m] = q => lock'[m] = q
      BY <1>2, <1>a, Frame DEF Acquire, ReleaseAll
    <3>3. ActsActive(q) /\ ServesKnown(q) /\ ChangeFits(q) BY DEF StatusInv
    <3>4. ServesKnown(q)'
      <4> SUFFICES ASSUME Serves(q)
                   PROVE  /\ job[q].member \in Members /\ lock'[job[q].member] = q
                          /\ seen[q].st = status'[job[q].member]
        BY <3>1 DEF ServesKnown, Serves
      <4>1. /\ job[q].member \in Members /\ lock[job[q].member] = q
            /\ seen[q].st = status[job[q].member]
        BY <3>3 DEF ServesKnown
      <4>2. CASE status' = status BY <4>1, <4>2, <3>2
      <4>3. CASE status' # status
        <5>1. /\ Runs(r, "status", "commit") /\ seen[r].st # job[r].to
              /\ job[r].member \in Members
              /\ status' = [status EXCEPT ![job[r].member] = job[r].to]
          BY <4>3, <1>2, StatusEffect
        <5>2. lock[job[r].member] = r BY <5>1 DEF StatusInv, ChangeFits, Runs
        <5> QED BY <4>1, <5>1, <5>2, <3>2, <1>a
      <4> QED BY <4>2, <4>3
    <3>5. job[q].op = "status" /\ pc[q] # "idle" => job[q].member \in Members BY ReadFields
    <3> QED BY <3>1, <3>2, <3>3, <3>4, <3>5 DEF ActsActive, ChangeFits
  <2>3. ActsActive(r)' /\ ServesKnown(r)' /\ ChangeFits(r)' BY <1>2, StatusOwn
  <2> QED BY <2>1, <2>2, <2>3 DEF StatusInv
<1>3. ASSUME NEW w \in Workers, Crash(w) PROVE StatusInv'
  <2>1. UNCHANGED <<status, seen, job>> BY <1>3 DEF Crash, tables
  <2>2. ASSUME NEW q \in Requests PROVE ActsActive(q)' /\ ServesKnown(q)' /\ ChangeFits(q)'
    <3>1. ActsActive(q) /\ ServesKnown(q) /\ ChangeFits(q) BY DEF StatusInv
    <3>2. CASE pc'[q] = "lost"
      BY <3>2 DEF ActsActive, ServesKnown, Serves, ChangeFits
    <3>3. CASE pc'[q] # "lost"
      <4>1. pc'[q] = pc[q] /\ \A m \in Members : lock[m] = q => lock'[m] = q
        BY <1>3, <1>a, <3>3 DEF Crash, ReleaseAll
      <4>2. job[q].op = "status" /\ pc[q] # "idle" => job[q].member \in Members BY ReadFields
      <4> QED BY <4>1, <4>2, <3>1, <2>1 DEF ActsActive, ServesKnown, Serves, ChangeFits
    <3> QED BY <3>2, <3>3
  <2> QED BY <2>1, <2>2 DEF StatusInv, AdminsActive
<1>4. ASSUME NEW m \in Members, WindowPasses(m) PROVE StatusInv'
  BY <1>4 DEF WindowPasses, StatusInv, AdminsActive, ActsActive, ServesKnown, Serves, ChangeFits,
     routing
<1>5. CASE UNCHANGED vars
  BY <1>5 DEF vars, serviceVars, dbVars, StatusInv, AdminsActive, ActsActive, ServesKnown, Serves, ChangeFits
<1> QED BY <1>1, <1>2, <1>3, <1>4, <1>5 DEF Next

\* Where a member is served, the session has found him active.
LEMMA ServedBy ==
  ASSUME TypeInv, NEW r \in Requests, Handler(r), NEW m \in Members, Served(m)
  PROVE  Serves(r) /\ seen[r].st = "ACTIVE" /\ m = job[r].member
<1>a. /\ ledger \in [Members -> Seq(Entry)] /\ job' = job /\ pc[r] # "idle" /\ job[r] \in Jobs
  BY HandlerBusy, Frame, ReadFields DEF TypeInv, ServiceTypeOK, DbTypeOK
<1>b. Len(ledger'[m]) > Len(ledger[m]) BY DEF Served
<1>c. Len(ledger[m]) \in Nat BY <1>a
<1>d. ledger' # ledger BY <1>b, <1>c
<1>1. ASSUME NEW n, NEW b, NEW delta, NEW kind, NEW dep, NEW forced,
             Book(r, n, b, delta, kind, dep, forced)
      PROVE  m = n /\ (kind = "PAY" \/ delta > 0) /\ job[r].op # "claim"
  <2> DEFINE e == [kind |-> kind, delta |-> delta, after |-> b + delta,
                   dep |-> dep, forced |-> forced, by |-> r]
  <2>1. ledger' = [ledger EXCEPT ![n] = Append(@, e)] BY <1>1 DEF Book
  <2>2. e.kind = kind /\ e.delta = delta /\ e.by = r OBVIOUS
  <2> HIDE DEF e
  <2>3. m = n BY <2>1, <1>a, <1>b, <1>c
  <2>4. ledger'[m] = Append(ledger[m], e) BY <2>1, <2>3, <1>a
  <2>5. ledger[m] \in Seq(Entry) BY <1>a
  <2>6. ledger'[m][Len(ledger'[m])] = e BY <2>4, <2>5
  <2> QED BY <2>2, <2>3, <2>6, <1>a DEF Served
<1>2. CASE Reads(r)
  BY <1>2, <1>d DEF Reads, tables, dbVars, UserAuth, AdminAuth, PayCheck, PayLock, ClaimRead,
     ClaimLock, ResolveRead, AdminLock, AdjustStart, CloseRead, RegisterRead, StatusRead,
     StatusFlush, BootRead
<1>3. CASE PayShort(r)
  <2>1. Book(r, job[r].member, seen[r].bal, 0, "PAY_FAILED", NoDeposit, job[r].force)
    BY <1>3 DEF PayShort
  <2> QED BY <2>1, <1>1
<1>4. CASE PaySuccess(r)
  <2>1. Book(r, job[r].member, seen[r].bal, -job[r].amount, "PAY", NoDeposit, job[r].force)
    BY <1>4 DEF PaySuccess
  <2>2. m = job[r].member BY <2>1, <1>1
  <2> QED BY <2>2, <1>4 DEF PaySuccess, Serves, Runs
<1>5. CASE ClaimCommit(r)
  <2>1. Book(r, job[r].member, seen[r].bal, Amount[job[r].deposit], "BANK", job[r].deposit, FALSE)
        /\ job[r].op = "claim"
    BY <1>5, <1>d DEF ClaimCommit, Runs
  <2> QED BY <2>1, <1>1
<1>6. CASE ResolveCommit(r)
  <2>1. /\ Book(r, job[r].member, seen[r].bal, Amount[job[r].deposit], "BANK", job[r].deposit, FALSE)
        /\ seen[r].st = "ACTIVE" /\ Runs(r, "resolve", "commit")
    BY <1>6, <1>d DEF ResolveCommit, AdminRefuses, Runs
  <2>2. m = job[r].member BY <2>1, <1>1
  <2> QED BY <2>1, <2>2 DEF Serves, Runs
<1>7. CASE RechargeCommit(r)
  <2>1. /\ Book(r, job[r].member, seen[r].bal, job[r].amount, "MANUAL", NoDeposit, FALSE)
        /\ seen[r].st = "ACTIVE" /\ Runs(r, "recharge", "commit")
    BY <1>7, <1>d DEF RechargeCommit, AdminRefuses, Runs
  <2>2. m = job[r].member BY <2>1, <1>1
  <2> QED BY <2>1, <2>2 DEF Serves, Runs
<1>8. CASE DeductCommit(r)
  <2>1. Book(r, job[r].member, seen[r].bal, -job[r].amount, "MANUAL", NoDeposit, FALSE)
    BY <1>8, <1>d DEF DeductCommit
  <2>2. "MANUAL" = "PAY" \/ -job[r].amount > 0 BY <2>1, <1>1, Zenon
  <2>3. job[r].amount \in Nat BY <1>a, JobFields
  <2> QED BY <2>2, <2>3
<1>9. CASE PayItems(r) \/ OtherCommit(r) \/ DeleteCommit(r) \/ DenyCommit(r)
           \/ RegisterCommit(r) \/ StatusCommit(r) \/ BootCommit(r) \/ DeadlockVictim(r)
  BY <1>9, <1>d DEF PayItems, OtherCommit, DeleteCommit, DenyCommit, CloseWith,
     RegisterCommit, StatusCommit, BootCommit, DeadlockVictim, tables
<1>10. CASE Quits(r) BY <1>10, <1>d, QuitEffect DEF tables
<1> QED BY <1>2, <1>3, <1>4, <1>5, <1>6, <1>7, <1>8, <1>9, <1>10 DEF Handler, Reads, Quits

LEMMA ServedStep ==
  TypeInv /\ StatusInv /\ [Next]_vars
    => [\A m \in Members : Served(m) => status[m] = "ACTIVE"]_vars
<1> SUFFICES ASSUME TypeInv, StatusInv, Next, NEW m \in Members, Served(m)
             PROVE  status[m] = "ACTIVE"
  OBVIOUS
<1>1. CASE \E r \in Requests : Handler(r)
  BY <1>1, ServedBy DEF StatusInv, ServesKnown
<1>2. CASE ledger' = ledger
  <2>1. Len(ledger[m]) \in Nat BY DEF TypeInv, ServiceTypeOK, DbTypeOK
  <2> QED BY <1>2, <2>1 DEF Served
<1> QED BY <1>1, <1>2 DEF Next, Arrive, WindowPasses, Crash, dbVars, tables

\* Whoever pays, or is credited by an administrator, is ACTIVE at the moment of the
\* commit, on any number of workers and although the status is first read without a lock:
\* what the locked read finds cannot change before the commit, and an administrator who
\* acts on himself, whose row is not read again, cannot be closed.
THEOREM ActiveServed == Spec => OnlyActiveServed
<1>1. Init => StatusInv
  BY DEF Init, DbInit, StatusInv, AdminsActive, ActsActive, ServesKnown, Serves, ChangeFits
<1> QED BY <1>1, TypeInit, TypeStep, StatusStep, ServedStep, PTL DEF Spec, OnlyActiveServed

-------------------------------------------------------------------------------
LEMMA ItemizedStep == TypeInv /\ PaymentItemized /\ [Next]_vars => PaymentItemized'
<1> SUFFICES ASSUME TypeInv, PaymentItemized, [Next]_vars PROVE PaymentItemized' OBVIOUS
<1>a. /\ ledger \in [Members -> Seq(Entry)] /\ pc \in [Requests -> Phases]
      /\ itemized \subseteq Requests
  BY DEF TypeInv, ServiceTypeOK, DbTypeOK
<1>b. \A m \in Members : \A i \in 1..Len(ledger[m]) : ledger[m][i] \in Entry /\ ledger[m][i].by \in Requests
  <2> SUFFICES ASSUME NEW m \in Members, NEW i \in 1..Len(ledger[m])
               PROVE  ledger[m][i] \in Entry /\ ledger[m][i].by \in Requests
    OBVIOUS
  <2>1. ledger[m] \in Seq(Entry) BY <1>a
  <2>2. ledger[m][i] \in Entry BY <2>1
  <2> QED BY <2>2 DEF Entry
\* A payment that has its items, waits for them or is lost stays so.
<1>1. ASSUME NEW q \in Requests, q \in itemized \/ pc[q] \in {"items", "lost"}
      PROVE  q \in itemized' \/ pc'[q] \in {"items", "lost"}
  <2>1. ASSUME NEW r \in Requests, Handler(r)
        PROVE  q \in itemized' \/ pc'[q] \in {"items", "lost"}
    <3>1. itemized \subseteq itemized'
      BY <2>1 DEF Handler, tables, dbVars, UserAuth, AdminAuth, PayCheck, PayLock, PayRefuse,
         PayShort, PaySuccess, PayItems, ClaimRead, ClaimLock, ClaimCommit, ResolveRead, AdminLock,
         ResolveCommit, AdjustStart, RechargeCommit, DeductCommit, CloseRead, OtherCommit,
         DeleteCommit, DenyCommit, CloseWith, RegisterRead, RegisterCommit, StatusRead,
         StatusFlush, StatusCommit, BootRead, BootCommit, DeadlockVictim, AdminRefuse, Close
    <3>2. CASE q # r BY <3>1, <3>2, <2>1, <1>1, Frame
    <3>3. CASE q = r /\ q \notin itemized
      <4>1. pc[r] \in {"items", "lost"} BY <3>3, <1>1
      <4>2. PayItems(r)
        BY <4>1, <2>1 DEF Handler, Runs, UserAuth, AdminAuth, PayCheck, PayLock, PayRefuse,
           PayShort, PaySuccess, ClaimRead, ClaimLock, ClaimCommit, ResolveRead, AdminLock,
           ResolveCommit, AdjustStart, RechargeCommit, DeductCommit, CloseRead, OtherCommit,
           DeleteCommit, DenyCommit, RegisterRead, RegisterCommit, StatusRead, StatusFlush,
           StatusCommit, BootRead, BootCommit, DeadlockVictim, Circle, RowWaits, WaitsFor,
           AdminRefuse, Close
      <4> QED BY <4>2, <3>3 DEF PayItems
    <3> QED BY <3>1, <3>2, <3>3
  <2>2. CASE \E r \in Requests, w \in Workers, j \in Jobs : Arrive(r, w, j)
    BY <2>2, <1>1, <1>a DEF Arrive, Go, dbVars
  <2>3. CASE \E w \in Workers : Crash(w) BY <2>3, <1>1 DEF Crash, tables
  <2>4. CASE \E m \in Members : WindowPasses(m) BY <2>4, <1>1 DEF WindowPasses
  <2>5. CASE UNCHANGED vars BY <2>5, <1>1 DEF vars, serviceVars, dbVars
  <2> QED BY <2>1, <2>2, <2>3, <2>4, <2>5 DEF Next
<1>2. ASSUME ledger' = ledger PROVE PaymentItemized'
  BY <1>2, <1>1, <1>b DEF PaymentItemized
<1>3. ASSUME NEW r \in Requests, Writes(r) PROVE PaymentItemized'
  <2> DEFINE m == job[r].member
  <2>1. PICK delta \in Int, kind \in Kinds, dep \in Deposits \cup {NoDeposit}, forced \in BOOLEAN :
          Book(r, m, seen[r].bal, delta, kind, dep, forced) /\ (kind = "PAY" => Go(r, "items"))
    BY <1>3 DEF Writes
  <2> DEFINE e == [kind |-> kind, delta |-> delta, after |-> seen[r].bal + delta,
                   dep |-> dep, forced |-> forced, by |-> r]
  <2>2. ledger' = [ledger EXCEPT ![m] = Append(@, e)] BY <2>1 DEF Book
  <2>3. e.by = r /\ e.kind = kind OBVIOUS
  <2>4. e.kind = "PAY" => pc'[r] = "items" BY <2>1, <2>3, <1>a DEF Go
  <2> HIDE DEF e
  <2> SUFFICES ASSUME NEW n \in Members, NEW i \in 1..Len(ledger'[n]),
                      ledger'[n][i].kind = "PAY"
               PROVE  ledger'[n][i].by \in itemized' \/ pc'[ledger'[n][i].by] \in {"items", "lost"}
    BY DEF PaymentItemized
  <2>5. CASE i \in 1..Len(ledger[n]) /\ ledger'[n][i] = ledger[n][i]
    BY <2>5, <1>1, <1>b DEF PaymentItemized
  <2>6. CASE ledger'[n][i] = e
    BY <2>6, <2>3, <2>4
  <2>7. ledger[n] \in Seq(Entry) BY <1>a
  <2> QED BY <2>2, <2>5, <2>6, <2>7, <1>a
<1>4. ASSUME NEW r \in Requests, Handler(r) PROVE PaymentItemized'
  <2>1. CASE Reads(r)
    BY <2>1, <1>2 DEF Reads, tables, dbVars, UserAuth, AdminAuth, PayCheck, PayLock, ClaimRead,
       ClaimLock, ResolveRead, AdminLock, AdjustStart, CloseRead, RegisterRead, StatusRead,
       StatusFlush, BootRead
  <2>2. CASE Ends(r) BY <2>2, <1>2, <1>3, <1>4, HandlerBusy, EndEffect
  <2>3. CASE Quits(r) BY <2>3, <1>2, <1>4, QuitEffect DEF tables
  <2> QED BY <1>4, <2>1, <2>2, <2>3 DEF Handler, Reads, Ends, Quits
<1> QED BY <1>2, <1>4 DEF Next, Arrive, WindowPasses, Crash, dbVars, tables, vars, serviceVars

\* Every successful payment has its line items, is about to write them, or was
\* interrupted by the death of its worker, and no other request is affected.
THEOREM PaymentsItemized == Spec => []PaymentItemized
<1>1. Init => PaymentItemized BY DEF Init, DbInit, PaymentItemized
<1> QED BY <1>1, TypeInit, TypeStep, ItemizedStep, PTL DEF Spec

-------------------------------------------------------------------------------
\* A handler other than the payment keeps its worker's event loop from its first
\* read to its commit.
Deciding(r) == pc[r] \in {"lock", "commit"} /\ job[r].op # "pay"
LoopHeld == \A r \in Requests : Deciding(r) => loop[at[r]] = r

\* What a handler's step does to the event loops.
LEMMA LoopFrame ==
  ASSUME TypeInv, NEW r \in Requests, Handler(r)
  PROVE  /\ at' = at /\ job' = job
         /\ \/ loop' = loop /\ (Deciding(r)' => Deciding(r))
            \/ LoopFree(r) /\ EnterLoop(r)
            \/ loop' = [w \in Workers |-> IF loop[w] = r THEN NoRequest ELSE loop[w]]
               /\ ~Deciding(r)'
<1>a. pc \in [Requests -> Phases] BY DEF TypeInv, ServiceTypeOK
<1>1. CASE UserAuth(r) \/ AdminAuth(r) \/ PayCheck(r) \/ PayLock(r) \/ PayItems(r)
  BY <1>1, <1>a DEF UserAuth, AdminAuth, PayCheck, PayLock, PayItems, Runs, Go, routing, Deciding
<1>2. CASE ClaimLock(r) \/ AdminLock(r) \/ StatusFlush(r)
  BY <1>2, <1>a DEF ClaimLock, AdminLock, StatusFlush, Runs, Go, routing, Deciding
<1>3. CASE ClaimRead(r) \/ ResolveRead(r) \/ AdjustStart(r) \/ CloseRead(r) \/ RegisterRead(r)
           \/ StatusRead(r) \/ BootRead(r)
  BY <1>3, <1>a DEF ClaimRead, ResolveRead, AdjustStart, CloseRead, RegisterRead, StatusRead,
     BootRead, Decline, Runs, Go, routing, Deciding
<1>4. CASE Ends(r) /\ ~PayItems(r)
  <2>1. \E phase \in {"done", "items"} : End(r, phase)
    BY <1>4 DEF Ends, PayShort, PaySuccess, ClaimCommit, ResolveCommit,
         RechargeCommit, DeductCommit, OtherCommit, DeleteCommit, DenyCommit, CloseWith,
         RegisterCommit, StatusCommit, BootCommit, DeadlockVictim
  <2>2. at' = at /\ job' = job
    BY <1>4 DEF Ends, routing, PayShort, PaySuccess, ClaimCommit, ResolveCommit,
         RechargeCommit, DeductCommit, OtherCommit, DeleteCommit, DenyCommit, CloseWith,
         RegisterCommit, StatusCommit, BootCommit, DeadlockVictim
  <2> QED BY <2>1, <2>2, <1>a DEF End, Go, Deciding
<1>5. CASE Quits(r) BY <1>5, <1>a, QuitEffect DEF Deciding
<1> QED BY <1>1, <1>2, <1>3, <1>4, <1>5 DEF Handler, Ends, Quits

LEMMA LoopHeldStep == TypeInv /\ LoopHeld /\ [Next]_vars => LoopHeld'
<1> SUFFICES ASSUME TypeInv, LoopHeld, [Next]_vars PROVE LoopHeld' OBVIOUS
<1>a. /\ pc \in [Requests -> Phases] /\ loop \in [Workers -> Requests \cup {NoRequest}]
      /\ at \in [Requests -> Workers \cup {NoWorker}] /\ job \in [Requests -> Jobs \cup {NoJob}]
      /\ NoRequest \notin Requests
      /\ \A r \in Requests : pc[r] # "idle" => at[r] \in Workers
  BY CreditDbAssumption DEF TypeInv, ServiceTypeOK, Routed
<1>1. ASSUME NEW r \in Requests, NEW w \in Workers, NEW j \in Jobs, Arrive(r, w, j)
      PROVE  LoopHeld'
  <2>1. pc'[r] \notin {"lock", "commit"} BY <1>1, <1>a DEF Arrive, Go
  <2> QED BY <1>1, <2>1, <1>a DEF Arrive, Go, LoopHeld, Deciding
<1>2. ASSUME NEW r \in Requests, Handler(r) PROVE LoopHeld'
  <2> SUFFICES ASSUME NEW q \in Requests, Deciding(q)' PROVE loop'[at'[q]] = q
    BY DEF LoopHeld
  <2>0. pc[r] # "idle" BY <1>2, HandlerBusy
  <2>1. CASE q = r BY <1>2, <2>0, <2>1, <1>a, LoopFrame DEF LoopHeld, EnterLoop
  <2>2. CASE q # r
    <3>1. Deciding(q) BY <1>2, <2>2, Frame DEF Deciding
    <3>2. loop[at[q]] = q /\ at[q] \in Workers BY <3>1, <1>a DEF LoopHeld, Deciding
    <3> QED BY <1>2, <2>0, <2>2, <3>2, <1>a, LoopFrame DEF EnterLoop, LoopFree
  <2> QED BY <2>1, <2>2
<1>3. ASSUME NEW w \in Workers, Crash(w) PROVE LoopHeld'
  <2> SUFFICES ASSUME NEW q \in Requests, Deciding(q)' PROVE loop'[at'[q]] = q
    BY DEF LoopHeld
  <2>1. Deciding(q) /\ at[q] # w /\ at' = at
    BY <1>3, <1>a DEF Crash, Deciding
  <2> QED BY <1>3, <2>1, <1>a DEF Crash, LoopHeld, Deciding
<1>4. CASE (\E m \in Members : WindowPasses(m)) \/ UNCHANGED vars
  BY <1>4 DEF WindowPasses, routing, vars, serviceVars, LoopHeld, Deciding
<1> QED BY <1>1, <1>2, <1>3, <1>4 DEF Next

\* Every deposit that two workers are deciding at once is noted.
Noted == Crossing \subseteq crossed

LEMMA NotedStep == Noted /\ [Next]_vars => Noted' /\ crossed \subseteq crossed'
BY DEF Noted, Next, Crossing, Decides, vars, serviceVars

\* One event loop runs one handler that decides deposits at a time, and handlers
\* of two workers that decide one deposit are noted.
LEMMA OneDecides ==
  ASSUME TypeInv, LoopHeld, Noted, NEW r \in Requests, NEW q \in Requests,
         NEW d \in Deposits, d \notin crossed, d \in Decides(r), d \in Decides(q)
  PROVE  r = q
<1>1. Deciding(r) /\ Deciding(q) BY DEF Decides, Deciding
<1>2. at[r] = at[q] BY DEF Noted, Crossing
<1> QED BY <1>1, <1>2 DEF LoopHeld

\* What a handler has read of a deposit still holds when it decides, unless two
\* workers are deciding it at once.
Fresh(r) ==
  IF job[r].op = "register" THEN seen[r].row.st \in {"PENDING", "INACTIVE", "ERROR"}
  ELSE \A d \in Decides(r) \ crossed : Open(bank[d])
AllFresh == \A r \in Requests : Deciding(r) => Fresh(r)

\* A deposit changes where a handler that decides it commits.
LEMMA BankEffect ==
  ASSUME TypeInv, NEW r \in Requests, Handler(r), NEW d \in Deposits, bank'[d] # bank[d]
  PROVE  d \in Decides(r)
<1>a. bank \in [Deposits -> DepositRow] BY DEF TypeInv, ServiceTypeOK, DbTypeOK
<1>1. CASE ClaimCommit(r) \/ ResolveCommit(r)
  BY <1>1, <1>a DEF ClaimCommit, ResolveCommit, Runs, Decides
<1>2. CASE OtherCommit(r) \/ DeleteCommit(r) \/ DenyCommit(r)
  <2>1. \E row : CloseWith(r, row)
    BY <1>2 DEF OtherCommit, DeleteCommit, DenyCommit
  <2>2. d = job[r].deposit BY <2>1, <1>a DEF CloseWith
  <2> QED BY <1>2, <2>2 DEF OtherCommit, DeleteCommit, DenyCommit, Runs, Decides
<1>3. CASE RegisterCommit(r)
  BY <1>3, <1>a DEF RegisterCommit, Runs, Decides
<1>4. CASE StatusCommit(r) \/ BootCommit(r)
  <2>1. bank' = Parked(seen[r].parks, seen[r].who)
    BY <1>4 DEF StatusCommit, BootCommit, WriteParked
  <2>2. d \in seen[r].parks BY <2>1 DEF Parked
  <2> QED BY <1>4, <2>2 DEF StatusCommit, BootCommit, Runs, Decides
<1>5. CASE ~(\/ ClaimCommit(r) \/ ResolveCommit(r) \/ OtherCommit(r) \/ DeleteCommit(r) \/ DenyCommit(r)
             \/ RegisterCommit(r) \/ StatusCommit(r) \/ BootCommit(r))
  <2>1. bank' = bank
    BY <1>5 DEF Handler, tables, dbVars, UserAuth, AdminAuth, PayCheck, PayLock, PayRefuse,
       PayShort, PaySuccess, PayItems, AdminRefuse, Close, ClaimRead, ClaimLock, ResolveRead,
       AdminLock, AdjustStart, RechargeCommit, DeductCommit, CloseRead, RegisterRead, StatusRead,
       StatusFlush, BootRead, DeadlockVictim
  <2> QED BY <2>1
<1> QED BY <1>1, <1>2, <1>3, <1>4, <1>5

\* What a request decides depends on its own session only.
LEMMA DecidesKept ==
  ASSUME NEW q \in Requests, pc'[q] = pc[q], job'[q] = job[q], seen'[q] = seen[q]
  PROVE  Decides(q)' = Decides(q)
BY DEF Decides

\* A handler that starts or goes on deciding has just read what it decides on, or
\* read it before and nothing has changed.
LEMMA FreshHere ==
  ASSUME TypeInv, AllFresh, crossed \subseteq crossed', NEW r \in Requests, Handler(r),
         Deciding(r)'
  PROVE  Fresh(r)'
<1>a. /\ pc \in [Requests -> Phases] /\ seen \in [Requests -> SeenType]
      /\ pc[r] # "idle" /\ job' = job
  BY HandlerBusy, Frame DEF TypeInv, ServiceTypeOK
<1>b. /\ seen[r] \in SeenType
      /\ job[r].op \in {"claim", "resolve", "register", "other", "delete", "deny"}
           => job[r].deposit \in Deposits
  BY <1>a, ReadFields
<1>1. CASE UserAuth(r) \/ AdminAuth(r) \/ PayCheck(r) \/ PayLock(r) \/ Ends(r)
  <2>1. ~Deciding(r)'
    BY <1>1, <1>a DEF Ends, End, Go, Runs, Deciding, routing, UserAuth, AdminAuth, PayCheck, PayLock,
       PayShort, PaySuccess, PayItems, ClaimCommit, ResolveCommit, RechargeCommit,
       DeductCommit, OtherCommit, DeleteCommit, DenyCommit, CloseWith, RegisterCommit,
       StatusCommit, BootCommit, DeadlockVictim
  <2> QED BY <2>1
<1>2. CASE Quits(r)
  <2>1. pc'[r] \in {"closing", "done"} BY <1>2, QuitEffect
  <2> QED BY <2>1 DEF Deciding
<1>3. CASE ClaimLock(r) \/ AdminLock(r)
  <2>1. /\ Deciding(r) /\ pc[r] = "lock" /\ bank' = bank
        /\ job[r].op \in {"claim", "resolve", "recharge", "deduct"}
    BY <1>3 DEF ClaimLock, AdminLock, Runs, Deciding, tables
  <2>2. Decides(r)' \subseteq Decides(r)
    BY <2>1, <1>a DEF Decides
  <2>3. Fresh(r) BY <2>1 DEF AllFresh
  <2> QED BY <2>1, <2>2, <2>3, <1>a DEF Fresh, Open
<1>4. CASE ClaimRead(r) \/ ResolveRead(r) \/ CloseRead(r) \/ AdjustStart(r) \/ StatusRead(r)
  <2>1. CASE pc'[r] = "done" BY <2>1 DEF Deciding
  <2>2. CASE pc'[r] # "done"
    <3>1. bank' = bank
      BY <1>4 DEF ClaimRead, ResolveRead, CloseRead, AdjustStart, StatusRead, dbVars
    <3>2. job[r].op \in {"claim", "resolve", "other", "delete", "deny"} => Open(bank[job[r].deposit])
      BY <1>4, <2>2, <1>a DEF ClaimRead, ResolveRead, CloseRead, AdjustStart, StatusRead, Go, Decline,
         Runs, Open
    <3>3. job[r].op \notin {"register", "boot"} /\ (job[r].op = "status" => pc'[r] = "lock")
      BY <1>4, <2>2, <1>a DEF ClaimRead, ResolveRead, CloseRead, AdjustStart, StatusRead, Go, Decline,
         Runs
    <3>4. \A d \in Decides(r)' : Open(bank[d])
      BY <3>2, <3>3, <1>a DEF Decides
    <3> QED BY <3>1, <3>3, <3>4, <1>a DEF Fresh, Open
  <2> QED BY <2>1, <2>2
<1>5. CASE RegisterRead(r)
  <2>1. CASE pc'[r] = "done" BY <2>1 DEF Deciding
  <2>2. CASE pc'[r] # "done"
    <3> DEFINE row == Matched(job[r].deposit, StatusOf(status, Owner[job[r].deposit]))
    <3>1. See(r, [seen[r] EXCEPT !.row = row]) /\ job[r].op = "register"
      BY <1>5, <2>2, <1>a DEF RegisterRead, Decline, Go, Runs
    <3>2. row.st \in {"PENDING", "INACTIVE", "ERROR"} BY DEF Matched
    <3> HIDE DEF row
    <3>3. seen'[r].row = row BY <3>1, <1>a, <1>b DEF See, SeenType
    <3> QED BY <3>1, <3>2, <3>3, <1>a DEF Fresh
  <2> QED BY <2>1, <2>2
<1>6. CASE StatusFlush(r) \/ BootRead(r)
  <2> DEFINE M == IF job[r].op = "status" THEN {job[r].member}
                  ELSE {m \in Members : status[m] = "INACTIVE"}
             Who == [d \in Deposits |-> bank[d].who]
  <2>b. ASSUME StatusFlush(r) PROVE seen'[r].parks = {} \/ seen'[r].parks = Parkable(M)
    <3> DEFINE P == IF job[r].to = "INACTIVE" /\ (seen[r].st # job[r].to \/ status[job[r].member] = "INACTIVE")
                    THEN Parkable({job[r].member}) ELSE {}
    <3>1. See(r, [seen[r] EXCEPT !.parks = P, !.who = Who]) BY <2>b DEF StatusFlush
    <3>2. M = {job[r].member} BY <2>b DEF StatusFlush, Runs
    <3>3. P = {} \/ P = Parkable(M) BY <3>2
    <3> HIDE DEF Who, P, M
    <3>4. seen'[r].parks = P BY <3>1, <1>a, <1>b DEF See, SeenType
    <3> QED BY <3>3, <3>4
  <2>c. ASSUME BootRead(r) PROVE seen'[r].parks = Parkable(M)
    <3> DEFINE P == Parkable({m \in Members : status[m] = "INACTIVE"})
    <3>1. See(r, [seen[r] EXCEPT !.parks = P, !.who = Who]) BY <2>c DEF BootRead
    <3>2. M = {m \in Members : status[m] = "INACTIVE"} BY <2>c DEF BootRead, Runs
    <3>3. P = Parkable(M) BY <3>2
    <3> HIDE DEF Who, P, M
    <3>4. seen'[r].parks = P BY <3>1, <1>a, <1>b DEF See, SeenType
    <3> QED BY <3>3, <3>4
  <2>1. seen'[r].parks = {} \/ seen'[r].parks = Parkable(M)
    BY <1>6, <2>b, <2>c
  <2> HIDE DEF M
  <2>2. \A d \in seen'[r].parks : d \in Deposits /\ Open(bank[d])
    BY <2>1 DEF Parkable
  <2>3. bank' = bank /\ job[r].op \in {"status", "boot"}
    BY <1>6 DEF StatusFlush, BootRead, Runs, tables, dbVars
  <2>4. Decides(r)' \subseteq seen'[r].parks BY <2>3, <1>a DEF Decides
  <2> QED BY <2>2, <2>3, <2>4, <1>a DEF Fresh, Open
<1> QED BY <1>1, <1>2, <1>3, <1>4, <1>5, <1>6 DEF Handler, Ends, Quits

LEMMA FreshStep == TypeInv /\ LoopHeld /\ Noted /\ AllFresh /\ [Next]_vars => AllFresh'
<1> SUFFICES ASSUME TypeInv, LoopHeld, Noted, AllFresh, [Next]_vars PROVE AllFresh' OBVIOUS
<1>a. /\ pc \in [Requests -> Phases] /\ job \in [Requests -> Jobs \cup {NoJob}]
      /\ crossed \subseteq crossed'
  BY NotedStep DEF TypeInv, ServiceTypeOK
<1>b. ASSUME NEW q \in Requests, Deciding(q)', pc'[q] = pc[q], job'[q] = job[q], seen'[q] = seen[q],
             \A d \in Decides(q) \ crossed : bank'[d] = bank[d]
      PROVE  Fresh(q)'
  <2>1. Fresh(q) BY <1>b DEF AllFresh, Deciding
  <2>2. Decides(q)' = Decides(q) BY <1>b, DecidesKept
  <2> QED BY <1>a, <1>b, <2>1, <2>2 DEF Fresh, Open
<1>1. ASSUME NEW r \in Requests, NEW w \in Workers, NEW j \in Jobs, Arrive(r, w, j)
      PROVE  AllFresh'
  <2>1. pc'[r] \notin {"lock", "commit"} BY <1>1, <1>a DEF Arrive, Go
  <2>2. /\ bank' = bank /\ seen' = seen
        /\ \A q \in Requests \ {r} : pc'[q] = pc[q] /\ job'[q] = job[q]
    BY <1>1, <1>a DEF Arrive, Go, dbVars
  <2> QED BY <2>1, <2>2, <1>b DEF AllFresh, Deciding
<1>2. ASSUME NEW r \in Requests, Handler(r) PROVE AllFresh'
  <2> SUFFICES ASSUME NEW q \in Requests, Deciding(q)' PROVE Fresh(q)'
    BY DEF AllFresh
  <2>1. CASE q = r BY <1>2, <2>1, <1>a, FreshHere
  <2>2. CASE q # r
    <3>1. /\ pc'[q] = pc[q] /\ seen'[q] = seen[q] /\ job' = job BY <1>2, <2>2, Frame
    <3>2. ASSUME NEW d \in Decides(q) \ crossed PROVE bank'[d] = bank[d]
      <4>1. d \in Deposits BY <3>2 DEF Decides
      <4> QED BY <4>1, <1>2, <2>2, <3>2, BankEffect, OneDecides
    <3> QED BY <3>1, <3>2, <1>b
  <2> QED BY <2>1, <2>2
<1>3. ASSUME NEW w \in Workers, Crash(w) PROVE AllFresh'
  <2>1. /\ bank' = bank /\ seen' = seen /\ job' = job
        /\ \A q \in Requests : pc'[q] = pc[q] \/ pc'[q] = "lost"
    BY <1>3, <1>a DEF Crash, tables
  <2> QED BY <2>1, <1>b DEF AllFresh, Deciding
<1>4. CASE (\E m \in Members : WindowPasses(m)) \/ UNCHANGED vars
  <2>1. bank' = bank /\ seen' = seen /\ job' = job /\ pc' = pc
    BY <1>4 DEF WindowPasses, routing, vars, serviceVars, dbVars
  <2> QED BY <2>1, <1>b DEF AllFresh
<1> QED BY <1>1, <1>2, <1>3, <1>4 DEF Next

-------------------------------------------------------------------------------
\* What a step may do to the deposits.  Nothing, while a balance may change:
Adjusts(r) ==
  /\ bank' = bank
  /\ \/ UNCHANGED <<balance, ledger>>
     \/ /\ job[r].member \in Members /\ Holds(r)
        /\ \E delta \in Int, kind \in Kinds, forced \in BOOLEAN :
             Book(r, job[r].member, seen[r].bal, delta, kind, NoDeposit, forced)

\* credit one that is open or that two workers are deciding,
Credited == {"CREDITED", "CREDITED_MANUAL"}
Credits(r) ==
  LET d == job[r].deposit IN
  /\ d \in Deposits /\ (Open(bank[d]) \/ d \in crossed) /\ job[r].member \in Members /\ Holds(r)
  /\ Book(r, job[r].member, seen[r].bal, Amount[d], "BANK", d, FALSE)
  /\ \E row \in DepositRow : row.st \in Credited /\ bank' = [bank EXCEPT ![d] = row]

\* close such ones, or send one back to the administrators,
Closes ==
  /\ UNCHANGED <<balance, ledger>>
  /\ bank' \in [Deposits -> DepositRow]
  /\ \A d \in Deposits : bank'[d] # bank[d] =>
       /\ Open(bank[d]) \/ d \in crossed
       /\ bank'[d].st \in {"INACTIVE", "OTHER", "DELETED", "ERROR"}

\* register a new one.
Registers(r) ==
  LET d == job[r].deposit IN
  /\ UNCHANGED <<balance, ledger>>
  /\ d \in Deposits /\ bank[d].st = "UNREGISTERED"
  /\ \E row \in DepositRow : row.st \in {"PENDING", "INACTIVE", "ERROR"}
                             /\ bank' = [bank EXCEPT ![d] = row]

\* Parking closes what was open when it was read.
LEMMA ParkCloses ==
  ASSUME TypeInv, NEW r \in Requests, pc[r] # "idle", WriteParked(r),
         job[r].op \in {"status", "boot"}, UNCHANGED <<balance, ledger>>,
         \A d \in seen[r].parks : d \in Deposits /\ (Open(bank[d]) \/ d \in crossed)
  PROVE  Closes
<1>1. bank' \in [Deposits -> DepositRow] BY WriteParkedType
<1>2. bank \in [Deposits -> DepositRow] BY DEF TypeInv, ServiceTypeOK, DbTypeOK
<1>3. \/ bank' = bank
      \/ bank' = Parked(seen[r].parks, seen[r].who)
  BY DEF WriteParked
<1>4. ASSUME bank' = Parked(seen[r].parks, seen[r].who), NEW d \in Deposits, bank'[d] # bank[d]
      PROVE  (Open(bank[d]) \/ d \in crossed) /\ bank'[d].st = "INACTIVE"
  <2>1. /\ d \in seen[r].parks
        /\ bank'[d] = [bank[d] EXCEPT !.st = "INACTIVE",
                         !.who = IF seen[r].who[d] # NoMember THEN bank[d].who ELSE Owner[d]]
    BY <1>4 DEF Parked
  <2> QED BY <2>1, <1>2 DEF DepositRow
<1> QED BY <1>1, <1>3, <1>4 DEF Closes

LEMMA DepositEffect ==
  ASSUME TypeInv, AllFresh, NEW r \in Requests, Handler(r)
  PROVE  Adjusts(r) \/ Credits(r) \/ Closes \/ Registers(r)
<1>a. /\ pc[r] # "idle" /\ job[r] \in Jobs /\ seen[r] \in SeenType
      /\ seen[r].row \in DepositRow /\ bank \in [Deposits -> DepositRow]
      /\ job[r].amount \in Nat /\ job[r].force \in BOOLEAN /\ seen[r].bal \in Int
      /\ job[r].op \in {"claim", "resolve", "recharge", "deduct", "status", "pay"}
           => job[r].member \in Members
      /\ job[r].op \in {"claim", "resolve", "register", "other", "delete", "deny"}
           => job[r].deposit \in Deposits
  BY HandlerBusy, ReadFields, JobFields DEF SeenType
<1>b. TypeInv' BY HandlerType
<1>1. CASE Reads(r)
  BY <1>1 DEF Adjusts, Reads, tables, dbVars, UserAuth, AdminAuth, PayCheck, PayLock, ClaimRead,
     ClaimLock, ResolveRead, AdminLock, AdjustStart, CloseRead, RegisterRead, StatusRead,
     StatusFlush, BootRead
<1>2. CASE PayItems(r) \/ DeadlockVictim(r) \/ Quits(r)
  BY <1>2, QuitEffect DEF Adjusts, PayItems, DeadlockVictim, tables
<1>3. CASE PayShort(r) \/ PaySuccess(r) \/ RechargeCommit(r) \/ DeductCommit(r)
  <2>1. bank' = bank /\ Holds(r) /\ job[r].member \in Members
    BY <1>3, <1>a DEF PayShort, PaySuccess, RechargeCommit, DeductCommit, Runs, Holds, MoneyOps
  <2>2. 0 \in Int /\ -job[r].amount \in Int /\ job[r].amount \in Int BY <1>a
  <2>3. \/ UNCHANGED <<balance, ledger>>
        \/ \E delta \in Int, kind \in Kinds, forced \in BOOLEAN :
             Book(r, job[r].member, seen[r].bal, delta, kind, NoDeposit, forced)
    BY <1>3, <1>a, <2>2, Zenon DEF PayShort, PaySuccess, RechargeCommit, DeductCommit, Kinds
  <2> QED BY <2>1, <2>3 DEF Adjusts
<1>4. CASE ClaimCommit(r) \/ ResolveCommit(r)
  <2> DEFINE d == job[r].deposit
  <2>0. /\ pc[r] = "commit" /\ job[r].op \in {"claim", "resolve"} /\ d \in Deposits
        /\ job[r].member \in Members
    BY <1>4, <1>a DEF ClaimCommit, ResolveCommit, Runs
  <2>1. /\ d \in Deposits /\ (Open(bank[d]) \/ d \in crossed) /\ job[r].member \in Members
        /\ Holds(r)
    BY <2>0 DEF AllFresh, Fresh, Deciding, Decides, Holds, MoneyOps
  <2>2. CASE UNCHANGED <<balance, ledger, bank>> BY <2>2 DEF Adjusts
  <2>3. CASE ~UNCHANGED <<balance, ledger, bank>>
    <3>1. Book(r, job[r].member, seen[r].bal, Amount[d], "BANK", d, FALSE)
      BY <1>4, <2>3 DEF ClaimCommit, ResolveCommit
    <3>2. \/ bank' = [bank EXCEPT ![d] = [@ EXCEPT !.st = "CREDITED"]]
          \/ bank' = [bank EXCEPT ![d] = Resolved(@, seen[r].row, job[r].member)]
      BY <1>4, <2>3 DEF ClaimCommit, ResolveCommit
    <3>3. bank'[d] \in DepositRow /\ bank'[d].st \in Credited
      BY <3>2, <2>1, <1>a, <1>b DEF TypeInv, ServiceTypeOK, DbTypeOK, DepositRow, Resolved, Credited
    <3>4. bank' = [bank EXCEPT ![d] = bank'[d]]
      BY <3>2, <2>1, <1>a
    <3> QED BY <3>1, <3>3, <3>4, <2>1 DEF Credits
  <2> QED BY <2>2, <2>3
<1>5. CASE OtherCommit(r) \/ DeleteCommit(r) \/ DenyCommit(r)
  <2> DEFINE d == job[r].deposit
  <2>0. /\ pc[r] = "commit" /\ job[r].op \in {"other", "delete", "deny"} /\ d \in Deposits
        /\ UNCHANGED <<balance, ledger>>
    BY <1>5, <1>a DEF OtherCommit, DeleteCommit, DenyCommit, CloseWith, Runs
  <2>1. d \in Deposits /\ (Open(bank[d]) \/ d \in crossed) /\ UNCHANGED <<balance, ledger>>
    BY <2>0 DEF AllFresh, Fresh, Deciding, Decides
  <2>2. \E row : /\ row.st \in {"OTHER", "DELETED", "ERROR"}
                 /\ bank' = bank \/ bank' = [bank EXCEPT ![d] = row]
    <3>1. CASE OtherCommit(r)
      <4> DEFINE row == [bank[d] EXCEPT !.st = "OTHER", !.denied = FALSE]
      <4>1. row.st = "OTHER" BY <2>1, <1>a DEF DepositRow
      <4>2. bank' = bank \/ bank' = [bank EXCEPT ![d] = row]
        BY <3>1 DEF OtherCommit, CloseWith
      <4> HIDE DEF row
      <4> QED BY <4>1, <4>2
    <3>2. CASE DeleteCommit(r)
      <4> DEFINE row == [Unregistered EXCEPT !.st = "DELETED"]
      <4>1. row.st = "DELETED" BY DEF Unregistered
      <4>2. bank' = bank \/ bank' = [bank EXCEPT ![d] = row]
        BY <3>2 DEF DeleteCommit, CloseWith
      <4> HIDE DEF row
      <4> QED BY <4>1, <4>2
    <3>3. CASE DenyCommit(r)
      <4>1. [st |-> "ERROR", who |-> NoMember, denied |-> TRUE].st = "ERROR" OBVIOUS
      <4> QED BY <3>3, <4>1 DEF DenyCommit, CloseWith
    <3> QED BY <1>5, <3>1, <3>2, <3>3
  <2>3. bank' \in [Deposits -> DepositRow] BY <1>b DEF TypeInv, ServiceTypeOK, DbTypeOK
  <2> QED BY <2>1, <2>2, <2>3, <1>a DEF Closes
<1>6. CASE RegisterCommit(r)
  <2> DEFINE d == job[r].deposit
  <2>1. d \in Deposits /\ UNCHANGED <<balance, ledger>>
        /\ seen[r].row.st \in {"PENDING", "INACTIVE", "ERROR"}
    BY <1>6, <1>a DEF RegisterCommit, Runs, AllFresh, Fresh, Deciding
  <2>2. CASE bank[d].st = "UNREGISTERED"
    BY <1>6, <2>1, <2>2, <1>a DEF RegisterCommit, Registers
  <2>3. CASE bank[d].st # "UNREGISTERED"
    BY <1>6, <2>1, <2>3 DEF RegisterCommit, Adjusts
  <2> QED BY <2>2, <2>3
<1>7. CASE StatusCommit(r) \/ BootCommit(r)
  <2>1. /\ WriteParked(r) /\ job[r].op \in {"status", "boot"} /\ UNCHANGED <<balance, ledger>>
        /\ Deciding(r) /\ pc[r] = "commit"
    BY <1>7 DEF StatusCommit, BootCommit, Runs, Deciding
  <2>2. seen[r].parks \subseteq Deposits BY <1>a DEF SeenType
  <2>3. \A d \in seen[r].parks : d \in Deposits /\ (Open(bank[d]) \/ d \in crossed)
    BY <2>1, <2>2 DEF AllFresh, Fresh, Decides
  <2> QED BY <2>1, <2>3, <1>a, ParkCloses
<1> QED BY <1>1, <1>2, <1>3, <1>4, <1>5, <1>6, <1>7 DEF Handler, Reads, Quits

\* A step of anything but a handler leaves deposits, balances and ledgers alone.
LEMMA OthersIdle ==
  ASSUME [Next]_vars, ~ \E r \in Requests : Handler(r)
  PROVE  UNCHANGED <<balance, ledger, bank>>
BY DEF Next, Arrive, WindowPasses, Crash, dbVars, tables, vars, serviceVars

LEMMA DecidedStep ==
  ASSUME TypeInv, AllFresh, [Next]_vars, NEW d \in Deposits \ crossed,
         bank[d].st \in {"CREDITED", "CREDITED_MANUAL", "OTHER", "INACTIVE", "DELETED"}
  PROVE  bank'[d] = bank[d]
<1>a. bank \in [Deposits -> DepositRow] BY DEF TypeInv, ServiceTypeOK, DbTypeOK
<1>1. ASSUME NEW r \in Requests, Handler(r) PROVE bank'[d] = bank[d]
  <2>1. CASE Adjusts(r) BY <2>1 DEF Adjusts
  <2>2. CASE Credits(r) BY <2>2, <1>a DEF Credits, Open
  <2>3. CASE Closes BY <2>3 DEF Closes, Open
  <2>4. CASE Registers(r) BY <2>4, <1>a DEF Registers
  <2> QED BY <1>1, <2>1, <2>2, <2>3, <2>4, DepositEffect
<1>2. CASE ~ \E r \in Requests : Handler(r) BY <1>2, OthersIdle
<1> QED BY <1>1, <1>2

\* What holds of the deciding handlers all along.
LEMMA FreshAlways == Spec => [](TypeInv /\ LoopHeld /\ Noted /\ AllFresh)
<1>1. Init => LoopHeld /\ AllFresh BY DEF Init, LoopHeld, AllFresh, Deciding
<1>2. Init => Noted BY DEF Init, Noted, Crossing, Decides
<1> QED BY <1>1, <1>2, TypeInit, TypeStep, LoopHeldStep, NotedStep, FreshStep, PTL DEF Spec

\* A deposit that was credited, closed, parked or deleted is never decided again,
\* however the requests about it are interleaved with each other and with the
\* death of workers, unless handlers of two workers were deciding it at once.
THEOREM DecisionsFinal == Spec => DecidedStaysDecided
<1>1. TypeInv /\ AllFresh /\ [Next]_vars =>
        [\A d \in Deposits \ crossed :
           bank[d].st \in {"CREDITED", "CREDITED_MANUAL", "OTHER", "INACTIVE", "DELETED"}
             => bank'[d] = bank[d]]_vars
  BY DecidedStep
<1> QED BY <1>1, FreshAlways, PTL DEF Spec, DecidedStaysDecided

-------------------------------------------------------------------------------
\* The rows that book a deposit after one more row is booked.
LEMMA BookRows ==
  ASSUME TypeInv, NEW r \in Requests, NEW m \in Members, NEW b, NEW delta, NEW kind, NEW dep,
         NEW forced, Book(r, m, b, delta, kind, dep, forced),
         NEW n \in Members, NEW i \in Nat, NEW d \in Deposits
  PROVE  Books(n, i, d)' <=> Books(n, i, d) \/ (n = m /\ i = Len(ledger[m]) + 1 /\ d = dep)
<1>1. ledger \in [Members -> Seq(Entry)] BY DEF TypeInv, ServiceTypeOK, DbTypeOK
<1> DEFINE e == [kind |-> kind, delta |-> delta, after |-> b + delta,
                 dep |-> dep, forced |-> forced, by |-> r]
<1>2. ledger' = [ledger EXCEPT ![m] = Append(@, e)] BY DEF Book
<1>3. e.dep = dep OBVIOUS
<1> HIDE DEF e
<1>4. ledger[m] \in Seq(Entry) /\ ledger[n] \in Seq(Entry) BY <1>1
<1>5. CASE n # m BY <1>1, <1>2, <1>5 DEF Books
<1>6. CASE n = m
  <2>1. ledger'[n] = Append(ledger[m], e) BY <1>1, <1>2, <1>6
  <2>2. /\ Len(ledger'[n]) = Len(ledger[m]) + 1 /\ Len(ledger[m]) \in Nat
        /\ ledger'[n][Len(ledger[m]) + 1] = e
        /\ \A k \in 1..Len(ledger[m]) : ledger'[n][k] = ledger[m][k]
    BY <2>1, <1>4
  <2> QED BY <2>2, <1>3, <1>6 DEF Books
<1> QED BY <1>5, <1>6

\* A deposit is booked once, and its status says whether.
OneCredit == TwiceOnlyIfCrossed /\ CreditMatchesStatus

\* The same of one deposit, with the rows quantified over Nat.
Once(d) ==
  /\ \A m, n \in Members : \A i, j \in Nat : Books(m, i, d) /\ Books(n, j, d) => m = n /\ i = j
  /\ (\E m \in Members : \E i \in Nat : Books(m, i, d)) <=> bank[d].st \in Credited

LEMMA OneCreditBooks == OneCredit <=> \A d \in Deposits \ crossed : Once(d)
BY DEF OneCredit, TwiceOnlyIfCrossed, BooksOnce, CreditMatchesStatus, Booked, Books, Credited, Once

LEMMA OneCreditStep ==
  TypeInv /\ Noted /\ AllFresh /\ OneCredit /\ [Next]_vars => OneCredit'
<1> SUFFICES ASSUME TypeInv, Noted, AllFresh, OneCredit, [Next]_vars,
                    NEW d \in Deposits, d \notin crossed'
             PROVE  Once(d)'
  BY DEF OneCredit, TwiceOnlyIfCrossed, BooksOnce, CreditMatchesStatus, Booked, Books, Credited, Once
<1>a. /\ bank \in [Deposits -> DepositRow] /\ NoDeposit \notin Deposits
      /\ \A m \in Members : Len(ledger[m]) \in Nat
  BY CreditDbAssumption DEF TypeInv, ServiceTypeOK, DbTypeOK
<1>b. d \notin crossed /\ Once(d) BY NotedStep, OneCreditBooks
<1>1. ASSUME \A m \in Members, i \in Nat : Books(m, i, d)' <=> Books(m, i, d),
             bank'[d].st \in Credited <=> bank[d].st \in Credited
      PROVE  Once(d)'
  BY <1>1, <1>b DEF Once
<1>2. ASSUME UNCHANGED ledger, bank'[d].st \in Credited <=> bank[d].st \in Credited
      PROVE  Once(d)'
  BY <1>2, <1>1 DEF Books
<1>3. ASSUME NEW r \in Requests, Handler(r) PROVE Once(d)'
  <2>1. CASE Closes \/ Registers(r)
    <3>1. UNCHANGED ledger BY <2>1 DEF Closes, Registers
    <3>2. bank'[d].st \in Credited <=> bank[d].st \in Credited
      BY <2>1, <1>a, <1>b DEF Closes, Registers, Open, Credited
    <3> QED BY <3>1, <3>2, <1>2
  <2>2. CASE Adjusts(r)
    <3>1. CASE UNCHANGED ledger BY <3>1, <2>2, <1>2 DEF Adjusts
    <3>2. CASE ~UNCHANGED ledger
      <4>1. /\ job[r].member \in Members /\ bank' = bank
            /\ \E delta \in Int, kind \in Kinds, forced \in BOOLEAN :
                 Book(r, job[r].member, seen[r].bal, delta, kind, NoDeposit, forced)
        BY <2>2, <3>2 DEF Adjusts
      <4>2. \A n \in Members, i \in Nat : Books(n, i, d)' <=> Books(n, i, d)
        <5>1. PICK delta \in Int, kind \in Kinds, forced \in BOOLEAN :
                Book(r, job[r].member, seen[r].bal, delta, kind, NoDeposit, forced)
          BY <4>1
        <5> DEFINE m == job[r].member
                   b == seen[r].bal
        <5>2. m \in Members /\ Book(r, m, b, delta, kind, NoDeposit, forced) BY <4>1, <5>1
        <5> HIDE DEF m, b
        <5> QED BY <5>2, <1>a, BookRows
      <4> QED BY <4>1, <4>2, <1>1
    <3> QED BY <2>2, <3>1, <3>2 DEF Adjusts
  <2>3. CASE Credits(r)
    <3> DEFINE e == job[r].deposit
               m == job[r].member
    <3>1. /\ e \in Deposits /\ (Open(bank[e]) \/ e \in crossed) /\ m \in Members
          /\ Book(r, m, seen[r].bal, Amount[e], "BANK", e, FALSE)
          /\ \A f \in Deposits \ {e} : bank'[f] = bank[f]
          /\ bank'[e].st \in Credited
      BY <2>3, <1>a DEF Credits
    <3> HIDE DEF e, m
    <3>2. \A n \in Members, i \in Nat :
            Books(n, i, d)' <=> Books(n, i, d) \/ (n = m /\ i = Len(ledger[m]) + 1 /\ d = e)
      <4> DEFINE b == seen[r].bal
                 delta == Amount[e]
      <4>1. m \in Members /\ Book(r, m, b, delta, "BANK", e, FALSE) BY <3>1
      <4> HIDE DEF b, delta
      <4> QED BY <4>1, BookRows
    <3>3. CASE d # e
      <4>1. bank'[d] = bank[d] BY <3>1, <3>3
      <4>2. \A n \in Members, i \in Nat : Books(n, i, d)' <=> Books(n, i, d) BY <3>2, <3>3
      <4> QED BY <4>1, <4>2, <1>1
    <3>4. CASE d = e
      <4>1. \A n \in Members, i \in Nat : ~Books(n, i, d)
        BY <3>1, <3>4, <1>b DEF Once, Open, Credited
      <4>2. Len(ledger[m]) + 1 \in Nat BY <3>1, <1>a
      <4>3. \A n \in Members, i \in Nat :
              Books(n, i, d)' <=> n = m /\ i = Len(ledger[m]) + 1
        BY <3>2, <3>4, <4>1
      <4>4. \A k, n \in Members : \A i, j \in Nat :
              Books(k, i, d)' /\ Books(n, j, d)' => k = n /\ i = j
        BY <4>3
      <4>5. \E n \in Members : \E i \in Nat : Books(n, i, d)' BY <4>2, <4>3, <3>1
      <4> QED BY <3>1, <3>4, <4>4, <4>5 DEF Once
    <3> QED BY <3>3, <3>4
  <2> QED BY <1>3, <2>1, <2>2, <2>3, DepositEffect
<1>4. CASE ~ \E r \in Requests : Handler(r)
  BY <1>4, <1>2, OthersIdle
<1> QED BY <1>3, <1>4

LEMMA OneCreditInit == Init => OneCredit
<1> SUFFICES ASSUME Init PROVE OneCredit OBVIOUS
<1>1. \A d \in Deposits : bank[d].st \notin Credited
  BY DEF Init, DbInit, Matched, Unregistered, Credited
<1>2. \A m \in Members : Len(ledger[m]) = 0 BY DEF Init, DbInit
<1> QED BY <1>1, <1>2
    DEF OneCredit, TwiceOnlyIfCrossed, BooksOnce, CreditMatchesStatus, Booked, Books, Credited

LEMMA OneCreditAlways == Spec => []OneCredit
BY FreshAlways, OneCreditInit, OneCreditStep, PTL DEF Spec

\* A bank transfer is turned into credit at most once, whichever of the member's
\* claims and the administrators' resolutions arrive together and on however many
\* workers, unless handlers of two workers were deciding it at once.
THEOREM CreditedOnce == Spec => []TwiceOnlyIfCrossed
<1>1. OneCredit => TwiceOnlyIfCrossed BY DEF OneCredit
<1> QED BY <1>1, OneCreditAlways, PTL

\* A deposit is marked as credited exactly when a row of some member's ledger
\* books it, unless handlers of two workers were deciding it at once.
THEOREM CreditMarked == Spec => []CreditMatchesStatus
<1>1. OneCredit => CreditMatchesStatus BY DEF OneCredit
<1> QED BY <1>1, OneCreditAlways, PTL

-------------------------------------------------------------------------------
LEMMA StageOf ==
  ASSUME NEW row \in DepositRow
  PROVE  /\ Stage(row.st) \in {"new", "open", "credited", "closed"}
         /\ Stage(row.st) = "open" <=> Open(row)
         /\ Stage(row.st) = "new" <=> row.st = "UNREGISTERED"
         /\ Stage(row.st) = "credited" <=> row.st \in Credited
BY DEF Stage, Open, Credited, DepositRow, DepositStatuses

\* A deposit is unknown, open or already parked when the system starts.
LEMMA IdealInit == Init => Ideal!Init
<1> SUFFICES ASSUME Init PROVE Ideal!Init OBVIOUS
<1>1. \A d \in Deposits : bank[d].st \in {"UNREGISTERED", "PENDING", "INACTIVE", "ERROR"}
  BY DEF Init, DbInit, Matched, Unregistered
<1>2. \A d \in Deposits : Stage(bank[d].st) \in {"new", "open", "closed"}
  BY <1>1 DEF Stage
<1> QED BY <1>2 DEF Init, DbInit, Ideal!Init

\* A step of a handler is one step of the ideal, or none.
LEMMA IdealHandler ==
  ASSUME TypeInv, AllFresh, Held, NonNegative', NEW r \in Requests, Handler(r)
  PROVE  Ideal!Next \/ UNCHANGED Ideal!idealVars
<1> DEFINE stage == [d \in Deposits |-> Stage(bank[d].st)]
<1>a. /\ bank \in [Deposits -> DepositRow] /\ balance \in [Members -> Int]
      /\ bank' \in [Deposits -> DepositRow] /\ balance' \in [Members -> Int]
      /\ \A m \in Members : balance'[m] >= 0
  BY HandlerType DEF TypeInv, ServiceTypeOK, DbTypeOK, NonNegative, BalanceNonNegative
<1>b. balance' \in [Members -> Nat] BY <1>a
<1>1. CASE Adjusts(r)
  <2>1. stage' = stage BY <1>1 DEF Adjusts
  <2>2. CASE UNCHANGED balance BY <2>1, <2>2 DEF Ideal!idealVars
  <2>3. CASE ~UNCHANGED balance
    <3> DEFINE m == job[r].member
    <3>1. m \in Members /\ \A n \in Members \ {m} : balance'[n] = balance[n]
      BY <1>1, <2>3, <1>a DEF Adjusts, Book
    <3>2. Ideal!Adjust(m) BY <2>1, <3>1, <1>b DEF Ideal!Adjust
    <3> QED BY <3>1, <3>2 DEF Ideal!Next
  <2> QED BY <2>2, <2>3
<1>2. CASE Credits(r)
  <2> DEFINE d == job[r].deposit
             m == job[r].member
  <2>1. /\ d \in Deposits /\ (Open(bank[d]) \/ d \in crossed) /\ m \in Members /\ Holds(r)
        /\ balance' = [balance EXCEPT ![m] = seen[r].bal + Amount[d]]
        /\ \A e \in Deposits \ {d} : bank'[e] = bank[e]
        /\ bank'[d].st \in Credited
    BY <1>2, <1>a DEF Credits, Book
  <2>2. stage[d] = "open" \/ d \in crossed BY <2>1, <1>a, StageOf
  <2>3. stage' = [stage EXCEPT ![d] = "credited"]
    <3>1. \A e \in Deposits : stage'[e] = IF e = d THEN "credited" ELSE stage[e]
      BY <2>1, <1>a, StageOf
    <3> QED BY <3>1
  <2>4. \A n \in Members \ {m} : balance'[n] = balance[n] BY <2>1, <1>a
  <2>a. m \in SelfServed \/ seen[r].bal = balance[m]
    BY <2>1 DEF Held, Holds, SelfServed
  <2>b. m \in SelfServed \/ balance'[m] = balance[m] + Amount[d] BY <2>1, <2>a, <1>a
  <2>5. Ideal!Credit(m, d) BY <2>2, <2>3, <2>4, <2>b, <1>b DEF Ideal!Credit
  <2> QED BY <2>1, <2>5 DEF Ideal!Next
<1>3. CASE Closes
  <2> DEFINE D == {d \in Deposits : bank'[d] # bank[d]}
             s == [d \in D |-> Stage(bank'[d].st)]
  <2>1. \A d \in D : stage[d] = "open" \/ d \in crossed BY <1>3, <1>a, StageOf DEF Closes
  <2>2. s \in [D -> {"open", "closed"}]
    BY <1>3 DEF Closes, Stage
  <2>3. stage' = [d \in Deposits |-> IF d \in D THEN s[d] ELSE stage[d]] OBVIOUS
  <2>4. balance' = balance /\ D \in SUBSET Deposits BY <1>3 DEF Closes
  <2> HIDE DEF D, s
  <2>5. Ideal!Close BY <2>1, <2>2, <2>3, <2>4 DEF Ideal!Close
  <2> QED BY <2>5 DEF Ideal!Next
<1>4. CASE Registers(r)
  <2> DEFINE d == job[r].deposit
  <2>1. /\ d \in Deposits /\ bank[d].st = "UNREGISTERED" /\ balance' = balance
        /\ \A e \in Deposits \ {d} : bank'[e] = bank[e]
        /\ bank'[d].st \in {"PENDING", "INACTIVE", "ERROR"}
    BY <1>4, <1>a DEF Registers
  <2>2. stage[d] = "new" BY <2>1 DEF Stage
  <2>3. stage'[d] \in {"open", "closed"} BY <2>1 DEF Stage
  <2>4. \A e \in Deposits : stage'[e] = IF e = d THEN stage'[d] ELSE stage[e] BY <2>1
  <2>5. stage' = [stage EXCEPT ![d] = stage'[d]] BY <2>4
  <2>6. Ideal!Register(d) BY <2>1, <2>2, <2>3, <2>5 DEF Ideal!Register
  <2> QED BY <2>1, <2>6 DEF Ideal!Next
<1> QED BY <1>1, <1>2, <1>3, <1>4, DepositEffect

LEMMA IdealStep ==
  TypeInv /\ AllFresh /\ Held /\ NonNegative /\ [Next]_vars => [Ideal!Next]_(Ideal!idealVars)
<1> SUFFICES ASSUME TypeInv, AllFresh, Held, NonNegative, [Next]_vars
             PROVE  Ideal!Next \/ UNCHANGED Ideal!idealVars
  OBVIOUS
<1>1. CASE \E r \in Requests : Handler(r) BY <1>1, NonNegativeStep, IdealHandler
<1>2. CASE ~ \E r \in Requests : Handler(r) BY <1>2, OthersIdle DEF Ideal!idealVars
<1> QED BY <1>1, <1>2

\* The reads, locks and commits of the handlers implement the ideal in which a
\* deposit becomes credit in one step, by exactly its amount, and is then decided.
\* What the ideal does not promise is what two workers make of a deposit they
\* decide at once, and the balance of an administrator who served himself.
THEOREM CreditRefinesIdeal == Spec => ImplementsIdeal
<1>1. Init => Held /\ NonNegative
  BY CreditDbAssumption DEF Init, DbInit, Held, Holds, NonNegative, BalanceNonNegative, Unseen
<1> QED BY <1>1, FreshAlways, HeldStep, NonNegativeStep, IdealInit, IdealStep, PTL
        DEF Spec, ImplementsIdeal, Ideal!Spec

===============================================================================
