----------------------------- MODULE CreditService -----------------------------
(***************************************************************************)
(* The backend's handlers that move credit: the kiosk payment, the         *)
(* member's claim of a deposit, the administrator's recharge, deduction,   *)
(* resolution and closing of deposits, the change of a member's status.    *)
(*                                                                         *)
(* Four uvicorn workers serve them (Dockerfile).  The body of an `async    *)
(* def' handler makes its database calls on its worker's event loop and    *)
(* does not await before its commit, so it keeps that loop from its first  *)
(* read to its commit; its authentication dependency, and the whole        *)
(* payment, run in the thread pool and keep nothing but row locks.  What a *)
(* refusal has locked stays locked until the loop lets get_db go on.       *)
(***************************************************************************)
EXTENDS CreditDb

VARIABLES
  pc,     \* pc[r]: what request r does next
  job,    \* job[r]: its body
  at,     \* at[r]: the worker that serves it
  seen,   \* seen[r]: the rows its SQLAlchemy session has loaded
  loop,   \* loop[w]: the request whose handler runs on w's event loop
  up,     \* the workers that have started
  crossed \* a history: the deposits two workers have been deciding at once

serviceVars == <<dbVars, pc, job, at, seen, loop, up>>
vars == <<serviceVars, crossed>>

Phases == {"idle", "auth", "queued", "check", "lock", "commit", "items", "closing",
           "done", "lost"}

SeenType == [bal : Int, st : Statuses, row : DepositRow, parks : SUBSET Deposits,
             who : [Deposits -> Members \cup {NoMember}]]
Unseen == [bal |-> 0, st |-> "ACTIVE", row |-> Unregistered, parks |-> {},
           who |-> [d \in Deposits |-> NoMember]]

ServiceTypeOK ==
  /\ DbTypeOK
  /\ pc \in [Requests -> Phases]
  /\ job \in [Requests -> Jobs \cup {NoJob}]
  /\ at \in [Requests -> Workers \cup {NoWorker}]
  /\ seen \in [Requests -> SeenType]
  /\ loop \in [Workers -> Requests \cup {NoRequest}]
  /\ up \subseteq Workers
TypeOK == ServiceTypeOK /\ crossed \subseteq Deposits

Init ==
  /\ DbInit
  /\ pc = [r \in Requests |-> "idle"]
  /\ job = [r \in Requests |-> NoJob]
  /\ at = [r \in Requests |-> NoWorker]
  /\ seen = [r \in Requests |-> Unseen]
  /\ loop = [w \in Workers |-> NoRequest]
  /\ up = Workers
  /\ crossed = {}

-------------------------------------------------------------------------------
\* The moves a handler is made of.
Go(r, phase) == pc' = [pc EXCEPT ![r] = phase]
See(r, s) == seen' = [seen EXCEPT ![r] = s]
Runs(r, op, phase) == pc[r] = phase /\ job[r].op = op
EnterLoop(r) == loop' = [loop EXCEPT ![at[r]] = r]
LoopFree(r) == loop[at[r]] = NoRequest
\* Mutant of End: an early return keeps its transaction open.
EndInTransaction(r, phase) ==
  /\ Go(r, phase)
  /\ loop' = [w \in Workers |-> IF loop[w] = r THEN NoRequest ELSE loop[w]]
  /\ UNCHANGED lock

\* A commit, or an error of the database, ends the transaction; the handler
\* leaves the loop.
End(r, phase) ==
  /\ Go(r, phase)
  /\ loop' = [w \in Workers |-> IF loop[w] = r THEN NoRequest ELSE loop[w]]
  /\ ReleaseAll({r})

\* A handler that raises under its row lock leaves the loop with the lock, which
\* ends with the session that get_db closes ...
Refuse(r) ==
  /\ Go(r, "closing")
  /\ loop' = [w \in Workers |-> IF loop[w] = r THEN NoRequest ELSE loop[w]]
  /\ UNCHANGED lock

tables == <<balance, status, ledger, bank, itemized, recent>>
routing == <<job, at, up>>

\* ... in a thread that the worker's loop has to start.
Close(r) ==
  /\ pc[r] = "closing" /\ LoopFree(r)
  /\ Go(r, "done")
  /\ ReleaseAll({r})
  /\ UNCHANGED <<tables, routing, seen, loop>>

\* A handler that needs the loop and turns its request down at its first read.
Decline(r) == Go(r, "done") /\ UNCHANGED <<loop, seen>>

\* What an INSERT or UPDATE naming user u in a foreign key waits for: FOR KEY
\* SHARE conflicts with FOR UPDATE, not with the plain UPDATE of a status.
KeyShareFree(r, u) == lock[u] \in Requests \ {r} => job[lock[u]].op = "status"

-------------------------------------------------------------------------------
\* The load balancer hands a request to a worker that is up; "boot" is the
\* start of a worker that is down.
Arrive(r, w, j) ==
  /\ pc[r] = "idle"
  /\ IF j.op = "boot" THEN w \notin up ELSE w \in up
  /\ job' = [job EXCEPT ![r] = j]
  /\ at' = [at EXCEPT ![r] = w]
  /\ Go(r, CASE j.op = "pay" -> "check"
             [] j.op \in {"deny", "boot"} -> "queued"
             [] OTHER -> "auth")
  /\ UNCHANGED <<dbVars, seen, loop, up>>

\* require_user_auth: the member's row is read in the thread pool, before the
\* handler gets the event loop.
UserAuth(r) ==
  /\ Runs(r, "claim", "auth")
  /\ Go(r, IF status[job[r].member] = "ACTIVE" THEN "queued" ELSE "done")
  /\ UNCHANGED <<dbVars, routing, seen, loop>>

\* require_admin_auth: the same for an administrator, whose own row stays in
\* the session's identity map with the values of this moment.
AdminAuth(r) ==
  LET a == job[r].admin IN
  /\ pc[r] = "auth" /\ job[r].op # "claim"
  /\ IF status[a] = "ACTIVE"
     THEN Go(r, "queued") /\ See(r, [seen[r] EXCEPT !.bal = balance[a], !.st = status[a]])
     ELSE Go(r, "done") /\ UNCHANGED seen
  /\ UNCHANGED <<dbVars, routing, loop>>

-------------------------------------------------------------------------------
\* _process_nfc_payment_sync up to the lock: the member must be ACTIVE, and an
\* unforced payment within 30 seconds of a SUCCESS asks for confirmation.
PayCheck(r) ==
  LET j == job[r] IN
  /\ Runs(r, "pay", "check")
  /\ Go(r, IF status[j.member] = "ACTIVE" /\ (j.force \/ ~recent[j.member])
           THEN "lock" ELSE "done")
  /\ UNCHANGED <<dbVars, routing, seen, loop>>

\* with_for_update().populate_existing(): the values of the locked row.
PayLock(r) ==
  LET m == job[r].member IN
  /\ Runs(r, "pay", "lock")
  /\ Acquire(r, m)
  /\ See(r, [seen[r] EXCEPT !.bal = balance[m], !.st = status[m]])
  /\ Go(r, "commit")
  /\ UNCHANGED <<tables, routing, loop>>

\* The rest is decided under the lock: the status again, then a positive total,
PayRefuse(r) ==
  /\ Runs(r, "pay", "commit")
  /\ seen[r].st # "ACTIVE" \/ job[r].amount = 0
  /\ Refuse(r)
  /\ UNCHANGED <<tables, routing, seen>>

\* then the balance: a payment it cannot cover is booked as FAILED,
PayShort(r) ==
  LET j == job[r] IN
  /\ Runs(r, "pay", "commit")
  /\ seen[r].st = "ACTIVE" /\ j.amount > 0 /\ seen[r].bal < j.amount
  /\ Book(r, j.member, seen[r].bal, 0, "PAY_FAILED", NoDeposit, j.force)
  /\ End(r, "done")
  /\ UNCHANGED <<status, bank, itemized, recent, routing, seen>>

\* Mutants of PaySuccess: the balance is not compared with the total; the status
\* is not read again under the lock; the line items are forgotten.
PaySuccessUnbounded(r) ==
  LET j == job[r] IN
  /\ Runs(r, "pay", "commit")
  /\ seen[r].st = "ACTIVE" /\ j.amount > 0
  /\ Book(r, j.member, seen[r].bal, -j.amount, "PAY", NoDeposit, j.force)
  /\ recent' = [recent EXCEPT ![j.member] = TRUE]
  /\ End(r, "items")
  /\ UNCHANGED <<status, bank, itemized, routing, seen>>

PaySuccessAnyStatus(r) ==
  LET j == job[r] IN
  /\ Runs(r, "pay", "commit")
  /\ j.amount > 0 /\ seen[r].bal >= j.amount
  /\ Book(r, j.member, seen[r].bal, -j.amount, "PAY", NoDeposit, j.force)
  /\ recent' = [recent EXCEPT ![j.member] = TRUE]
  /\ End(r, "items")
  /\ UNCHANGED <<status, bank, itemized, routing, seen>>

PaySuccessNoItems(r) ==
  LET j == job[r] IN
  /\ Runs(r, "pay", "commit")
  /\ seen[r].st = "ACTIVE" /\ j.amount > 0 /\ seen[r].bal >= j.amount
  /\ Book(r, j.member, seen[r].bal, -j.amount, "PAY", NoDeposit, j.force)
  /\ recent' = [recent EXCEPT ![j.member] = TRUE]
  /\ End(r, "done")
  /\ UNCHANGED <<status, bank, itemized, routing, seen>>

\* one it covers is deducted and booked as SUCCESS.
PaySuccess(r) ==
  LET j == job[r] IN
  /\ Runs(r, "pay", "commit")
  /\ seen[r].st = "ACTIVE" /\ j.amount > 0 /\ seen[r].bal >= j.amount
  /\ Book(r, j.member, seen[r].bal, -j.amount, "PAY", NoDeposit, j.force)
  /\ recent' = [recent EXCEPT ![j.member] = TRUE]
  /\ End(r, "items")
  /\ UNCHANGED <<status, bank, itemized, routing, seen>>

\* The line items are a second transaction.
PayItems(r) ==
  /\ Runs(r, "pay", "items")
  /\ itemized' = itemized \cup {r}
  /\ Go(r, "done")
  /\ UNCHANGED <<balance, status, ledger, bank, recent, lock, routing, seen, loop>>

\* Thirty seconds pass since m's last payment.
WindowPasses(m) ==
  /\ recent[m]
  /\ recent' = [recent EXCEPT ![m] = FALSE]
  /\ UNCHANGED <<balance, status, ledger, bank, itemized, lock, pc, routing, seen, loop>>

-------------------------------------------------------------------------------
\* Mutant of ClaimRead: the status of the deposit is not checked.
ClaimReadAny(r) ==
  LET d == job[r].deposit IN
  /\ Runs(r, "claim", "queued") /\ LoopFree(r)
  /\ IF bank[d].who = job[r].member
     THEN EnterLoop(r) /\ See(r, [seen[r] EXCEPT !.row = bank[d]]) /\ Go(r, "lock")
     ELSE Decline(r)
  /\ UNCHANGED <<dbVars, routing>>

\* claim_bank_transaction: the deposit is read without a lock ...
ClaimRead(r) ==
  LET d == job[r].deposit IN
  /\ Runs(r, "claim", "queued") /\ LoopFree(r)
  /\ IF bank[d].who = job[r].member /\ bank[d].st = "PENDING"
     THEN EnterLoop(r) /\ See(r, [seen[r] EXCEPT !.row = bank[d]]) /\ Go(r, "lock")
     ELSE Decline(r)
  /\ UNCHANGED <<dbVars, routing>>

\* ... the member's row with one, refreshed ...
ClaimLock(r) ==
  LET m == job[r].member IN
  /\ Runs(r, "claim", "lock")
  /\ Acquire(r, m)
  /\ See(r, [seen[r] EXCEPT !.bal = balance[m], !.st = status[m]])
  /\ Go(r, "commit")
  /\ UNCHANGED <<tables, routing, loop>>

\* ... and CREDITED is written over whatever the row says by now; an UPDATE of
\* a deleted row fails the whole transaction.
ClaimCommit(r) ==
  LET j == job[r]  d == j.deposit IN
  /\ Runs(r, "claim", "commit")
  /\ IF bank[d].st = "DELETED" THEN UNCHANGED <<balance, ledger, bank>>
     ELSE /\ Book(r, j.member, seen[r].bal, Amount[d], "BANK", d, FALSE)
          /\ bank' = [bank EXCEPT ![d].st = "CREDITED"]
  /\ End(r, "done")
  /\ UNCHANGED <<status, itemized, recent, routing, seen>>

\* Mutant of ResolveRead: a decided deposit is accepted too.
ResolveReadAny(r) ==
  LET d == job[r].deposit IN
  /\ Runs(r, "resolve", "queued") /\ LoopFree(r)
  /\ EnterLoop(r) /\ See(r, [seen[r] EXCEPT !.row = bank[d]]) /\ Go(r, "lock")
  /\ UNCHANGED <<dbVars, routing>>

\* admin_resolve_bank_transaction, in the same three steps.  The locked SELECT
\* does not refresh a row the session already holds: the acting admin's own.
ResolveRead(r) ==
  LET d == job[r].deposit IN
  /\ Runs(r, "resolve", "queued") /\ LoopFree(r)
  /\ IF Open(bank[d])
     THEN EnterLoop(r) /\ See(r, [seen[r] EXCEPT !.row = bank[d]]) /\ Go(r, "lock")
     ELSE Decline(r)
  /\ UNCHANGED <<dbVars, routing>>

\* The locked SELECT of an administrator's handler.
AdminLock(r) ==
  LET m == job[r].member IN
  /\ pc[r] = "lock" /\ job[r].op \in {"resolve", "recharge", "deduct"}
  /\ Acquire(r, m)
  /\ IF m = job[r].admin THEN UNCHANGED seen
     ELSE See(r, [seen[r] EXCEPT !.bal = balance[m], !.st = status[m]])
  /\ Go(r, "commit")
  /\ UNCHANGED <<tables, routing, loop>>

\* The columns whose value differs from what the session read are written.
Resolved(row, read, m) ==
  [st |-> "CREDITED_MANUAL", who |-> IF read.who = m THEN row.who ELSE m,
   denied |-> row.denied /\ ~read.denied]

\* What the locked row says of the member is looked at first.
AdminRefuses(r) ==
  \/ job[r].op \in {"resolve", "recharge"} /\ seen[r].st # "ACTIVE"
  \/ job[r].op = "deduct" /\ seen[r].bal < job[r].amount

AdminRefuse(r) ==
  /\ pc[r] = "commit" /\ AdminRefuses(r)
  /\ Refuse(r)
  /\ UNCHANGED <<tables, routing, seen>>

ResolveCommit(r) ==
  LET j == job[r]  d == j.deposit IN
  /\ Runs(r, "resolve", "commit") /\ ~AdminRefuses(r) /\ KeyShareFree(r, j.admin)
  /\ IF bank[d].st = "DELETED"
     THEN UNCHANGED <<balance, ledger, bank>>
     ELSE /\ Book(r, j.member, seen[r].bal, Amount[d], "BANK", d, FALSE)
          /\ bank' = [bank EXCEPT ![d] = Resolved(@, seen[r].row, j.member)]
  /\ End(r, "done")
  /\ UNCHANGED <<status, itemized, recent, routing, seen>>

-------------------------------------------------------------------------------
\* admin_recharge_credit and admin_deduct_credit start with the locked SELECT.
AdjustStart(r) ==
  /\ pc[r] = "queued" /\ job[r].op \in {"recharge", "deduct"} /\ LoopFree(r)
  /\ EnterLoop(r) /\ Go(r, "lock")
  /\ UNCHANGED <<dbVars, seen, routing>>

RechargeCommit(r) ==
  LET j == job[r] IN
  /\ Runs(r, "recharge", "commit") /\ ~AdminRefuses(r) /\ KeyShareFree(r, j.admin)
  /\ Book(r, j.member, seen[r].bal, j.amount, "MANUAL", NoDeposit, FALSE)
  /\ End(r, "done")
  /\ UNCHANGED <<status, bank, itemized, recent, routing, seen>>

DeductCommit(r) ==
  LET j == job[r] IN
  /\ Runs(r, "deduct", "commit") /\ ~AdminRefuses(r) /\ KeyShareFree(r, j.admin)
  /\ Book(r, j.member, seen[r].bal, -j.amount, "MANUAL", NoDeposit, FALSE)
  /\ End(r, "done")
  /\ UNCHANGED <<status, bank, itemized, recent, routing, seen>>

-------------------------------------------------------------------------------
\* Mutant of CloseRead: mark-other and delete accept a decided deposit.
CloseReadAny(r) ==
  LET j == job[r]  row == bank[j.deposit] IN
  /\ pc[r] = "queued" /\ job[r].op \in {"other", "delete", "deny"} /\ LoopFree(r)
  /\ IF j.op \in {"other", "delete"} \/ (row.st = "PENDING" /\ row.who = j.member)
     THEN EnterLoop(r) /\ See(r, [seen[r] EXCEPT !.row = row]) /\ Go(r, "commit")
     ELSE Decline(r)
  /\ UNCHANGED <<dbVars, routing>>

\* The handlers that decide a deposit without touching a balance: read it,
\* then write over it.
CloseRead(r) ==
  LET j == job[r]  row == bank[j.deposit] IN
  /\ pc[r] = "queued" /\ job[r].op \in {"other", "delete", "deny"} /\ LoopFree(r)
  /\ IF \/ j.op \in {"other", "delete"} /\ Open(row)
        \/ j.op = "deny" /\ row.st = "PENDING" /\ row.who = j.member
     THEN EnterLoop(r) /\ See(r, [seen[r] EXCEPT !.row = row]) /\ Go(r, "commit")
     ELSE Decline(r)
  /\ UNCHANGED <<dbVars, routing>>

\* A write of the row ends the handler; on a deleted row it fails instead.
CloseWith(r, row) ==
  LET d == job[r].deposit IN
  /\ bank' = IF bank[d].st = "DELETED" THEN bank ELSE [bank EXCEPT ![d] = row]
  /\ End(r, "done")
  /\ UNCHANGED <<balance, status, ledger, itemized, recent, routing, seen>>

OtherCommit(r) ==
  /\ Runs(r, "other", "commit") /\ KeyShareFree(r, job[r].admin)
  /\ CloseWith(r, [bank[job[r].deposit] EXCEPT !.st = "OTHER", !.denied = FALSE])

DeleteCommit(r) ==
  /\ Runs(r, "delete", "commit")
  /\ CloseWith(r, [Unregistered EXCEPT !.st = "DELETED"])

DenyCommit(r) ==
  /\ Runs(r, "deny", "commit")
  /\ CloseWith(r, [st |-> "ERROR", who |-> NoMember, denied |-> TRUE])

\* admin_add_bank_transaction: the transaction number must be new, and the row
\* is matched with the members read before its insertion.
RegisterRead(r) ==
  LET d == job[r].deposit IN
  /\ Runs(r, "register", "queued") /\ LoopFree(r)
  /\ IF bank[d].st = "UNREGISTERED"
     THEN /\ EnterLoop(r) /\ Go(r, "commit")
          /\ See(r, [seen[r] EXCEPT !.row = Matched(d, StatusOf(status, Owner[d]))])
     ELSE Decline(r)
  /\ UNCHANGED <<dbVars, routing>>

\* A second insertion of the same number breaks the unique index.
RegisterCommit(r) ==
  LET d == job[r].deposit  who == seen[r].row.who IN
  /\ Runs(r, "register", "commit")
  /\ who # NoMember => KeyShareFree(r, who)
  /\ bank' = IF bank[d].st = "UNREGISTERED" THEN [bank EXCEPT ![d] = seen[r].row] ELSE bank
  /\ End(r, "done")
  /\ UNCHANGED <<balance, status, ledger, itemized, recent, routing, seen>>

-------------------------------------------------------------------------------
\* update_user_status: an administrator's account is never closed.
StatusRead(r) ==
  LET j == job[r] IN
  /\ Runs(r, "status", "queued") /\ LoopFree(r)
  /\ IF j.member \in Admins /\ j.to # "ACTIVE" THEN Decline(r)
     ELSE EnterLoop(r) /\ Go(r, "lock") /\ See(r, [seen[r] EXCEPT !.st = status[j.member]])
  /\ UNCHANGED <<dbVars, routing>>

\* The flush of the UPDATE locks the row (no UPDATE when nothing changes), and
\* park_inactive_deposits then reads the open deposits.
StatusFlush(r) ==
  LET j == job[r]  m == j.member  changes == seen[r].st # j.to IN
  /\ Runs(r, "status", "lock")
  /\ IF changes THEN Acquire(r, m) ELSE UNCHANGED lock
  /\ See(r, [seen[r] EXCEPT
       !.parks = IF j.to = "INACTIVE" /\ (changes \/ status[m] = "INACTIVE")
                 THEN Parkable({m}) ELSE {},
       !.who = [d \in Deposits |-> bank[d].who]])
  /\ Go(r, "commit")
  /\ UNCHANGED <<tables, routing, loop>>

\* The rows park_inactive_deposits found are written at the commit.  One that is
\* gone fails a single UPDATE; a batch of them may pass it over.
WriteParked(r) ==
  LET P == seen[r].parks  gone == {d \in P : bank[d].st = "DELETED"} IN
  \/ /\ gone = {} \/ Cardinality(P) > 1
     /\ bank' = Parked(P, seen[r].who)
     /\ status' = IF job[r].op = "status" THEN [status EXCEPT ![job[r].member] =
                      IF seen[r].st = job[r].to THEN @ ELSE job[r].to]
                  ELSE status
  \/ gone # {} /\ UNCHANGED <<bank, status>>

StatusCommit(r) ==
  /\ Runs(r, "status", "commit")
  /\ WriteParked(r)
  /\ End(r, "done")
  /\ UNCHANGED <<balance, ledger, itemized, recent, routing, seen>>

\* startup_db_seed parks the deposits of every inactive member before the
\* worker takes requests.
BootRead(r) ==
  /\ Runs(r, "boot", "queued") /\ LoopFree(r)
  /\ EnterLoop(r) /\ Go(r, "commit")
  /\ See(r, [seen[r] EXCEPT
       !.parks = Parkable({m \in Members : status[m] = "INACTIVE"}),
       !.who = [d \in Deposits |-> bank[d].who]])
  /\ UNCHANGED <<dbVars, routing>>

BootCommit(r) ==
  /\ Runs(r, "boot", "commit")
  /\ WriteParked(r)
  /\ End(r, "done")
  /\ up' = up \cup {at[r]}
  /\ UNCHANGED <<balance, ledger, itemized, recent, job, at, seen>>

-------------------------------------------------------------------------------
\* A worker process dies: its requests are lost and the database rolls their
\* transactions back.
Crash(w) ==
  LET R == {r \in Requests : at[r] = w /\ pc[r] \notin {"idle", "done", "lost"}} IN
  /\ w \in up
  /\ up' = up \ {w}
  /\ pc' = [r \in Requests |-> IF r \in R THEN "lost" ELSE pc[r]]
  /\ loop' = [loop EXCEPT ![w] = NoRequest]
  /\ ReleaseAll(R)
  /\ UNCHANGED <<tables, job, at, seen>>

\* What r waits for in PostgreSQL: a row that q has locked.
WaitsFor(r, q) ==
  /\ r # q
  /\ \/ /\ pc[r] = "lock" /\ lock[job[r].member] = q
        /\ job[r].op = "status" => seen[r].st # job[r].to
     \/ /\ pc[r] = "commit" /\ job[r].op \in {"resolve", "recharge", "deduct", "other"}
        /\ ~AdminRefuses(r)
        /\ lock[job[r].admin] = q /\ ~KeyShareFree(r, job[r].admin)
     \/ /\ Runs(r, "register", "commit") /\ seen[r].row.who # NoMember
        /\ lock[seen[r].row.who] = q /\ ~KeyShareFree(r, seen[r].row.who)

\* The requests in R wait for each other.
Circle(R, waits) ==
  \A x \in R : (\E y \in R : <<x, y>> \in waits) /\ (\E y \in R : <<y, x>> \in waits)
RowWaits == {w \in Requests \X Requests : WaitsFor(w[1], w[2])}

\* The deadlock detector fails one of those that wait for each other's rows, as
\* two administrators do who recharge each other.
DeadlockVictim(r) ==
  /\ \E R \in SUBSET Requests : r \in R /\ Circle(R, RowWaits)
  /\ End(r, "done")
  /\ UNCHANGED <<tables, routing, seen>>

Handler(r) ==
  \/ UserAuth(r) \/ AdminAuth(r)
  \/ PayCheck(r) \/ PayLock(r)
  \/ PayRefuse(r) \/ PayShort(r) \/ PaySuccess(r) \/ PayItems(r)
  \/ AdminRefuse(r) \/ Close(r)
  \/ ClaimRead(r) \/ ClaimLock(r) \/ ClaimCommit(r)
  \/ ResolveRead(r) \/ AdminLock(r) \/ ResolveCommit(r)
  \/ AdjustStart(r) \/ RechargeCommit(r) \/ DeductCommit(r)
  \/ CloseRead(r) \/ OtherCommit(r) \/ DeleteCommit(r) \/ DenyCommit(r)
  \/ RegisterRead(r) \/ RegisterCommit(r)
  \/ StatusRead(r) \/ StatusFlush(r) \/ StatusCommit(r)
  \/ BootRead(r) \/ BootCommit(r)
  \/ DeadlockVictim(r)

\* The deposits r has read and is about to write.
Decides(r) ==
  {d \in Deposits :
     \/ pc[r] = "lock" /\ job[r].op \in {"claim", "resolve"} /\ d = job[r].deposit
     \/ /\ pc[r] = "commit" /\ d = job[r].deposit
        /\ job[r].op \in {"claim", "resolve", "other", "delete", "deny", "register"}
     \/ pc[r] = "commit" /\ job[r].op \in {"status", "boot"} /\ d \in seen[r].parks}
Crossing == {d \in Deposits : \E q, r \in Requests :
               at[q] # at[r] /\ d \in Decides(q) \cap Decides(r)}

Next ==
  /\ \/ \E r \in Requests, w \in Workers, j \in Jobs : Arrive(r, w, j)
     \/ \E r \in Requests : Handler(r)
     \/ \E m \in Members : WindowPasses(m)
     \/ \E w \in Workers : Crash(w)
  /\ crossed' = crossed \cup Crossing'

Spec == Init /\ [][Next]_vars

\* A thread that has started a handler is scheduled until it ends, PostgreSQL
\* grants a row lock to those who wait in turn and aborts a deadlock's victim.
\* Nothing makes a request arrive, a worker crash or the window pass.
HandlersEnd == \A r \in Requests : SF_serviceVars(Handler(r))

-------------------------------------------------------------------------------
\* Row i of m's ledger books deposit d.
Books(m, i, d) == i \in 1..Len(ledger[m]) /\ ledger[m][i].dep = d
Booked(d) == \E m \in Members : \E i \in 1..Len(ledger[m]) : Books(m, i, d)

\* No interleaving of payments, deductions and credits takes a balance below
\* zero: each is checked against the value it is subtracted from.
BalanceNonNegative == \A m \in Members : balance[m] >= 0

\* An administrator who changes his own balance, and the members who have: the
\* locked SELECT gives such a handler the row of its authentication.
SelfService(j) == j.op \in {"resolve", "recharge", "deduct"} /\ j.admin = j.member
SelfServed == {m \in Members : \E r \in Requests :
                 pc[r] # "idle" /\ SelfService(job[r]) /\ job[r].member = m}

\* No lost update: every booked row starts from the balance the row before it
\* left (balance_after), and the last one left what credit_balance says, but for
\* an administrator who has served himself.
LedgerChain ==
  \A m \in Members \ SelfServed :
    LET before(i) == IF i = 1 THEN InitialBalance[m] ELSE ledger[m][i - 1].after IN
    /\ \A i \in 1..Len(ledger[m]) : ledger[m][i].after = before(i) + ledger[m][i].delta
    /\ balance[m] = before(Len(ledger[m]) + 1)

\* A bank transfer is turned into credit at most once, whoever decides it and
\* however often ("이미 처리되었거나 처리할 수 없는 입금 건입니다").
BooksOnce(d) ==
  \A m, n \in Members : \A i \in 1..Len(ledger[m]), j \in 1..Len(ledger[n]) :
    Books(m, i, d) /\ Books(n, j, d) => m = n /\ i = j
CreditedAtMostOnce == \A d \in Deposits : BooksOnce(d)

\* Only two workers that decide one deposit at once can credit it twice: the
\* handlers of one worker, however many, cannot, nor can a later request of any.
TwiceOnlyIfCrossed == \A d \in Deposits \ crossed : BooksOnce(d)

\* A deposit is marked as credited exactly when its amount has been booked; one
\* closed as OTHER, parked as INACTIVE or still open has given no credit, unless
\* two workers were deciding it at once.
CreditMatchesStatus ==
  \A d \in Deposits \ crossed :
    Booked(d) <=> bank[d].st \in {"CREDITED", "CREDITED_MANUAL"}

\* A decided deposit stays decided: INACTIVE is not revived by activating the
\* member, OTHER is not reopened by a late denial, and only two workers that
\* decided it at once overwrite each other.
DecidedStaysDecided ==
  [][\A d \in Deposits \ crossed :
       bank[d].st \in {"CREDITED", "CREDITED_MANUAL", "OTHER", "INACTIVE", "DELETED"}
         => bank'[d] = bank[d]]_vars

\* Only an ACTIVE member pays or is credited by an administrator, at the moment
\* of the commit: the status is checked again under the row's lock.  A deduction
\* is allowed for everyone; a claim checks the status at its authentication only.
Served(m) == LET e == ledger'[m][Len(ledger'[m])] IN
  /\ Len(ledger'[m]) > Len(ledger[m])
  /\ e.kind = "PAY" \/ e.delta > 0
  /\ job[e.by].op # "claim"
OnlyActiveServed == [][\A m \in Members : Served(m) => status[m] = "ACTIVE"]_vars

\* Without the customer's confirmation, no payment succeeds within 30 seconds of
\* another one of the same member (UC-08).
NoQuickRepeat ==
  [][\A m \in Members :
       LET e == ledger'[m][Len(ledger'[m])] IN
       Len(ledger'[m]) > Len(ledger[m]) /\ e.kind = "PAY" /\ ~e.forced => ~recent[m]]_vars

\* Every successful payment gets its line items, unless the worker dies in the
\* gap between the two commits.
PaymentItemized ==
  \A m \in Members : \A i \in 1..Len(ledger[m]) :
    LET e == ledger[m][i] IN
    e.kind = "PAY" => e.by \in itemized \/ pc[e.by] \in {"items", "lost"}

\* A request that has refused waits for the one its worker's loop runs.
LoopWaits == {w \in Requests \X Requests : pc[w[1]] = "closing" /\ loop[at[w[1]]] = w[2]}
Hung == \E R \in SUBSET Requests :
          Circle(R, RowWaits \cup LoopWaits) /\ \E r \in R : pc[r] = "closing"

\* Event loops, row locks and foreign key checks leave no request waiting for
\* ever but in one way: the loop of a worker waits for a row of a request that
\* has refused and that the same loop has to close, perhaps through others.
EveryRequestEnds ==
  \A r \in Requests : pc[r] # "idle" ~> pc[r] \in {"done", "lost"} \/ Hung

\* A payment runs in a thread of its own so that its database calls stop no event
\* loop: no loop waits for ever for the row of a payment that the loop must close.
PaymentsSpareTheLoop ==
  \A r, q \in Requests :
    Runs(r, "pay", "closing") /\ loop[at[r]] = q => ~WaitsFor(q, r)

\* The abstract specification: how far a deposit has come.
Stage(st) == CASE st = "UNREGISTERED" -> "new"
               [] st \in {"PENDING", "ERROR"} -> "open"
               [] st \in {"CREDITED", "CREDITED_MANUAL"} -> "credited"
               [] OTHER -> "closed"

Ideal == INSTANCE IdealCredit
         WITH money <- balance, stage <- [d \in Deposits |-> Stage(bank[d].st)],
              loose <- crossed, own <- SelfServed

\* The handlers' interleaved reads, locks and commits implement the ideal: credit
\* arises once per deposit and by its exact amount.
ImplementsIdeal == Ideal!Spec

===============================================================================
