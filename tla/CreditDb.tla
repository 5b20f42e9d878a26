------------------------------- MODULE CreditDb -------------------------------
(***************************************************************************)
(* The rows of the PostgreSQL database that carry money, and what one      *)
(* request handler of the backend may do to them: users (balance, status), *)
(* the booked rows (payment_transactions and deposit_histories) and        *)
(* bank_transactions.  Row locks are explicit: SELECT ... FOR UPDATE on a  *)
(* users row is Acquire, and COMMIT or ROLLBACK gives every lock back.     *)
(* Transactions are READ COMMITTED, SQLAlchemy's autoflush is off, so a    *)
(* handler's writes all appear at its commit.                              *)
(***************************************************************************)
EXTENDS Integers, Sequences, FiniteSets

CONSTANTS
  Members,        \* rows of users, administrators included
  Admins,         \* those whose role is ADMIN
  Deposits,       \* rows of bank_transactions
  Requests,       \* HTTP requests (and worker start-ups) of a run: a bound
  Workers,        \* uvicorn worker processes
  Jobs,           \* what the requests may ask for
  Amount,         \* Amount[d]: the won transferred by deposit d
  Owner,          \* Owner[d]: the one member the depositor name matches
  InitialBalance,
  NoMember, NoDeposit, NoRequest, NoWorker, NoJob

Statuses == {"ACTIVE", "INACTIVE", "SUSPENDED"}
DepositStatuses == {"UNREGISTERED", "PENDING", "ERROR", "INACTIVE", "CREDITED",
                    "CREDITED_MANUAL", "OTHER", "DELETED"}
Ops == {"pay", "claim", "resolve", "recharge", "deduct", "status",
        "register", "other", "delete", "deny", "boot"}

\* A request body: the fields an operation does not use hold a default.
JobType == [op : Ops, member : Members \cup {NoMember}, admin : Members \cup {NoMember},
            deposit : Deposits \cup {NoDeposit}, amount : Nat, force : BOOLEAN,
            to : Statuses]

\* A row of bank_transactions; denied stands for the resolution_memo prefix
\* that deny_deposit leaves.
DepositRow == [st : DepositStatuses, who : Members \cup {NoMember}, denied : BOOLEAN]

\* A row of payment_transactions or deposit_histories.
Entry == [kind : {"PAY", "PAY_FAILED", "BANK", "MANUAL"}, delta : Int, after : Int,
          dep : Deposits \cup {NoDeposit}, forced : BOOLEAN, by : Requests]

ASSUME CreditDbAssumption ==
  /\ Admins \subseteq Members
  /\ NoMember \notin Members /\ NoDeposit \notin Deposits /\ NoRequest \notin Requests
  /\ NoWorker \notin Workers /\ NoJob \notin Jobs
  /\ Amount \in [Deposits -> Nat \ {0}]          \* BankTransactionCreate: gt=0
  /\ Owner \in [Deposits -> Members \cup {NoMember}]
  /\ InitialBalance \in [Members -> Nat]
  /\ Jobs \subseteq JobType
  /\ \A j \in Jobs :
       /\ j.op \in {"pay", "claim", "resolve", "recharge", "deduct", "status", "deny"}
            => j.member \in Members
       /\ j.op \in {"claim", "resolve", "register", "other", "delete", "deny"}
            => j.deposit \in Deposits
       /\ j.op \in {"resolve", "recharge", "deduct", "status", "register", "other", "delete"}
            => j.admin \in Admins
       /\ j.op \in {"recharge", "deduct"} => j.amount > 0     \* Field(gt=0)

VARIABLES
  balance,        \* users.credit_balance
  status,         \* users.status
  ledger,         \* ledger[m]: the rows booked for m, in commit order
  bank,           \* bank_transactions
  itemized,       \* payments whose payment_line_items rows are committed
  recent,         \* recent[m]: m has a SUCCESS payment less than 30 seconds old
  lock            \* lock[m]: the request whose transaction has m's users row locked

dbVars == <<balance, status, ledger, bank, itemized, recent, lock>>

DbTypeOK ==
  /\ balance \in [Members -> Int]
  /\ status \in [Members -> Statuses]
  /\ ledger \in [Members -> Seq(Entry)]
  /\ bank \in [Deposits -> DepositRow]
  /\ itemized \subseteq Requests
  /\ recent \in [Members -> BOOLEAN]
  /\ lock \in [Members -> Requests \cup {NoRequest}]

\* match_new_deposit: where a deposit starts, from what the matched member's
\* status was when it was read.
Matched(d, ownerStatus) ==
  CASE Owner[d] # NoMember /\ ownerStatus = "ACTIVE" ->
         [st |-> "PENDING", who |-> Owner[d], denied |-> FALSE]
    [] Owner[d] # NoMember /\ ownerStatus = "INACTIVE" ->
         [st |-> "INACTIVE", who |-> Owner[d], denied |-> FALSE]
    [] OTHER -> [st |-> "ERROR", who |-> NoMember, denied |-> FALSE]

Unregistered == [st |-> "UNREGISTERED", who |-> NoMember, denied |-> FALSE]

StatusOf(st, m) == IF m = NoMember THEN "ACTIVE" ELSE st[m]

\* Members may be imported as INACTIVE or suspended earlier.  Deposits are
\* unknown to the backend or still where registration put them.
DbInit ==
  /\ balance = InitialBalance
  /\ status \in [Members -> Statuses]
  /\ \A a \in Admins : status[a] = "ACTIVE"
  /\ ledger = [m \in Members |-> <<>>]
  /\ bank \in [Deposits -> DepositRow]
  /\ \A d \in Deposits :
       bank[d] \in {Unregistered, Matched(d, StatusOf(status, Owner[d]))}
  /\ itemized = {}
  /\ recent = [m \in Members |-> FALSE]
  /\ lock = [m \in Members |-> NoRequest]

-------------------------------------------------------------------------------
\* Mutant of Acquire: with_for_update is forgotten.
AcquireNothing(r, m) == UNCHANGED lock

\* SELECT ... FOR UPDATE of m's row waits until nobody else has it.
Acquire(r, m) == lock[m] = NoRequest /\ lock' = [lock EXCEPT ![m] = r]

\* The end of r's transaction gives its locks back.
ReleaseAll(R) == lock' = [m \in Members |-> IF lock[m] \in R THEN NoRequest ELSE lock[m]]

\* credit_balance = the value in r's session + delta, and the row that books it.
Book(r, m, seenBalance, delta, kind, dep, forced) ==
  /\ balance' = [balance EXCEPT ![m] = seenBalance + delta]
  /\ ledger' = [ledger EXCEPT ![m] =
       Append(@, [kind |-> kind, delta |-> delta, after |-> seenBalance + delta,
                  dep |-> dep, forced |-> forced, by |-> r])]

\* What is still to be decided: the admin's queue and the member's list.
Open(row) == row.st \in {"PENDING", "ERROR"}

\* Whose deposit park_inactive_deposits takes d to be.
ParkOwner(d) == IF bank[d].who # NoMember THEN bank[d].who ELSE Owner[d]

\* Mutant of Parkable: the filter on PENDING and ERROR is forgotten.
ParkableAny(M) == {d \in Deposits : ~bank[d].denied /\ ParkOwner(d) \in M}

\* The open deposits of the members in M, without those a member has denied.
Parkable(M) == {d \in Deposits : Open(bank[d]) /\ ~bank[d].denied /\ ParkOwner(d) \in M}

\* The parked rows as the session writes them: a column whose value does not
\* change is not in the UPDATE.
Parked(P, seenWho) ==
  [d \in Deposits |->
     IF d \notin P \/ bank[d].st = "DELETED" THEN bank[d]
     ELSE [bank[d] EXCEPT !.st = "INACTIVE",
                          !.who = IF seenWho[d] # NoMember THEN @ ELSE Owner[d]]]

===============================================================================
