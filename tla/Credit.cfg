\* Two workers, three requests: one member's balance and ledger, and his deposit.
SPECIFICATION MCSpec
CONSTANTS
  kim = kim
  adm = adm
  d1 = d1
  Scenes = {"balance", "deposit"}
  Members <- MCMembers
  Admins <- MCAdmins
  Deposits = {d1}
  Requests = {r1, r2, r3}
  Workers = {w1, w2}
  Jobs <- MCJobs
  Amount <- MCAmount
  Owner <- MCOwner
  InitialBalance <- MCBalance
  NoMember = NoMember
  NoDeposit = NoDeposit
  NoRequest = NoRequest
  NoWorker = NoWorker
  NoJob = NoJob
SYMMETRY Symmetry
\* A run ends when its requests have all been used.
CHECK_DEADLOCK FALSE
INVARIANTS
  BalanceNonNegative LedgerChain PaymentItemized
  TwiceOnlyIfCrossed CreditMatchesStatus
PROPERTIES OnlyActiveServed DecidedStaysDecided ImplementsIdeal
