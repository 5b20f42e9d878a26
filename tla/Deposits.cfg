\* Two deposits told by three notices, two threads, losses and a death.
SPECIFICATION Spec
CONSTANTS
  d1 = d1
  d2 = d2
  t1 = t1
  t2 = t2
  Deposits = {d1, d2}
  NoDeposit = NoDeposit
  Threads = {t1, t2}
  MaxNotices = 3
  MaxSeen = 1
  MaxLog = 2
  Faulty = TRUE
  Budgets <- MCBudgets
INVARIANTS RegisteredForReason SkippedOnlyIfDecided ShownOnce
SYMMETRY Symmetry
CHECK_DEADLOCK FALSE
