\* The member's first page, and lists of every kind, drawn anew up to three times.
SPECIFICATION MCSpec
CONSTANTS
  kim = kim
  lee = lee
  None = None
  Kinds = {"member", "detail", "kiosk"}
  Owners = {kim, lee}
  Rows = {1, 2, 3, 4, 5, 6, 7, 8}
  Of <- MCOf
  Table <- MCTable
  Time <- MCTime
  Day <- MCDay
  First = {1, 2, 3, 4, 5, 6}
  Limit = 2
  Draws = 3
  Faults = 2
  Members = {kim, lee}
  Deposits = {1, 2, 3}
  Owner <- MCOwner
  Linked = 1
  Sockets = {1, 2, 3}
  Plans <- MCPlans
  Phones = {kim}
  Codes = {1}
  Slots = {1}
  MaxAttempts = 1
  DayLimit = 1
  Joined = {{}}
  Most = 0
  Budgets <- MCBudgets
\* A list that has been read to its end may stay as it is.
CHECK_DEADLOCK FALSE
INVARIANTS ReadsInOrder OwnRows NothingLeftOut OneLine
PROPERTIES EndIsReached ConfirmsTheAsked CatchesUp
