\* Two members on one page, three requests at a time, some disturbances at a time.
SPECIFICATION Spec
CONSTANTS
  kim = kim
  lee = lee
  Phones = {kim, lee}
  Codes = {1, 2, 3, 4}
  None = None
  Slots = {1, 2, 3}
  MaxAttempts = 2
  DayLimit = 2
  Joined <- MCJoined
  Most = 3
  Budgets <- MCBudgets
\* A member who is in may do nothing more.
CHECK_DEADLOCK FALSE
INVARIANTS OneTextAMinute CountsTheNewest
PROPERTIES NeverStranded
