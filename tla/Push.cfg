\* One device, two members or the administrator, some disturbances at a time.
SPECIFICATION Spec
CONSTANTS
  kim = kim
  lee = lee
  first = first
  second = second
  Accounts = {kim, lee}
  Endpoints = {1, 2, 3}
  None = None
  Hands = {first, second}
  Max = 2
  Budgets <- MCBudgets
INVARIANTS OffStays LoggedOutSilent
PROPERTIES Recovers
