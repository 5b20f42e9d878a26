\* Two members, two deposits, two cards and two codes.
SPECIFICATION MCSpec
CONSTANTS
  kim = kim
  lee = lee
  d1 = d1
  d2 = d2
  k1 = k1
  k2 = k2
  q1 = q1
  q2 = q2
  soup = soup
  rice = rice
  None = None
  Members = {kim, lee}
  Deposits = {d1, d2}
  Named <- MCNamed
  Matched <- MCMatched
  MaxTaps = 4
  MaxSignals = 1
  Budgets <- MCBudgets
  Users = {kim, lee}
  Cards = {k1, k2}
  Codes = {q1, q2}
  FirstRows <- MCRows
  Tours <- MCTours
  Products = {soup, rice}
  OnSale = {soup}
  Plans <- MCPlans
INVARIANTS ActsAsNamed ChosenHere HeldForReason AgreesAtRest DeviceFollows
PROPERTIES RegistersPresented
\* The administrator taps no more.
CHECK_DEADLOCK FALSE
