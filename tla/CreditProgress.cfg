\* Two workers, two requests of two administrators: nothing waits for ever.
SPECIFICATION MCFairSpec
CONSTANTS
  kim = kim
  adm = adm
  d1 = d1
  Scenes = {"cross"}
  Members <- MCMembers
  Admins <- MCMembers
  Deposits = {d1}
  Requests = {r1, r2}
  Workers = {w1, w2}
  Jobs <- MCJobs
  Amount <- MCAmount
  Owner <- MCOwner
  InitialBalance <- MCBalance
  NoMember = NoMember
  NoDeposit = NoDeposit
  NoRequest = NoRequest
  NoWorker = NoWorker
  NoJob = NoJob
\* A run ends when its requests have all been used.
CHECK_DEADLOCK FALSE
PROPERTIES EveryRequestEnds
