\* Two phones and one message, one phone that asks again, or losses, or a batch.
SPECIFICATION MCSpec
CONSTANTS
  Messages = {1, 2}
  Codes = {}
  Devices = {d1, d2}
  Requests = {q1, q2}
  MaxAttempts = 2
  ClaimLimit = 5
  MaxPosts = 2
  NoDevice = NoDevice
  NoMessage = NoMessage
  NoRequest = NoRequest
  Scenes = {"faults", "late", "phones", "batch"}
  First = d1
  Slot = q1
INVARIANTS ResentOnlyIfSeized
 
\* Every message may have been settled.
CHECK_DEADLOCK FALSE
