\* Two phones and one message, and nothing is lost.
SPECIFICATION MCSpec
CONSTANTS
  Messages = {1, 2}
  Codes = {}
  Devices = {d1, d2}
  Requests = {q1, q2}
  MaxAttempts = 3
  ClaimLimit = 5
  MaxPosts = 2
  NoDevice = NoDevice
  NoMessage = NoMessage
  NoRequest = NoRequest
  Scenes = {"phones"}
  First = d1
  Slot = q1
INVARIANTS ResentOnlyUnreported
\* Every message may have been settled.
CHECK_DEADLOCK FALSE
