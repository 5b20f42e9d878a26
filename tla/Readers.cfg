\* Three devices, one of which may refuse, and a page that is reloaded.
SPECIFICATION FairSpec
CONSTANTS
  c = c
  v = v
  h = h
  Devices = {c, v, h}
  Kind <- DeviceKind
  NoDevice = NoDevice
  HasNfc = TRUE
  Refusing = {c}
  Slots = {1, 2}
  NoSlot = NoSlot
  NoThread = NoThread
  MaxQueue = 1
  MaxNotes = 1
  Reloads = TRUE
  MaxTimers = 1
INVARIANTS NfcAlone PriorityFollowed
PROPERTIES ReaderReturns
