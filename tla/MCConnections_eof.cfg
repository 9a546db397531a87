CONSTANTS
  N = 1
  Client = {k1}
  None = None
  MaxPressure = 0
  MaxMessages = 0
SPECIFICATION Spec
INVARIANTS UnreadEndIsAnnounced
CHECK_DEADLOCK FALSE
