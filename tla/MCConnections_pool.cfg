CONSTANTS
  N = 1
  Client = {k1, k2}
  None = None
  MaxPressure = 1
  MaxMessages = 1
SPECIFICATION Spec
INVARIANTS TypeOK PoolIsAccounted UnreadDataIsAnnounced
PROPERTIES LeaversAreClosed ResponsesAreFinished
CHECK_DEADLOCK FALSE
