CONSTANTS
  N = 2
  Client = {k1, k2}
  None = None
  MaxPressure = 0
  MaxMessages = 1
SPECIFICATION Spec
INVARIANTS QueuesHoldLiveConnections CutFrameIsLast SubscribersInStep
CHECK_DEADLOCK FALSE
