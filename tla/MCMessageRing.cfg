CONSTANTS
  N = 2
  W = 2
  ChannelCap = 1
  MaxMessages = 4
SPECIFICATION Spec
INVARIANTS TypeOK RingOrder CursorInStep UndisturbedFrameIsWhole NoLostWakeup
PROPERTY ImplementsLog
CHECK_DEADLOCK FALSE
