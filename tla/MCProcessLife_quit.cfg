CONSTANTS
  W = 1
  ChannelCap = 1
SPECIFICATION Spec
PROPERTY QuitEndsMaster
CHECK_DEADLOCK FALSE
