CONSTANTS
  W = 2
  ChannelCap = 1
SPECIFICATION Spec
INVARIANTS TypeOK MeshIsComplete ExitingMeansTold MasterLeavesNobodyUntold NoZombieForgotten
PROPERTIES ToldWorkersExit MessageProcessExitsWithTraffic
CHECK_DEADLOCK FALSE
