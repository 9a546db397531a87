CONSTANTS
  N = 3
  MaxSec = 2
  MaxNest = 1
SPECIFICATION Spec
INVARIANT SkipsOnlyAfterFullDisk
