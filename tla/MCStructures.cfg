CONSTANTS
  N = 3
  MaxSec = 3
  MaxNest = 2
  Size = 131
  Sizes = {3, 48, 100}
  Patience = 0
  ListN = 2
  EltSize = 12
  MaxBlocks = 4
  MaxLarge = 2
  MaxPieces = 5
  Node = {e1, e2, e3, e4, e5, e6}
  Sentinel = Sentinel
  Half = 8
  Delays = {1, 3}
  Lazy = 2
  Lag = 1
  Keys = {1, 4, 6, 11, 15}
  Queues = {q1, q2}
  Primes <- TableSizes
SPECIFICATION SpecAll
VIEW View
INVARIANTS TypeOK LockHasItsOwner PublishedIsWhole LineIsWholeUnlessLapped
PROPERTY TimeNeverGoesBack
INVARIANTS PoolTypeOK AllocationsAreApart MemoryIsAccounted ContainersAreWhole TreeHoldsTheTimers TimersAreOnTime ChannelsAreFound
CHECK_DEADLOCK FALSE
