SPECIFICATION FairSpec
CONSTANTS
  Capacity = 3
  Items = {i1, i2}
  NoItem = NoItem
  Consumers = {c1, c2}
  MaxPushes = 5
INVARIANT NoLostWakeup
PROPERTIES ImplementsQueue TimedWaitReturns ItemsReachSleepers
