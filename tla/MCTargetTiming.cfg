SPECIFICATION FairSpec
CONSTANTS
  FreshAge = 4
  FaultAge = 10
  FreezeLen = 18
  PopTicks = 2
  WdTicks = 1
  Periods = {1, 3}
  QueueCap = 1
  Prompt = TRUE
  MaxSamples = 1
  MaxInject = 1
  MaxResets = 1
INVARIANTS StallNoticed LowRateLiveness
PROPERTIES Recovers StopReturns
