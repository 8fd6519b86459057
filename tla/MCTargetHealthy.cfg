SPECIFICATION Spec
CONSTANTS
  FreshAge = 4
  FaultAge = 10
  FreezeLen = 18
  PopTicks = 2
  WdTicks = 1
  Periods = {1, 3}
  QueueCap = 1
  Prompt = TRUE
  MaxSamples = 0
  MaxInject = 0
  MaxResets = 0
INVARIANT HealthyStaysRunning
