SPECIFICATION Spec
CONSTANTS
  FreshAge = 1
  FaultAge = 0
  FreezeLen = 1
  PopTicks = 1
  WdTicks = 1
  Periods = {1}
  QueueCap = 1
  Prompt = FALSE
  MaxSamples = 4
  MaxInject = 0
  MaxResets = 1
INVARIANTS NoUseAfterStop ProcessedBounded
PROPERTY ConfirmedUnlessReset
