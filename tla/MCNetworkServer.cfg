SPECIFICATION Spec
CONSTANTS
  N = 2
  Commands <- TestCommands
  Chunk = 2
  Max = 2
  Notice = 1
  Header = 1
  Slack = 2
  PipeSize = 2
  MaxLines = 2
  MaxKills = 1
INVARIANTS NoThreadOutlivesMain BufferSafe OutputWhole
CHECK_DEADLOCK FALSE
PROPERTIES AnswersArrive ShutdownEnds
