SPECIFICATION ServerSpec
CONSTANTS
  MAX_PAYLOAD = 2
  N = 2
  Requests <- TestRequests
  Garbled <- TestGarbled
  MaxFrames = 3
INVARIANTS HandledInOrder KilledByLostClient
PROPERTIES ServiceProgress
CHECK_DEADLOCK FALSE
