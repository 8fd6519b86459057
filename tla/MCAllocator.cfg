SPECIFICATION Spec
CONSTANTS
  Word = 56
  ALIGNMENT = 2
  ARENA_MIN = 16
  Page = 8
  HeaderSize = 3
  Sizes <- TestSizes
  MaxLive = 4
INVARIANTS HeapTiled GrantsHold FullyCoalesced
