SPECIFICATION Spec
CONSTANTS
  Sessions = {s1, s2}
  MaxSessions = 1
  Half = 2
  MaxSends = 5
  MaxControl = 1
  MaxHandled = 4
SYMMETRY Symmetry
INVARIANT CountsAddUp
PROPERTIES NoReplay NoFalseReplay
CHECK_DEADLOCK FALSE
