SPECIFICATION Spec
CONSTANTS
  Handlers = {1, 2, 3}
  Mixes <- TestMixes
  LogSize = 2
INVARIANTS AuditAgrees ModelConsistent OwnOutcome
PROPERTIES RequestsEnd
CHECK_DEADLOCK FALSE
