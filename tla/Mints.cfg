SPECIFICATION MintSpec
CONSTANTS
  Caller = {c1, c2}
  TTL = 1
  MaxTime = 3
INVARIANTS
  FreshVerdict NotPoisoned
PROPERTIES
  EveryCallerAnswered
CHECK_DEADLOCK FALSE
