CONSTANTS
  Submits = {s1, s2}
  Reviewings = {}
  Deliveries = {d1, d2}
SPECIFICATION KycSpec
INVARIANTS
  DuplicateChangesNothing
CHECK_DEADLOCK FALSE
