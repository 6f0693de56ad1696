CONSTANTS
  q1 = q1
  u1 = u1
  u2 = u2
  r1 = r1
  r2 = r2
  a1 = a1
  a2 = a2
  a3 = a3
  c1 = c1
  c2 = c2
  Requests = {q1}
  Approvers = {u1, u2}
  Approvals = {a1, a2, a3}
  Rejections = {b1}
  Executions = {e1}
  Delays = {d1}
  RequestOf <- MCRequestOf
  ApproverOf <- MCApproverOf
  Thresholds = {1, 2}
  Generation = g1
  Rotations = {a1, a2}
  Revocations = {v1}
  Destructions = {d1}
  Recoveries = {r1, r2}
  Consents = {c1, c2}
  Refusals = {j1}
  Completions = {f1}
  RecoveryOf <- MCRecoveryOf
  ConsenterOf <- MCConsenterOf
  Required <- MCRequired
SPECIFICATION CustodySpec
INVARIANTS
  SignedIsApproved
  SigningIsOwed
  KeyHoldsItsVersion
  RecoveringIsOwed
PROPERTIES
  ImplementsSigningPromise
  QuietRejectionHolds
  VersionsMoveForward
  ErasedStaysEmpty
SYMMETRY CallSymmetry
ACTION_CONSTRAINT FewKeyCalls
CHECK_DEADLOCK FALSE
