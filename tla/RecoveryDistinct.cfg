CONSTANTS
  q1 = q1
  u1 = u1
  u2 = u2
  r1 = r1
  r2 = r2
  a1 = a1
  a2 = a2
  a3 = a3
  c1 = c1
  c2 = c2
  Requests = {}
  Approvers = {u1, u2}
  Approvals = {}
  Rejections = {}
  Executions = {}
  Delays = {}
  RequestOf <- MCRequestOf
  ApproverOf <- MCApproverOf
  Thresholds = {1, 2}
  Generation = g1
  Rotations = {}
  Revocations = {}
  Destructions = {}
  Recoveries = {r1}
  Consents = {c1, c2}
  Refusals = {}
  Completions = {}
  RecoveryOf <- MCRecoveryOf
  ConsenterOf <- MCConsenterOf
  Required <- MCRequired
SPECIFICATION CustodySpec
INVARIANTS
  RecoveryApprovalsAreDistinct
CHECK_DEADLOCK FALSE
