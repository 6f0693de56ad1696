CONSTANTS
  q1 = q1
  u1 = u1
  u2 = u2
  r1 = r1
  r2 = r2
  a1 = a1
  a2 = a2
  a3 = a3
  c1 = c1
  c2 = c2
  Requests = {q1}
  Approvers = {u1, u2}
  Approvals = {a1}
  Rejections = {b1}
  Executions = {e1}
  Delays = {}
  RequestOf <- MCRequestOf
  ApproverOf <- MCApproverOf
  Thresholds = {1, 2}
  Generation = g1
  Rotations = {}
  Revocations = {}
  Destructions = {}
  Recoveries = {}
  Consents = {}
  Refusals = {}
  Completions = {}
  RecoveryOf <- MCRecoveryOf
  ConsenterOf <- MCConsenterOf
  Required <- MCRequired
SPECIFICATION CustodySpec
PROPERTIES
  RejectionVetoes
CHECK_DEADLOCK FALSE
