CONSTANTS
  x1 = x1
  x2 = x2
  y1 = y1
  y2 = y2
  z1 = z1
  z2 = z2
  p3 = p3
  k1 = k1
  k2 = k2
  Wallets = {w1}
  Actors = {x1, x2, y1, y2}
  Prepares = {p1, p2, p3}
  Keys = {k1, k2}
  KeyOf <- MCKeyOf
  Scenarios = {x1, x2}
  Upserts = {y1, y2}
  Stake = 1
  Quantities = {0, 1, 2}
  Logins = {x1, x2}
  Refreshes = {y1, y2}
  Changes = {z1, z2}
  Sends = {x1, x2}
  Workers = {y1, y2}
  Buryings = {d1}
  Requeues = {q1}
  MaxAttempts = 2
  Submits = {x1, x2}
  Reviewings = {y1, y2}
  Deliveries = {z1, z2}
SPECIFICATION ServicesSpec
INVARIANTS
  StatusIsLastHistory
  BornOnce
  PendingIsOwed
  SupersededAreClosed
  SimulationFollowsReview
  ReuseEndsSession
  RevokedIssuesNothing
  ExchangedOnce
  SweepEndsSessions
  HoldersAreBounded
  AttemptsAreBounded
  SendingIsOwed
  QueuedIsOwed
  ReplayIsRefused
  RejectionReachesProfile
PROPERTIES
  GenuineDecisionIsFinal
SYMMETRY CallSymmetry
CHECK_DEADLOCK FALSE
