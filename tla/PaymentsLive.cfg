CONSTANTS
  w1 = w1
  w2 = w2
  m1 = m1
  m2 = m2
  m3 = m3
  m4 = m4
  c1 = c1
  c2 = c2
  c3 = c3
  c4 = c4
  x1 = x1
  r1 = r1
  r2 = r2
  s1 = s1
  Payments = {m2, m4}
  Callers = {c1}
  Cancels = {}
  Refunds = {r1}
  Sweeps = {s1}
  PaymentOf <- MCPaymentOf
  FromOf <- MCFromOf
  ToOf <- MCToOf
  AmountOf <- MCAmountOf
  OwnerOf <- MCOwnerOf
  Routed <- MCRouted
  Limit = 5
  Amounts = {1}
  BatchLimit = 1
  Wallets = {w1, w2}
  AssetOf <- MCAssetOf
  NoWallet = NoWallet
  Opening <- MCOpening
SPECIFICATION Spec
PROPERTIES
  EveryCallEnds
  EveryBatchEnds
CHECK_DEADLOCK FALSE
