CONSTANTS
  w1 = w1
  w2 = w2
  m1 = m1
  m2 = m2
  m3 = m3
  m4 = m4
  c1 = c1
  c2 = c2
  c3 = c3
  c4 = c4
  x1 = x1
  r1 = r1
  r2 = r2
  s1 = s1
  Payments = {m1}
  Callers = {c1}
  Cancels = {}
  Refunds = {r1, r2}
  Sweeps = {}
  PaymentOf <- MCPaymentOf
  FromOf <- MCFromOf
  ToOf <- MCToOf
  AmountOf <- MCAmountOf
  OwnerOf <- MCOwnerOf
  Routed <- MCRouted
  Limit = 5
  Amounts = {1, 2}
  BatchLimit = 1
  Wallets = {w1, w2}
  AssetOf <- MCAssetOf
  NoWallet = NoWallet
  Opening <- MCOpening
SPECIFICATION SafetySpec
INVARIANTS
  RefundsWithinPayment
CHECK_DEADLOCK FALSE
