CONSTANTS
  w1 = w1
  w2 = w2
  w3 = w3
  Wallets = {w1, w2, w3}
  AssetOf <- MCAssetOf
  Opening <- MCOpening
  Ops = {o1, o2}
  Amounts = {0, 2}
  NoWallet = NoWallet
  NoOp = NoOp
SPECIFICATION Spec
INVARIANTS
  BalanceIsLedger
  WholeOrNothing
  AnswerIsTrue
  Conservation
PROPERTIES
  ImplementsPromise
  EveryCallEnds
  PostedIsCompleted
ACTION_CONSTRAINT GoldIsTransferred
CHECK_DEADLOCK FALSE
