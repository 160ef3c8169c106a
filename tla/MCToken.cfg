CONSTANTS
  Operators = {k1, k2}
  Accounts = {a1, a2}
  NoAccount = NoAccount
  TxHashes = {t1, t2, t3}
  MIN_LOCK_VALUE = 5
  OPERATOR_LOCK_FEE = 1
  SUPERBLOCK_SUBMITTER_LOCK_FEE = 1
  MIN_UNLOCK_VALUE = 6
  OPERATOR_UNLOCK_FEE = 4
  DOGETHEREUM_FEE_FRACTION = 10
  DOGE_TX_FEE_RATE = 1
  DOGE_DUST = 2
  DOGE_TX_INPUT_SIZE = 1
  DOGE_TX_OUTPUT_SIZE = 1
  DOGE_TX_FIXED_SIZE = 0
  DOGETHEREUM_COLLATERAL_RATIO_FRACTION = 2
  lockCollateralRatio = 4
  liquidationThreshold = 3
  ethereumTimeGracePeriod = 1
  superblocksHeightGracePeriod = 1
  auctionMinimumDuration = 1
  LockValues = {10}
  UnlockValues = {6, 15}
  Transfers = {8}
  Bids = {1, 8}
  EtherAmounts = {5}
  Prices = {1}
  Heights = {0, 2}
  MaxTime = 2
  MaxEther = 5
  MaxKeys = 2
  MaxUnlocks = 2
SYMMETRY Symmetry
CONSTRAINT Scope
SPECIFICATION Spec
INVARIANTS
  TypeOK
  AvailableIsUnspent
PROPERTIES
  SupplyConserved
  DogesBackTokens
  PendingIsAwaited
  UnlocksAreFunded
CHECK_DEADLOCK FALSE
