CONSTANTS
  Superblocks = {s1, s2, s3}
  NoSuperblock = NoSuperblock
  Works = {1}
  AncestorStep = 2
  NumAncestorDepths = 2
  Accounts = {a1, a2, a3}
  NoAccount = NoAccount
  minProposalDeposit = 2
  minChallengeDeposit = 3
  battleReward = 1
  superblockConfirmations = 1
  superblockTimeout = 0
  superblockDelay = 0
  Timestamps = {0}
  Amounts = {8}
  BattleCosts = {}
  MaxTime = 2
  MaxBalance = 24
  MaxChallenges = 2
  Submitter = a1
  Genesis = s1
  Latest = s3
  Signer = a2
  WantedOptions = {NoSuperblock, s2}
  DepositOptions = {NoDeposit}
  NoDeposit = NoDeposit
  defaultDeposit = 8
SPECIFICATION PlainLiveSpec
PROPERTIES
  AnyFailedIsInvalidated
CHECK_DEADLOCK FALSE
