CONSTANTS
  s1 = s1
  s2 = s2
  s3 = s3
  s4 = s4
  Superblocks = {s1, s2}
  NoSuperblock = NoSuperblock
  Works = {1}
  AncestorStep = 2
  NumAncestorDepths = 2
  Accounts = {a1, a2, a3}
  NoAccount = NoAccount
  minProposalDeposit = 8
  minChallengeDeposit = 8
  battleReward = 8
  superblockConfirmations = 1
  superblockTimeout = 0
  superblockDelay = 0
  Timestamps = {0}
  Amounts = {8}
  BattleCosts = {4}
  MaxTime = 2
  MaxBalance = 32
  MaxChallenges = 2
SYMMETRY Symmetry
SPECIFICATION Spec
INVARIANTS
  Solvent
CHECK_DEADLOCK FALSE
